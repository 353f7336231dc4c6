----------------------------- MODULE DirectChat -----------------------------
(***************************************************************************)
(* One direction of a direct conversation (internal/chat/service.go and    *)
(* the SQLite store behind it): the sender numbers, stores, transmits and  *)
(* retries chat_text messages and may revoke them; the receiver accepts    *)
(* them by counter, fills gaps with chat_sync, and acknowledges.           *)
(*                                                                         *)
(* The store has one SQLite connection, so a statement or a transaction is *)
(* atomic and everything between two of them is not: each action below is  *)
(* at most one database access or one network operation of one goroutine.  *)
(*                                                                         *)
(* handleIncomingChatText and syncConversationFromCounter call each other; *)
(* a goroutine of the receiver is a stack of their frames.                 *)
(***************************************************************************)
EXTENDS Integers, FiniteSets, Sequences

CONSTANTS
    Msgs,       \* message ids, each sent at most once by SendText
    NoMsg,      \* no message
    Handlers,   \* goroutines of the receiver: streams, sync calls, the fetch loop
    MaxDepth,   \* bound on the frames of one goroutine
    Scopes      \* what may happen in an instance, see Scope

\* The faults a scope may inject: an error from sending a message or a revoke, from
\* sending an acknowledgement, from a sync request; and the loss of an envelope
\* the transport had accepted.
FaultNames == {"send", "ack", "sync", "loss"}

\* The goroutines of the sender that resend: the retry loop, OnPeerConnected and
\* the recovery at the start.
Workers == {"loop", "connect", "startup"}

\* A scope of the checking:
\*   msgs       the messages SendText is called for
\*   backlog    the messages queued while the peer was unreachable, oldest first
\*   calls      how many messages are between SendText and the end of their first
\*              transmission at a time
\*   revocable  the messages the user may revoke
\*   workers    which of Workers run
\*   handlers   how many goroutines the receiver runs at a time
\*   offline    offline store nodes are configured
\*   syncs      how many goroutines of their own sync the conversation at a time:
\*              SyncConversation, triggerConversationSync
\*   faults, and the number of crashes of both nodes together
Scope == [msgs : SUBSET Msgs, backlog : Seq(Msgs), calls : Nat, revocable : SUBSET Msgs,
          workers : SUBSET Workers, handlers : Nat, offline : BOOLEAN, syncs : Nat,
          faults : SUBSET FaultNames, crashes : Nat]

ASSUME ChatAssumption ==
    /\ IsFiniteSet(Msgs)
    /\ NoMsg \notin Msgs
    /\ MaxDepth \in Nat
    /\ \A s \in Scopes :
        /\ s \in Scope
        /\ \A i, j \in DOMAIN s.backlog : s.backlog[i] = s.backlog[j] => i = j

VARIABLES
    scope,        \* what may happen in this behaviour
    \* --- the sender's database -------------------------------------------
    sendCounter,  \* session_states.send_counter
    row,          \* messages.state of an outbound row, "none" when there is none
    counter,      \* the counter SendText gave the message
    outbox,       \* the msg_ids of outbox_jobs
    revokeJobs,   \* the msg_ids of message_revoke_jobs
    owed,         \* history: the revokes queued and not handed to the transport since
    \* --- the sender's goroutines -----------------------------------------
    spc,          \* SendText and completeOutboundDirectSend, per message
    wpc,          \* the step of each resending goroutine
    wmsg,         \* the item it works on
    batch,        \* the items it listed and has not handled yet
    apc,          \* handleIncomingDeliveryAck, per message
    vpc,          \* RevokeMessage, per message; "cut" if a crash ended it
    \* --- what is under way between the nodes -----------------------------
    wire,         \* chat_text envelopes on a direct stream or a relay
    acks,         \* delivery_ack envelopes
    revokes,      \* message_revoke envelopes
    depot,        \* envelopes kept by the offline store nodes
    \* --- the receiver ----------------------------------------------------
    recvCounter,  \* session_states.recv_counter
    inbox,        \* inbound rows of messages
    stack,        \* the frames of each goroutine, innermost first
    hpc,          \* the step of the innermost frame
    triggered,    \* counters triggerConversationSync was called with
    crashes,      \* crashes so far
    \* --- history: no guard reads it ---------------------------------------
    alone,        \* messages whose SendText read the send counter while no other
                  \* call was between reading and updating it
    missed        \* messages stored between the rows and the counter of a sync answer

senderDb == <<sendCounter, row, counter, outbox, revokeJobs, owed>>
senderThreads == <<spc, wpc, wmsg, batch, apc, vpc>>
network == <<wire, acks, revokes, depot>>
receiver == <<recvCounter, inbox, stack, hpc, triggered>>
history == <<alone, missed>>
env == <<crashes, scope, history>>
vars == <<senderDb, senderThreads, network, receiver, env>>

Backlog == scope.backlog
Offline == scope.offline
Faults == scope.faults

RowStates == {"none", "local_only", "queued", "sent", "delivered"}
Counters == 0 .. Cardinality(Msgs)
SendSteps == {"new", "read", "added", "counted", "spawned", "sending",
              "sent", "failed", "mark", "done", "lost", "cut"}
WorkSteps == {"idle", "revoke", "unqueue", "recover", "requeue", "retry",
              "sending", "sent", "failed", "mark"}
HandlerSteps == {"idle", "load", "store", "ack", "request", "served",
                 "apply", "jump", "next", "round"}

\* A frame of handleIncomingChatText (text) or syncConversationFromCounter (sync).
\*   at    text: the recv_counter it read; sync: nextCounter
\*   todo  sync: the messages of the response still to be applied
\*   rsc   sync: resp.RemoteSendCounter
Frames == [op : {"text", "offline", "sync"}, msg : Msgs \cup {NoMsg},
           at : Counters, todo : SUBSET Msgs, rsc : Counters]
TextFrame(op, m) == [op |-> op, msg |-> m, at |-> 0, todo |-> {}, rsc |-> 0]
SyncFrame(n) == [op |-> "sync", msg |-> NoMsg, at |-> n, todo |-> {}, rsc |-> 0]

Waiting == {Backlog[i] : i \in DOMAIN Backlog}

Init ==
    /\ scope \in Scopes
    /\ sendCounter = Len(Backlog)
    /\ row = [m \in Msgs |-> IF m \in Waiting THEN "queued" ELSE "none"]
    /\ counter = [m \in Msgs |-> IF m \in Waiting
                                  THEN (CHOOSE i \in DOMAIN Backlog : Backlog[i] = m) - 1
                                  ELSE 0]
    /\ outbox = Waiting
    /\ revokeJobs = {} /\ owed = {}
    /\ spc = [m \in Msgs |-> IF m \in Waiting THEN "done" ELSE "new"]
    /\ wpc = [w \in Workers |-> "idle"]
    /\ wmsg = [w \in Workers |-> NoMsg]
    /\ batch = [w \in Workers |-> {}]
    /\ apc = [m \in Msgs |-> "idle"]
    /\ vpc = [m \in Msgs |-> "idle"]
    /\ wire = {} /\ acks = {} /\ revokes = {} /\ depot = {}
    /\ recvCounter = 0
    /\ inbox = {}
    /\ stack = [h \in Handlers |-> <<>>]
    /\ hpc = [h \in Handlers |-> "idle"]
    /\ triggered = {}
    /\ crashes = 0
    /\ alone = Waiting /\ missed = {}

-----------------------------------------------------------------------------
(* The sender: SendText and completeOutboundDirectSend                     *)

SendStep(m, from, to) ==
    /\ spc[m] = from
    /\ spc' = [spc EXCEPT ![m] = to]

\* UPDATE messages SET state=? WHERE msg_id=?
UpdateMessageState(m, state) ==
    row' = [row EXCEPT ![m] = IF @ = "none" THEN @ ELSE state]

\* INSERT OR REPLACE INTO messages
AddMessage(m, state) == row' = [row EXCEPT ![m] = state]

\* sendStoredDirectMessage: directly, through a relay, into an offline store,
\* or several of these; it succeeds when one of them does.
Transmit(m, ok) ==
    \E onWire, inDepot \in BOOLEAN :
        /\ ok \/ "send" \in Faults
        /\ inDepot => Offline
        /\ ok = (onWire \/ inDepot)
        /\ wire' = IF onWire THEN wire \cup {m} ELSE wire
        /\ depot' = IF inDepot THEN depot \cup {m} ELSE depot

\* The calls that have read the send counter and not yet updated it.
Uncounted == {m \in Msgs : spc[m] \in {"read", "added"}}
UnderWay == {m \in Msgs : spc[m] \notin {"new", "done", "lost", "cut"}}

\* SendText reads the session and seals the text under its send counter.  It takes
\* no lock: other calls may be anywhere.
ReadSendCounter(m) ==
    /\ m \in scope.msgs
    /\ Cardinality(UnderWay) < scope.calls
    /\ SendStep(m, "new", "read")
    /\ counter' = [counter EXCEPT ![m] = sendCounter]
    /\ alone' = IF Uncounted = {} THEN alone \cup {m} ELSE alone
    /\ UNCHANGED <<sendCounter, row, outbox, revokeJobs, owed, wpc, wmsg, batch,
                   apc, vpc, network, receiver, crashes, scope, missed>>

InsertOutbound(m) ==
    /\ SendStep(m, "read", "added")
    /\ AddMessage(m, "local_only")
    /\ missed' = IF \E h \in Handlers : hpc[h] = "served" THEN missed \cup {m} ELSE missed
    /\ UNCHANGED <<sendCounter, counter, outbox, revokeJobs, owed, wpc, wmsg, batch,
                   apc, vpc, network, receiver, crashes, scope, alone>>

NextSend_Mutant(m) == counter[m]
NextSend(m) == counter[m] + 1

UpdateSendCounter(m) ==
    /\ SendStep(m, "added", "counted")
    /\ sendCounter' = NextSend(m)
    /\ UNCHANGED <<row, counter, outbox, revokeJobs, owed, wpc, wmsg, batch,
                   apc, vpc, network, receiver, env>>

RegisterJob(m) ==
    /\ SendStep(m, "counted", "spawned")
    /\ outbox' = outbox \cup {m}
    /\ UNCHANGED <<sendCounter, row, counter, revokeJobs, owed, wpc, wmsg, batch,
                   apc, vpc, network, receiver, env>>

\* completeOutboundDirectSend goes on only while the row is still local_only.
CheckLocalOnly(m) ==
    /\ SendStep(m, "spawned", IF row[m] = "local_only" THEN "sending" ELSE "done")
    /\ UNCHANGED <<senderDb, wpc, wmsg, batch, apc, vpc, network, receiver, env>>

FirstTransmit(m, ok) ==
    /\ SendStep(m, "sending", IF ok THEN "sent" ELSE "failed")
    /\ Transmit(m, ok)
    /\ UNCHANGED <<senderDb, wpc, wmsg, batch, apc, vpc, acks, revokes, receiver, env>>

\* It stores the whole row again, with the new state.
PersistOutcome(m) ==
    /\ \/ SendStep(m, "sent", "mark") /\ AddMessage(m, "sent")
       \/ SendStep(m, "failed", "mark") /\ AddMessage(m, "queued")
    /\ UNCHANGED <<sendCounter, counter, outbox, revokeJobs, owed, wpc, wmsg, batch,
                   apc, vpc, network, receiver, env>>

\* markOutboxSentToTransport or scheduleOutboxRetry: both upsert the job.
RescheduleJob(m) ==
    /\ SendStep(m, "mark", "done")
    /\ outbox' = outbox \cup {m}
    /\ UNCHANGED <<sendCounter, row, counter, revokeJobs, owed, wpc, wmsg, batch,
                   apc, vpc, network, receiver, env>>

SenderStep(m) ==
    \/ ReadSendCounter(m) \/ InsertOutbound(m) \/ UpdateSendCounter(m)
    \/ RegisterJob(m) \/ CheckLocalOnly(m)
    \/ \E ok \in BOOLEAN : FirstTransmit(m, ok)
    \/ PersistOutcome(m) \/ RescheduleJob(m)

-----------------------------------------------------------------------------
(* The sender: runOutboxRetryLoop, OnPeerConnected and the restart         *)

\* An item of a list: a message, and whether recoverMissingOutboxJobs saw it local_only.
Items(S) == {<<m, FALSE>> : m \in S}
\* ListOutboxJobsForRetry and ListOutboxJobsForPeer join the jobs with their rows.
Jobs_Mutant == Items({m \in outbox : row[m] = "queued"})
Jobs == Items({m \in outbox : row[m] # "none"})
\* ListMessagesMissingOutbox
MissingJobs_Mutant ==
    {<<m, row[m] = "local_only">> :
        m \in {n \in Msgs \ outbox : row[n] \in {"local_only", "queued"}}}
MissingJobs ==
    {<<m, row[m] = "local_only">> :
        m \in {n \in Msgs \ outbox : row[n] \in {"local_only", "queued", "sent"}}}

WorkStep(w, from, to) ==
    /\ wpc[w] = from
    /\ wpc' = [wpc EXCEPT ![w] = to]

\* It takes an item off its list to work on its message, or is done with it.
Take(w, item) ==
    /\ wmsg' = [wmsg EXCEPT ![w] = item[1]]
    /\ batch' = [batch EXCEPT ![w] = @ \ {item}]
Drop(w, item) ==
    /\ batch' = [batch EXCEPT ![w] = @ \ {item}]
    /\ UNCHANGED wmsg
Release(w) == wmsg' = [wmsg EXCEPT ![w] = NoMsg]

\* A goroutine wakes up: the loop by its ticker, OnPeerConnected by libp2p.
Wake(w) ==
    /\ w \in scope.workers
    /\ \/ /\ w = "loop"
          /\ WorkStep(w, "idle", "retry")
          /\ batch' = [batch EXCEPT ![w] = Jobs]
       \/ /\ w = "connect"
          /\ WorkStep(w, "idle", "revoke")
          /\ batch' = [batch EXCEPT ![w] = Items(revokeJobs)]
    /\ UNCHANGED <<senderDb, spc, wmsg, apc, vpc, network, receiver, env>>

SendPendingRevoke_Mutant(w) ==
    /\ \E item \in batch[w] :
        /\ WorkStep(w, "revoke", "unqueue")
        /\ Take(w, item)
        /\ \/ revokes' = revokes \cup {item[1]} /\ owed' = owed \ {item[1]}
           \/ "send" \in Faults /\ UNCHANGED <<revokes, owed>>
    /\ UNCHANGED <<sendCounter, row, counter, outbox, revokeJobs, spc, apc, vpc, wire, acks, depot, receiver, env>>
\* sendPendingMessageRevokes: the first failed send ends it.
SendPendingRevoke(w) ==
    /\ \E item \in batch[w] :
        \/ /\ WorkStep(w, "revoke", "unqueue")
           /\ Take(w, item)
           /\ revokes' = revokes \cup {item[1]}
           /\ owed' = owed \ {item[1]}
        \/ /\ "send" \in Faults
           /\ WorkStep(w, "revoke", "revoke")
           /\ batch' = [batch EXCEPT ![w] = {}]
           /\ UNCHANGED <<wmsg, revokes, owed>>
    /\ UNCHANGED <<sendCounter, row, counter, outbox, revokeJobs, spc, apc, vpc, wire, acks, depot, receiver, env>>

DeleteRevokeJob(w) ==
    /\ WorkStep(w, "unqueue", "revoke")
    /\ revokeJobs' = revokeJobs \ {wmsg[w]}
    /\ Release(w)
    /\ UNCHANGED <<sendCounter, row, counter, outbox, owed, spc, batch,
                   apc, vpc, network, receiver, env>>

\* A phase of OnPeerConnected, or the whole pass, is over.
NextPhase(w) ==
    /\ batch[w] = {}
    /\ \/ /\ WorkStep(w, "revoke", "recover")
          /\ batch' = [batch EXCEPT ![w] = MissingJobs]
       \/ /\ w = "connect"
          /\ WorkStep(w, "recover", "retry")
          /\ batch' = [batch EXCEPT ![w] = Jobs]
       \/ /\ w = "startup"
          /\ WorkStep(w, "recover", "idle")
          /\ UNCHANGED batch
       \/ /\ WorkStep(w, "retry", "idle")
          /\ UNCHANGED batch
    /\ UNCHANGED <<senderDb, spc, wmsg, apc, vpc, network, receiver, env>>

\* recoverMissingOutboxJobs: the job first, then the state of a row that was
\* local_only when it was listed.
RecoverJob(w) ==
    /\ \E item \in batch[w] :
        /\ outbox' = outbox \cup {item[1]}
        /\ \/ item[2] /\ WorkStep(w, "recover", "requeue") /\ Take(w, item)
           \/ ~item[2] /\ WorkStep(w, "recover", "recover") /\ Drop(w, item)
    /\ UNCHANGED <<sendCounter, row, counter, revokeJobs, owed, spc, apc, vpc,
                   network, receiver, env>>

RequeueRecovered(w) ==
    /\ WorkStep(w, "requeue", "recover")
    /\ UpdateMessageState(wmsg[w], "queued")
    /\ Release(w)
    /\ UNCHANGED <<sendCounter, counter, outbox, revokeJobs, owed, spc, batch,
                   apc, vpc, network, receiver, env>>

\* retryOutboxJob reads the row again; an item whose row is gone is dropped.
RetryJob(w) ==
    /\ \E item \in batch[w] :
        \/ row[item[1]] # "none" /\ WorkStep(w, "retry", "sending") /\ Take(w, item)
        \/ row[item[1]] = "none" /\ WorkStep(w, "retry", "retry") /\ Drop(w, item)
    /\ UNCHANGED <<senderDb, spc, apc, vpc, network, receiver, env>>

RetryTransmit(w, ok) ==
    /\ WorkStep(w, "sending", IF ok THEN "sent" ELSE "failed")
    /\ Transmit(wmsg[w], ok)
    /\ UNCHANGED <<senderDb, spc, wmsg, batch, apc, vpc, acks, revokes, receiver, env>>

RetryPersist(w) ==
    /\ \/ WorkStep(w, "sent", "mark") /\ UpdateMessageState(wmsg[w], "sent")
       \/ WorkStep(w, "failed", "mark") /\ UpdateMessageState(wmsg[w], "queued")
    /\ UNCHANGED <<sendCounter, counter, outbox, revokeJobs, owed, spc, wmsg, batch,
                   apc, vpc, network, receiver, env>>

RetryReschedule(w) ==
    /\ WorkStep(w, "mark", "retry")
    /\ outbox' = outbox \cup {wmsg[w]}
    /\ Release(w)
    /\ UNCHANGED <<sendCounter, row, counter, revokeJobs, owed, spc, batch,
                   apc, vpc, network, receiver, env>>

WorkerStep(w) ==
    \/ Wake(w) \/ SendPendingRevoke(w) \/ DeleteRevokeJob(w) \/ NextPhase(w)
    \/ RecoverJob(w) \/ RequeueRecovered(w) \/ RetryJob(w)
    \/ \E ok \in BOOLEAN : RetryTransmit(w, ok)
    \/ RetryPersist(w) \/ RetryReschedule(w)

-----------------------------------------------------------------------------
(* The sender: handleIncomingDeliveryAck and RevokeMessage                 *)

\* An ack for a row that is gone is ignored.
MarkDelivered(m) ==
    /\ m \in acks
    /\ apc[m] = "idle"
    /\ acks' = acks \ {m}
    /\ row' = [row EXCEPT ![m] = IF @ = "none" THEN @ ELSE "delivered"]
    /\ apc' = [apc EXCEPT ![m] = IF row[m] = "none" THEN "idle" ELSE "delete"]
    /\ UNCHANGED <<sendCounter, counter, outbox, revokeJobs, owed, spc, wpc, wmsg, batch, vpc,
                   wire, revokes, depot, receiver, env>>

DeleteOutboxJob(m) ==
    /\ apc[m] = "delete"
    /\ outbox' = outbox \ {m}
    /\ apc' = [apc EXCEPT ![m] = "idle"]
    /\ UNCHANGED <<sendCounter, row, counter, revokeJobs, owed, spc, wpc, wmsg, batch, vpc,
                   network, receiver, env>>

RevokeStep(m, from, to) ==
    /\ vpc[m] = from
    /\ vpc' = [vpc EXCEPT ![m] = to]

\* RevokeMessage: a message that has not left is only deleted.
BeginRevoke(m) ==
    /\ m \in scope.revocable
    /\ row[m] # "none"
    /\ vpc[m] \in {"idle", "cut"}
    /\ RevokeStep(m, vpc[m], IF row[m] \in {"local_only", "queued"} THEN "unjob" ELSE "send")
    /\ UNCHANGED <<senderDb, spc, wpc, wmsg, batch, apc, network, receiver, env>>

\* The revoke goes out at once, or QueueMessageRevoke replaces the row by a job.
SendRevoke(m) ==
    /\ \/ /\ RevokeStep(m, "send", "unjob")
          /\ revokes' = revokes \cup {m}
          /\ UNCHANGED <<row, outbox, revokeJobs, owed>>
       \/ /\ "send" \in Faults
          /\ RevokeStep(m, "send", "done")
          /\ revokeJobs' = revokeJobs \cup {m}
          /\ owed' = owed \cup {m}
          /\ outbox' = outbox \ {m}
          /\ row' = [row EXCEPT ![m] = "none"]
          /\ UNCHANGED revokes
    /\ UNCHANGED <<sendCounter, counter, spc, wpc, wmsg, batch, apc,
                   wire, acks, depot, receiver, env>>

RevokeDeleteJob(m) ==
    /\ RevokeStep(m, "unjob", "unrow")
    /\ outbox' = outbox \ {m}
    /\ UNCHANGED <<sendCounter, row, counter, revokeJobs, owed, spc, wpc, wmsg, batch, apc,
                   network, receiver, env>>

RevokeDeleteRow(m) ==
    /\ RevokeStep(m, "unrow", "done")
    /\ row' = [row EXCEPT ![m] = "none"]
    /\ UNCHANGED <<sendCounter, counter, outbox, revokeJobs, owed, spc, wpc, wmsg, batch, apc,
                   network, receiver, env>>

AckStep(m) == MarkDelivered(m) \/ DeleteOutboxJob(m)
RevokeMessage(m) ==
    BeginRevoke(m) \/ SendRevoke(m) \/ RevokeDeleteJob(m) \/ RevokeDeleteRow(m)

-----------------------------------------------------------------------------
(* The receiver: handleIncomingChatText and syncConversationFromCounter    *)

Top(h) == stack[h][1]
Below(h) == Tail(stack[h])
Bottom(h) == stack[h][Len(stack[h])]
\* The innermost frame of h becomes f, at the given step.
Continue(h, f, step) ==
    /\ stack' = [stack EXCEPT ![h] = <<f>> \o Tail(@)]
    /\ hpc' = [hpc EXCEPT ![h] = step]
\* The innermost frame becomes f and calls g.
Call(h, f, g, step) ==
    /\ Len(stack[h]) < MaxDepth
    /\ stack' = [stack EXCEPT ![h] = <<g, f>> \o Tail(@)]
    /\ hpc' = [hpc EXCEPT ![h] = step]
\* A text frame called by a sync frame returns to its loop; a sync frame
\* called by checkIncomingDirectCounter returns to the reload of the session.
ReturnOk(h) ==
    /\ stack' = [stack EXCEPT ![h] = Below(h)]
    /\ hpc' = [hpc EXCEPT ![h] = IF Below(h) = <<>> THEN "idle"
                                 ELSE IF Below(h)[1].op = "sync" THEN "next" ELSE "load"]
    /\ UNCHANGED triggered
\* An error leaves every frame, and each one that waited for a sync triggers
\* another in the background (without syncs, that one fails at once too).
ReturnErr(h) ==
    /\ stack' = [stack EXCEPT ![h] = <<>>]
    /\ hpc' = [hpc EXCEPT ![h] = "idle"]
    /\ triggered' = IF scope.syncs = 0 THEN triggered ELSE triggered \cup
           {Below(h)[i].at : i \in {j \in 1 .. Len(Below(h)) : Below(h)[j].op = "text"}}

Free(h) ==
    hpc[h] = "idle" /\ Cardinality({g \in Handlers : hpc[g] # "idle"}) < scope.handlers
Start(h, f, step) ==
    /\ Free(h)
    /\ stack' = [stack EXCEPT ![h] = <<f>>]
    /\ hpc' = [hpc EXCEPT ![h] = step]

\* A chat_text envelope arrives on a stream or from a relay.
ReceiveText(h, m) ==
    /\ m \in wire
    /\ Start(h, TextFrame("text", m), "load")
    /\ wire' = wire \ {m}
    /\ UNCHANGED <<senderDb, senderThreads, acks, revokes, depot,
                   recvCounter, inbox, triggered, env>>

\* The one fetch loop handles an item of an offline store node.
FetchOffline(h, m) ==
    /\ m \in depot
    /\ \A g \in Handlers : stack[g] # <<>> => Top(g).op # "offline"
    /\ Start(h, TextFrame("offline", m), "load")
    /\ UNCHANGED <<senderDb, senderThreads, network, recvCounter, inbox, triggered, env>>

\* SyncConversation or triggerConversationSync.
StartSync(h) ==
    /\ Cardinality({g \in Handlers : hpc[g] # "idle" /\ Bottom(g).op = "sync"}) < scope.syncs
    /\ \/ Start(h, SyncFrame(recvCounter), "request") /\ UNCHANGED triggered
       \/ \E n \in triggered :
            Start(h, SyncFrame(n), "request") /\ triggered' = triggered \ {n}
    /\ UNCHANGED <<senderDb, senderThreads, network, recvCounter, inbox, env>>

Duplicate_Mutant(m) == counter[m] # recvCounter
Duplicate(m) == counter[m] < recvCounter

\* loadIncomingDirectState and checkIncomingDirectCounter.  An offline item is
\* stored across a gap, and is not acknowledged to the sender.
LoadState(h) ==
    LET f == Top(h)
        gap == counter[f.msg] > recvCounter
    IN  /\ hpc[h] = "load"
        /\ \/ /\ Duplicate(f.msg)
              /\ IF f.op = "offline" THEN ReturnOk(h)
                 ELSE Continue(h, f, "ack") /\ UNCHANGED triggered
           \/ /\ gap /\ f.op = "text"
              /\ Call(h, [f EXCEPT !.at = recvCounter], SyncFrame(recvCounter), "request")
              /\ UNCHANGED triggered
           \/ /\ counter[f.msg] = recvCounter \/ (gap /\ f.op = "offline")
              /\ Continue(h, f, "store")
              /\ UNCHANGED triggered
        /\ UNCHANGED <<senderDb, senderThreads, network, recvCounter, inbox, env>>

NextRecv_Mutant(m) == counter[m] + 2
NextRecv(m) == counter[m] + 1

\* AddInboundMessageAndAdvanceRecvCounter: the row and the counter together.
StoreInbound(h) ==
    LET f == Top(h)
    IN  /\ hpc[h] = "store"
        /\ inbox' = inbox \cup {f.msg}
        /\ recvCounter' = NextRecv(f.msg)
        /\ IF f.op = "offline" THEN ReturnOk(h)
           ELSE Continue(h, f, "ack") /\ UNCHANGED triggered
        /\ UNCHANGED <<senderDb, senderThreads, network, env>>

\* The store node forgets an item that was handled and acknowledged to it.
ForgetOffline(m) ==
    /\ m \in depot
    /\ Duplicate(m)
    /\ depot' = depot \ {m}
    /\ UNCHANGED <<senderDb, senderThreads, wire, acks, revokes, receiver, env>>

SendDeliveryAck(h, ok) ==
    /\ hpc[h] = "ack"
    /\ ok \/ "ack" \in Faults
    /\ acks' = IF ok THEN acks \cup {Top(h).msg} ELSE acks
    /\ IF ok THEN ReturnOk(h) ELSE ReturnErr(h)
    /\ UNCHANGED <<senderDb, senderThreads, wire, revokes, depot, recvCounter, inbox, env>>

\* ListOutgoingMessagesForSync
SyncItems_Mutant(n) == {m \in Msgs : row[m] # "none" /\ counter[m] > n}
SyncItems(n) == {m \in Msgs : row[m] # "none" /\ counter[m] >= n}

\* handleChatSyncRequest on the sender, first half: the rows.
ServeList(h) ==
    LET f == Top(h)
    IN  /\ hpc[h] = "request"
        /\ Continue(h, [f EXCEPT !.todo = SyncItems(f.at)], "served")
        /\ UNCHANGED <<senderDb, senderThreads, network, recvCounter, inbox, triggered, env>>

\* Second half: it reads send_counter, and the response reaches the receiver.
ServeCounter(h) ==
    /\ hpc[h] = "served"
    /\ Continue(h, [Top(h) EXCEPT !.rsc = sendCounter], "apply")
    /\ UNCHANGED <<senderDb, senderThreads, network, recvCounter, inbox, triggered, env>>

\* The request or the response is lost on the direct stream and on the relay.
SyncFails(h) ==
    /\ "sync" \in Faults
    /\ hpc[h] \in {"request", "served"}
    /\ ReturnErr(h)
    /\ UNCHANGED <<senderDb, senderThreads, network, recvCounter, inbox, env>>

\* applyChatSyncResponse reads recv_counter; nothing listed means it may jump.
ApplyResponse(h) ==
    LET f == Top(h)
    IN  /\ hpc[h] = "apply"
        /\ Continue(h, f, IF f.todo = {} /\ f.rsc > recvCounter THEN "jump" ELSE "next")
        /\ UNCHANGED <<senderDb, senderThreads, network, recvCounter, inbox, triggered, env>>

UpdateRecvCounter(h) ==
    /\ hpc[h] = "jump"
    /\ recvCounter' = Top(h).rsc
    /\ Continue(h, Top(h), "round")
    /\ UNCHANGED <<senderDb, senderThreads, network, inbox, triggered, env>>

\* The messages of the response are handled in counter order.
ApplyNext(h) ==
    LET f == Top(h)
    IN  /\ hpc[h] = "next"
        /\ \/ \E m \in f.todo :
                /\ \A n \in f.todo : counter[m] <= counter[n]
                /\ Call(h, [f EXCEPT !.todo = @ \ {m}], TextFrame("text", m), "load")
           \/ f.todo = {} /\ Continue(h, f, "round")
        /\ UNCHANGED <<senderDb, senderThreads, network, recvCounter, inbox, triggered, env>>

\* The end of a round: done, no progress, or another round from recv_counter.
EndRound(h) ==
    LET f == Top(h)
    IN  /\ hpc[h] = "round"
        /\ \/ recvCounter >= f.rsc /\ ReturnOk(h)
           \/ recvCounter < f.rsc /\ recvCounter <= f.at /\ ReturnErr(h)
           \/ /\ recvCounter < f.rsc /\ recvCounter > f.at
              /\ Continue(h, SyncFrame(recvCounter), "request")
              /\ UNCHANGED triggered
        /\ UNCHANGED <<senderDb, senderThreads, network, recvCounter, inbox, env>>

\* handleIncomingMessageRevoke: a revoke for an unknown message is ignored.
ReceiveRevoke(m) ==
    /\ m \in revokes
    /\ revokes' = revokes \ {m}
    /\ inbox' = inbox \ {m}
    /\ UNCHANGED <<senderDb, senderThreads, wire, acks, depot,
                   recvCounter, stack, hpc, triggered, env>>

HandlerStep(h) ==
    \/ \E m \in Msgs : ReceiveText(h, m) \/ FetchOffline(h, m)
    \/ StartSync(h) \/ LoadState(h) \/ StoreInbound(h)
    \/ \E ok \in BOOLEAN : SendDeliveryAck(h, ok)
    \/ ServeList(h) \/ ServeCounter(h) \/ SyncFails(h)
    \/ ApplyResponse(h) \/ UpdateRecvCounter(h) \/ ApplyNext(h) \/ EndRound(h)

-----------------------------------------------------------------------------
(* The environment                                                         *)

\* An envelope that was written to a stream or handed to a relay never arrives.
\* A chat_text is lost where it could have been received, so that the number of
\* goroutines, which only this model bounds, is never why it is lost.
Lose(m) ==
    /\ "loss" \in Faults
    /\ \/ /\ m \in wire /\ \E h \in Handlers : Free(h)
          /\ wire' = wire \ {m} /\ UNCHANGED <<acks, revokes>>
       \/ m \in acks /\ acks' = acks \ {m} /\ UNCHANGED <<wire, revokes>>
       \/ m \in revokes /\ revokes' = revokes \ {m} /\ UNCHANGED <<wire, acks>>
    /\ UNCHANGED <<depot, senderDb, senderThreads, receiver, env>>

\* What a crash leaves of a SendText: nothing stored ("lost"), a row whose number
\* send_counter does not cover ("cut"), or all that later repairs need.
AfterCrash(step) ==
    CASE step \in {"new", "lost", "cut"} -> step
      [] step = "read" -> "lost"
      [] step = "added" -> "cut"
      [] OTHER -> "done"

\* The sender's process dies and starts again: its database stays, NewService
\* starts recoverMissingOutboxJobs, and a sync it was answering is asked again.
SenderCrash ==
    /\ crashes < scope.crashes
    /\ crashes' = crashes + 1
    /\ spc' = [m \in Msgs |-> AfterCrash(spc[m])]
    /\ wpc' = [w \in Workers |-> IF w = "startup" /\ w \in scope.workers THEN "recover" ELSE "idle"]
    /\ wmsg' = [w \in Workers |-> NoMsg]
    /\ batch' = [w \in Workers |-> IF w = "startup" /\ w \in scope.workers THEN MissingJobs ELSE {}]
    /\ apc' = [m \in Msgs |-> "idle"]
    /\ vpc' = [m \in Msgs |-> IF vpc[m] \in {"idle", "done"} THEN vpc[m] ELSE "cut"]
    /\ hpc' = [h \in Handlers |-> IF hpc[h] = "served" THEN "request" ELSE hpc[h]]
    /\ UNCHANGED <<scope, history, senderDb, network, recvCounter, inbox, stack, triggered>>

\* The receiver's process dies and starts again.
ReceiverCrash ==
    /\ crashes < scope.crashes
    /\ crashes' = crashes + 1
    /\ stack' = [h \in Handlers |-> <<>>]
    /\ hpc' = [h \in Handlers |-> "idle"]
    /\ triggered' = {}
    /\ UNCHANGED <<scope, history, senderDb, senderThreads, network, recvCounter, inbox>>

Next ==
    \/ \E m \in Msgs : SenderStep(m) \/ AckStep(m) \/ RevokeMessage(m)
    \/ \E w \in Workers : WorkerStep(w)
    \/ \E h \in Handlers : HandlerStep(h)
    \/ \E m \in Msgs : ReceiveRevoke(m) \/ ForgetOffline(m) \/ Lose(m)
    \/ SenderCrash
    \/ ReceiverCrash

Spec == Init /\ [][Next]_vars

\* Goroutines that have begun are scheduled, the retry ticker keeps firing and a
\* peer that was lost connects again.
Scheduling ==
    /\ \A m \in Msgs : WF_vars(spc[m] # "new" /\ SenderStep(m)) /\ WF_vars(AckStep(m))
    /\ \A w \in Workers \ {"startup"} : WF_vars(WorkerStep(w))
    /\ \A h \in Handlers : WF_vars(hpc[h] # "idle" /\ HandlerStep(h))

\* The network is not against one message for ever: a text that is sent again
\* and again arrives, a sync that is tried again and again works.
TextsArrive == \A m \in Msgs : SF_vars(\E h \in Handlers : ReceiveText(h, m))
SyncsWork == \A h \in Handlers : SF_vars(ServeList(h)) /\ SF_vars(ServeCounter(h))

FairSpec == Spec /\ Scheduling /\ TextsArrive /\ SyncsWork

-----------------------------------------------------------------------------
(* Properties                                                              *)

\* What the tables and the goroutines of the two nodes (message_store.go, service.go) can hold.
TypeOK ==
    /\ scope \in Scopes
    /\ sendCounter \in Counters
    /\ row \in [Msgs -> RowStates]
    /\ counter \in [Msgs -> Counters]
    /\ outbox \subseteq Msgs
    /\ revokeJobs \subseteq Msgs /\ owed \subseteq Msgs
    /\ spc \in [Msgs -> SendSteps]
    /\ wpc \in [Workers -> WorkSteps]
    /\ wmsg \in [Workers -> Msgs \cup {NoMsg}]
    /\ batch \in [Workers -> SUBSET (Msgs \X BOOLEAN)]
    /\ apc \in [Msgs -> {"idle", "delete"}]
    /\ vpc \in [Msgs -> {"idle", "send", "unjob", "unrow", "done", "cut"}]
    /\ wire \subseteq Msgs
    /\ acks \subseteq Msgs
    /\ revokes \subseteq Msgs
    /\ depot \subseteq Msgs
    /\ recvCounter \in Counters
    /\ inbox \subseteq Msgs
    /\ stack \in [Handlers -> Seq(Frames)]
    /\ hpc \in [Handlers -> HandlerSteps]
    /\ \A h \in Handlers : (hpc[h] = "idle") = (stack[h] = <<>>)
    /\ triggered \subseteq Counters
    /\ crashes \in Nat
    /\ alone \subseteq Msgs /\ missed \subseteq Msgs

\* BuildAEADNonce: the nonce of a chat_text is its counter, so no two messages kept
\* for the conversation should have the same one.  SendText does not ensure it.
NonceUnique ==
    \A m, n \in Msgs : m # n /\ row[m] # "none" /\ row[n] # "none" => counter[m] # counter[n]

\* What SendText does ensure: of two messages with one counter, one read it while
\* another call had not yet updated it, or was cut by a crash before it did.  No
\* overlap harms two later messages, although it may set send_counter back.
NonceSharedByOverlap ==
    \A m, n \in alone :
        m # n /\ row[m] # "none" /\ row[n] # "none" /\ counter[m] = counter[n]
            => "cut" \in {spc[m], spc[n]}

\* SendText has stored the message under its counter.
Numbered(m) == spc[m] \notin {"new", "read", "lost"}
\* Another message was stored under the same counter, so that one of them may have
\* been taken for a repetition of the other.
Shares(m) == \E n \in Msgs \ {m} : Numbered(n) /\ counter[n] = counter[m]
\* The cursor may pass such a message, and one that a sync answer has left out.
Passable(m) == Shares(m) \/ m \in missed

\* The receiver's cursor passes a message it did not store (and that was not
\* revoked) for no other reason than these two: not through the response of a sync
\* whose frames call each other, not when streams, retries and restarts overlap.
CursorCoversInbox ==
    ~Offline => \A m \in Msgs :
        row[m] # "none" /\ vpc[m] = "idle" /\ counter[m] < recvCounter => m \in inbox \/ Passable(m)

\* With offline items the cursor may skip messages, but it stands right behind a
\* message that is stored, or was until its revoke, or that it may pass.
CursorBehindStored ==
    recvCounter > 0 =>
        \E m \in Msgs : /\ Numbered(m) /\ counter[m] + 1 = recvCounter
                        /\ m \in inbox \/ vpc[m] # "idle" \/ Passable(m)

\* A message the sender shows as delivered is in the receiver's database, unless
\* it was revoked or one that the cursor may pass: a delivery_ack leaves for a
\* message that was stored, or that is below the cursor.  (A message that an offline
\* item has skipped is acknowledged as a duplicate, too.)
DeliveredIsStored ==
    ~Offline => \A m \in Msgs :
        row[m] = "delivered" /\ vpc[m] = "idle" => m \in inbox \/ Passable(m)

\* A message handed to the outbox reaches the receiver's database in the end,
\* whatever envelopes and acknowledgements are lost on the way.
EventuallyStored ==
    \A m \in Msgs : (m \in outbox /\ m \notin scope.revocable) ~> (m \in inbox)

\* A stored message is eventually delivered or gone, whichever of its sender, its
\* acknowledgement, the retry loop and the recovery on reconnect overlap.
EventuallySettled ==
    \A m \in Msgs :
        (Faults = {} /\ row[m] \in {"local_only", "queued", "sent"})
            ~> (row[m] \in {"delivered", "none"})

\* A revoke queued for an unreachable peer is never forgotten: its job stays
\* until a send of it has succeeded, through failing sends, reconnects and
\* revokes that overlap (sendPendingMessageRevokes stops at the first error).
RevokeKept == owed \subseteq revokeJobs

\* A revoke that has returned has deleted the row for good.
RevokedStaysGone ==
    \A m \in Msgs : vpc[m] = "done" => row[m] = "none"

\* A revoke deletes the message on both sides: once it has been sent and has
\* arrived, the receiver does not keep the message.
RevokedOnBothSides ==
    \A m \in Msgs :
        vpc[m] = "done" /\ m \notin revokeJobs \cup revokes \cup wire => m \notin inbox

\* A revoke the peer could not be told of leaves the local message alone.
UnsentRevokeKeepsRow ==
    \A m \in Msgs : m \in revokeJobs => row[m] # "none"

\* The sync that fills a gap makes progress before it meets the same gap again:
\* no goroutine asks for a sync from a counter it is already syncing from.
SyncNotNested ==
    \A h \in Handlers : \A i, j \in 1 .. Len(stack[h]) :
        i # j /\ stack[h][i].op = "sync" /\ stack[h][j].op = "sync"
            => stack[h][i].at # stack[h][j].at

\* The receive cursor only advances.
CursorAdvances == [][recvCounter' >= recvCounter]_vars

=============================================================================
