----------------------------- MODULE ChatRelay -----------------------------
(***************************************************************************)
(* Chat envelopes over a relay (internal/chat/relay_v1.go, service.go,     *)
(* internal/relay/chatrelay_v1.go, internal/app/chatrelay_v1_dispatch.go): *)
(* two peers A and B that keep a session with each other through a relay R *)
(* they are both connected to.  The sender connects and shakes hands over  *)
(* R, seals its frames with the key of the session and numbers them; R     *)
(* forwards what its table allows; the receiver puts frames back in order. *)
(*                                                                         *)
(* A message is a call of sendViaRelay: it holds the lock of the peer's    *)
(* session (st.mu) while it tries one relay, and none between two relays.  *)
(* A session id is fresh; the key of a session is named after its id.      *)
(***************************************************************************)
EXTENDS Integers, Sequences, SequencesExt, FiniteSets

CONSTANTS
    Peers,              \* the two peers
    Relays,             \* the relays discovery knows
    Msgs,               \* envelopes
    From,               \* the peer that sends each envelope
    NoRelay,
    MaxSid,             \* bound on the sessions of a behaviour
    RelayAttemptLimit,  \* relays one call tries, besides the preferred one
    MaxReorderGap,      \* relayV1BMaxDataReorderGap
    MaxPendingSlots,    \* relayV1BMaxDataPendingSlots
    Scopes              \* what may happen in an instance

\* What the network and the processes may fail at.
Failures == {"connect", "handshake", "write", "frame", "timeout", "restart"}

ASSUME ChatRelayAssumption ==
    /\ \E p, q \in Peers : p # q /\ Peers = {p, q}
    /\ IsFiniteSet(Relays) /\ NoRelay \notin Relays
    /\ From \in [Msgs -> Peers]
    /\ {MaxSid, RelayAttemptLimit, MaxPendingSlots} \subseteq Nat \ {0}
    /\ MaxReorderGap \in Nat
    /\ \A s \in Scopes :
         s \in [msgs : SUBSET Msgs, failures : SUBSET Failures, faults : Nat,
                ages : Nat, serial : BOOLEAN, timely : BOOLEAN,
                perSrc : Nat \ {0}, total : Nat \ {0}]

VARIABLES
    scope,     \* what may happen in this behaviour
    \* --- the sender -----------------------------------------------------------
    task,      \* the call of sendViaRelay for each envelope
    sess,      \* relayV1Sessions: a peer's session toward the other
    info,      \* the sessions begun so far: who connects over which relay
    call,      \* how far the connect and then the handshake of a session got
    \* --- the relay --------------------------------------------------------------
    table,     \* ChatRelayV1Table of each relay, with the order of registration
    \* --- the receiver -----------------------------------------------------------
    conn,      \* relayV1BConnect and relayV1BBySrc
    keys,      \* relayV1BKeys
    acts,      \* handshakes answered whose session is to be activated
    handing,   \* what the streams of frames took out of the table and hold to hand on
    \* --- the rest ---------------------------------------------------------------
    frames,    \* data frames on their way, to the relay or from it
    age,       \* "fresh", "late" (within 5 s of its end) or "gone", per session
    faults,    \* failures that may still happen
    sealed,    \* history: what was sealed with which key and number
    arrived    \* history: what the streams of a session handed to the chat service

node == <<task, sess, acts>>
inbound == <<conn, keys>>
vars == <<scope, node, info, call, table, inbound, frames, age, faults, sealed, handing, arrived>>

-----------------------------------------------------------------------------
(* Data                                                                     *)

Sids == 1..MaxSid
Known == DOMAIN info

Other(p) == CHOOSE q \in Peers : q # p
Dst(sid) == Other(info[sid].src)

\* A session of A ends for A five seconds before it does for R and B.
Fresh(sid) == age[sid] = "fresh"
Expired(sid) == age[sid] = "gone"

NoSession == [relay |-> NoRelay, sid |-> 0, key |-> 0, seq |-> 0, ok |-> FALSE]
NoKeys == [has |-> FALSE, next |-> 0, pend |-> {}]

\* A session with keys that its sender may still use.
Usable(st) == st.ok /\ st.sid # 0 /\ Fresh(st.sid)

Working == {"connect", "handshake", "seal"}

\* st.mu of p's session: held from the choice of a relay to its success or failure.
LockFree(p) == \A m \in Msgs : From[m] = p => task[m].pc \notin Working

\* relayV1MaybePurgeStaleRelaySessionsLocked, which works at most every 2 s.
PurgedSession(st) ==
    {st} \cup (IF st.ok /\ ~Usable(st) THEN {NoSession} ELSE {})

\* A table of relay or receiver: 0 for a session that is not registered, else how
\* many registrations ago it was registered, counted from 1 (the order of bySrc).
NoneRegistered == [sid \in Sids |-> 0]
Registered(ids) == {sid \in Sids : ids[sid] # 0}
Without(ids, out) == [sid \in Sids |-> IF sid \in out THEN 0 ELSE ids[sid]]
Register(ids, new) ==
    [sid \in Sids |-> IF sid = new THEN 1 ELSE IF ids[sid] = 0 THEN 0 ELSE ids[sid] + 1]

Alive(ids) == Without(ids, {sid \in Registered(ids) : Expired(sid)})

\* The tables of relay and receiver are swept of expired sessions, at most
\* every 2 s, and lose the first to expire (any one) while they hold more than total.
Swept(ids) ==
    LET kept == Alive(ids)
        Full(t) == Cardinality(Registered(t)) > scope.total
    IN  IF Full(ids)
        THEN IF Full(kept)
             THEN {Without(kept, Registered(kept) \ left) : left \in
                       {S \in SUBSET Registered(kept) : Cardinality(S) = scope.total}}
             ELSE {kept}
        ELSE {ids, kept}

\* enforcePerSrcCapLocked: the oldest sessions of src make room for one.
Capped(ids, src) ==
    LET own == {sid \in Registered(ids) : info[sid].src = src}
        Since(sid) == {s \in own : ids[s] <= ids[sid]}
    IN  Without(ids, {sid \in own : Cardinality(Since(sid)) >= scope.perSrc})

\* relayV1BRemoveConnectLocked: a session's keys go with its registration.
KeysFor(ks, ids) == [sid \in Sids |-> IF sid \in Registered(ids) THEN ks[sid] ELSE NoKeys]

\* pickRelayCandidates: discovery, scores and connections decide the order.
PickRelayCandidates ==
    {SubSeq(s, 1, IF Len(s) < RelayAttemptLimit THEN Len(s) ELSE RelayAttemptLimit)
        : s \in SetToSeqs(Relays)}

\* relayV1PreferredRelayForDst and relayV1DedupePrepend.
WithPreferred(st, relays) ==
    IF Usable(st) /\ st.relay # NoRelay
    THEN <<st.relay>> \o RemoveFirst(relays, st.relay)
    ELSE relays

Tasks == [pc : {"idle", "next", "sent", "failed"} \cup Working, left : Seq(Relays), sid : 0..MaxSid]
Sessions == [relay : Relays \cup {NoRelay}, sid : 0..MaxSid, key : 0..MaxSid, seq : Nat, ok : BOOLEAN]
CallSteps == {"none", "c_relay", "c_dst", "c_accepted", "c_answer", "h_relay", "h_dst",
              "h_checked", "h_stored", "h_answer", "done", "lost"}
Packets == [seq : Nat, msg : Msgs]
Slots == [has : BOOLEAN, next : Nat, pend : SUBSET Packets]
Hands == [sid : Sids, next : Nat, out : Seq(Msgs)]
Frames == [sid : Sids, key : Sids, src : Peers, seq : Nat, msg : Msgs, relay : Relays,
           at : {"relay", "dst"}]
Seals == [by : Peers, key : Sids, seq : Nat, msg : Msgs]

TypeOK ==
    /\ scope \in Scopes /\ faults \in Nat
    /\ task \in [Msgs -> Tasks]
    /\ \A m \in Msgs : task[m].pc \in Working \cup {"next"} => task[m].left # <<>>
    /\ sess \in [Peers -> Sessions]
    /\ info \in Seq([src : Peers, relay : Relays]) /\ Len(info) <= MaxSid
    /\ call \in [Sids -> CallSteps]
    /\ table \in [Relays -> [Sids -> Nat]]
    /\ conn \in [Peers -> [Sids -> Nat]]
    /\ keys \in [Peers -> [Sids -> Slots]]
    /\ acts \subseteq [p : Peers, sid : Sids]
    /\ frames \subseteq Frames
    /\ age \in [Sids -> {"fresh", "late", "gone"}]
    /\ sealed \subseteq Seals
    /\ handing \subseteq Hands /\ \A j \in handing : Len(j.out) \in 1 .. j.next
    /\ arrived \in [Sids -> Seq(Packets)]

Init ==
    /\ scope \in Scopes
    /\ task = [m \in Msgs |-> [pc |-> "idle", left |-> <<>>, sid |-> 0]]
    /\ sess = [p \in Peers |-> NoSession]
    /\ info = <<>>
    /\ call = [sid \in Sids |-> "none"]
    /\ table = [r \in Relays |-> NoneRegistered]
    /\ conn = [p \in Peers |-> NoneRegistered]
    /\ keys = [p \in Peers |-> [sid \in Sids |-> NoKeys]]
    /\ acts = {} /\ frames = {} /\ handing = {}
    /\ age = [sid \in Sids |-> "fresh"]
    /\ faults = scope.faults
    /\ sealed = {}
    /\ arrived = [sid \in Sids |-> <<>>]

\* A failure of this kind may happen now; Fault counts it.
CanFail(kind) == kind \in scope.failures /\ faults > 0
Fault == faults' = faults - 1

-----------------------------------------------------------------------------
(* The sender                                                               *)

\* sendViaRelay: the relay of a usable session first, then the candidates, if any.
SendViaRelay(m) ==
    LET p == From[m] IN
    /\ m \in scope.msgs /\ task[m].pc = "idle" /\ LockFree(p)
    /\ scope.serial => \A n \in Msgs : From[n] = p => task[n].pc # "next"
    /\ \E st \in PurgedSession(sess[p]), relays \in PickRelayCandidates :
         LET left == WithPreferred(st, relays) IN
         /\ sess' = [sess EXCEPT ![p] = st]
         /\ task' = [task EXCEPT ![m].pc = IF left = <<>> THEN "failed" ELSE "next", ![m].left = left]
    /\ UNCHANGED <<scope, acts, info, call, table, inbound, frames, age, faults, sealed, handing, arrived>>

\* The relay of a session is the only one that knows it.
NeedEstablish_Mutant(st, r) == ~Usable(st)
NeedEstablish(st, r) == ~(Usable(st) /\ st.relay = r)

\* sendViaRelayV1 takes the lock; relayV1Establish sends the connect request of
\* a new session, unless the present one will do.
SendViaRelayV1(m) ==
    LET p == From[m]
        r == Head(task[m].left)
        new == Len(info) + 1
    IN
    /\ task[m].pc = "next" /\ LockFree(p)
    /\ \E st \in PurgedSession(sess[p]) :
         /\ sess' = [sess EXCEPT ![p] = st]
         /\ \/ /\ NeedEstablish(st, r) /\ new <= MaxSid
               /\ info' = Append(info, [src |-> p, relay |-> r])
               /\ call' = [call EXCEPT ![new] = "c_relay"]
               /\ task' = [task EXCEPT ![m].pc = "connect", ![m].sid = new]
            \/ /\ ~NeedEstablish(st, r)
               /\ task' = [task EXCEPT ![m].pc = "seal", ![m].sid = st.sid]
               /\ UNCHANGED <<info, call>>
    /\ UNCHANGED <<scope, acts, table, inbound, frames, age, faults, sealed, handing, arrived>>

\* The accepted connect: the id, the relay and the end of the session are the
\* new ones at once; the key, the counter and handshakeOK stay as they were.
ReceiveConnectResponse(m) ==
    LET p == From[m]
        sid == task[m].sid
    IN
    /\ task[m].pc = "connect" /\ call[sid] = "c_answer"
    /\ sess' = [sess EXCEPT ![p].sid = sid, ![p].relay = Head(task[m].left)]
    /\ call' = [call EXCEPT ![sid] = "h_relay"]
    /\ task' = [task EXCEPT ![m].pc = "handshake"]
    /\ UNCHANGED <<scope, acts, info, table, inbound, frames, age, faults, sealed, handing, arrived>>

ReceiveHandshakeResponse(m) ==
    LET p == From[m]
        sid == task[m].sid
    IN
    /\ task[m].pc = "handshake" /\ call[sid] = "h_answer"
    /\ sess' = [sess EXCEPT ![p].key = sid, ![p].seq = 0, ![p].ok = TRUE]
    /\ call' = [call EXCEPT ![sid] = "done"]
    /\ task' = [task EXCEPT ![m].pc = "seal"]
    /\ UNCHANGED <<scope, acts, info, table, inbound, frames, age, faults, sealed, handing, arrived>>

\* sendViaRelay tries the next relay, or gives up.
Failover(t) ==
    [t EXCEPT !.pc = IF Len(t.left) > 1 THEN "next" ELSE "failed", !.left = Tail(@)]

\* relayV1Establish fails: its stream ended without an answer, or its deadline
\* passed while relay and receiver are still at work.
EstablishFails(m) ==
    /\ task[m].pc \in {"connect", "handshake"}
    /\ \/ call[task[m].sid] = "lost" /\ UNCHANGED faults
       \/ CanFail("timeout") /\ Fault
    /\ task' = [task EXCEPT ![m] = Failover(@)]
    /\ UNCHANGED <<scope, sess, acts, info, call, table, inbound, frames, age, sealed, handing, arrived>>

\* SealDataFrame, then the stream: the number is used up whether or not the
\* stream opens and takes the frame.
Transmit_Mutant(m) ==
    LET p == From[m]
        st == sess[p]
        f == [sid |-> st.sid, key |-> st.key, src |-> p, seq |-> st.seq, msg |-> m,
              relay |-> Head(task[m].left), at |-> "relay"]
    IN
    /\ task[m].pc = "seal"
    /\ sealed' = sealed \cup {[by |-> p, key |-> st.key, seq |-> st.seq, msg |-> m]}
    /\ \/ /\ frames' = frames \cup {f}
          /\ sess' = [sess EXCEPT ![p].seq = @ + 1]
          /\ task' = [task EXCEPT ![m].pc = "sent"]
          /\ UNCHANGED faults
       \/ /\ CanFail("write") /\ Fault
          /\ task' = [task EXCEPT ![m] = Failover(@)]
          /\ UNCHANGED <<sess, frames>>
    /\ UNCHANGED <<scope, acts, info, call, table, inbound, age, handing, arrived>>
Transmit(m) ==
    LET p == From[m]
        st == sess[p]
        f == [sid |-> st.sid, key |-> st.key, src |-> p, seq |-> st.seq, msg |-> m,
              relay |-> Head(task[m].left), at |-> "relay"]
    IN
    /\ task[m].pc = "seal"
    /\ sealed' = sealed \cup {[by |-> p, key |-> st.key, seq |-> st.seq, msg |-> m]}
    /\ sess' = [sess EXCEPT ![p].seq = @ + 1]
    /\ \/ /\ frames' = frames \cup {f}
          /\ task' = [task EXCEPT ![m].pc = "sent"]
          /\ UNCHANGED faults
       \/ /\ CanFail("write") /\ Fault
          /\ task' = [task EXCEPT ![m] = Failover(@)]
          /\ UNCHANGED frames
    /\ UNCHANGED <<scope, acts, info, call, table, inbound, age, handing, arrived>>

-----------------------------------------------------------------------------
(* The relay                                                                *)

\* ValidSession, on the table as the lookup finds it.
ValidSession(ids, sid, src) == sid \in Registered(ids) /\ ~Expired(sid) /\ info[sid].src = src

\* ForwardRelayConnect up to the receiver.
ForwardRelayConnect(sid) ==
    /\ call[sid] = "c_relay"
    /\ call' = [call EXCEPT ![sid] = "c_dst"]
    /\ UNCHANGED <<scope, node, info, table, inbound, frames, age, faults, sealed, handing, arrived>>

\* ForwardRelayConnect with the receiver's answer: RegisterSession, then the answer.
RegisterSession(sid) ==
    LET r == info[sid].relay IN
    /\ call[sid] = "c_accepted"
    /\ \E ids \in Swept(table[r]) :
         table' = [table EXCEPT ![r] = Register(Capped(ids, info[sid].src), sid)]
    /\ call' = [call EXCEPT ![sid] = "c_answer"]
    /\ UNCHANGED <<scope, node, info, inbound, frames, age, faults, sealed, handing, arrived>>

ForwardRelayHandshake(sid) ==
    LET r == info[sid].relay IN
    /\ call[sid] = "h_relay"
    /\ \E ids \in Swept(table[r]) :
         /\ table' = [table EXCEPT ![r] = ids]
         /\ call' = [call EXCEPT ![sid] =
                IF ValidSession(ids, sid, info[sid].src) THEN "h_dst" ELSE "lost"]
    /\ UNCHANGED <<scope, node, info, inbound, frames, age, faults, sealed, handing, arrived>>

\* A frame goes on only if its source is the one that connected the session.
ForwardRelayData(f) ==
    /\ f.at = "relay"
    /\ \E ids \in Swept(table[f.relay]) :
         /\ table' = [table EXCEPT ![f.relay] = ids]
         /\ frames' = (frames \ {f}) \cup
                IF ValidSession(ids, f.sid, f.src) THEN {[f EXCEPT !.at = "dst"]} ELSE {}
    /\ UNCHANGED <<scope, node, info, call, inbound, age, faults, sealed, handing, arrived>>

-----------------------------------------------------------------------------
(* The receiver                                                             *)

\* relayV1BTryRegisterConnect and the accepting answer.
ServeRelayConnectAsB(sid) ==
    LET q == Dst(sid) IN
    /\ call[sid] = "c_dst"
    /\ \E ids \in Swept(conn[q]) :
         LET new == Register(Capped(ids, info[sid].src), sid) IN
         /\ conn' = [conn EXCEPT ![q] = new]
         /\ keys' = [keys EXCEPT ![q] = KeysFor(@, new)]
    /\ call' = [call EXCEPT ![sid] = "c_accepted"]
    /\ UNCHANGED <<scope, node, info, table, frames, age, faults, sealed, handing, arrived>>

\* A handshake is served once per session, while its connect stands.
Servable(ids, sid) ==
    sid \in Registered(ids) /\ ~Expired(sid) /\ ~keys[Dst(sid)][sid].has

\* ServeRelayHandshakeAsB up to the first unlock.
ServeRelayHandshakeAsB(sid) ==
    LET q == Dst(sid) IN
    /\ call[sid] = "h_dst"
    /\ \E ids \in Swept(conn[q]) :
         /\ conn' = [conn EXCEPT ![q] = ids]
         /\ keys' = [keys EXCEPT ![q] = KeysFor(@, ids)]
         /\ call' = [call EXCEPT ![sid] = IF Servable(ids, sid) THEN "h_checked" ELSE "lost"]
    /\ UNCHANGED <<scope, node, info, table, frames, age, faults, sealed, handing, arrived>>

\* The keys are derived without the lock and stored under it: the connect may
\* have been evicted meanwhile and is looked up again.
StoreKeys_Mutant(sid) ==
    LET q == Dst(sid) IN
    /\ call[sid] = "h_checked"
    /\ keys' = [keys EXCEPT ![q][sid] = [NoKeys EXCEPT !.has = TRUE]]
    /\ call' = [call EXCEPT ![sid] = "h_stored"]
    /\ UNCHANGED <<scope, node, info, table, conn, frames, age, faults, sealed, handing, arrived>>
StoreKeys(sid) ==
    LET q == Dst(sid) IN
    /\ call[sid] = "h_checked"
    /\ \E ids \in Swept(conn[q]) :
         LET kept == KeysFor(keys[q], ids)
             ok == Servable(ids, sid)
         IN
         /\ conn' = [conn EXCEPT ![q] = ids]
         /\ keys' = [keys EXCEPT ![q] =
                IF ok THEN [kept EXCEPT ![sid] = [NoKeys EXCEPT !.has = TRUE]] ELSE kept]
         /\ call' = [call EXCEPT ![sid] = IF ok THEN "h_stored" ELSE "lost"]
    /\ UNCHANGED <<scope, node, info, table, frames, age, faults, sealed, handing, arrived>>

\* The answer is written; the session is to be activated if its connect stands.
AnswerHandshake(sid) ==
    LET q == Dst(sid) IN
    /\ call[sid] = "h_stored"
    /\ call' = [call EXCEPT ![sid] = "h_answer"]
    /\ \E ids \in Swept(conn[q]) :
         /\ conn' = [conn EXCEPT ![q] = ids]
         /\ keys' = [keys EXCEPT ![q] = KeysFor(@, ids)]
         /\ acts' = acts \cup IF sid \in Registered(ids) THEN {[p |-> q, sid |-> sid]} ELSE {}
    /\ UNCHANGED <<scope, task, sess, info, table, frames, age, faults, sealed, handing, arrived>>

\* relayV1ActivateOutboundSession: the session the peer just served becomes the
\* one it sends over, in place of any other; it waits for the lock.
ActivateOutboundSession(a) ==
    /\ LockFree(a.p)
    /\ sess' = [sess EXCEPT ![a.p] = [relay |-> info[a.sid].relay, sid |-> a.sid,
                                      key |-> a.sid, seq |-> 0, ok |-> TRUE]]
    /\ acts' = acts \ {a}
    /\ UNCHANGED <<scope, task, info, call, table, inbound, frames, age, faults, sealed, handing, arrived>>

\* relayV1BIngestRelayDataPacket: the entry after a packet and what it hands on.
\* A packet whose turn it is takes with it those that waited for it, up to the
\* first number that is missing.
FirstGap(got, from) ==
    CHOOSE n \in from .. from + Cardinality(got) :
        /\ \A i \in from .. n - 1 : \E g \in got : g.seq = i
        /\ \A g \in got : g.seq # n
InTurn(k, got) ==
    LET end == FirstGap(got, k.next)
        Msg(n) == (CHOOSE g \in got : g.seq = n).msg
    IN  [entry |-> [k EXCEPT !.next = end, !.pend = {g \in k.pend : g.seq > end}],
         out |-> [i \in 1 .. end - k.next |-> Msg(k.next + i - 1)]]

\* A packet ahead of its turn waits, within bounds.
Held(k, pkt) ==
    LET full == pkt.seq - k.next > MaxReorderGap \/ Cardinality(k.pend) >= MaxPendingSlots
    IN  [entry |-> IF full THEN k ELSE [k EXCEPT !.pend = @ \cup {pkt}], out |-> <<>>]

\* A packet that was handed on or waits already is dropped.
Ingest_Mutant(k, pkt) ==
    IF pkt.seq < k.next THEN [entry |-> k, out |-> <<>>]
    ELSE [entry |-> [k EXCEPT !.next = pkt.seq + 1], out |-> <<pkt.msg>>]
Ingest(k, pkt) ==
    IF pkt.seq < k.next \/ \E g \in k.pend : g.seq = pkt.seq THEN [entry |-> k, out |-> <<>>]
    ELSE IF pkt.seq = k.next THEN InTurn(k, k.pend \cup {pkt})
    ELSE Held(k, pkt)

\* ServeRelayDataAsB: a frame opens with the key of its session, if that is the
\* key it was sealed with.  What relayV1BIngestRelayDataPacket returns is in the
\* hands of the frame's stream, which hands it on without the lock (HandOn).
ServeRelayDataAsB(f) ==
    LET q == Other(f.src) IN
    /\ f.at = "dst"
    /\ frames' = frames \ {f}
    /\ \E ids \in Swept(conn[q]) :
         LET kept == KeysFor(keys[q], ids)
             res == Ingest(kept[f.sid], [seq |-> f.seq, msg |-> f.msg])
             opens == kept[f.sid].has /\ f.key = f.sid
         IN
         /\ conn' = [conn EXCEPT ![q] = ids]
         /\ keys' = [keys EXCEPT ![q] = IF opens THEN [kept EXCEPT ![f.sid] = res.entry] ELSE kept]
         /\ handing' = handing \cup
                IF opens /\ res.out # <<>>
                THEN {[sid |-> f.sid, next |-> res.entry.next, out |-> res.out]} ELSE {}
    /\ UNCHANGED <<scope, node, info, call, table, age, faults, sealed, arrived>>

\* A stream that took packets up to j.next calls processEnvelopeBytes on the first it
\* still holds; other streams of the session do so at the same time.
HandOn(j) ==
    LET rest == [j EXCEPT !.out = Tail(@)] IN
    /\ arrived' = [arrived EXCEPT ![j.sid] = Append(@, [seq |-> j.next - Len(j.out), msg |-> Head(j.out)])]
    /\ handing' = (handing \ {j}) \cup IF rest.out = <<>> THEN {} ELSE {rest}
    /\ UNCHANGED <<scope, node, info, call, table, inbound, frames, age, faults, sealed>>

-----------------------------------------------------------------------------
(* Time and failures                                                        *)

InUse(sid) ==
    \/ \E f \in frames : f.sid = sid
    \/ \E m \in Msgs : task[m].pc \in Working /\ task[m].sid = sid

\* An hour passes for a session: five seconds before its end its sender stops
\* using it.  If timely, what is under way arrives within the five seconds.
SessionAges(sid) ==
    /\ call[sid] \in {"done", "lost"} /\ ~Expired(sid)
    /\ Cardinality({s \in Sids : age[s] # "fresh"} \cup {sid}) <= scope.ages
    /\ (scope.timely /\ age[sid] = "late") => ~InUse(sid)
    /\ age' = [age EXCEPT ![sid] = IF @ = "fresh" THEN "late" ELSE "gone"]
    /\ UNCHANGED <<scope, node, info, call, table, inbound, frames, faults, sealed, handing, arrived>>

\* A stream of a connect or a handshake cannot be opened or breaks, or a relay
\* or the receiver refuses a connect that follows the last one too closely.
CallLost(sid) ==
    /\ \/ call[sid] \in {"c_relay", "c_dst", "c_accepted", "c_answer"} /\ CanFail("connect")
       \/ call[sid] \in {"h_relay", "h_dst", "h_stored", "h_answer"} /\ CanFail("handshake")
    /\ call' = [call EXCEPT ![sid] = "lost"] /\ Fault
    /\ UNCHANGED <<scope, node, info, table, inbound, frames, age, sealed, handing, arrived>>

\* The relay cannot reach the receiver, or its stream breaks.
FrameLost(f) ==
    /\ CanFail("frame") /\ Fault
    /\ frames' = frames \ {f}
    /\ UNCHANGED <<scope, node, info, call, table, inbound, age, sealed, handing, arrived>>

\* All of this is in memory.
RelayRestarts(r) ==
    /\ CanFail("restart") /\ Fault
    /\ table' = [table EXCEPT ![r] = NoneRegistered]
    /\ call' = [sid \in Sids |-> IF sid \in Known /\ info[sid].relay = r /\ call[sid] # "done"
                                 THEN "lost" ELSE call[sid]]
    /\ UNCHANGED <<scope, node, info, inbound, frames, age, sealed, handing, arrived>>

PeerRestarts(p) ==
    /\ CanFail("restart") /\ Fault
    /\ sess' = [sess EXCEPT ![p] = NoSession]
    /\ conn' = [conn EXCEPT ![p] = NoneRegistered]
    /\ keys' = [keys EXCEPT ![p] = KeysFor(@, NoneRegistered)]
    /\ acts' = {a \in acts : a.p # p}
    /\ handing' = {j \in handing : Dst(j.sid) # p}
    /\ task' = [m \in Msgs |-> IF From[m] = p /\ task[m].pc \notin {"idle", "sent"}
                               THEN [task[m] EXCEPT !.pc = "failed"] ELSE task[m]]
    /\ call' = [sid \in Sids |-> IF call[sid] \in {"none", "done"} THEN call[sid] ELSE "lost"]
    /\ UNCHANGED <<scope, info, table, frames, age, sealed, arrived>>

-----------------------------------------------------------------------------

SenderStep(m) ==
    SendViaRelayV1(m) \/ ReceiveConnectResponse(m) \/ ReceiveHandshakeResponse(m)
        \/ EstablishFails(m) \/ Transmit(m)
RelayStep(sid) == ForwardRelayConnect(sid) \/ RegisterSession(sid) \/ ForwardRelayHandshake(sid)
ReceiverStep(sid) ==
    ServeRelayConnectAsB(sid) \/ ServeRelayHandshakeAsB(sid) \/ StoreKeys(sid) \/ AnswerHandshake(sid)
FrameStep(f) == ForwardRelayData(f) \/ ServeRelayDataAsB(f)

Next ==
    \/ \E m \in Msgs : SendViaRelay(m) \/ SenderStep(m)
    \/ \E sid \in Known : RelayStep(sid) \/ ReceiverStep(sid) \/ SessionAges(sid) \/ CallLost(sid)
    \/ \E a \in acts : ActivateOutboundSession(a)
    \/ \E f \in frames : FrameStep(f) \/ FrameLost(f)
    \/ \E j \in handing : HandOn(j)
    \/ \E r \in Relays : RelayRestarts(r)
    \/ \E p \in Peers : PeerRestarts(p)

Spec == Init /\ [][Next]_vars

\* Goroutines run and open streams deliver; a lock that keeps becoming free is
\* had in the end (the mutex of Go does not starve a waiter).
FairSpec ==
    /\ Spec
    /\ \A m \in Msgs : SF_vars(SenderStep(m))
    /\ WF_vars(\E sid \in Known : RelayStep(sid) \/ ReceiverStep(sid))
    /\ WF_vars(\E f \in frames : FrameStep(f))
    /\ WF_vars(\E j \in handing : HandOn(j))

-----------------------------------------------------------------------------
(* Properties                                                               *)

\* What the streams of a session hand to the chat service (ServeRelayDataAsB) is what
\* its sender sealed, each number once; and what relayV1BIngestRelayDataPacket counts
\* as delivered was handed on or is held by a stream, whatever the network reorders or
\* drops.  Two streams hand on at the same time, so the order is not that of the numbers.
HandedOn(sid, n) == \E i \in DOMAIN arrived[sid] : arrived[sid][i].seq = n
Holds(j, n) == j.next - Len(j.out) <= n /\ n < j.next
HandedOnce ==
    \A sid \in Known :
        LET got == arrived[sid]
            k == keys[Dst(sid)][sid]
        IN
        /\ \A i \in DOMAIN got :
             [by |-> info[sid].src, key |-> sid, seq |-> got[i].seq, msg |-> got[i].msg] \in sealed
        /\ \A i, j \in DOMAIN got : got[i].seq = got[j].seq => i = j
        /\ k.has => \A n \in 0 .. k.next - 1 :
             HandedOn(sid, n) \/ \E j \in handing : j.sid = sid /\ Holds(j, n)

\* relayV1BIngestRelayDataPacket returns packets to be handed on in order; the streams
\* that hand them on do not keep it.
HandedInOrder ==
    \A sid \in Known : \A i, j \in DOMAIN arrived[sid] :
        i < j => arrived[sid][i].seq < arrived[sid][j].seq

\* One key never seals two payloads under one number (sendViaRelayV1 builds the
\* nonce from packetSeq alone), across failed streams, failed handshakes and
\* sessions that replace each other.
NonceOnce ==
    \A x, y \in sealed : x.by = y.by /\ x.key = y.key /\ x.seq = y.seq => x.msg = y.msg

\* The receiver has keys only for connects it still counts: keys outlive
\* neither expiry nor eviction between the two halves of a handshake, so the
\* caps of the connect table bound the keys as well.
KeysBounded ==
    \A p \in Peers :
        /\ \A sid \in Sids : keys[p][sid].has => sid \in Registered(conn[p])
        /\ Cardinality(Registered(conn[p])) <= scope.perSrc

\* In the end every call of sendViaRelay that was made has failed or its message has
\* arrived, as long as no handshake fails, no frame is lost, nothing restarts, frames
\* are timely, only one peer sends and no stream of a frame fails under overlapping calls.
Calm ==
    /\ scope.failures \subseteq (IF scope.serial THEN {"connect", "write"} ELSE {"connect"})
    /\ scope.timely
    /\ \A m, n \in scope.msgs : From[m] = From[n]
Arrived(m) == \E sid \in Sids : \E i \in DOMAIN arrived[sid] : arrived[sid][i].msg = m
SendConcludes ==
    <>[](Calm => \A m \in Msgs : task[m].pc \in {"idle", "failed"} \/ Arrived(m))

\* The same for a peer that answers over the session the other one connected,
\* without any failure: ServeRelayHandshakeAsB registers it as "the reusable
\* send route" toward the peer that connected.
ReplyArrives ==
    \A m \in Msgs : (task[m].pc = "next") ~> (task[m].pc = "failed" \/ Arrived(m))

=============================================================================
