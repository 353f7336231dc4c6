------------------------ MODULE FriendHandshakeProofs ------------------------
(***************************************************************************)
(* Proofs about FriendHandshake, for any requests of two nodes and any     *)
(* number of losses, copies, crashes and calls of the users.               *)
(***************************************************************************)
EXTENDS FriendHandshake, TLAPS

USE DEF stores

-----------------------------------------------------------------------------
(* The inductive invariant                                                  *)

\* The tasks of an accept that is under way at its recipient or its initiator.
Establishing == {"conv", "sess", "key", "state", "done"}

\* Whose key is where.  The rows of requests to the local node, the envelopes of the
\* handshake and the tasks that establish a session hold the other node's key; a
\* request that was not sent has no row.
Keys ==
    /\ \A p \in Peers, r \in Requests :
         Recipient(r) = p /\ req[p][r].st # "none" => req[p][r].key = Other(p)
    /\ \A p \in Peers : sess[p] = NoSession \/ sess[p].key \in Peers
    /\ \A p \in Peers, s \in Slots :
         /\ task[p][s].pc \in Establishing \cup {"upsert"} => task[p][s].key = Other(p)
         /\ task[p][s].pc \in Establishing \cup {"upsert", "reject", "nofriend"} => task[p][s].r \in Requests
    /\ \A e \in net : e.type # "text" => e.key = e.from /\ e.r \in Requests

\* Only a request that was sent has a row anywhere, or is on its way to one.
SentFirst ==
    /\ \A e \in net : e.type = "request" => e.r \in sent
    /\ \A p \in Peers : task[p]["in"].pc = "upsert" => task[p]["in"].r \in sent
    /\ \A p \in Peers, r \in Requests : req[p][r].st # "none" => r \in sent

\* As long as no user undid the friendship: nobody rejects; a node whose accept is
\* under way, or is to be sent again, is ready; the initiator answers with an ack
\* when both are.
Friends == undone = {} =>
    /\ \A p \in Peers :
         /\ conv[p] # "no_friend"
         /\ task[p]["in"].pc \notin {"reject", "nofriend"} /\ task[p]["api"].pc # "forget"
         /\ job[p] # {} \/ retry[p] # NoReq => Ready(p)
         /\ \A s \in Slots : task[p][s].pc = "sess" => conv[p] = "active"
         /\ \A s \in Slots : task[p][s].pc \in {"key", "state", "done"} => Ready(p)
         /\ task[p]["in"].pc \in Establishing => Ready(Other(p))
    /\ \A e \in net :
         /\ e.type # "reject"
         /\ e.type = "accept" => Ready(e.from)
         /\ e.type = "ack" => \A p \in Peers : Ready(p)

HandshakeInv == TypeOK /\ Keys /\ SentFirst /\ Friends

-----------------------------------------------------------------------------
(* The two nodes, and the constants                                         *)

\* Other is the node that is not p, and its own inverse.
LEMMA OtherNode ==
  ASSUME NEW p \in Peers
  PROVE  /\ Other(p) \in Peers /\ Other(p) # p /\ Other(Other(p)) = p
         /\ \A q \in Peers : q = p \/ q = Other(p)
<1>1. PICK x, y \in Peers : x # y /\ Peers = {x, y}
  BY HandshakeAssumption
<1>2. \A q \in Peers : \E z \in Peers : z # q
  BY <1>1
<1>3. \A q \in Peers : Other(q) \in Peers /\ Other(q) # q
  BY <1>2 DEF Other
<1> QED BY <1>1, <1>3

\* A request is sent by one node to the other.
LEMMA Recipients ==
  ASSUME NEW r \in Requests
  PROVE  Sender[r] \in Peers /\ Recipient(r) \in Peers /\ Recipient(r) # Sender[r]
  BY OtherNode, HandshakeAssumption DEF Recipient

-----------------------------------------------------------------------------
(* The repairs                                                              *)

Databases == [rows : [Requests -> Rows], jobs : SUBSET Requests,
              conv : {"none", "active", "no_friend"}, sess : Sessions]

\* What TypeOK and Keys say of the databases d of node p.
Sound(p, d) ==
    /\ d \in Databases
    /\ \A r \in Requests : Recipient(r) = p /\ d.rows[r].st # "none" => d.rows[r].key = Other(p)
    /\ d.sess = NoSession \/ d.sess.key \in Peers

\* What a repair may do to requests and jobs: decide a pending request, drop jobs.
Mends(d, o) ==
    /\ o.jobs \subseteq d.jobs
    /\ \A r \in Requests : \/ o.rows[r].st = d.rows[r].st
                           \/ d.rows[r].st = "pending" /\ o.rows[r].st = "accepted"

\* A repair keeps the conversation that is there with its session.
Keeps(d, o) ==
    /\ o.conv \in {d.conv, "active"}
    /\ d.conv = "active" /\ d.sess # NoSession => o.conv = "active" /\ o.sess.key = d.sess.key

\* The databases of a node are sound.
LEMMA StateSound ==
  ASSUME TypeOK, Keys, NEW p \in Peers
  PROVE  Sound(p, State(p))
<1> DEFINE d == State(p)
<1>1. d.rows = req[p] /\ d.jobs = job[p] /\ d.conv = conv[p] /\ d.sess = sess[p]
  BY DEF State
<1>2. d \in Databases
  BY DEF State, Databases, TypeOK
<1> HIDE DEF d
<1>3. Sound(p, d)
  BY <1>1, <1>2 DEF Sound, Keys
<1> QED BY <1>3 DEF d

\* A session with a key is not the empty one.
LEMMA SessionKey ==
  ASSUME NEW k \in Peers
  PROVE  Session(k) \in Sessions /\ Session(k) # NoSession /\ Session(k).key = k
  BY HandshakeAssumption DEF Session, Sessions, NoSession

\* The key that is used for a repair is the key of a node or none; for a request to
\* the local node it is the key of its row.
LEMMA RepairKey ==
  ASSUME NEW p \in Peers, NEW rows \in [Requests -> Rows], NEW r \in Requests
  PROVE  /\ RemoteChatKexPubForRepair(p, rows, r) \in Peers \cup {NoKey}
         /\ Recipient(r) = p => RemoteChatKexPubForRepair(p, rows, r) = rows[r].key
  BY OtherNode DEF RemoteChatKexPubForRepair, Rows

\* repairIncomingDirectState mends.
LEMMA RepairIncomingMends ==
  ASSUME NEW p \in Peers, NEW d, Sound(p, d), NEW o \in RepairIncoming(p, d)
  PROVE  Sound(p, o) /\ Mends(d, o) /\ Keeps(d, o) /\ o.sess.key \in Peers
<1> DEFINE pub(r) == RemoteChatKexPubForRepair(p, d.rows, r)
<1>1. PICK r \in Requests :
        /\ d.sess # NoSession \/ pub(r) # NoKey
        /\ o = [d EXCEPT !.conv = "active",
                         !.sess = IF @ = NoSession THEN Session(pub(r)) ELSE @,
                         !.rows[r].conv = TRUE,
                         !.rows[r].key = IF pub(r) = NoKey THEN @ ELSE pub(r)]
  BY DEF RepairIncoming, Accepted
<1>2. d \in Databases /\ d.rows \in [Requests -> Rows] /\ d.rows[r] \in Rows
  BY DEF Sound, Databases
<1>3. pub(r) \in Peers \cup {NoKey} /\ (Recipient(r) = p => pub(r) = d.rows[r].key)
  BY <1>2, RepairKey
<1> DEFINE k == pub(r)
           row == [d.rows[r] EXCEPT !.conv = TRUE, !.key = IF k = NoKey THEN @ ELSE k]
           rows == [d.rows EXCEPT ![r] = row]
           s == IF d.sess = NoSession THEN Session(k) ELSE d.sess
<1> HIDE DEF pub
<1>4. o = [rows |-> rows, jobs |-> d.jobs, conv |-> "active", sess |-> s]
  BY <1>1, <1>2 DEF Databases, Rows
<1>5. row \in Rows /\ row.st = d.rows[r].st /\ (row.key = d.rows[r].key \/ (row.key = k /\ k # NoKey))
  BY <1>2, <1>3 DEF Rows
<1>6. s \in Sessions /\ s.key \in Peers /\ (d.sess # NoSession => s = d.sess)
  BY <1>1, <1>2, <1>3, SessionKey DEF Sound, Databases
<1> HIDE DEF k, s, row
<1>7. /\ rows \in [Requests -> Rows]
      /\ \A i \in Requests : rows[i].st = d.rows[i].st
      /\ \A i \in Requests : rows[i].key = d.rows[i].key \/ (i = r /\ rows[i].key = k)
  BY <1>2, <1>5
<1>8. \A i \in Requests : Recipient(i) = p => rows[i].key = d.rows[i].key
  BY <1>3, <1>7 DEF k
<1> HIDE DEF rows
<1>9. o.rows = rows /\ o.jobs = d.jobs /\ o.conv = "active" /\ o.sess = s
  BY <1>4
<1>10. o \in Databases
  BY <1>2, <1>4, <1>6, <1>7 DEF Databases
<1>11. Sound(p, o)
  BY <1>6, <1>7, <1>8, <1>9, <1>10 DEF Sound
<1> QED BY <1>6, <1>7, <1>9, <1>11 DEF Mends, Keeps

\* repairHistoricalDirectState mends.
LEMMA HistoricalMends ==
  ASSUME NEW p \in Peers, NEW d, Sound(p, d)
  PROVE  Sound(p, Historical(p, d)) /\ Mends(d, Historical(p, d)) /\ Keeps(d, Historical(p, d))
<1> DEFINE acc == Accepted(d.rows)
           usable == {r \in acc : RemoteChatKexPubForRepair(p, d.rows, r) # NoKey}
           rows == [r \in Requests |->
                       IF r \in acc THEN [d.rows[r] EXCEPT !.conv = TRUE] ELSE d.rows[r]]
           o == Historical(p, d)
<1>1. d \in Databases /\ d.rows \in [Requests -> Rows]
  BY DEF Sound, Databases
<1>2. /\ rows \in [Requests -> Rows]
      /\ \A r \in Requests : rows[r].st = d.rows[r].st /\ rows[r].key = d.rows[r].key
  BY <1>1 DEF Rows
<1> DEFINE linked == [rows |-> rows, jobs |-> d.jobs, conv |-> d.conv, sess |-> d.sess]
<1>3. [d EXCEPT !.rows = rows] = linked
  <2> HIDE DEF rows
  <2> QED BY <1>1 DEF Databases
<1>4. CASE acc = {}
  BY <1>4 DEF Historical, Mends, Keeps
<1>5. CASE acc # {} /\ d.sess # NoSession
  <2>1. o = [linked EXCEPT !.conv = "active"]
    BY <1>3, <1>5 DEF Historical
  <2> HIDE DEF rows
  <2>2. o = [rows |-> rows, jobs |-> d.jobs, conv |-> "active", sess |-> d.sess]
    BY <2>1
  <2> HIDE DEF o, linked
  <2>3. o.rows = rows /\ o.jobs = d.jobs /\ o.conv = "active" /\ o.sess = d.sess
    BY <2>2
  <2>4. o \in Databases
    BY <1>1, <1>2, <2>2 DEF Databases
  <2>5. Sound(p, o) /\ Mends(d, o) /\ Keeps(d, o)
    BY <1>2, <2>3, <2>4 DEF Sound, Mends, Keeps
  <2> QED BY <2>5 DEF o
<1>6. CASE acc # {} /\ d.sess = NoSession /\ usable = {}
  <2>1. o = linked
    BY <1>3, <1>6 DEF Historical
  <2> HIDE DEF rows, o
  <2>2. o.rows = rows /\ o.jobs = d.jobs /\ o.conv = d.conv /\ o.sess = d.sess
    BY <2>1
  <2>3. o \in Databases
    BY <1>1, <1>2, <2>1 DEF Databases
  <2> HIDE DEF linked
  <2>4. Sound(p, o) /\ Mends(d, o) /\ Keeps(d, o)
    BY <1>2, <2>2, <2>3 DEF Sound, Mends, Keeps
  <2> QED BY <2>4 DEF o
<1>7. CASE acc # {} /\ d.sess = NoSession /\ usable # {}
  <2> DEFINE r == CHOOSE r \in usable : TRUE
             k == RemoteChatKexPubForRepair(p, d.rows, r)
             ss == Session(k)
  <2>1. r \in Requests /\ k # NoKey
    BY <1>7 DEF Accepted
  <2>2. k \in Peers
    BY <1>1, <2>1, RepairKey
  <2>3. o = [linked EXCEPT !.conv = "active", !.sess = ss]
    BY <1>3, <1>7 DEF Historical
  <2>4. ss \in Sessions /\ ss.key \in Peers
    BY <2>2, SessionKey
  <2> HIDE DEF rows, ss
  <2>5. o = [rows |-> rows, jobs |-> d.jobs, conv |-> "active", sess |-> ss]
    BY <2>3
  <2> HIDE DEF o, linked
  <2>6. o.rows = rows /\ o.jobs = d.jobs /\ o.conv = "active" /\ o.sess = ss
    BY <2>5
  <2>7. o \in Databases
    BY <1>1, <1>2, <2>4, <2>5 DEF Databases
  <2>8. Sound(p, o) /\ Mends(d, o) /\ Keeps(d, o)
    BY <1>2, <1>7, <2>4, <2>6, <2>7 DEF Sound, Mends, Keeps
  <2> QED BY <2>8 DEF o
<1> QED BY <1>4, <1>5, <1>6, <1>7

\* repairOrphanPendingSessionAccepts mends.
LEMMA OrphansMends ==
  ASSUME NEW p \in Peers, NEW d, Sound(p, d), NEW o \in Orphans(p, d)
  PROVE  Sound(p, o) /\ Mends(d, o) /\ Keeps(d, o)
<1> DEFINE pend == {r \in Requests : d.rows[r].st = "pending" /\ d.rows[r].key # NoKey}
           rows == [r \in Requests |-> IF r \in pend
                     THEN [d.rows[r] EXCEPT !.st = "accepted", !.conv = TRUE] ELSE d.rows[r]]
<1>1. d \in Databases /\ d.rows \in [Requests -> Rows]
  BY DEF Sound, Databases
<1>2. /\ rows \in [Requests -> Rows]
      /\ \A r \in Requests : /\ rows[r].key = d.rows[r].key
                             /\ \/ rows[r].st = d.rows[r].st
                                \/ d.rows[r].st = "pending" /\ rows[r].st = "accepted"
  BY <1>1 DEF Rows, Decided
<1>3. CASE pend = {}
  BY <1>3 DEF Orphans, Mends, Keeps
<1>4. CASE pend # {} /\ d.conv = "active" /\ d.sess # NoSession
  <2>1. o = [d EXCEPT !.rows = rows]
    BY <1>4 DEF Orphans
  <2> HIDE DEF rows
  <2>2. o = [rows |-> rows, jobs |-> d.jobs, conv |-> d.conv, sess |-> d.sess]
    BY <1>1, <2>1 DEF Databases
  <2>3. o.rows = rows /\ o.jobs = d.jobs /\ o.conv = d.conv /\ o.sess = d.sess /\ o \in Databases
    BY <1>1, <1>2, <2>2 DEF Databases
  <2> QED BY <1>2, <2>3 DEF Sound, Mends, Keeps
<1>5. CASE pend # {} /\ ~(d.conv = "active" /\ d.sess # NoSession)
  <2>1. PICK r \in pend : o = [rows |-> rows, jobs |-> d.jobs \ {r}, conv |-> "active",
                               sess |-> Session(d.rows[r].key)]
    BY <1>5 DEF Orphans
  <2> DEFINE ss == Session(d.rows[r].key)
  <2>2. d.rows[r].key \in Peers
    BY <1>1, <2>1 DEF Rows
  <2>3. ss \in Sessions /\ ss.key \in Peers
    BY <2>2, SessionKey
  <2> HIDE DEF rows, ss
  <2>4. o.rows = rows /\ o.jobs = d.jobs \ {r} /\ o.conv = "active" /\ o.sess = ss /\ o \in Databases
    BY <1>1, <1>2, <2>1, <2>3 DEF Databases, ss
  <2> QED BY <1>2, <1>5, <2>3, <2>4 DEF Sound, Mends, Keeps
<1> QED BY <1>3, <1>4, <1>5

\* One repair after the other.
LEMMA MendsTwice ==
  ASSUME NEW p \in Peers, NEW d, NEW w, NEW o, Sound(p, d), Mends(d, w), Mends(w, o)
  PROVE  /\ Mends(d, o)
         /\ Keeps(d, w) /\ Keeps(w, o) => Keeps(d, o)
<1>1. Mends(d, o)
  BY DEF Mends
<1>2. ASSUME Keeps(d, w), Keeps(w, o)
      PROVE  Keeps(d, o)
  <2>1. ASSUME d.conv = "active", d.sess # NoSession
        PROVE  o.conv = "active" /\ o.sess.key = d.sess.key
    <3>1. w.conv = "active" /\ w.sess.key = d.sess.key /\ d.sess.key \in Peers
      BY <1>2, <2>1 DEF Keeps, Sound
    <3>2. w.sess # NoSession
      BY <3>1, HandshakeAssumption DEF NoSession, Session
    <3> QED BY <1>2, <3>1, <3>2 DEF Keeps
  <2> QED BY <1>2, <2>1 DEF Keeps
<1> QED BY <1>1, <1>2

\* What a restart leaves of the databases.
LEMMA RestartMends ==
  ASSUME NEW p \in Peers, NEW d, Sound(p, d), NEW o \in Orphans(p, Historical(p, d))
  PROVE  Sound(p, o) /\ Mends(d, o) /\ Keeps(d, o)
<1> DEFINE w == Historical(p, d)
<1>1. Sound(p, w) /\ Mends(d, w) /\ Keeps(d, w)
  BY HistoricalMends
<1> HIDE DEF w
<1>2. Sound(p, o) /\ Mends(w, o) /\ Keeps(w, o)
  BY <1>1, OrphansMends DEF w
<1> QED BY <1>1, <1>2, MendsTwice

\* deleteDirectConversation: sound databases without conversation and session.
LEMMA WipedMends ==
  ASSUME NEW p \in Peers, NEW d, Sound(p, d)
  PROVE  Sound(p, Wiped(d)) /\ Mends(d, Wiped(d))
<1> DEFINE w == Wiped(d)
           rows == Unlinked(d.rows)
           jobs == {r \in d.jobs : ~d.rows[r].conv}
<1>1. d.rows \in [Requests -> Rows] /\ d.jobs \in SUBSET Requests
  BY DEF Sound, Databases
<1>2. /\ rows \in [Requests -> Rows]
      /\ \A r \in Requests : rows[r].st = d.rows[r].st /\ rows[r].key = d.rows[r].key
  BY <1>1 DEF Unlinked, Rows
<1>3. w = [rows |-> rows, jobs |-> jobs, conv |-> "none", sess |-> NoSession]
  BY DEF Wiped
<1>4. jobs \in SUBSET Requests /\ jobs \subseteq d.jobs /\ NoSession \in Sessions
  BY <1>1 DEF NoSession, Session, Sessions
<1> HIDE DEF w, rows, jobs
<1>5. w.rows = rows /\ w.jobs = jobs /\ w.sess = NoSession /\ w \in Databases
  BY <1>2, <1>3, <1>4 DEF Databases
<1>6. Sound(p, w) /\ Mends(d, w)
  BY <1>2, <1>4, <1>5 DEF Sound, Mends
<1> QED BY <1>6 DEF w

\* Remembering the counter of a text changes nothing else.
LEMMA GotMends ==
  ASSUME NEW p \in Peers, NEW d, Sound(p, d), d.sess.key \in Peers, NEW g \in BOOLEAN
  PROVE  LET o == [d EXCEPT !.sess.got = g] IN Sound(p, o) /\ Mends(d, o) /\ Keeps(d, o)
<1> DEFINE o == [d EXCEPT !.sess.got = g]
           ss == [d.sess EXCEPT !.got = g]
<1>1. d \in Databases
  BY DEF Sound
<1>2. ss \in Sessions /\ ss.key = d.sess.key
  BY <1>1 DEF Databases, Sessions
<1>3. o = [d EXCEPT !.sess = ss]
  OBVIOUS
<1> HIDE DEF o, ss
<1>4. o.rows = d.rows /\ o.jobs = d.jobs /\ o.conv = d.conv /\ o.sess = ss /\ o \in Databases
  BY <1>1, <1>2, <1>3 DEF Databases
<1>5. Sound(p, o) /\ Mends(d, o) /\ Keeps(d, o)
  BY <1>2, <1>4 DEF Sound, Mends, Keeps
<1> QED BY <1>5 DEF o

\* What an incoming text leaves of the databases: unless it resets the session, the
\* conversation that is there stays.
LEMMA TextMends ==
  ASSUME NEW p \in Peers, NEW d, Sound(p, d), NEW e, e.first \in BOOLEAN,
         NEW w \in LoadIncoming(p, d), NEW o \in TextOutcomes(p, w, e)
  PROVE  Sound(p, o) /\ Mends(d, o) /\ (~Resets(p, w, e) => Keeps(d, o))
<1>1. Sound(p, w) /\ Mends(d, w) /\ Keeps(d, w) /\ w.sess.key \in Peers
  <2>1. CASE d.conv # "none" /\ d.sess # NoSession
    BY <2>1 DEF LoadIncoming, Sound, Mends, Keeps
  <2>2. CASE ~(d.conv # "none" /\ d.sess # NoSession)
    BY <2>2, RepairIncomingMends DEF LoadIncoming
  <2> QED BY <2>1, <2>2
<1>2. CASE Resets(p, w, e)
  <2> DEFINE v == Wiped(w)
  <2>1. Sound(p, v) /\ Mends(w, v)
    BY <1>1, WipedMends
  <2> HIDE DEF v
  <2>2. CASE RepairIncoming(p, v) = {}
    <3>1. o = v
      BY <1>2, <2>2 DEF TextOutcomes, v
    <3> QED BY <1>1, <1>2, <2>1, <3>1, MendsTwice
  <2>3. CASE RepairIncoming(p, v) # {}
    <3>1. PICK u \in RepairIncoming(p, v) : o = [u EXCEPT !.sess.got = Opens(p, u, e)]
      BY <1>2, <2>3 DEF TextOutcomes, v
    <3>2. Sound(p, u) /\ Mends(v, u) /\ u.sess.key \in Peers
      BY <2>1, RepairIncomingMends
    <3>3. Opens(p, u, e) \in BOOLEAN
      BY DEF Opens
    <3>4. Sound(p, o) /\ Mends(u, o)
      BY <3>1, <3>2, <3>3, GotMends
    <3>5. Mends(d, v)
      BY <1>1, <2>1, MendsTwice
    <3>6. Mends(d, u)
      BY <3>2, <3>5, MendsTwice
    <3> QED BY <1>2, <3>4, <3>6, MendsTwice
  <2> QED BY <2>2, <2>3
<1>3. CASE ~Resets(p, w, e)
  <2>1. o = [w EXCEPT !.sess.got = @ \/ e.first]
    BY <1>3 DEF TextOutcomes
  <2>2. (w.sess.got \/ e.first) \in BOOLEAN
    BY <1>1 DEF Sound, Databases, Sessions
  <2>3. Sound(p, o) /\ Mends(w, o) /\ Keeps(w, o)
    BY <1>1, <2>1, <2>2, GotMends
  <2> QED BY <1>1, <2>3, MendsTwice
<1> QED BY <1>2, <1>3

-----------------------------------------------------------------------------
(* The parts of an action                                                   *)

\* A use is counted.
LEMMA UseType ==
  ASSUME TypeOK, NEW k \in Uses, Use(k)
  PROVE  left' \in [Uses -> Nat]
  BY DEF TypeOK, Use

\* An envelope is sent or lost.
LEMMA SendType ==
  ASSUME TypeOK, NEW e \in Envelopes, Send(e)
  PROVE  net' \subseteq net \cup {e} /\ net' \subseteq Envelopes /\ left' \in [Uses -> Nat]
<1>1. "loss" \in Uses
  BY DEF Uses
<1> QED BY <1>1, UseType DEF TypeOK, Send

\* An envelope is taken, or stays for another delivery.
LEMMA TakeType ==
  ASSUME TypeOK, NEW p, NEW e, Take(p, e)
  PROVE  net' \subseteq net /\ left' \in [Uses -> Nat] /\ task[p]["in"] = Idle
<1>1. "copy" \in Uses
  BY DEF Uses
<1> QED BY <1>1, UseType DEF TypeOK, Take

\* The envelopes of the handshake.
LEMMA EnvelopeType ==
  ASSUME NEW t \in {"request", "accept", "reject", "ack"}, NEW r \in Requests, NEW p \in Peers
  PROVE  /\ Envelope(t, r, p) \in Envelopes
         /\ Envelope(t, r, p).type = t /\ Envelope(t, r, p).r = r
         /\ Envelope(t, r, p).from = p /\ Envelope(t, r, p).key = p
  BY DEF Envelope, Envelopes

\* A row is rewritten where there is one.
LEMMA SetRowType ==
  ASSUME TypeOK, NEW p \in Peers, NEW r, NEW row, SetRow(p, r, row),
         r \in Requests => row \in Rows
  PROVE  /\ req' \in [Peers -> [Requests -> Rows]]
         /\ \A q \in Peers, i \in Requests :
              \/ req'[q][i] = req[q][i]
              \/ q = p /\ i = r /\ req[q][i].st # "none" /\ req'[q][i] = row
<1>1. req \in [Peers -> [Requests -> Rows]]
  BY DEF TypeOK
<1>2. req' = [req EXCEPT ![p][r] = IF Known(p, r) THEN row ELSE @]
  BY DEF SetRow
<1>3. CASE r \in Requests
  BY <1>1, <1>2, <1>3 DEF Known
<1>4. CASE r \notin Requests
  BY <1>1, <1>2, <1>4
<1> QED BY <1>3, <1>4

\* The databases of a node are replaced.
LEMMA PutType ==
  ASSUME TypeOK, NEW p \in Peers, NEW d \in Databases, Put(p, d)
  PROVE  /\ req' \in [Peers -> [Requests -> Rows]] /\ job' \in [Peers -> SUBSET Requests]
         /\ conv' \in [Peers -> {"none", "active", "no_friend"}] /\ sess' \in [Peers -> Sessions]
         /\ req'[p] = d.rows /\ job'[p] = d.jobs /\ conv'[p] = d.conv /\ sess'[p] = d.sess
         /\ \A q \in Peers \ {p} : /\ req'[q] = req[q] /\ job'[q] = job[q]
                                   /\ conv'[q] = conv[q] /\ sess'[q] = sess[q]
<1>1. /\ d.rows \in [Requests -> Rows] /\ d.jobs \in SUBSET Requests
      /\ d.conv \in {"none", "active", "no_friend"} /\ d.sess \in Sessions
  BY DEF Databases
<1> QED BY <1>1 DEF TypeOK, Put

\* The steps of a text and of a restart.
LEMMA ReceiveTextPuts ==
  ASSUME TypeOK, Keys, NEW p \in Peers, NEW e \in net, ReceiveText(p, e)
  PROVE  \E o : /\ Put(p, o) /\ Sound(p, o) /\ Mends(State(p), o)
                /\ p \in undone' \/ Keeps(State(p), o)
<1>1. PICK w \in LoadIncoming(p, State(p)) :
        /\ \E o \in TextOutcomes(p, w, e) : Put(p, o)
        /\ undone' = IF Resets(p, w, e) THEN undone \cup {p} ELSE undone
  BY DEF ReceiveText
<1>2. PICK o \in TextOutcomes(p, w, e) : Put(p, o)
  BY <1>1
<1>3. e.first \in BOOLEAN
  BY DEF TypeOK, Envelopes
<1>4. Sound(p, o) /\ Mends(State(p), o) /\ (~Resets(p, w, e) => Keeps(State(p), o))
  BY <1>3, StateSound, TextMends
<1> QED BY <1>1, <1>2, <1>4

\* The same for the start of the process.
LEMMA RestartPuts ==
  ASSUME TypeOK, Keys, NEW p \in Peers, Restart(p)
  PROVE  \E o : Put(p, o) /\ Sound(p, o) /\ Mends(State(p), o) /\ Keeps(State(p), o)
<1>1. PICK o \in Orphans(p, Historical(p, State(p))) : Put(p, o)
  BY DEF Restart
<1> QED BY <1>1, StateSound, RestartMends

-----------------------------------------------------------------------------
(* Type correctness                                                         *)

\* Every step preserves the types.
LEMMA TypeStep ==
  ASSUME TypeOK, Keys, Next
  PROVE  TypeOK'
<1>1. PICK p \in Peers :
        \/ UserCall(p) \/ ApiStep(p) \/ HandlerStep(p)
        \/ \E e \in net : ReceiveFriendControl(p, e) \/ ReceiveText(p, e) \/ RefuseText(p, e)
        \/ RetryStep(p)
        \/ \E r \in Requests : Abandon(p, r)
        \/ Restart(p)
  BY DEF Next
<1>2. /\ Uses # {} /\ {"accept", "reject", "delete", "forget", "block", "text",
                       "loss", "copy", "crash", "week"} \subseteq Uses
      /\ NoSession \in Sessions /\ NoRow \in Rows /\ Idle \in Tasks /\ Slots = {"api", "in"}
  BY DEF Uses, NoSession, Session, Sessions, NoRow, Rows, Idle, Tasks, Slots
<1>3. \A s \in Slots : /\ task[p][s] \in Tasks
                       /\ task[p][s].pc \in Establishing => task[p][s].r \in Requests /\ task[p][s].key \in Peers
  BY OtherNode DEF TypeOK, Keys
<1>4. ASSUME NEW s \in Slots, NEW t \in Tasks, task' = [task EXCEPT ![p][s] = t]
      PROVE  task' \in [Peers -> [Slots -> Tasks]]
  BY <1>4 DEF TypeOK
<1>5. ASSUME NEW s \in Slots, NEW pc, task' = [task EXCEPT ![p][s].pc = pc],
             pc \in {"idle", "conv", "sess", "key", "state", "done", "upsert", "reject",
                     "nofriend", "forget"}
      PROVE  task' \in [Peers -> [Slots -> Tasks]]
  <2> DEFINE t == [task[p][s] EXCEPT !.pc = pc]
  <2>1. t \in Tasks
    BY <1>3, <1>5 DEF Tasks
  <2>2. task' = [task EXCEPT ![p][s] = t]
    BY <1>5 DEF TypeOK
  <2> HIDE DEF t
  <2> QED BY <1>4, <2>1, <2>2
<1>6. \A r \in Requests : req[p][r] \in Rows
  BY DEF TypeOK
<1>7. ASSUME NEW row \in Rows
      PROVE  /\ \A k \in Peers : [row EXCEPT !.key = k] \in Rows
             /\ \A t \in {"accepted", "rejected", "blocked"}, b \in BOOLEAN :
                   [row EXCEPT !.st = t, !.conv = b] \in Rows
             /\ \A k \in Peers : Upserted(row, k) \in Rows
             /\ [row EXCEPT !.conv = FALSE] \in Rows
  BY DEF Rows, Decided, Upserted
<1>8. Meet(p) => contact' \in [Peers -> {"none", "open", "blocked"}]
  BY DEF TypeOK, Meet
<1>9. CASE UserCall(p)
  <2>1. ASSUME NEW r \in Requests, SendRequest(p, r)
        PROVE  TypeOK'
    <3>1. [st |-> "pending", key |-> p, conv |-> FALSE] \in Rows
      BY DEF Rows
    <3>2. net' \subseteq Envelopes /\ left' \in [Uses -> Nat]
      BY <2>1, EnvelopeType, SendType DEF SendRequest
    <3>3. req' \in [Peers -> [Requests -> Rows]]
      BY <2>1, <3>1 DEF SendRequest, TypeOK
    <3> QED BY <1>8, <2>1, <3>2, <3>3 DEF SendRequest, TypeOK
  <2>2. ASSUME NEW r \in Requests, AcceptRequest(p, r)
        PROVE  TypeOK'
    <3> DEFINE t == [pc |-> "conv", r |-> r, key |-> req[p][r].key]
    <3>1. t \in Tasks
      BY <1>6 DEF Tasks, Rows
    <3>2. task' = [task EXCEPT ![p]["api"] = t]
      BY <2>2 DEF AcceptRequest
    <3> HIDE DEF t
    <3>3. task' \in [Peers -> [Slots -> Tasks]] /\ left' \in [Uses -> Nat]
      BY <1>2, <1>4, <2>2, <3>1, <3>2, UseType DEF AcceptRequest
    <3> QED BY <2>2, <3>3 DEF AcceptRequest, TypeOK
  <2>3. ASSUME NEW r \in Requests, RejectRequest(p, r)
        PROVE  TypeOK'
    <3>1. req' \in [Peers -> [Requests -> Rows]]
      BY <1>6, <1>7, <2>3, SetRowType DEF RejectRequest
    <3>2. Envelope("reject", r, p) \in Envelopes /\ left' \in [Uses -> Nat]
      BY <1>2, <2>3, EnvelopeType, UseType DEF RejectRequest
    <3> QED BY <2>3, <3>1, <3>2 DEF RejectRequest, TypeOK
  <2>4. CASE DeleteConversationLocal(p)
    <3>1. Unlinked(req[p]) \in [Requests -> Rows]
      BY <1>6, <1>7 DEF Unlinked
    <3>2. left' \in [Uses -> Nat]
      BY <1>2, <2>4, UseType DEF DeleteConversationLocal
    <3> QED BY <1>2, <2>4, <3>1, <3>2 DEF DeleteConversationLocal, DeleteConversationData, TypeOK
  <2>5. CASE DeleteContactLocal(p)
    <3>1. task' \in [Peers -> [Slots -> Tasks]] /\ left' \in [Uses -> Nat]
      BY <1>2, <1>5, <2>5, UseType DEF DeleteContactLocal
    <3> QED BY <2>5, <3>1 DEF DeleteContactLocal, TypeOK
  <2>6. CASE SetContactBlocked(p)
    <3>1. left' \in [Uses -> Nat]
      BY <1>2, <2>6, UseType DEF SetContactBlocked
    <3> QED BY <2>6, <3>1 DEF SetContactBlocked, TypeOK
  <2>7. CASE SendText(p)
    <3>1. left' \in [Uses -> Nat]
      BY <1>2, <2>7, UseType DEF SendText
    <3>2. sess[p].key \in Peers
      BY <2>7 DEF SendText, Keys
    <3>3. [type |-> "text", r |-> NoReq, from |-> p, key |-> sess[p].key, first |-> ~sess[p].sent] \in Envelopes
      BY <3>2 DEF Envelopes
    <3>4. sess' \in [Peers -> Sessions]
      BY ZenonT(40), <2>7 DEF SendText, TypeOK, Sessions
    <3> QED BY <2>7, <3>1, <3>3, <3>4 DEF SendText, TypeOK
  <2> QED BY <1>9, <2>1, <2>2, <2>3, <2>4, <2>5, <2>6, <2>7 DEF UserCall
<1>10. ASSUME NEW s \in Slots, StoreConversation(p, s) \/ StoreSession(p, s) \/ StoreAccepted(p, s)
       PROVE  TypeOK'
  <2>1. task' \in [Peers -> [Slots -> Tasks]]
    BY <1>5, <1>10 DEF StoreConversation, StoreSession, StoreAccepted, Goto
  <2>2. CASE StoreConversation(p, s)
    BY <2>1, <2>2 DEF StoreConversation, TypeOK
  <2>3. CASE StoreSession(p, s)
    <3>1. Session(task[p][s].key) \in Sessions
      BY <1>3, <2>3, SessionKey DEF StoreSession, Establishing
    <3> QED BY <2>1, <2>3, <3>1 DEF StoreSession, TypeOK
  <2>4. CASE StoreAccepted(p, s)
    <3>1. task[p][s].r \in Requests
      BY <1>3, <2>4 DEF StoreAccepted, Establishing
    <3>2. req' \in [Peers -> [Requests -> Rows]]
      BY <1>6, <1>7, <2>4, <3>1, SetRowType DEF StoreAccepted
    <3> QED BY <2>1, <2>4, <3>2 DEF StoreAccepted, TypeOK
  <2> QED BY <1>10, <2>2, <2>3, <2>4
<1>11. CASE SendAccept(p) \/ ForgetStep(p)
  <2>1. CASE SendAccept(p)
    <3>1. task[p]["api"].r \in Requests
      BY <1>2, <1>3, <2>1 DEF SendAccept, Establishing
    <3>2. net' \subseteq Envelopes /\ left' \in [Uses -> Nat]
      BY <2>1, <3>1, EnvelopeType, SendType DEF SendAccept
    <3>3. task' \in [Peers -> [Slots -> Tasks]]
      BY <1>2, <1>4, <2>1 DEF SendAccept, End
    <3> QED BY <1>8, <2>1, <3>1, <3>2, <3>3 DEF SendAccept, AddJob, TypeOK
  <2>2. CASE ForgetStep(p)
    <3>1. Unlinked(req[p]) \in [Requests -> Rows]
      BY <1>6, <1>7 DEF Unlinked
    <3>2. task' \in [Peers -> [Slots -> Tasks]]
      BY <1>2, <1>4, <2>2 DEF ForgetStep, End, TypeOK
    <3>3. [r \in Requests |-> NoRow] \in [Requests -> Rows]
      BY <1>2
    <3>4. CASE DeleteConversationData(p) /\ UNCHANGED contact
      BY <1>2, <2>2, <3>1, <3>2, <3>4 DEF ForgetStep, DeleteConversationData, TypeOK
    <3>5. CASE DeletePeerAndRelatedData(p) /\ UNCHANGED <<conv, sess>>
      BY <2>2, <3>2, <3>3, <3>5 DEF ForgetStep, DeletePeerAndRelatedData, TypeOK
    <3> QED BY <2>2, <3>4, <3>5 DEF ForgetStep
  <2> QED BY <1>11, <2>1, <2>2
<1>12. CASE UpdateRequestRemoteChatKexPub(p) \/ StoreRejected(p) \/ StoreNoFriend(p)
  <2>1. task' \in [Peers -> [Slots -> Tasks]]
    BY <1>2, <1>4, <1>5, <1>12 DEF UpdateRequestRemoteChatKexPub, StoreRejected, StoreNoFriend, Goto, End
  <2>2. req' \in [Peers -> [Requests -> Rows]]
    <3>1. CASE UpdateRequestRemoteChatKexPub(p)
      BY <1>2, <1>3, <1>6, <1>7, <3>1, SetRowType DEF UpdateRequestRemoteChatKexPub, Establishing
    <3>2. CASE StoreRejected(p)
      BY <1>6, <1>7, <3>2, SetRowType DEF StoreRejected
    <3>3. CASE StoreNoFriend(p)
      BY <3>3 DEF StoreNoFriend, TypeOK
    <3> QED BY <1>12, <3>1, <3>2, <3>3
  <2>3. CASE UpdateRequestRemoteChatKexPub(p)
    BY <1>8, <2>1, <2>2, <2>3 DEF UpdateRequestRemoteChatKexPub, TypeOK
  <2>4. CASE StoreRejected(p)
    BY <2>1, <2>2, <2>4 DEF StoreRejected, TypeOK
  <2>5. CASE StoreNoFriend(p)
    BY <2>1, <2>2, <2>5 DEF StoreNoFriend, DropJob, TypeOK
  <2> QED BY <1>12, <2>3, <2>4, <2>5
<1>13. CASE SendAck(p)
  <2>1. task[p]["in"].r \in Requests
    BY <1>2, <1>3, <1>13 DEF SendAck, Establishing
  <2>2. net' \subseteq Envelopes /\ left' \in [Uses -> Nat]
    BY <1>13, <2>1, EnvelopeType, SendType DEF SendAck
  <2>3. task' \in [Peers -> [Slots -> Tasks]]
    BY <1>2, <1>4, <1>13 DEF SendAck, End
  <2> QED BY <1>13, <2>2, <2>3 DEF SendAck, DropJob, TypeOK
<1>14. CASE UpsertIncomingRequest(p)
  <2>1. task[p]["in"].r \in Requests /\ task[p]["in"].key \in Peers
    BY <1>2, <1>14, OtherNode DEF UpsertIncomingRequest, Keys
  <2>2. req' \in [Peers -> [Requests -> Rows]]
    BY <1>6, <1>7, <1>14, <2>1 DEF UpsertIncomingRequest, TypeOK
  <2>3. task' \in [Peers -> [Slots -> Tasks]]
    BY <1>2, <1>4, <1>14 DEF UpsertIncomingRequest, End
  <2> QED BY <1>8, <1>14, <2>2, <2>3 DEF UpsertIncomingRequest, TypeOK
<1>15. ASSUME NEW e \in net, ReceiveFriendControl(p, e)
       PROVE  TypeOK'
  <2>1. net' \subseteq Envelopes /\ left' \in [Uses -> Nat]
    BY <1>15, TakeType DEF ReceiveFriendControl, ReceiveRequest, ReceiveAccept, ReceiveReject, ReceiveAck, TypeOK
  <2>2. \A pc \in {"upsert", "conv", "reject"} : [pc |-> pc, r |-> e.r, key |-> e.key] \in Tasks
    BY DEF TypeOK, Envelopes, Tasks
  <2>3. task' \in [Peers -> [Slots -> Tasks]]
    <3>1. CASE UNCHANGED task
      BY <3>1 DEF TypeOK
    <3>2. CASE \E pc \in {"upsert", "conv", "reject"} : Handle(p, e, pc)
      BY <1>2, <1>4, <2>2, <3>2 DEF Handle
    <3> QED BY <1>15, <3>1, <3>2
            DEF ReceiveFriendControl, ReceiveRequest, ReceiveAccept, ReceiveReject, ReceiveAck
  <2>4. CASE ReceiveAck(p, e)
    <3>1. job' \in [Peers -> SUBSET Requests]
      BY <2>4 DEF ReceiveAck, DropJob, TypeOK
    <3> QED BY <2>1, <2>3, <2>4, <3>1 DEF ReceiveAck, TypeOK
  <2>5. CASE ReceiveRequest(p, e) \/ ReceiveAccept(p, e) \/ ReceiveReject(p, e)
    BY <2>1, <2>3, <2>5 DEF ReceiveRequest, ReceiveAccept, ReceiveReject, TypeOK
  <2> QED BY <1>15, <2>4, <2>5 DEF ReceiveFriendControl
<1>16. ASSUME NEW e \in net, ReceiveText(p, e)
       PROVE  TypeOK'
  <2>1. PICK o : Put(p, o) /\ Sound(p, o)
    BY <1>16, ReceiveTextPuts
  <2>2. net' \subseteq Envelopes /\ left' \in [Uses -> Nat]
    BY <1>16, TakeType DEF ReceiveText, TypeOK
  <2>3. o \in Databases
    BY <2>1 DEF Sound
  <2> QED BY <1>8, <1>16, <2>1, <2>2, <2>3, PutType DEF ReceiveText, TypeOK
<1>17. ASSUME NEW e \in net, RefuseText(p, e)
       PROVE  TypeOK'
  <2>1. \A r \in Rejections(p) : Envelope("reject", r, p) \in Envelopes
    BY EnvelopeType DEF Rejections, LatestRequestBetweenPeers
  <2> QED BY <1>17, <2>1 DEF RefuseText, TypeOK
<1>18. CASE RetryStep(p)
  <2>1. ASSUME NEW r \in Requests, RetryDrop(p, r) \/ RetryPending(p, r)
        PROVE  TypeOK'
    <3>1. req' \in [Peers -> [Requests -> Rows]]
      BY <1>6, <1>7, <2>1, SetRowType DEF RetryDrop, RetryPending, TypeOK
    <3> QED BY SMTT(20), <2>1, <3>1 DEF RetryDrop, RetryPending, DropJob, TypeOK
  <2>2. ASSUME NEW r \in Requests, RetryAccept(p, r)
        PROVE  TypeOK'
    <3>1. net' \subseteq Envelopes /\ left' \in [Uses -> Nat]
      BY <2>2, EnvelopeType, SendType DEF RetryAccept
    <3> QED BY <2>2, <3>1 DEF RetryAccept, TypeOK
  <2>3. CASE ScheduleFriendRequestRetry(p)
    BY <2>3 DEF ScheduleFriendRequestRetry, AddJob, TypeOK
  <2> QED BY <1>18, <2>1, <2>2, <2>3 DEF RetryStep
<1>19. ASSUME NEW r \in Requests, Abandon(p, r)
       PROVE  TypeOK'
  <2>1. req' \in [Peers -> [Requests -> Rows]]
    BY <1>6, <1>7, <1>19, SetRowType DEF Abandon
  <2>2. left' \in [Uses -> Nat]
    BY <1>2, <1>19, UseType DEF Abandon
  <2> QED BY <1>19, <2>1, <2>2 DEF Abandon, DropJob, TypeOK
<1>20. CASE Restart(p)
  <2>1. PICK o : Put(p, o) /\ Sound(p, o)
    BY <1>20, RestartPuts
  <2>2. left' \in [Uses -> Nat]
    BY <1>2, <1>20, UseType DEF Restart
  <2>3. o \in Databases
    BY <2>1 DEF Sound
  <2> QED BY <1>2, <1>20, <2>1, <2>2, <2>3, PutType DEF Restart, TypeOK
<1> QED BY <1>1, <1>2, <1>9, <1>10, <1>11, <1>12, <1>13, <1>14, <1>15, <1>16, <1>17, <1>18, <1>19, <1>20
        DEF ApiStep, HandlerStep

-----------------------------------------------------------------------------
(* Rows: what becomes of requests                                           *)

\* What one step may do to a row of node q: create one for a request that was sent;
\* rewrite it without opening it again; delete it.
RowMoves(q, i) ==
    \/ req'[q][i].st = "none"
    \/ /\ req[q][i].st # "none"
       /\ req[q][i].st \in Decided => req'[q][i].st # "pending"
       /\ Recipient(i) = q => req'[q][i].key = req[q][i].key \/ req'[q][i].key = Other(q)
    \/ /\ req[q][i].st = "none" /\ req'[q][i].st = "pending"
       /\ i \in sent' /\ (Recipient(i) = q => req'[q][i].key = Other(q))

\* A node's databases mended: its rows move.
LEMMA PutMoves ==
  ASSUME TypeOK, Keys, NEW p \in Peers, NEW o, Put(p, o), Sound(p, o), Mends(State(p), o),
         NEW q \in Peers, NEW i \in Requests
  PROVE  RowMoves(q, i)
<1>1. o \in Databases
  BY DEF Sound
<1>2. CASE q # p
  <2>1. req'[q] = req[q]
    BY <1>1, <1>2, PutType
  <2> QED BY <2>1 DEF RowMoves, Decided
<1>3. CASE q = p
  <2>1. req'[p] = o.rows
    BY <1>1, PutType
  <2>2. State(p).rows = req[p]
    BY DEF State
  <2> QED BY <1>3, <2>1, <2>2 DEF RowMoves, Decided, Sound, Mends
<1> QED BY <1>2, <1>3

\* Every step moves rows so.
LEMMA RowsStep ==
  ASSUME TypeOK, Keys, SentFirst, Next, NEW q \in Peers, NEW i \in Requests
  PROVE  RowMoves(q, i)
<1>1. PICK p \in Peers :
        \/ UserCall(p) \/ ApiStep(p) \/ HandlerStep(p)
        \/ \E e \in net : ReceiveFriendControl(p, e) \/ ReceiveText(p, e) \/ RefuseText(p, e)
        \/ RetryStep(p)
        \/ \E r \in Requests : Abandon(p, r)
        \/ Restart(p)
  BY DEF Next
<1>2. /\ req \in [Peers -> [Requests -> Rows]] /\ req[q][i] \in Rows
      /\ req[q][i].st \in {"none", "pending", "accepted", "rejected", "blocked"}
      /\ Decided = {"accepted", "rejected", "blocked"}
  BY DEF TypeOK, Rows, Decided
<1>3. ASSUME req'[q][i] = req[q][i] PROVE RowMoves(q, i)
  BY <1>2, <1>3 DEF RowMoves
<1>4. ASSUME req'[q][i].st \in Decided \cup {req[q][i].st}, req'[q][i].key = req[q][i].key,
             req[q][i].st # "none"
      PROVE  RowMoves(q, i)
  BY <1>2, <1>4 DEF RowMoves
<1>5. ASSUME NEW r, NEW row, SetRow(p, r, row),
             r \in Requests => /\ row \in Rows /\ row.st \in Decided \cup {req[p][r].st}
                               /\ row.key \in {req[p][r].key, Other(p)}
      PROVE  RowMoves(q, i)
  <2>1. \/ req'[q][i] = req[q][i]
        \/ q = p /\ i = r /\ req[q][i].st # "none" /\ req'[q][i] = row
    BY <1>5, SetRowType
  <2> QED BY <1>2, <1>3, <1>5, <2>1 DEF RowMoves
<1>6. ASSUME NEW r, NEW t \in Decided, NEW b \in BOOLEAN,
             SetRow(p, r, [req[p][r] EXCEPT !.st = t, !.conv = b])
      PROVE  RowMoves(q, i)
  <2> DEFINE row == [req[p][r] EXCEPT !.st = t, !.conv = b]
  <2>1. ASSUME r \in Requests
        PROVE  row \in Rows /\ row.st = t /\ row.key = req[p][r].key
    <3>1. req[p][r] \in Rows
      BY <1>2, <2>1
    <3> QED BY <3>1 DEF Rows
  <2>2. SetRow(p, r, row)
    BY <1>6
  <2> HIDE DEF row
  <2> QED BY <1>5, <2>1, <2>2
<1>7. \A r \in Requests : req[p][r] \in Rows
  BY <1>2
<1>8. ASSUME NEW r \in Requests, SendRequest(p, r)
      PROVE  RowMoves(q, i)
  <2>1. req[p][r].st = "none"
    BY <1>7, <1>8 DEF SendRequest, SentFirst
  <2>2. Recipient(r) # p /\ r \in sent'
    BY <1>8, Recipients DEF SendRequest
  <2>3. req' = [req EXCEPT ![p][r] = [st |-> "pending", key |-> p, conv |-> FALSE]]
    BY <1>8 DEF SendRequest
  <2>4. \/ req'[q][i] = req[q][i]
        \/ q = p /\ i = r /\ req'[q][i] = [st |-> "pending", key |-> p, conv |-> FALSE]
    BY <1>2, <2>3
  <2> QED BY <1>3, <2>1, <2>2, <2>4 DEF RowMoves
<1>9. ASSUME NEW r \in Requests, RejectRequest(p, r) \/ RetryDrop(p, r) \/ RetryPending(p, r) \/ Abandon(p, r)
      PROVE  RowMoves(q, i)
  <2>1. CASE UNCHANGED req
    BY <1>3, <2>1
  <2>2. CASE SetRow(p, r, req[p][r])
    BY <1>5, <1>7, <2>2
  <2>3. CASE SetRow(p, r, [req[p][r] EXCEPT !.st = "rejected", !.conv = FALSE])
    BY <1>2, <1>6, <2>3, Zenon
  <2>4. CASE SetRow(p, r, [req[p][r] EXCEPT !.st = "blocked", !.conv = FALSE])
    BY <1>2, <1>6, <2>4, Zenon
  <2>5. CASE Abandon(p, r)
    <3>1. CASE req[p][r].st = "pending"
      BY <2>3, <2>5, <3>1, Zenon DEF Abandon
    <3>2. CASE req[p][r].st # "pending"
      BY <2>2, <2>5, <3>2, Zenon DEF Abandon
    <3> QED BY <3>1, <3>2
  <2> QED BY <1>9, <2>1, <2>2, <2>3, <2>4, <2>5, Zenon DEF RejectRequest, RetryDrop, RetryPending
<1>10. ASSUME NEW s \in Slots, StoreAccepted(p, s)
       PROVE  RowMoves(q, i)
  BY <1>2, <1>6, <1>10, Zenon DEF StoreAccepted
<1>11. CASE StoreRejected(p)
  BY <1>2, <1>6, <1>11, Zenon DEF StoreRejected
<1>12. CASE UpdateRequestRemoteChatKexPub(p)
  <2> DEFINE r == task[p]["in"].r
             row == [req[p][r] EXCEPT !.key = task[p]["in"].key]
  <2>1. task[p]["in"].key = Other(p) /\ Other(p) \in Peers
    BY <1>12, OtherNode DEF UpdateRequestRemoteChatKexPub, Keys, Establishing, Slots
  <2>2. ASSUME r \in Requests
        PROVE  row \in Rows /\ row.st = req[p][r].st /\ row.key = Other(p)
    <3>1. req[p][r] \in Rows
      BY <1>2, <2>2
    <3> QED BY <2>1, <3>1 DEF Rows
  <2>3. SetRow(p, r, row)
    BY <1>12 DEF UpdateRequestRemoteChatKexPub
  <2> HIDE DEF row, r
  <2> QED BY <1>5, <2>2, <2>3
<1>13. CASE UpsertIncomingRequest(p)
  <2> DEFINE r == task[p]["in"].r
  <2>1. task[p]["in"].key = Other(p) /\ r \in Requests /\ r \in sent' /\ Other(p) \in Peers
    BY <1>13, OtherNode DEF UpsertIncomingRequest, Keys, SentFirst, Slots
  <2>2. req' = [req EXCEPT ![p][r] = Upserted(req[p][r], Other(p))]
    BY <1>2, <1>13, <2>1 DEF UpsertIncomingRequest
  <2>3. \/ req'[q][i] = req[q][i]
        \/ q = p /\ i = r /\ req'[q][i] = Upserted(req[q][i], Other(q))
    BY <1>2, <2>1, <2>2
  <2>4. /\ Upserted(req[q][i], Other(q)).key = Other(q)
        /\ Upserted(req[q][i], Other(q)).st = IF req[q][i].st \in Decided THEN req[q][i].st ELSE "pending"
    BY <1>2 DEF Upserted, Rows
  <2> QED BY <1>2, <1>3, <2>1, <2>3, <2>4 DEF RowMoves
<1>14. ASSUME req' = [req EXCEPT ![p] = Unlinked(@)]
       PROVE  RowMoves(q, i)
  <2>1. Unlinked(req[p])[i].st = req[p][i].st /\ Unlinked(req[p])[i].key = req[p][i].key
    BY <1>7 DEF Unlinked, Rows
  <2>2. req'[q] = IF q = p THEN Unlinked(req[p]) ELSE req[q]
    BY <1>2, <1>14
  <2> QED BY <1>2, <2>1, <2>2 DEF RowMoves
<1>15. ASSUME req' = [req EXCEPT ![p] = [r \in Requests |-> NoRow]]
       PROVE  RowMoves(q, i)
  BY <1>2, <1>15 DEF RowMoves, NoRow
<1>16. ASSUME NEW e \in net, ReceiveText(p, e)
       PROVE  RowMoves(q, i)
  BY <1>16, ReceiveTextPuts, PutMoves
<1>17. CASE Restart(p)
  BY <1>17, RestartPuts, PutMoves
<1>18. CASE UNCHANGED req
  BY <1>3, <1>18
<1> HIDE DEF RowMoves
<1> QED BY <1>1, <1>8, <1>9, <1>10, <1>11, <1>12, <1>13, <1>14, <1>15, <1>16, <1>17, <1>18
        DEF UserCall, ApiStep, HandlerStep, ReceiveFriendControl, RetryStep, AcceptRequest,
            DeleteConversationLocal, DeleteConversationData, DeletePeerAndRelatedData, DeleteContactLocal,
            SetContactBlocked, SendText, ForgetStep, StoreConversation, StoreSession, SendAccept, SendAck,
            StoreNoFriend, ReceiveRequest, ReceiveAccept, ReceiveReject, ReceiveAck, RefuseText,
            RetryAccept, ScheduleFriendRequestRetry, Slots

-----------------------------------------------------------------------------
(* Envelopes, tasks, jobs and sessions                                      *)

\* What a step may put on the net: the envelope e of a node that may send it.
Sends(e) ==
    /\ e.from \in Peers
    /\ e.type # "text" => e.key = e.from /\ e.r \in Requests
    /\ e.type = "request" => e.r \in sent'
    /\ e.type = "reject" => undone' # {}
    /\ e.type = "accept" => /\ task[e.from]["api"].pc = "done" \/ job[e.from] # {}
                            /\ UNCHANGED <<conv, sess>>
    /\ e.type = "ack" => task[e.from]["in"].pc = "done" /\ UNCHANGED <<conv, sess>>

\* The envelopes of the handshake may be sent.
LEMMA SendsEnvelope ==
  ASSUME NEW t \in {"request", "accept", "reject", "ack"}, NEW r \in Requests, NEW p \in Peers,
         t = "request" => r \in sent',
         t = "reject" => undone' # {},
         t = "accept" => (task[p]["api"].pc = "done" \/ job[p] # {}) /\ UNCHANGED <<conv, sess>>,
         t = "ack" => task[p]["in"].pc = "done" /\ UNCHANGED <<conv, sess>>
  PROVE  Sends(Envelope(t, r, p))
<1> DEFINE e == Envelope(t, r, p)
<1>1. e.type = t /\ e.r = r /\ e.from = p /\ e.key = p
  BY EnvelopeType
<1> HIDE DEF e
<1>2. Sends(e)
  BY <1>1 DEF Sends
<1> QED BY <1>2 DEF e

\* Every step sends only so.
LEMMA NetStep ==
  ASSUME TypeOK, Keys, Next, NEW e \in net', e \notin net
  PROVE  Sends(e)
<1>1. PICK p \in Peers :
        \/ UserCall(p) \/ ApiStep(p) \/ HandlerStep(p)
        \/ \E f \in net : ReceiveFriendControl(p, f) \/ ReceiveText(p, f) \/ RefuseText(p, f)
        \/ RetryStep(p)
        \/ \E r \in Requests : Abandon(p, r)
        \/ Restart(p)
  BY DEF Next
<1>2. ASSUME NEW f, Send(f) PROVE e = f
  BY <1>2 DEF Send
<1>3. ASSUME NEW r \in Requests, SendRequest(p, r) PROVE Sends(e)
  <2>1. e = Envelope("request", r, p) /\ r \in sent'
    BY <1>2, <1>3, Zenon DEF SendRequest
  <2> QED BY <2>1, SendsEnvelope
<1>4. ASSUME NEW r \in Requests, RejectRequest(p, r) PROVE Sends(e)
  <2>1. e = Envelope("reject", r, p) /\ p \in undone'
    BY <1>4 DEF RejectRequest
  <2> QED BY <2>1, SendsEnvelope
<1>5. CASE SendText(p)
  <2> DEFINE f == [type |-> "text", r |-> NoReq, from |-> p, key |-> sess[p].key, first |-> ~sess[p].sent]
  <2>1. e = f
    BY <1>5 DEF SendText
  <2>2. f.type = "text" /\ f.from = p
    OBVIOUS
  <2> HIDE DEF f
  <2> QED BY <2>1, <2>2 DEF Sends
<1>6. CASE SendAccept(p)
  <2>1. e = Envelope("accept", task[p]["api"].r, p) /\ task[p]["api"].pc = "done" /\ UNCHANGED <<conv, sess>>
    BY <1>2, <1>6, Zenon DEF SendAccept
  <2>2. task[p]["api"].r \in Requests
    BY <2>1 DEF Keys, Establishing, Slots
  <2> QED BY <2>1, <2>2, SendsEnvelope
<1>7. CASE SendAck(p)
  <2>1. e = Envelope("ack", task[p]["in"].r, p) /\ task[p]["in"].pc = "done" /\ UNCHANGED <<conv, sess>>
    BY <1>2, <1>7, Zenon DEF SendAck
  <2>2. task[p]["in"].r \in Requests
    BY <2>1 DEF Keys, Establishing, Slots
  <2> QED BY <2>1, <2>2, SendsEnvelope
<1>8. ASSUME NEW f \in net, ReceiveFriendControl(p, f) \/ ReceiveText(p, f) PROVE FALSE
  BY <1>8 DEF ReceiveFriendControl, ReceiveRequest, ReceiveAccept, ReceiveReject, ReceiveAck, ReceiveText, Take
<1>9. ASSUME NEW f \in net, RefuseText(p, f) PROVE Sends(e)
  <2>1. PICK r \in Rejections(p) : e = Envelope("reject", r, p) /\ p \in undone'
    BY <1>9 DEF RefuseText
  <2>2. r \in Requests
    BY DEF Rejections, LatestRequestBetweenPeers
  <2> QED BY <2>1, <2>2, SendsEnvelope
<1>10. ASSUME NEW r \in Requests, RetryAccept(p, r) PROVE Sends(e)
  <2>1. e = Envelope("accept", r, p) /\ r \in job[p] /\ UNCHANGED <<conv, sess>>
    BY <1>2, <1>10, Zenon DEF RetryAccept, Due
  <2> QED BY <2>1, SendsEnvelope
<1>11. CASE UNCHANGED net
  BY <1>11
<1> HIDE DEF Sends
<1>12. UserCall(p) => Sends(e)
  BY <1>3, <1>4, <1>5, <1>11 DEF UserCall, AcceptRequest, DeleteConversationLocal, DeleteContactLocal, SetContactBlocked
<1>13. ApiStep(p) \/ HandlerStep(p) => Sends(e)
  BY <1>6, <1>7, <1>11
     DEF ApiStep, HandlerStep, ForgetStep, StoreConversation, StoreSession, StoreAccepted,
         UpdateRequestRemoteChatKexPub, UpsertIncomingRequest, StoreRejected, StoreNoFriend
<1>14. RetryStep(p) => Sends(e)
  BY <1>10, <1>11 DEF RetryStep, RetryDrop, RetryPending, ScheduleFriendRequestRetry
<1>15. Restart(p) \/ (\E r \in Requests : Abandon(p, r)) => Sends(e)
  BY <1>11 DEF Restart, Abandon
<1> QED BY <1>1, <1>8, <1>9, <1>12, <1>13, <1>14, <1>15

\* What a step may do to the task s of node q.
TaskMoves(q, s) ==
    LET t == task[q][s]
        u == task'[q][s]
    IN  \/ u = t
        \/ u.pc = "idle"
        \/ u.pc = "conv" /\ s = "api" /\ u.r \in Requests /\ u.key = Other(q)
        \/ u.pc = "forget" /\ s = "api" /\ undone' # {}
        \/ u.pc = "sess" /\ u.r = t.r /\ u.key = t.key /\ t.pc = "conv" /\ conv'[q] = "active"
        \/ /\ u.pc \in {"key", "state"} /\ u.r = t.r /\ u.key = t.key /\ t.pc = "sess"
           /\ sess'[q].key = t.key /\ UNCHANGED conv
        \/ /\ u.pc \in {"state", "done"} /\ u.r = t.r /\ u.key = t.key /\ t.pc \in {"key", "state"}
           /\ UNCHANGED <<conv, sess>>
        \/ u.pc = "nofriend" /\ u.r = t.r /\ t.pc = "reject" /\ s = "in"
        \/ /\ s = "in" /\ UNCHANGED <<conv, sess>>
           /\ \E e \in net : /\ e.from = Other(q) /\ u.r = e.r /\ u.key = e.key
                             /\ <<e.type, u.pc>> \in {<<"request", "upsert">>, <<"accept", "conv">>, <<"reject", "reject">>}

\* Every step moves tasks so.
LEMMA TaskStep ==
  ASSUME TypeOK, Keys, Next, NEW q \in Peers, NEW s \in Slots
  PROVE  TaskMoves(q, s)
<1>1. PICK p \in Peers :
        \/ UserCall(p) \/ ApiStep(p) \/ HandlerStep(p)
        \/ \E f \in net : ReceiveFriendControl(p, f) \/ ReceiveText(p, f) \/ RefuseText(p, f)
        \/ RetryStep(p)
        \/ \E r \in Requests : Abandon(p, r)
        \/ Restart(p)
  BY DEF Next
<1>2. task \in [Peers -> [Slots -> Tasks]] /\ task[q][s] \in Tasks /\ Idle.pc = "idle"
  BY DEF TypeOK, Idle
<1>3. CASE UNCHANGED task
  BY <1>3 DEF TaskMoves
<1>4. ASSUME NEW c, task' = [task EXCEPT ![p][c] = Idle]
      PROVE  TaskMoves(q, s)
  <2>1. task'[q][s] \in {task[q][s], Idle}
    BY <1>2, <1>4
  <2> QED BY <1>2, <2>1 DEF TaskMoves
<1>5. ASSUME NEW c \in Slots, NEW pc, task' = [task EXCEPT ![p][c].pc = pc], ~(p = q /\ c = s)
      PROVE  TaskMoves(q, s)
  <2>1. task'[q][s] = task[q][s]
    BY <1>2, <1>5
  <2> QED BY <2>1 DEF TaskMoves
<1>6. ASSUME NEW pc, task' = [task EXCEPT ![q][s].pc = pc]
      PROVE  task'[q][s].pc = pc /\ task'[q][s].r = task[q][s].r /\ task'[q][s].key = task[q][s].key
  BY <1>2, <1>6 DEF Tasks
<1>7. ASSUME NEW r \in Requests, AcceptRequest(p, r) PROVE TaskMoves(q, s)
  <2> DEFINE t == [pc |-> "conv", r |-> r, key |-> req[p][r].key]
  <2>1. req[p][r].key = Other(p)
    BY <1>7 DEF AcceptRequest, Keys, Known
  <2>2. t.pc = "conv" /\ t.r = r /\ t.key = Other(p)
    BY <2>1
  <2>3. task' = [task EXCEPT ![p]["api"] = t]
    BY <1>7 DEF AcceptRequest
  <2> HIDE DEF t
  <2>4. \/ task'[q][s] = task[q][s]
        \/ p = q /\ s = "api" /\ task'[q][s] = t
    BY <1>2, <2>3
  <2> QED BY <2>2, <2>4 DEF TaskMoves
<1>8. CASE DeleteContactLocal(p)
  <2>1. task' = [task EXCEPT ![p]["api"].pc = "forget"] /\ undone' # {} /\ "api" \in Slots
    BY <1>8 DEF DeleteContactLocal, Slots
  <2>2. CASE p = q /\ s = "api"
    BY <1>6, <2>1, <2>2 DEF TaskMoves
  <2> QED BY <1>5, <2>1, <2>2
<1>9. ASSUME NEW c \in Slots, StoreConversation(p, c) PROVE TaskMoves(q, s)
  <2>1. task' = [task EXCEPT ![p][c].pc = "sess"] /\ task[p][c].pc = "conv" /\ conv'[p] = "active"
    BY <1>9 DEF StoreConversation, Goto, TypeOK
  <2>2. CASE p = q /\ c = s
    BY <1>6, <2>1, <2>2 DEF TaskMoves
  <2> QED BY <1>5, <2>1, <2>2
<1>10. ASSUME NEW c \in Slots, StoreSession(p, c) PROVE TaskMoves(q, s)
  <2>1. PICK pc \in {"key", "state"} : task' = [task EXCEPT ![p][c].pc = pc]
    BY <1>10 DEF StoreSession, Goto
  <2>2. sess'[p].key = task[p][c].key
    BY <1>10 DEF StoreSession, TypeOK, Session
  <2>3. task[p][c].pc = "sess" /\ UNCHANGED conv
    BY <1>10 DEF StoreSession
  <2>4. CASE p = q /\ c = s
    BY <1>6, <2>1, <2>2, <2>3, <2>4 DEF TaskMoves
  <2> QED BY <1>5, <2>1, <2>4
<1>11. ASSUME NEW c \in Slots, StoreAccepted(p, c) PROVE TaskMoves(q, s)
  <2>1. task' = [task EXCEPT ![p][c].pc = "done"] /\ task[p][c].pc = "state" /\ UNCHANGED <<conv, sess>>
    BY <1>11 DEF StoreAccepted, Goto
  <2>2. CASE p = q /\ c = s
    BY <1>6, <2>1, <2>2 DEF TaskMoves
  <2> QED BY <1>5, <2>1, <2>2
<1>12. CASE UpdateRequestRemoteChatKexPub(p)
  <2>1. task' = [task EXCEPT ![p]["in"].pc = "state"] /\ task[p]["in"].pc = "key" /\ UNCHANGED <<conv, sess>>
        /\ "in" \in Slots
    BY <1>12 DEF UpdateRequestRemoteChatKexPub, Goto, Slots
  <2>2. CASE p = q /\ "in" = s
    BY <1>6, <2>1, <2>2 DEF TaskMoves
  <2> QED BY <1>5, <2>1, <2>2
<1>13. CASE StoreRejected(p)
  <2>1. task' = [task EXCEPT ![p]["in"].pc = "nofriend"] /\ task[p]["in"].pc = "reject" /\ "in" \in Slots
    BY <1>13 DEF StoreRejected, Goto, Slots
  <2>2. CASE p = q /\ "in" = s
    BY <1>6, <2>1, <2>2 DEF TaskMoves
  <2> QED BY <1>5, <2>1, <2>2
<1>14. ASSUME NEW f \in net, ReceiveFriendControl(p, f) PROVE TaskMoves(q, s)
  <2>1. CASE UNCHANGED task
    BY <1>3, <2>1
  <2>2. CASE ~UNCHANGED task
    <3>1. PICK pc : /\ Handle(p, f, pc) /\ f.from = Other(p) /\ UNCHANGED <<conv, sess>>
                    /\ <<f.type, pc>> \in {<<"request", "upsert">>, <<"accept", "conv">>, <<"reject", "reject">>}
      BY <1>14, <2>2 DEF ReceiveFriendControl, ReceiveRequest, ReceiveAccept, ReceiveReject, ReceiveAck, Take
    <3> DEFINE t == [pc |-> pc, r |-> f.r, key |-> f.key]
    <3>2. t.pc = pc /\ t.r = f.r /\ t.key = f.key /\ task' = [task EXCEPT ![p]["in"] = t]
      BY <3>1 DEF Handle
    <3> HIDE DEF t
    <3>3. task'[q][s] = task[q][s] \/ (p = q /\ s = "in" /\ task'[q][s] = t)
      BY <1>2, <3>2
    <3> QED BY <3>1, <3>2, <3>3 DEF TaskMoves
  <2> QED BY <2>1, <2>2
<1>15. CASE Restart(p)
  <2>1. task'[q][s] \in {task[q][s], Idle}
    BY <1>2, <1>15 DEF Restart
  <2> QED BY <1>2, <2>1 DEF TaskMoves
<1> HIDE DEF TaskMoves
<1>16. UserCall(p) => TaskMoves(q, s)
  BY <1>3, <1>7, <1>8 DEF UserCall, SendRequest, RejectRequest, DeleteConversationLocal, SetContactBlocked, SendText
<1>17. ApiStep(p) \/ HandlerStep(p) => TaskMoves(q, s)
  BY <1>3, <1>4, <1>9, <1>10, <1>11, <1>12, <1>13
     DEF ApiStep, HandlerStep, ForgetStep, SendAccept, SendAck, UpsertIncomingRequest, StoreNoFriend, End, Slots
<1>18. RetryStep(p) \/ (\E r \in Requests : Abandon(p, r)) => TaskMoves(q, s)
  BY <1>3 DEF RetryStep, RetryDrop, RetryPending, RetryAccept, ScheduleFriendRequestRetry, Abandon
<1>19. (\E f \in net : ReceiveText(p, f) \/ RefuseText(p, f)) => TaskMoves(q, s)
  BY <1>3 DEF ReceiveText, RefuseText
<1> QED BY <1>1, <1>14, <1>15, <1>16, <1>17, <1>18, <1>19

\* What a step may do to the conversation and the session of node q, and to its jobs.
Settles(q) ==
    /\ sess'[q] = NoSession \/ sess'[q].key \in Peers
    /\ \/ undone' # {}
       \/ task[q]["in"].pc = "nofriend"
       \/ task[q]["api"].pc = "forget"
       \/ conv[q] = "no_friend"
       \/ /\ conv'[q] \in {conv[q], "active"}
          /\ conv[q] = "active" /\ sess[q].key = Other(q) => conv'[q] = "active" /\ sess'[q].key = Other(q)
    /\ \/ job'[q] \subseteq job[q]
       \/ task[q]["api"].pc = "done" /\ UNCHANGED <<conv, sess>>
       \/ retry[q] # NoReq /\ UNCHANGED <<conv, sess>>
    /\ retry'[q] # NoReq => retry[q] # NoReq \/ (job[q] # {} /\ UNCHANGED <<conv, sess>>)

\* Mended databases that keep the conversation settle.
LEMMA PutSettles ==
  ASSUME TypeOK, Keys, NEW p \in Peers, NEW o, Put(p, o), Sound(p, o), Mends(State(p), o),
         p \in undone' \/ Keeps(State(p), o), NEW q \in Peers, retry'[q] \in {NoReq, retry[q]}
  PROVE  Settles(q)
<1>1. o \in Databases
  BY DEF Sound
<1>2. /\ State(p).jobs = job[p] /\ State(p).conv = conv[p] /\ State(p).sess = sess[p]
  BY DEF State
<1>3. CASE q # p
  <2>1. job'[q] = job[q] /\ conv'[q] = conv[q] /\ sess'[q] = sess[q]
    BY <1>1, <1>3, PutType
  <2> QED BY <2>1 DEF Settles, Keys
<1>4. CASE q = p
  <2>1. job'[p] = o.jobs /\ conv'[p] = o.conv /\ sess'[p] = o.sess
    BY <1>1, PutType
  <2>2. Other(p) \in Peers /\ NoSession.key = NoKey /\ NoKey \notin Peers
    BY OtherNode, HandshakeAssumption DEF NoSession, Session
  <2>3. sess[p].key = Other(p) => sess[p] # NoSession
    BY <2>2
  <2> QED BY <1>2, <1>4, <2>1, <2>3 DEF Settles, Sound, Mends, Keeps
<1> QED BY <1>3, <1>4

\* Every step settles so.
LEMMA SettleStep ==
  ASSUME TypeOK, Keys, Next, NEW q \in Peers
  PROVE  Settles(q)
<1>1. PICK p \in Peers :
        \/ UserCall(p) \/ ApiStep(p) \/ HandlerStep(p)
        \/ \E f \in net : ReceiveFriendControl(p, f) \/ ReceiveText(p, f) \/ RefuseText(p, f)
        \/ RetryStep(p)
        \/ \E r \in Requests : Abandon(p, r)
        \/ Restart(p)
  BY DEF Next
<1>2. /\ conv \in [Peers -> {"none", "active", "no_friend"}] /\ sess \in [Peers -> Sessions]
      /\ job \in [Peers -> SUBSET Requests] /\ retry \in [Peers -> Requests \cup {NoReq}]
      /\ Other(q) \in Peers /\ (sess[q] = NoSession \/ sess[q].key \in Peers)
      /\ NoReq \notin Requests
  BY OtherNode, HandshakeAssumption DEF TypeOK, Keys
<1>3. ASSUME UNCHANGED <<job, conv, sess, retry>> PROVE Settles(q)
  BY <1>2, <1>3 DEF Settles
<1>4. ASSUME UNCHANGED <<conv, sess, retry>>, NEW r, DropJob(p, r) PROVE Settles(q)
  BY <1>2, <1>4 DEF Settles, DropJob
<1>5. ASSUME DeleteConversationData(p), undone' # {}, UNCHANGED retry PROVE Settles(q)
  BY <1>2, <1>5 DEF Settles, DeleteConversationData
<1>6. CASE DeleteConversationLocal(p)
  BY <1>5, <1>6 DEF DeleteConversationLocal
<1>7. CASE SendText(p)
  <2>1. UNCHANGED <<conv, job, retry>>
    BY <1>7 DEF SendText
  <2>2. sess'[q].key = sess[q].key /\ sess[p] # NoSession /\ (q # p => sess'[q] = sess[q])
    BY <1>2, <1>7 DEF SendText, Sessions
  <2>3. sess[p].key \in Peers
    BY <2>2 DEF Keys
  <2> QED BY <1>2, <2>1, <2>2, <2>3 DEF Settles
<1>8. CASE ForgetStep(p)
  <2>1. sess'[q] = NoSession \/ sess'[q].key \in Peers
    BY <1>2, <1>8 DEF ForgetStep, DeleteConversationData
  <2>2. task[p]["api"].pc = "forget" /\ UNCHANGED retry /\ job'[q] \subseteq job[q]
        /\ (q # p => conv'[q] = conv[q] /\ sess'[q] = sess[q])
    BY <1>2, <1>8 DEF ForgetStep, DeleteConversationData, DeletePeerAndRelatedData
  <2> QED BY <1>2, <2>1, <2>2 DEF Settles
<1>9. ASSUME NEW c \in Slots, StoreConversation(p, c) PROVE Settles(q)
  BY <1>2, <1>9 DEF Settles, StoreConversation
<1>10. ASSUME NEW c \in Slots, StoreSession(p, c) PROVE Settles(q)
  <2>1. task[p][c].key = Other(p) /\ Other(p) \in Peers
    BY <1>10, OtherNode DEF StoreSession, Keys, Establishing
  <2>2. sess'[q].key = sess[q].key \/ sess'[q].key = Other(q)
    BY <1>2, <1>10, <2>1 DEF StoreSession, Session
  <2>3. q # p => sess'[q] = sess[q]
    BY <1>2, <1>10 DEF StoreSession
  <2>4. sess'[p].key = Other(p)
    BY <1>2, <1>10, <2>1 DEF StoreSession, Session
  <2> QED BY <1>2, <1>10, <2>1, <2>2, <2>3, <2>4 DEF Settles, StoreSession
<1>11. CASE SendAccept(p)
  <2>1. UNCHANGED <<conv, sess, retry>> /\ job' = [job EXCEPT ![p] = @ \cup {task[p]["api"].r}]
        /\ task[p]["api"].pc = "done"
    BY <1>11 DEF SendAccept, AddJob
  <2>2. q # p => job'[q] = job[q]
    BY <1>2, <2>1
  <2> QED BY <1>2, <2>1, <2>2 DEF Settles
<1>12. CASE StoreNoFriend(p)
  <2>1. task[p]["in"].pc = "nofriend" /\ UNCHANGED <<sess, retry>> /\ job'[q] \subseteq job[q]
        /\ (q # p => conv'[q] = conv[q])
    BY <1>2, <1>12 DEF StoreNoFriend, DropJob
  <2> QED BY <1>2, <2>1 DEF Settles
<1>13. ASSUME NEW f \in net, ReceiveText(p, f) PROVE Settles(q)
  <2>1. retry'[q] \in {NoReq, retry[q]}
    BY <1>13 DEF ReceiveText
  <2> QED BY <1>13, <2>1, ReceiveTextPuts, PutSettles
<1>14. CASE Restart(p)
  <2>1. retry'[q] \in {NoReq, retry[q]}
    BY <1>2, <1>14 DEF Restart
  <2> QED BY <1>14, <2>1, RestartPuts, PutSettles
<1>15. ASSUME NEW r \in Requests, RetryAccept(p, r) PROVE Settles(q)
  <2>1. UNCHANGED <<conv, sess, job>> /\ retry' = [retry EXCEPT ![p] = r] /\ r \in job[p]
    BY <1>15 DEF RetryAccept, Due
  <2>2. retry'[q] = retry[q] \/ job[q] # {}
    BY <1>2, <2>1
  <2> QED BY <1>2, <2>1, <2>2 DEF Settles
<1>16. CASE ScheduleFriendRequestRetry(p)
  <2>1. UNCHANGED <<conv, sess>> /\ retry[p] # NoReq /\ (q # p => job'[q] = job[q] /\ retry'[q] = retry[q])
        /\ retry'[q] \in {NoReq, retry[q]}
    BY <1>2, <1>16 DEF ScheduleFriendRequestRetry, AddJob
  <2> QED BY <1>2, <2>1 DEF Settles
<1> HIDE DEF Settles
<1>17. UserCall(p) => Settles(q)
  BY <1>3, <1>6, <1>7 DEF UserCall, SendRequest, AcceptRequest, RejectRequest, DeleteContactLocal, SetContactBlocked
<1>18. ApiStep(p) => Settles(q)
  BY <1>3, <1>8, <1>9, <1>10, <1>11 DEF ApiStep, StoreAccepted, Slots
<1>19. HandlerStep(p) => Settles(q)
  BY <1>3, <1>4, <1>9, <1>10, <1>12
     DEF HandlerStep, StoreAccepted, SendAck, UpdateRequestRemoteChatKexPub, UpsertIncomingRequest, StoreRejected, Slots
<1>20. RetryStep(p) \/ (\E r \in Requests : Abandon(p, r)) => Settles(q)
  BY <1>4, <1>15, <1>16 DEF RetryStep, RetryDrop, RetryPending, Abandon
<1>21. (\E f \in net : ReceiveFriendControl(p, f) \/ RefuseText(p, f)) => Settles(q)
  BY <1>3, <1>4 DEF ReceiveFriendControl, ReceiveRequest, ReceiveAccept, ReceiveReject, ReceiveAck, RefuseText
<1> QED BY <1>1, <1>13, <1>14, <1>17, <1>18, <1>19, <1>20, <1>21

-----------------------------------------------------------------------------
(* The invariant                                                            *)

\* What was sent and what was undone stays so.
LEMMA HistoryGrows ==
  ASSUME Next
  PROVE  sent \subseteq sent' /\ undone \subseteq undone'
<1>1. PICK p \in Peers :
        \/ UserCall(p) \/ ApiStep(p) \/ HandlerStep(p)
        \/ \E f \in net : ReceiveFriendControl(p, f) \/ ReceiveText(p, f) \/ RefuseText(p, f)
        \/ RetryStep(p)
        \/ \E r \in Requests : Abandon(p, r)
        \/ Restart(p)
  BY DEF Next
<1>2. UserCall(p) => sent \subseteq sent' /\ undone \subseteq undone'
  BY DEF UserCall, SendRequest, AcceptRequest, RejectRequest, DeleteConversationLocal, DeleteContactLocal,
         SetContactBlocked, SendText
<1>3. ApiStep(p) \/ HandlerStep(p) => sent \subseteq sent' /\ undone \subseteq undone'
  BY DEF ApiStep, HandlerStep, ForgetStep, StoreConversation, StoreSession, StoreAccepted, SendAccept, SendAck,
         UpdateRequestRemoteChatKexPub, UpsertIncomingRequest, StoreRejected, StoreNoFriend
<1>4. RetryStep(p) \/ Restart(p) \/ (\E r \in Requests : Abandon(p, r)) => sent \subseteq sent' /\ undone \subseteq undone'
  BY DEF RetryStep, RetryDrop, RetryPending, RetryAccept, ScheduleFriendRequestRetry, Abandon, Restart
<1>5. (\E f \in net : ReceiveFriendControl(p, f) \/ ReceiveText(p, f) \/ RefuseText(p, f))
      => sent \subseteq sent' /\ undone \subseteq undone'
  BY DEF ReceiveFriendControl, ReceiveRequest, ReceiveAccept, ReceiveReject, ReceiveAck, ReceiveText, RefuseText
<1> QED BY <1>1, <1>2, <1>3, <1>4, <1>5

\* SentFirst is preserved.
LEMMA SentStep ==
  ASSUME TypeOK, Keys, SentFirst, Next
  PROVE  SentFirst'
<1>1. \A q \in Peers, i \in Requests : req'[q][i].st # "none" => i \in sent'
  BY RowsStep, HistoryGrows DEF RowMoves, SentFirst
<1>2. \A e \in net' : e.type = "request" => e.r \in sent'
  BY NetStep, HistoryGrows DEF Sends, SentFirst
<1>3. \A p \in Peers : task'[p]["in"].pc = "upsert" => task'[p]["in"].r \in sent'
  <2> SUFFICES ASSUME NEW p \in Peers, task'[p]["in"].pc = "upsert" PROVE task'[p]["in"].r \in sent'
    OBVIOUS
  <2>1. TaskMoves(p, "in")
    BY TaskStep DEF Slots
  <2> QED BY <2>1, HistoryGrows DEF TaskMoves, SentFirst
<1> QED BY <1>1, <1>2, <1>3 DEF SentFirst

\* Keys is preserved.
LEMMA KeysStep ==
  ASSUME TypeOK, Keys, SentFirst, Next
  PROVE  Keys'
<1>1. \A p \in Peers, r \in Requests : Recipient(r) = p /\ req'[p][r].st # "none" => req'[p][r].key = Other(p)
  BY RowsStep DEF RowMoves, Keys
<1>2. \A p \in Peers : sess'[p] = NoSession \/ sess'[p].key \in Peers
  BY SettleStep DEF Settles
<1>3. ASSUME NEW p \in Peers, NEW s \in Slots
      PROVE  /\ task'[p][s].pc \in Establishing \cup {"upsert"} => task'[p][s].key = Other(p)
             /\ task'[p][s].pc \in Establishing \cup {"upsert", "reject", "nofriend"} => task'[p][s].r \in Requests
  <2>1. TaskMoves(p, s)
    BY TaskStep
  <2>2. /\ task[p][s].pc \in Establishing \cup {"upsert"} => task[p][s].key = Other(p)
        /\ task[p][s].pc \in Establishing \cup {"upsert", "reject", "nofriend"} => task[p][s].r \in Requests
    BY DEF Keys
  <2>3. \A e \in net : e.type # "text" => e.key = e.from /\ e.r \in Requests
    BY DEF Keys
  <2> QED BY <2>1, <2>2, <2>3 DEF TaskMoves, Establishing
<1>4. \A e \in net' : e.type # "text" => e.key = e.from /\ e.r \in Requests
  BY NetStep DEF Sends, Keys
<1> QED BY <1>1, <1>2, <1>3, <1>4 DEF Keys

\* Friends is preserved.
LEMMA FriendsStep ==
  ASSUME TypeOK, Keys, Friends, Next, undone' = {}
  PROVE  Friends'
<1>1. undone = {}
  BY HistoryGrows
<1>2. \A p \in Peers : /\ conv[p] \in {"none", "active", "no_friend"} /\ conv[p] # "no_friend"
                       /\ task[p]["in"].pc \notin {"reject", "nofriend"} /\ task[p]["api"].pc # "forget"
  BY <1>1 DEF Friends, TypeOK
<1>3. ASSUME NEW p \in Peers
      PROVE  conv'[p] \in {conv[p], "active"} /\ (Ready(p) => Ready(p)')
  BY <1>2, SettleStep DEF Settles, Ready
<1>4. \A p \in Peers : Other(p) \in Peers
  BY OtherNode
<1>5. ASSUME NEW p \in Peers, NEW s \in Slots
      PROVE  /\ task'[p][s].pc = "sess" => conv'[p] = "active"
             /\ task'[p][s].pc \in {"key", "state", "done"} => Ready(p)'
  <2>1. TaskMoves(p, s)
    BY TaskStep
  <2>2. /\ task[p][s].pc = "sess" => conv[p] = "active"
        /\ task[p][s].pc \in {"key", "state", "done"} => Ready(p)
        /\ task[p][s].pc = "sess" => task[p][s].key = Other(p)
    BY <1>1 DEF Friends, Keys, Establishing
  <2>3. CASE task'[p][s] = task[p][s]
    BY <1>3, <2>2, <2>3
  <2> QED BY <1>3, <2>1, <2>2, <2>3 DEF TaskMoves, Ready
<1>6. ASSUME NEW p \in Peers
      PROVE  /\ task'[p]["in"].pc \notin {"reject", "nofriend"} /\ task'[p]["api"].pc # "forget"
             /\ task'[p]["in"].pc \in Establishing => Ready(Other(p))'
  <2>1. TaskMoves(p, "in") /\ TaskMoves(p, "api")
    BY TaskStep DEF Slots
  <2>2. task'[p]["api"].pc # "forget"
    BY <1>2, <2>1 DEF TaskMoves
  <2>3. \A e \in net : e.type # "reject" /\ (e.type = "accept" => Ready(e.from))
    BY <1>1 DEF Friends
  <2>4. task[p]["in"].pc \in Establishing => Ready(Other(p))
    BY <1>1 DEF Friends
  <2>5. task'[p]["in"].pc \notin {"reject", "nofriend"}
    BY <1>2, <2>1, <2>3 DEF TaskMoves
  <2>6. task'[p]["in"].pc \in Establishing => Ready(Other(p))
    BY <2>1, <2>3, <2>4 DEF TaskMoves, Establishing
  <2> QED BY <1>3, <1>4, <2>2, <2>5, <2>6
<1>7. ASSUME NEW p \in Peers
      PROVE  job'[p] # {} \/ retry'[p] # NoReq => Ready(p)'
  <2>1. (job[p] # {} \/ retry[p] # NoReq => Ready(p)) /\ (task[p]["api"].pc = "done" => Ready(p))
    BY <1>1 DEF Friends, Slots
  <2> QED BY <1>3, <2>1, SettleStep DEF Settles
<1>8. ASSUME NEW e \in net'
      PROVE  /\ e.type # "reject"
             /\ e.type = "accept" => Ready(e.from)'
             /\ e.type = "ack" => \A p \in Peers : Ready(p)'
  <2>1. CASE e \in net
    <3>1. e.from \in Peers
      BY <2>1 DEF TypeOK, Envelopes
    <3> QED BY <1>1, <1>3, <2>1, <3>1 DEF Friends
  <2>2. CASE e \notin net
    <3>1. Sends(e)
      BY <2>2, NetStep
    <3>2. e.type # "reject" /\ e.from \in Peers
      BY <3>1 DEF Sends
    <3>3. e.type = "accept" => Ready(e.from)
      BY <1>1, <3>1, <3>2 DEF Sends, Friends, Slots
    <3>4. e.type = "ack" => Ready(e.from) /\ Ready(Other(e.from))
      BY <1>1, <3>1, <3>2 DEF Sends, Friends, Slots, Establishing
    <3>5. \A p \in Peers : p = e.from \/ p = Other(e.from)
      BY <3>2, OtherNode
    <3>6. e.type = "ack" => \A p \in Peers : Ready(p)
      BY <3>4, <3>5
    <3> QED BY <1>3, <3>2, <3>3, <3>6
  <2> QED BY <2>1, <2>2
<1>9. \A p \in Peers : conv'[p] # "no_friend"
  BY <1>2, <1>3
<1> QED BY <1>5, <1>6, <1>7, <1>8, <1>9 DEF Friends

\* HandshakeInv holds at the start.
LEMMA HandshakeInit == Init => HandshakeInv
<1> SUFFICES ASSUME Init PROVE HandshakeInv
  OBVIOUS
<1>1. /\ NoRow \in Rows /\ NoRow.st = "none" /\ NoSession \in Sessions /\ Idle \in Tasks /\ Idle.pc = "idle"
      /\ Slots = {"api", "in"}
  BY DEF NoRow, Rows, NoSession, Session, Sessions, Idle, Tasks, Slots
<1>2. left \in [Uses -> Nat]
  BY HandshakeAssumption DEF Init
<1>3. TypeOK
  BY <1>1, <1>2 DEF Init, TypeOK
<1>4. Keys /\ SentFirst
  BY <1>1 DEF Init, Keys, SentFirst, Establishing
<1>5. Friends
  BY <1>1 DEF Init, Friends, Establishing
<1> QED BY <1>3, <1>4, <1>5 DEF HandshakeInv

\* HandshakeInv is inductive, whatever is lost, copied or reordered, whoever crashes,
\* and whatever the users do.
THEOREM HandshakeInvariance == Spec => []HandshakeInv
<1>1. HandshakeInv /\ [Next]_vars => HandshakeInv'
  <2> SUFFICES ASSUME HandshakeInv, [Next]_vars PROVE HandshakeInv'
    OBVIOUS
  <2>1. CASE Next
    <3>1. TypeOK /\ Keys /\ SentFirst /\ Friends
      BY DEF HandshakeInv
    <3>2. undone' # {} => Friends'
      BY DEF Friends
    <3> QED BY <2>1, <3>1, <3>2, TypeStep, KeysStep, SentStep, FriendsStep DEF HandshakeInv
  <2>2. CASE UNCHANGED vars
    BY <2>2 DEF vars, HandshakeInv, TypeOK, Keys, SentFirst, Friends, Ready
  <2> QED BY <2>1, <2>2
<1> QED BY HandshakeInit, <1>1, PTL DEF Spec

\* Type correctness of the databases, tasks and envelopes.
THEOREM HandshakeTypeCorrect == Spec => []TypeOK
<1>1. HandshakeInv => TypeOK
  BY DEF HandshakeInv
<1> QED BY HandshakeInvariance, <1>1, PTL

\* An ack under way means that both nodes are ready, unless a user undid the
\* friendship (handleIncomingSessionAccept, sendSessionAcceptAck).
THEOREM AckMeansBothAlways == Spec => []AckMeansBoth
<1>1. HandshakeInv => AckMeansBoth
  BY DEF HandshakeInv, Friends, AckMeansBoth
<1> QED BY HandshakeInvariance, <1>1, PTL

\* A decided request is never pending again (UpsertIncomingRequest).
THEOREM NeverReopenedAlways == Spec => NeverReopened
<1>1. HandshakeInv /\ [Next]_vars =>
        [\A p \in Peers, r \in Requests : req[p][r].st \in Decided => req'[p][r].st # "pending"]_vars
  <2> SUFFICES ASSUME HandshakeInv, Next, NEW p \in Peers, NEW r \in Requests, req[p][r].st \in Decided
               PROVE  req'[p][r].st # "pending"
    OBVIOUS
  <2>1. RowMoves(p, r)
    BY RowsStep DEF HandshakeInv
  <2> QED BY <2>1 DEF RowMoves, Decided
<1> QED BY HandshakeInvariance, <1>1, PTL DEF Spec, NeverReopened

=============================================================================
