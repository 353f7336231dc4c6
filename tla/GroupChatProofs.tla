--------------------------- MODULE GroupChatProofs ---------------------------
(***************************************************************************)
(* GroupChat implements GroupLog, and what the replicas and the keys of a  *)
(* group owe to it, for any number of nodes, messages and events.          *)
(*                                                                         *)
(* Nothing in the code compares two replicas.  That the log does not fork  *)
(* rests on who may append: a node whose row names it as the controller    *)
(* has every event of the log, because the event after its last one would  *)
(* have been signed by itself (HasNewest).                                 *)
(*                                                                         *)
(* The second half is about texts: an acknowledgement under way means that *)
(* its sender has stored the message (Receipts), and what is stored stays  *)
(* until it is revoked or expires (Lasts), unless an author uses a number  *)
(* twice, which NumbersHold rules out where calls do not overlap.          *)
(***************************************************************************)
EXTENDS GroupChat, FiniteSetTheorems, WellFoundedInduction, TLAPS

-----------------------------------------------------------------------------
(* The situations the theorems are about                                    *)

\* Only the controller numbers events, and a controller that may have handed its
\* role on keeps its records: one that has purged them and is told of the group by
\* an old invite may apply an old transfer to itself and number events again.
Ordered == ~scope.delegated /\ ~({"purge", "transfer"} \subseteq Ops)

-----------------------------------------------------------------------------
(* The log                                                                  *)

\* Whom the rows of a replica name as the controller after e.
After(e) == IF e.type = "transfer" THEN e.target ELSE e.signer

\* e is an event that may come right after g.
Succeeds(g, e) ==
    /\ e.seq = g.seq + 1
    /\ e.signer = After(g)
    /\ e.epoch = IF e.type \in Rotations THEN g.epoch + 1 ELSE g.epoch

\* The payload of an event.
Sane(e) ==
    /\ e.type = "title" => e.val \in 0 .. MaxSeq
    /\ e.type = "invite" => e.val \in 0 .. MaxSeq /\ e.target # e.signer
    /\ e.type = "retention" => e.val \in 0 .. 1
    /\ e.type = "revoke" => e.val \in Msgs /\ "revoke" \in Ops
    /\ e.type = "transfer" => "transfer" \in Ops
    /\ e.epoch <= e.seq

\* t is the title after the first n events of L.
Names == {"create", "title"}
TitleIs(L, n, t) ==
    \E x \in L : /\ x.type \in Names /\ x.seq <= n /\ x.val = t
                 /\ \A f \in L : f.type \in Names /\ f.seq <= n => f.seq <= x.seq

\* One sequence without a gap, in which every event follows the one before.
LogOK ==
    /\ log \subseteq Events
    /\ log # {} => \E e \in log : \A f \in log : f.seq <= e.seq
    /\ \A e, f \in log : e.seq = f.seq => e = f
    /\ \A e \in log : Sane(e) /\ e.seq >= 1 /\ (e.seq = 1 <=> e.type = "create")
    /\ \A e \in log : \A n \in 1 .. e.seq : \E f \in log : f.seq = n
    /\ \A g, e \in log : e.seq = g.seq + 1 => Succeeds(g, e)
    /\ \A e \in log : e.type = "invite" => TitleIs(log, e.seq, e.val)

-----------------------------------------------------------------------------
(* The replicas                                                             *)

\* The rows of replica d are those of a node that stands at event e of log L.
StandsIn(L, d, e) ==
    /\ d.last = e.seq /\ d.ctrl = After(e) /\ d.epoch = e.epoch
    /\ d.state = (IF e.type = "dissolve" THEN "archived" ELSE "active")
    /\ TitleIs(L, e.seq, d.title)
StandsAt(d, e) == StandsIn(log, d, e)

\* The events of a replica are a window of the log that ends at its last one.
ReplicaIn(L, d) ==
    /\ ~d.known => d.events = {}
    /\ d.known =>
          /\ d.events \subseteq L
          /\ \A f \in d.events : f.seq <= d.last /\ \A n \in f.seq .. d.last : \E g \in d.events : g.seq = n
          /\ \E e \in d.events : StandsIn(L, d, e)
ReplicaOK(d) == ReplicaIn(log, d)

\* A node that has records of the group has every event it has signed.
Signers ==
    /\ \A e \in log : db[e.signer].known => e.seq <= db[e.signer].last
    /\ "purge" \notin Ops => \A e \in log : db[e.signer].known
    /\ "transfer" \notin Ops => \A e, f \in log : e.signer = f.signer

\* What is under way are events of the log, and none goes to its signer.
Addressed(e, q) == e \in log /\ e.signer # q
Carried ==
    /\ \A x \in ctl : Addressed(x[2], x[1])
    /\ \A j \in evjobs : Addressed(j[2], j[3])
    /\ \A p \in Peers : /\ answer[p].events \in Seq(log)
                        /\ \A i \in 1 .. Len(answer[p].events) : Addressed(answer[p].events[i], p)

\* A prepared event follows one the node has: while the call runs the node stays
\* the controller, and other calls can only append.
Prepared(p, e) ==
    /\ e \in Events /\ Sane(e) /\ e.type # "create"
    /\ db[p].known /\ db[p].state = "active" /\ db[p].ctrl = p
    /\ \E g \in db[p].events : Succeeds(g, e) /\ After(g) = p
    /\ e.type = "invite" => TitleIs(log, e.seq - 1, e.val)
PrepOK == \A p \in Peers : prep[p] # NoEvent => Prepared(p, prep[p])

\* The sender numbers: none is greater than the number of messages sent.
Numbered(t, n) == t.sseq <= n
Room ==
    /\ \A p \in Peers : \A t \in db[p].msgs \cup answer[p].texts : Numbered(t, Cardinality(added))
    /\ \A x \in texts : Numbered(x[2], Cardinality(added))
    /\ \A m \in Msgs : sealed[m] # <<>> => Numbered(sealed[m][1], Cardinality(added \cup {m}))

GroupInv == TypeOK /\ LogOK /\ (\A p \in Peers : ReplicaOK(db[p])) /\ Signers /\ Carried /\ PrepOK /\ Room

-----------------------------------------------------------------------------
(* Keys                                                                     *)

\* Among the first n events of L the last one that invites q or lets it go lets it go.
Departs == {"leave", "remove"}
Gone(L, q, n) ==
    \E e \in L : /\ e.type \in Departs /\ e.target = q /\ e.seq <= n
                 /\ \A f \in L : f.type = "invite" /\ f.target = q /\ f.seq <= n => f.seq < e.seq

\* q was in the group at some time after e.
Reach(L, q, e) == \E g \in L : g.seq >= e.seq /\ ~Gone(L, q, g.seq)

\* Whom an event counts in was not gone.
Present(L, e, n) ==
    /\ ~Gone(L, e.signer, n) 
    /\ e.type \in {"join", "transfer"} => ~Gone(L, e.target, n)
    /\ e.type = "invite" => \A q \in e.holders \ {e.target} : ~Gone(L, q, n)
    /\ e.type \in Departs => e.target # e.signer /\ e.target \notin e.holders
EpochsGrow ==
    \A e, f \in log : e.seq < f.seq =>
        e.epoch <= f.epoch /\ (f.type \in Rotations => e.epoch < f.epoch)
MayHear(q, e) == (e.type \in Departs /\ e.target = q) \/ Reach(log, q, e)
KeysOK ==
    /\ EpochsGrow
    /\ \A e \in log : Present(log, e, e.seq)
    /\ \A p \in Peers : db[p].known => \A q \in Members(db[p]) : ~Gone(log, q, db[p].last)
    /\ \A p \in Peers : prep[p] # NoEvent => Present(log, prep[p], prep[p].seq - 1)
    /\ \A r \in requests : r[2] # r[3]
    /\ \A x \in ctl : MayHear(x[1], x[2])
    /\ \A j \in evjobs : MayHear(j[3], j[2])
    /\ \A p \in Peers : \A i \in 1 .. Len(answer[p].events) : MayHear(p, answer[p].events[i])
    /\ \A p \in Peers : \A n \in Epochs : db[p].keys[n] > NoKey => \E e \in log : e.epoch = n /\ Reach(log, p, e)

-----------------------------------------------------------------------------
(* The transactions                                                         *)

\* The columns that carry the control state.
SameRows(o, d) ==
    /\ o.known = d.known /\ o.ctrl = d.ctrl /\ o.epoch = d.epoch /\ o.state = d.state
    /\ o.last = d.last /\ o.title = d.title /\ o.events = d.events
    /\ o.keys = d.keys /\ o.status = d.status

\* What the transaction of e makes of replica d of node p.
Rows(p, d, e, o) ==
    /\ o.known = d.known /\ o.last = e.seq /\ o.events = d.events \cup {e}
    /\ o.ctrl = (IF e.type = "transfer" THEN e.target ELSE d.ctrl)
    /\ o.epoch = (IF e.type \in Rotations THEN e.epoch ELSE d.epoch)
    /\ o.state = (IF e.type = "dissolve" THEN "archived" ELSE d.state)
    /\ o.title = (IF e.type = "title" THEN e.val ELSE d.title)
    /\ \A n \in Epochs : o.keys[n] > NoKey =>
          \/ o.keys[n] = d.keys[n]
          \/ n = e.epoch /\ (e.type = "invite" \/ (e.type \in Rotations /\ p \in e.holders))
    /\ \A q \in Members(o) : \/ q \in Members(d) /\ ~(e.type \in Departs /\ q = e.target)
                             \/ e.type \in {"invite", "join"} /\ q = e.target

\* What an invite makes of a node that has no records of the group.
FirstRows(e, o) ==
    /\ o.known /\ o.last = e.seq /\ o.events = {e} /\ o.ctrl = e.signer /\ o.epoch = e.epoch
    /\ o.state = "active" /\ o.title = e.val
    /\ \A n \in Epochs : o.keys[n] > NoKey => n = e.epoch
    /\ Members(o) \subseteq {e.target, e.signer} \cup e.holders

\* The fields of an event and of a replica.
LEMMA EventFields ==
  ASSUME NEW e \in Events
  PROVE  /\ e.seq \in 0 .. MaxSeq /\ e.type \in Types /\ e.signer \in Peers /\ e.target \in Peers
         /\ e.role \in Roles /\ e.epoch \in Epochs /\ e.key \in NoKey .. MaxSeq
         /\ e.holders \in SUBSET Peers /\ e.val \in Msgs \cup (0 .. MaxSeq)
         /\ e.seq \in Nat /\ e.epoch \in Nat
<1>1. e \in [seq : 0 .. MaxSeq, type : Types, signer : Peers, target : Peers,
             role : Roles, epoch : Epochs, key : NoKey .. MaxSeq,
             holders : SUBSET Peers, val : Msgs \cup (0 .. MaxSeq)]
  BY DEF Events
<1> HIDE DEF Types, Roles, NoKey
<1>2. /\ e.seq \in 0 .. MaxSeq /\ e.type \in Types /\ e.signer \in Peers /\ e.target \in Peers
      /\ e.role \in Roles /\ e.epoch \in Epochs /\ e.key \in NoKey .. MaxSeq
      /\ e.holders \in SUBSET Peers /\ e.val \in Msgs \cup (0 .. MaxSeq)
  BY <1>1
<1> QED BY <1>2, GroupAssumption DEF Epochs

\* One column of a replica after another.
LEMMA ReplicaFields ==
  ASSUME NEW d \in Replicas
  PROVE  /\ d.known \in BOOLEAN /\ d.ctrl \in Peers \cup {NoPeer} /\ d.epoch \in 0 .. MaxSeq
         /\ d.state \in {"active", "archived"} /\ d.last \in 0 .. MaxSeq /\ d.title \in 0 .. MaxSeq
         /\ d.retention \in 0 .. 1 /\ d.role \in [Peers -> Roles]
         /\ d.status \in [Peers -> MemberStates] /\ d.events \in SUBSET Events
         /\ d.keys \in [Epochs -> NoRow .. MaxSeq] /\ d.msgs \in SUBSET Texts
         /\ d.revoked \in SUBSET Msgs /\ d.cursor \in [Peers -> 0 .. Cardinality(Msgs)]
<1> HIDE DEF Roles, MemberStates, Events, Texts, Epochs
<1> QED BY DEF Replicas

\* insertGroupEventTx and updateGroupMetaTx.
LEMMA InsertRows ==
  ASSUME NEW d \in Replicas, NEW e \in Events
  PROVE  /\ InsertEvent(d, e) \in Replicas
         /\ InsertEvent(d, e).last = e.seq /\ InsertEvent(d, e).events = d.events \cup {e}
         /\ InsertEvent(d, e).known = d.known /\ InsertEvent(d, e).ctrl = d.ctrl
         /\ InsertEvent(d, e).epoch = d.epoch /\ InsertEvent(d, e).state = d.state
         /\ InsertEvent(d, e).title = d.title /\ InsertEvent(d, e).keys = d.keys
         /\ InsertEvent(d, e).status = d.status /\ InsertEvent(d, e).role = d.role
         /\ InsertEvent(d, e).msgs = d.msgs /\ InsertEvent(d, e).revoked = d.revoked
         /\ InsertEvent(d, e).retention = d.retention
<1> HIDE DEF Events, Texts, Roles, MemberStates, Epochs
<1>1. d.events \cup {e} \in SUBSET Events /\ e.seq \in 0 .. MaxSeq
  BY ReplicaFields, EventFields
<1>2. InsertEvent(d, e) \in Replicas
  BY <1>1 DEF InsertEvent, Replicas
<1> QED BY <1>2 DEF InsertEvent, Replicas

\* NewEpoch: the row of group_epochs that comes with the event.
LEMMA EpochRows ==
  ASSUME NEW p \in Peers, NEW d \in Replicas, NEW e \in Events
  PROVE  /\ NewEpoch(p, d, e) \in Replicas
         /\ NewEpoch(p, d, e).last = e.seq /\ NewEpoch(p, d, e).events = d.events \cup {e}
         /\ NewEpoch(p, d, e).known = d.known /\ NewEpoch(p, d, e).ctrl = d.ctrl
         /\ NewEpoch(p, d, e).epoch = e.epoch /\ NewEpoch(p, d, e).state = d.state
         /\ NewEpoch(p, d, e).title = d.title /\ NewEpoch(p, d, e).status = d.status
         /\ NewEpoch(p, d, e).role = d.role /\ NewEpoch(p, d, e).msgs = d.msgs
         /\ \A n \in Epochs : NewEpoch(p, d, e).keys[n] =
                IF n = e.epoch THEN (IF p \in e.holders THEN e.key ELSE NoKey) ELSE d.keys[n]
<1> DEFINE i == InsertEvent(d, e)
           v == IF p \in e.holders THEN e.key ELSE NoKey
<1>1. NewEpoch(p, d, e) = [i EXCEPT !.epoch = e.epoch, !.keys[e.epoch] = v]
  BY DEF NewEpoch
<1>2. i \in Replicas
  BY InsertRows
<1>3. i.keys \in [Epochs -> NoRow .. MaxSeq]
  BY <1>2, ReplicaFields
<1>4. e.epoch \in Epochs /\ e.epoch \in 0 .. MaxSeq /\ v \in NoRow .. MaxSeq
  <2>1. e.epoch \in Epochs /\ e.key \in NoKey .. MaxSeq
    BY EventFields
  <2> QED BY <2>1, GroupAssumption DEF Epochs, NoKey, NoRow
<1>5. [i.keys EXCEPT ![e.epoch] = v] \in [Epochs -> NoRow .. MaxSeq]
  <2> HIDE DEF i, v, Epochs
  <2> QED BY <1>3, <1>4
<1>6. \A n \in Epochs : [i.keys EXCEPT ![e.epoch] = v][n] = IF n = e.epoch THEN v ELSE i.keys[n]
  <2> HIDE DEF i, v, Epochs
  <2> QED BY <1>3, <1>4
<1>7. /\ NewEpoch(p, d, e) \in Replicas
      /\ NewEpoch(p, d, e).keys = [i.keys EXCEPT ![e.epoch] = v]
      /\ NewEpoch(p, d, e).epoch = e.epoch
      /\ NewEpoch(p, d, e).last = i.last /\ NewEpoch(p, d, e).events = i.events
      /\ NewEpoch(p, d, e).known = i.known /\ NewEpoch(p, d, e).ctrl = i.ctrl
      /\ NewEpoch(p, d, e).state = i.state /\ NewEpoch(p, d, e).title = i.title
      /\ NewEpoch(p, d, e).status = i.status /\ NewEpoch(p, d, e).role = i.role
      /\ NewEpoch(p, d, e).msgs = i.msgs
  <2> HIDE DEF i, v, Events, Texts, Roles, MemberStates, Epochs
  <2> QED BY <1>1, <1>2, <1>4, <1>5 DEF Replicas
<1>8. /\ i.last = e.seq /\ i.events = d.events \cup {e} /\ i.known = d.known /\ i.ctrl = d.ctrl
      /\ i.state = d.state /\ i.title = d.title /\ i.keys = d.keys /\ i.status = d.status
      /\ i.role = d.role /\ i.msgs = d.msgs
  BY InsertRows
<1> HIDE DEF i
<1> QED BY <1>6, <1>7, <1>8

\* The transaction of an event: its columns, and no message is added.
LEMMA StoreRows ==
  ASSUME NEW p \in Peers, NEW d \in Replicas, NEW e \in Events, Sane(e), e.type # "create"
  PROVE  /\ StoreEvent(p, d, e) \in Replicas
         /\ Rows(p, d, e, StoreEvent(p, d, e))
         /\ StoreEvent(p, d, e).msgs \subseteq d.msgs
<1> DEFINE o == StoreEvent(p, d, e)
           i == InsertEvent(d, e)
           n == NewEpoch(p, d, e)
<1>e. /\ e.type \in Types /\ e.target \in Peers /\ e.signer \in Peers /\ e.role \in Roles /\ e.epoch \in Epochs
  BY EventFields
<1>d. /\ d.status \in [Peers -> MemberStates] /\ d.role \in [Peers -> Roles] /\ d.msgs \in SUBSET Texts
      /\ d.revoked \in SUBSET Msgs /\ d.keys \in [Epochs -> NoRow .. MaxSeq] /\ d.retention \in 0 .. 1
  BY ReplicaFields
<1>i. /\ i \in Replicas /\ i.last = e.seq /\ i.events = d.events \cup {e} /\ i.known = d.known
      /\ i.ctrl = d.ctrl /\ i.epoch = d.epoch /\ i.state = d.state /\ i.title = d.title
      /\ i.keys = d.keys /\ i.status = d.status /\ i.role = d.role /\ i.msgs = d.msgs
      /\ i.revoked = d.revoked /\ i.retention = d.retention
  BY InsertRows
<1>n. /\ n \in Replicas /\ n.last = e.seq /\ n.events = d.events \cup {e} /\ n.known = d.known
      /\ n.ctrl = d.ctrl /\ n.epoch = e.epoch /\ n.state = d.state /\ n.title = d.title
      /\ n.status = d.status /\ n.role = d.role /\ n.msgs = d.msgs
      /\ \A k \in Epochs : n.keys[k] = IF k = e.epoch THEN (IF p \in e.holders THEN e.key ELSE NoKey) ELSE d.keys[k]
  BY EpochRows
<1> HIDE DEF i, n, Events, Texts, Roles, Epochs
<1>1. CASE e.type = "invite"
  <2> DEFINE r == [i.role EXCEPT ![e.target] = e.role]
             s == [i.status EXCEPT ![e.target] = "invited"]
  <2>1. o = [i EXCEPT !.role = r, !.status = s]
    BY <1>1, <1>i DEF StoreEvent, UpsertGroupMember, i, Replicas
  <2>2. r \in [Peers -> Roles] /\ s \in [Peers -> MemberStates]
    BY <1>e, <1>d, <1>i DEF MemberStates
  <2>3. \A q \in Peers : s[q] = IF q = e.target THEN "invited" ELSE d.status[q]
    BY <1>e, <1>d, <1>i
  <2> HIDE DEF o, r, s, MemberStates
  <2>4. /\ o \in Replicas /\ o.status = s /\ o.last = i.last /\ o.events = i.events /\ o.known = i.known
        /\ o.ctrl = i.ctrl /\ o.epoch = i.epoch /\ o.state = i.state /\ o.title = i.title
        /\ o.keys = i.keys /\ o.msgs = i.msgs
    BY <2>1, <2>2, <1>i DEF Replicas
  <2> QED BY <2>3, <2>4, <1>i, <1>1 DEF Rows, Members, Active, Invited, Rotations, Departs, NoKey, o
<1>2. CASE e.type = "join"
  <2> DEFINE s == [i.status EXCEPT ![e.target] = IF @ = "none" THEN @ ELSE "active"]
  <2>1. o = [i EXCEPT !.status = s]
    BY <1>2, <1>i DEF StoreEvent, ActivateGroupMember, i, Replicas
  <2>2. s \in [Peers -> MemberStates]
    BY <1>e, <1>d, <1>i DEF MemberStates
  <2>3. \A q \in Peers : q # e.target => s[q] = d.status[q]
    BY <1>e, <1>d, <1>i
  <2> HIDE DEF o, s, MemberStates
  <2>4. /\ o \in Replicas /\ o.status = s /\ o.last = i.last /\ o.events = i.events /\ o.known = i.known
        /\ o.ctrl = i.ctrl /\ o.epoch = i.epoch /\ o.state = i.state /\ o.title = i.title
        /\ o.keys = i.keys /\ o.msgs = i.msgs
    BY <2>1, <2>2, <1>i DEF Replicas
  <2> QED BY <2>3, <2>4, <1>i, <1>2 DEF Rows, Members, Active, Invited, Rotations, Departs, NoKey, o
<1>3. CASE e.type \in {"leave", "remove"}
  <2> DEFINE s == [n.status EXCEPT ![e.target] = IF @ = "none" THEN @
                                                 ELSE IF e.type = "leave" THEN "left" ELSE "removed"]
  <2>1. o = [n EXCEPT !.status = s]
    BY <1>3, <1>n DEF StoreEvent, FinishGroupMembershipChange, n, Replicas
  <2>2. s \in [Peers -> MemberStates]
    BY <1>e, <1>d, <1>n DEF MemberStates
  <2>3. \A q \in Peers : IF q = e.target THEN s[q] \in {"none", "left", "removed"} ELSE s[q] = d.status[q]
    BY <1>e, <1>d, <1>n
  <2> HIDE DEF o, s, MemberStates
  <2>4. /\ o \in Replicas /\ o.status = s /\ o.last = n.last /\ o.events = n.events /\ o.known = n.known
        /\ o.ctrl = n.ctrl /\ o.epoch = n.epoch /\ o.state = n.state /\ o.title = n.title
        /\ o.keys = n.keys /\ o.msgs = n.msgs
    BY <2>1, <2>2, <1>n DEF Replicas
  <2> QED BY <2>3, <2>4, <1>n, <1>3 DEF Rows, Members, Active, Invited, Rotations, Departs, NoKey, o
<1>4. CASE e.type = "transfer"
  <2> DEFINE r == [n.role EXCEPT ![e.signer] = SetRole(d, e.signer, "member"),
                                 ![e.target] = SetRole(d, e.target, "controller")]
  <2>1. o = [n EXCEPT !.ctrl = e.target, !.role = r]
    BY <1>4, <1>n DEF StoreEvent, TransferGroupController, n, Replicas
  <2>2. r \in [Peers -> Roles]
    BY <1>e, <1>d, <1>n DEF SetRole, Roles
  <2> HIDE DEF o, r, MemberStates
  <2>4. /\ o \in Replicas /\ o.status = n.status /\ o.last = n.last /\ o.events = n.events /\ o.known = n.known
        /\ o.ctrl = e.target /\ o.epoch = n.epoch /\ o.state = n.state /\ o.title = n.title
        /\ o.keys = n.keys /\ o.msgs = n.msgs
    BY <2>1, <2>2, <1>n, <1>e DEF Replicas
  <2> QED BY <2>4, <1>n, <1>4 DEF Rows, Members, Active, Invited, Rotations, Departs, NoKey, o
<1>5. CASE e.type = "title"
  <2>1. o = [i EXCEPT !.title = e.val]
    BY <1>5, <1>i DEF StoreEvent, UpdateGroupTitle, i
  <2>2. e.val \in 0 .. MaxSeq
    BY <1>5 DEF Sane
  <2> HIDE DEF o, MemberStates
  <2>4. /\ o \in Replicas /\ o.status = i.status /\ o.last = i.last /\ o.events = i.events /\ o.known = i.known
        /\ o.ctrl = i.ctrl /\ o.epoch = i.epoch /\ o.state = i.state /\ o.title = e.val
        /\ o.keys = i.keys /\ o.msgs = i.msgs
    BY <2>1, <2>2, <1>i DEF Replicas
  <2> QED BY <2>4, <1>i, <1>5 DEF Rows, Members, Active, Invited, Rotations, Departs, NoKey, o
<1>6. CASE e.type = "retention"
  <2> DEFINE k == [i EXCEPT !.retention = e.val]
  <2>1. o = DropAged(k)
    BY <1>6 DEF StoreEvent, UpdateGroupRetention, i
  <2>2. e.val \in 0 .. 1
    BY <1>6 DEF Sane
  <2>3. /\ k \in Replicas /\ k.status = i.status /\ k.last = i.last /\ k.events = i.events /\ k.known = i.known
        /\ k.ctrl = i.ctrl /\ k.epoch = i.epoch /\ k.state = i.state /\ k.title = i.title
        /\ k.keys = i.keys /\ k.msgs = i.msgs
    <3> HIDE DEF MemberStates
    <3> QED BY <2>2, <1>i DEF Replicas
  <2>4. {t \in k.msgs : t.id \notin aged} \in SUBSET Texts
    BY <2>3, <1>i, <1>d
  <2> HIDE DEF o, k, MemberStates
  <2>5. /\ o \in Replicas /\ o.status = k.status /\ o.last = k.last /\ o.events = k.events /\ o.known = k.known
        /\ o.ctrl = k.ctrl /\ o.epoch = k.epoch /\ o.state = k.state /\ o.title = k.title
        /\ o.keys = k.keys /\ o.msgs \subseteq k.msgs
    BY <2>1, <2>3, <2>4 DEF Replicas, DropAged
  <2> QED BY <2>3, <2>5, <1>i, <1>6 DEF Rows, Members, Active, Invited, Rotations, Departs, NoKey, o
<1>7. CASE e.type = "dissolve"
  <2>1. o = [i EXCEPT !.state = "archived", !.msgs = {}]
    BY <1>7, <1>i DEF StoreEvent, DissolveGroup, i
  <2> HIDE DEF o, MemberStates
  <2>4. /\ o \in Replicas /\ o.status = i.status /\ o.last = i.last /\ o.events = i.events /\ o.known = i.known
        /\ o.ctrl = i.ctrl /\ o.epoch = i.epoch /\ o.state = "archived" /\ o.title = i.title
        /\ o.keys = i.keys /\ o.msgs = {}
    BY <2>1, <1>i DEF Replicas
  <2> QED BY <2>4, <1>i, <1>7 DEF Rows, Members, Active, Invited, Rotations, Departs, NoKey, o
<1>8. CASE e.type = "revoke"
  <2> DEFINE w == i.revoked \cup {e.val}
             u == {t \in i.msgs : t.id # e.val}
  <2>1. o = [i EXCEPT !.revoked = w, !.msgs = u]
    BY <1>8, <1>i DEF StoreEvent, StoreRevoke, i, Replicas
  <2>2. w \in SUBSET Msgs /\ u \in SUBSET Texts /\ u \subseteq d.msgs
    BY <1>8, <1>d, <1>i DEF Sane
  <2> HIDE DEF o, w, u, MemberStates
  <2>4. /\ o \in Replicas /\ o.status = i.status /\ o.last = i.last /\ o.events = i.events /\ o.known = i.known
        /\ o.ctrl = i.ctrl /\ o.epoch = i.epoch /\ o.state = i.state /\ o.title = i.title
        /\ o.keys = i.keys /\ o.msgs = u
    BY <2>1, <2>2, <1>i DEF Replicas
  <2> QED BY <2>2, <2>4, <1>i, <1>8 DEF Rows, Members, Active, Invited, Rotations, Departs, NoKey, o
<1> QED BY <1>1, <1>2, <1>3, <1>4, <1>5, <1>6, <1>7, <1>8, <1>e DEF Types

\* A node without records of the group.
LEMMA AbsentRows ==
  /\ Absent \in Replicas /\ ~Absent.known /\ Absent.events = {} /\ Absent.msgs = {}
  /\ Absent.state = "active" /\ Members(Absent) = {}
  /\ \A n \in Epochs : Absent.keys[n] <= NoKey
<1>1. 0 \in 0 .. MaxSeq /\ 0 \in 0 .. 1 /\ NoRow \in NoRow .. MaxSeq
  BY GroupAssumption DEF NoRow
<1>2. [q \in Peers |-> 0] \in [Peers -> 0 .. Cardinality(Msgs)]
  <2>1. Cardinality(Msgs) \in Nat
    BY GroupAssumption, FS_CardinalityType
  <2> QED BY <2>1
<1>3. "none" \in Roles /\ "none" \in MemberStates
  BY DEF Roles, MemberStates
<1>4. Absent \in Replicas
  <2> HIDE DEF Epochs, NoRow, Events, Texts, Roles, MemberStates
  <2> QED BY <1>1, <1>2, <1>3 DEF Absent, Replicas
<1>5. Members(Absent) = {}
  BY DEF Absent, Members, Active, Invited
<1>6. \A n \in Epochs : Absent.keys[n] <= NoKey
  BY DEF Absent, NoRow, NoKey
<1> QED BY <1>4, <1>5, <1>6 DEF Absent

\* ensureGroupForInviteEnvelope.
LEMMA InviteRows ==
  ASSUME NEW p \in Peers, NEW e \in Events, e.seq >= 1, Sane(e), e.type = "invite",
         NEW g, g = GroupFromInvite(p, e)
  PROVE  /\ g \in Replicas /\ g.known /\ g.ctrl = e.signer /\ g.epoch = e.epoch
         /\ g.last = e.seq - 1 /\ g.title = e.val /\ g.state = "active" /\ g.events = {} /\ g.msgs = {}
         /\ \A n \in Epochs : g.keys[n] > NoKey => n = e.epoch
         /\ Members(g) \subseteq {e.target, e.signer} \cup e.holders
<1> DEFINE r == [q \in Peers |-> IF q = e.signer THEN "controller"
                                  ELSE IF q \in e.holders THEN "member" ELSE "none"]
           s == [q \in Peers |-> IF q = e.target THEN "invited"
                                    ELSE IF q \in e.holders \cup {e.signer} THEN "active" ELSE "none"]
           k == [n \in Epochs |-> IF n = e.epoch THEN e.key ELSE NoRow]
<1>1. /\ e.signer \in Peers /\ e.epoch \in Epochs /\ e.seq \in 0 .. MaxSeq /\ e.val \in 0 .. MaxSeq
      /\ e.key \in NoKey .. MaxSeq
  BY EventFields DEF Sane
<1>2. r \in [Peers -> Roles] /\ s \in [Peers -> MemberStates]
  BY DEF Roles, MemberStates
<1>3. k \in [Epochs -> NoRow .. MaxSeq]
  BY <1>1, GroupAssumption DEF NoRow, NoKey
<1>4. g = [Absent EXCEPT !.known = TRUE, !.ctrl = e.signer, !.epoch = e.epoch, !.last = e.seq - 1,
               !.title = e.val, !.role = r, !.status = s, !.keys = k]
  <2>1. [[n \in Epochs |-> NoRow] EXCEPT ![e.epoch] = e.key] = k
    BY <1>1
  <2> HIDE DEF r, s, k, Epochs, NoRow
  <2> QED BY <2>1 DEF GroupFromInvite, Absent, r, s
<1>5. /\ g.known /\ g.ctrl = e.signer /\ g.epoch = e.epoch /\ g.last = e.seq - 1 /\ g.title = e.val
      /\ g.state = "active" /\ g.events = {} /\ g.msgs = {} /\ g.keys = k /\ g.status = s
  <2> HIDE DEF r, s, k, Epochs, NoRow
  <2> QED BY <1>4 DEF Absent
<1>6. g \in Replicas
  <2>1. e.epoch \in 0 .. MaxSeq /\ e.seq - 1 \in 0 .. MaxSeq
    BY <1>1, GroupAssumption DEF Epochs
  <2>2. e.signer \in Peers \cup {NoPeer} /\ TRUE \in BOOLEAN
    BY <1>1
  <2> HIDE DEF r, s, k, Epochs, NoRow, Events, Texts, Roles, MemberStates
  <2>3. [Absent EXCEPT !.known = TRUE, !.ctrl = e.signer, !.epoch = e.epoch] \in Replicas
    BY <2>1, <2>2, AbsentRows DEF Replicas
  <2>4. PICK a \in Replicas : a = [Absent EXCEPT !.known = TRUE, !.ctrl = e.signer, !.epoch = e.epoch]
    BY <2>3
  <2>5. g = [a EXCEPT !.last = e.seq - 1, !.title = e.val, !.role = r, !.status = s, !.keys = k]
    BY <1>4, <2>4
  <2> HIDE DEF Absent
  <2>6. [a EXCEPT !.last = e.seq - 1, !.title = e.val] \in Replicas
    BY <1>1, <2>1 DEF Replicas
  <2>7. PICK b \in Replicas : b = [a EXCEPT !.last = e.seq - 1, !.title = e.val]
    BY <2>6
  <2>8. [b EXCEPT !.role = r, !.status = s, !.keys = k] \in Replicas
    BY <1>2, <1>3 DEF Replicas
  <2>9. g = [b EXCEPT !.role = r, !.status = s, !.keys = k]
    BY <2>5, <2>7
  <2> QED BY <2>8, <2>9
<1>7. \A n \in Epochs : g.keys[n] > NoKey => n = e.epoch
  BY <1>5 DEF NoRow, NoKey
<1>8. Members(g) \subseteq {e.target, e.signer} \cup e.holders
  BY <1>5 DEF Members, Active, Invited
<1> QED BY <1>5, <1>6, <1>7, <1>8

\* applyGroupControlEnvelope: nothing, the next event, or the start of a replica.
LEMMA AppliedRows ==
  ASSUME NEW p \in Peers, NEW d \in Replicas, NEW e \in Events, Sane(e),
         e.seq >= 1, e.seq = 1 => e.type = "create", e.type = "create" => e.seq = 1,
         d.known => d.last >= 1,
         NEW o, o = Applied(p, d, e)
  PROVE  /\ o \in Replicas /\ (o.msgs \subseteq d.msgs)
         /\ \/ o = d
            \/ /\ d.known /\ e.seq = d.last + 1 /\ Rows(p, d, e, o)
               /\ d.state = "active" \/ e.type = "dissolve"
            \/ ~d.known /\ e.type = "invite" /\ FirstRows(e, o)
<1> DEFINE g == IF d.known THEN d ELSE GroupFromInvite(p, e)
           k == IF e.type = "invite" THEN [g EXCEPT !.keys[e.epoch] = e.key] ELSE g
<1>1. o = IF (Authorised(d, e) /\ (g.state = "active" \/ e.type = "dissolve") /\ Due(g, e) /\ Commits(p, k, e))
          THEN StoreEvent(p, k, e) ELSE d
  BY DEF Applied
<1>2. CASE ~(Authorised(d, e) /\ (g.state = "active" \/ e.type = "dissolve") /\ Due(g, e) /\ Commits(p, k, e))
  <2> QED BY <1>1, <1>2
<1>3. CASE Authorised(d, e) /\ (g.state = "active" \/ e.type = "dissolve") /\ Due(g, e) /\ Commits(p, k, e)
  <2>1. o = StoreEvent(p, k, e)
    BY <1>1, <1>3
  <2>2. ~d.known => e.type = "invite"
    BY <1>3 DEF Authorised
  <2>3. g \in Replicas /\ (~d.known => g.msgs = {})
    BY <2>2, InviteRows
  <2>4. e.seq = g.last + 1
    BY <1>3 DEF Due
  <2>5. e.type # "create"
    <3>1. d.known => g = d
      OBVIOUS
    <3>2. d.last \in Int
      BY ReplicaFields
    <3> HIDE DEF g
    <3> QED BY <2>2, <2>4, <3>1, <3>2
  <2>6. /\ k \in Replicas /\ k.known = g.known /\ k.ctrl = g.ctrl /\ k.epoch = g.epoch /\ k.state = g.state
        /\ k.last = g.last /\ k.title = g.title /\ k.events = g.events /\ k.status = g.status /\ k.msgs = g.msgs
        /\ \A n \in Epochs : k.keys[n] = IF e.type = "invite" /\ n = e.epoch THEN e.key ELSE g.keys[n]
    <3>1. CASE e.type # "invite"
      <4>1. k = g
        BY <3>1
      <4> HIDE DEF k, g
      <4> QED BY <2>3, <3>1, <4>1
    <3>2. CASE e.type = "invite"
      <4> DEFINE w == [g.keys EXCEPT ![e.epoch] = e.key]
      <4>1. e.epoch \in Epochs /\ e.key \in NoRow .. MaxSeq
        <5>1. e.epoch \in Epochs /\ e.key \in NoKey .. MaxSeq
          BY EventFields
        <5> QED BY <5>1, GroupAssumption DEF NoRow, NoKey
      <4>2. g.keys \in [Epochs -> NoRow .. MaxSeq]
        <5> HIDE DEF g
        <5> QED BY <2>3, ReplicaFields
      <4>3. w \in [Epochs -> NoRow .. MaxSeq] /\ \A n \in Epochs : w[n] = IF n = e.epoch THEN e.key ELSE g.keys[n]
        <5> HIDE DEF g, Epochs, NoRow
        <5> QED BY <4>1, <4>2
      <4>4. k = [g EXCEPT !.keys = w]
        <5>1. k = [g EXCEPT !.keys[e.epoch] = e.key]
          BY <3>2
        <5> HIDE DEF g, k, Epochs
        <5> QED BY <5>1, <2>3 DEF Replicas
      <4> HIDE DEF g, k, w, Epochs, NoRow, Events, Texts, Roles, MemberStates
      <4> QED BY <2>3, <4>3, <4>4, <3>2 DEF Replicas
    <3> QED BY <3>1, <3>2
  <2>7. /\ o \in Replicas /\ Rows(p, k, e, o) /\ o.msgs \subseteq k.msgs
    <3> HIDE DEF k
    <3> QED BY <2>1, <2>5, <2>6, StoreRows
  <2>8. CASE d.known
    <3>1. g = d
      BY <2>8
    <3>2. Members(k) = Members(d)
      <4> HIDE DEF g, k
      <4> QED BY <2>6, <3>1 DEF Members, Active, Invited
    <3>3. Rows(p, d, e, o)
      <4> HIDE DEF g, k
      <4> QED BY <2>6, <2>7, <3>1, <3>2 DEF Rows
    <3> HIDE DEF k, g
    <3> QED BY <1>3, <2>4, <2>6, <2>7, <2>8, <3>1, <3>3
  <2>9. CASE ~d.known
    <3>1. g = GroupFromInvite(p, e) /\ e.type = "invite"
      BY <2>2, <2>9
    <3>2. /\ g.known /\ g.ctrl = e.signer /\ g.epoch = e.epoch /\ g.last = e.seq - 1 /\ g.title = e.val
          /\ g.state = "active" /\ g.events = {} /\ g.msgs = {}
          /\ \A n \in Epochs : g.keys[n] > NoKey => n = e.epoch
          /\ Members(g) \subseteq {e.target, e.signer} \cup e.holders
      <4> HIDE DEF g
      <4> QED BY <3>1, InviteRows
    <3>3. Members(k) = Members(g)
      <4> HIDE DEF g, k
      <4> QED BY <2>6 DEF Members, Active, Invited
    <3>4. FirstRows(e, o)
      <4> HIDE DEF g, k
      <4> QED BY <2>6, <2>7, <3>1, <3>2, <3>3 DEF FirstRows, Rows, Rotations, Departs
    <3> HIDE DEF k, g
    <3> QED BY <2>6, <2>7, <2>9, <3>1, <3>2, <3>4
  <2> QED BY <2>8, <2>9
<1> QED BY <1>2, <1>3

-----------------------------------------------------------------------------
(* Who may append                                                           *)

\* A node with records of the group stands at an event of the log.
LEMMA Standing ==
  ASSUME GroupInv, NEW p \in Peers, db[p].known
  PROVE  /\ \E e \in db[p].events : e \in log /\ StandsAt(db[p], e)
         /\ db[p] \in Replicas /\ db[p].last \in Nat /\ db[p].last >= 1
         /\ db[p].epoch \in Epochs /\ db[p].epoch <= db[p].last
<1>1. ReplicaOK(db[p]) /\ LogOK /\ db \in [Peers -> Replicas]
  BY DEF GroupInv, TypeOK
<1>2. PICK e \in db[p].events : StandsAt(db[p], e)
  BY <1>1 DEF ReplicaOK, ReplicaIn, StandsAt, StandsIn
<1>3. e \in log
  BY <1>1, <1>2 DEF ReplicaOK, ReplicaIn, StandsAt, StandsIn
<1>4. e.seq >= 1 /\ e.epoch <= e.seq /\ e \in Events
  BY <1>1, <1>3 DEF LogOK, Sane
<1>5. e.epoch \in Epochs /\ e.seq \in Nat
  BY <1>4, EventFields
<1>6. db[p].last = e.seq /\ db[p].epoch = e.epoch
  BY <1>2 DEF StandsAt, StandsIn
<1> QED BY <1>1, <1>2, <1>3, <1>4, <1>5, <1>6

\* The controller has every event of the log: the one after its last one would
\* have been signed by itself, and a node has all events it has signed.
LEMMA HasNewest ==
  ASSUME GroupInv, NEW p \in Peers, db[p].known, db[p].ctrl = p, NEW f \in log
  PROVE  f.seq <= db[p].last
<1>1. LogOK /\ Signers
  BY DEF GroupInv
<1>2. PICK e \in db[p].events : e \in log /\ StandsAt(db[p], e)
  BY Standing
<1>3. e.seq \in Nat /\ f.seq \in Nat /\ e.seq >= 1 /\ db[p].last = e.seq /\ After(e) = p
  BY <1>1, <1>2, EventFields DEF LogOK, StandsAt, StandsIn
<1>4. SUFFICES ASSUME f.seq > e.seq PROVE FALSE
  BY <1>3
<1>5. PICK g \in log : g.seq = e.seq + 1
  <2>1. e.seq + 1 \in 1 .. f.seq
    BY <1>3, <1>4
  <2> QED BY <2>1, <1>1 DEF LogOK
<1>6. Succeeds(e, g)
  BY <1>1, <1>2, <1>5 DEF LogOK
<1>7. g.signer = p
  BY <1>3, <1>6 DEF Succeeds
<1>8. g.seq <= db[p].last
  BY <1>1, <1>7 DEF Signers
<1> QED BY <1>3, <1>5, <1>8

\* What an API call builds is an event.
LEMMA NewEvent ==
  ASSUME NEW p \in Peers, db[p] \in Replicas, db[p].last + 1 <= MaxSeq, db[p].epoch \in Epochs,
         db[p].epoch <= db[p].last,
         NEW t \in Types, NEW q \in Peers, NEW v \in Msgs \cup (0 .. MaxSeq)
  PROVE  /\ Event(p, t, q, v) \in Events
         /\ t \in Rotations => RotationEvent(p, t, q) \in Events
         /\ db[p].keys[db[p].epoch] # NoRow => InviteEvent(p, q) \in Events
         /\ LET e == Event(p, t, q, v) IN
               /\ e.seq = db[p].last + 1 /\ e.type = t /\ e.signer = p /\ e.target = q
               /\ e.epoch = db[p].epoch /\ e.val = v /\ e.holders = {}
         /\ LET e == RotationEvent(p, t, q) IN
               /\ e.seq = db[p].last + 1 /\ e.type = t /\ e.signer = p /\ e.target = q
               /\ e.epoch = db[p].epoch + 1 /\ e.val = 0
               /\ e.holders = Active(db[p]) \ (IF t = "transfer" THEN {} ELSE {q})
         /\ LET e == InviteEvent(p, q) IN
               /\ e.seq = db[p].last + 1 /\ e.type = "invite" /\ e.signer = p /\ e.target = q
               /\ e.epoch = db[p].epoch /\ e.val = db[p].title
               /\ e.holders = Active(db[p]) \cup {q}
<1>1. /\ db[p].last \in 0 .. MaxSeq /\ db[p].title \in 0 .. MaxSeq
      /\ db[p].keys \in [Epochs -> NoRow .. MaxSeq] /\ Active(db[p]) \subseteq Peers
  BY ReplicaFields DEF Active
<1>2. /\ db[p].last + 1 \in 0 .. MaxSeq /\ db[p].last + 1 \in NoKey .. MaxSeq /\ NoKey \in NoKey .. MaxSeq
      /\ db[p].epoch + 1 \in Epochs /\ 0 \in 0 .. MaxSeq
      /\ db[p].keys[db[p].epoch] # NoRow => db[p].keys[db[p].epoch] \in NoKey .. MaxSeq
  <2>1. db[p].keys[db[p].epoch] \in NoRow .. MaxSeq
    <3> HIDE DEF Epochs, NoRow
    <3> QED BY <1>1
  <2>2. db[p].keys[db[p].epoch] # NoRow => db[p].keys[db[p].epoch] \in NoKey .. MaxSeq
    BY <2>1, GroupAssumption DEF NoKey, NoRow
  <2>3. MaxSeq \in Nat /\ db[p].last \in Nat /\ db[p].epoch \in Nat /\ db[p].epoch >= 1
    BY <1>1, GroupAssumption DEF Epochs
  <2> QED BY <2>2, <2>3 DEF Epochs, NoKey
<1>3. "none" \in Roles /\ "admin" \in Roles /\ "member" \in Roles /\ "invite" \in Types
  BY DEF Roles, Types
<1> HIDE DEF Roles, Types, NoKey, Epochs
<1>4. Event(p, t, q, v) \in Events
  BY <1>1, <1>2, <1>3 DEF Event, Events
<1>5. RotationEvent(p, t, q) \in Events
  <2>1. Event(p, t, q, 0) \in Events
    BY <1>1, <1>2, <1>3 DEF Event, Events
  <2> QED BY <2>1, <1>1, <1>2 DEF RotationEvent, Events
<1>6. db[p].keys[db[p].epoch] # NoRow => InviteEvent(p, q) \in Events
  <2>1. Event(p, "invite", q, db[p].title) \in Events
    BY <1>1, <1>2, <1>3 DEF Event, Events
  <2> QED BY <2>1, <1>1, <1>2, <1>3 DEF InviteEvent, Events
<1> QED BY <1>4, <1>5, <1>6 DEF Event, RotationEvent, InviteEvent

-----------------------------------------------------------------------------
(* What a step does to the log and the rows                                 *)

\* AddGroupMessage, and deletions of messages.
LEMMA MessageRows ==
  ASSUME NEW d \in Replicas, NEW t \in Texts, NEW S \in SUBSET d.msgs
  PROVE  /\ AddGroupMessage(d, t) \in Replicas /\ SameRows(AddGroupMessage(d, t), d)
         /\ AddGroupMessage(d, t).msgs \subseteq d.msgs \cup {t}
         /\ [d EXCEPT !.msgs = S] \in Replicas /\ SameRows([d EXCEPT !.msgs = S], d)
         /\ [d EXCEPT !.msgs = S].msgs = S
<1> DEFINE s == Author[t.id]
           M == {u \in d.msgs : u.id # t.id /\ ~(Author[u.id] = s /\ u.sseq = t.sseq)} \cup {t}
           C == [d.cursor EXCEPT ![s] = IF t.sseq > @ THEN t.sseq ELSE @]
           o == AddGroupMessage(d, t)
<1>1. d.msgs \in SUBSET Texts /\ d.cursor \in [Peers -> 0 .. Cardinality(Msgs)]
  BY ReplicaFields
<1>2. t.id \in Msgs /\ t.sseq \in 0 .. Cardinality(Msgs)
  <2>1. t.id \in Msgs /\ t.sseq \in 1 .. Cardinality(Msgs)
    BY DEF Texts
  <2> QED BY <2>1
<1>3. s \in Peers
  BY <1>2, GroupAssumption
<1>4. M \in SUBSET Texts /\ C \in [Peers -> 0 .. Cardinality(Msgs)]
  <2> HIDE DEF Texts, s
  <2>1. M \in SUBSET Texts
    BY <1>1
  <2>2. C \in [Peers -> 0 .. Cardinality(Msgs)]
    BY <1>1, <1>2, <1>3
  <2> QED BY <2>1, <2>2
<1>5. o = [d EXCEPT !.msgs = M, !.cursor = C]
  <2> HIDE DEF Texts
  <2> QED BY DEF AddGroupMessage, Replicas
<1>6. M \subseteq d.msgs \cup {t} /\ S \in SUBSET Texts
  BY <1>1
<1> HIDE DEF M, C, s, o, Texts, Events, Roles, MemberStates, Epochs, NoRow
<1>7. o \in Replicas /\ SameRows(o, d) /\ o.msgs = M
  BY <1>4, <1>5 DEF Replicas, SameRows
<1>8. [d EXCEPT !.msgs = S] \in Replicas /\ SameRows([d EXCEPT !.msgs = S], d) /\ [d EXCEPT !.msgs = S].msgs = S
  BY <1>6 DEF Replicas, SameRows
<1> QED BY <1>6, <1>7, <1>8 DEF o

\* No event is numbered or applied; a call may have built one.
Built(p, e) == Prepared(p, e) /\ (KeysOK => Present(log, e, e.seq - 1))
Still ==
    /\ log' = log /\ db' \in [Peers -> Replicas]
    /\ \A p \in Peers : /\ SameRows(db'[p], db[p])
                       /\ \A t \in db'[p].msgs : t \in db[p].msgs \/ Numbered(t, Cardinality(added'))
    /\ prep' \in [Peers -> Events \cup {NoEvent}]
    /\ \A p \in Peers : prep'[p] \in {NoEvent, prep[p]} \/ Built(p, prep'[p])

\* Node p's replica becomes o.
Becomes(p, o) == o \in Replicas /\ db' = [db EXCEPT ![p] = o] /\ (o.msgs \subseteq db[p].msgs)

\* e is the next event of the log, by a controller that stands at the newest one.
NextEvent(p, e) ==
    /\ e \in Events /\ Sane(e) /\ e.type # "create" /\ e.signer = p
    /\ db[p].known /\ db[p].state = "active" /\ db[p].ctrl = p
    /\ \A f \in log : f.seq < e.seq
    /\ \E g \in db[p].events : StandsAt(db[p], g) /\ Succeeds(g, e)
    /\ e.type = "invite" => TitleIs(log, e.seq - 1, e.val)

\* The join or leave a member has asked for.
Requested(p, e) ==
    /\ e.type \in {"join", "leave"} /\ e.target \in Members(db[p]) /\ e.target \notin e.holders
    /\ <<e.type, e.target, p>> \in requests

Appends(p, e) ==
    /\ NextEvent(p, e) /\ log' = log \cup {e}
    /\ \/ prep[p] = e /\ e # NoEvent /\ prep' = [prep EXCEPT ![p] = NoEvent]
       \/ Requested(p, e) /\ prep' = prep
    /\ \E o : Becomes(p, o) /\ Rows(p, db[p], e, o)
Founds(p) ==
    /\ log = {} /\ log' = {Create(p)} /\ prep' = prep
    /\ \E o : /\ Becomes(p, o) /\ o.known /\ o.last = 1 /\ o.ctrl = p /\ o.epoch = 1
              /\ o.state = "active" /\ o.title = 1 /\ o.events = {Create(p)} /\ Members(o) = {p}
              /\ \A n \in Epochs : o.keys[n] > NoKey => n = 1
Extends(p, e) ==
    /\ e \in log /\ log' = log /\ Addressed(e, p) /\ prep' = prep
    /\ KeysOK => MayHear(p, e)
    /\ db[p].known /\ e.seq = db[p].last + 1 /\ (db[p].state = "active" \/ e.type = "dissolve")
    /\ \E o : Becomes(p, o) /\ Rows(p, db[p], e, o)
Joins(p, e) ==
    /\ e \in log /\ log' = log /\ Addressed(e, p) /\ prep' = prep
    /\ KeysOK => MayHear(p, e)
    /\ ~db[p].known /\ e.type = "invite"
    /\ \E o : Becomes(p, o) /\ FirstRows(e, o)
Forgets(p) ==
    /\ "purge" \in Ops /\ db[p].known /\ db[p].state = "archived"
    /\ log' = log /\ prep' = prep /\ Becomes(p, Absent)

\* The situation and what it bounds.
LEMMA ScopeFields ==
  ASSUME GroupInv
  PROVE  scope \in Scopes /\ scope \in Scope /\ scope.top \in Nat /\ scope.top <= MaxSeq /\ MaxSeq \in Nat
<1>1. scope \in Scopes /\ scope \in Scope
  BY GroupAssumption DEF GroupInv, TypeOK
<1>2. scope.top \in 0 .. MaxSeq
  BY <1>1 DEF Scope
<1> QED BY <1>1, <1>2, GroupAssumption

\* An event numbered right after the last one of its signer, the controller, is
\* the next one of the log.
LEMMA NextBuilt ==
  ASSUME GroupInv, NEW p \in Peers, db[p].known, db[p].state = "active", db[p].ctrl = p,
         NEW e \in Events, Sane(e), e.type # "create", e.signer = p, e.seq = db[p].last + 1,
         e.epoch = (IF e.type \in Rotations THEN db[p].epoch + 1 ELSE db[p].epoch),
         e.type = "invite" => e.val = db[p].title
  PROVE  NextEvent(p, e)
<1>1. PICK g \in db[p].events : g \in log /\ StandsAt(db[p], g)
  BY Standing
<1>2. Succeeds(g, e)
  BY <1>1 DEF StandsAt, StandsIn, Succeeds
<1>3. e.type = "invite" => TitleIs(log, e.seq - 1, e.val)
  <2>1. db[p].last \in Nat /\ TitleIs(log, db[p].last, db[p].title)
    BY <1>1, Standing DEF StandsAt, StandsIn
  <2>2. e.seq - 1 = db[p].last
    BY <2>1
  <2> HIDE DEF TitleIs
  <2> QED BY <2>1, <2>2
<1>4. \A f \in log : f.seq < e.seq
  <2> SUFFICES ASSUME NEW f \in log PROVE f.seq < e.seq
    OBVIOUS
  <2>1. f.seq <= db[p].last /\ db[p].last \in Nat
    BY HasNewest, Standing
  <2>2. f.seq \in Nat
    BY EventFields DEF GroupInv, LogOK
  <2> QED BY <2>1, <2>2
<1> QED BY <1>1, <1>2, <1>3, <1>4 DEF NextEvent

\* While it is the next event it may be prepared.
LEMMA NextPrepared ==
  ASSUME NEW p \in Peers, NEW e, NextEvent(p, e)
  PROVE  Prepared(p, e)
<1>1. PICK g \in db[p].events : StandsAt(db[p], g) /\ Succeeds(g, e)
  BY DEF NextEvent
<1>2. After(g) = p
  BY <1>1 DEF NextEvent, StandsAt, StandsIn
<1> QED BY <1>1, <1>2 DEF NextEvent, Prepared

\* UNIQUE(group_id, event_seq) lets a prepared event through only if it is still
\* the next one.
LEMMA CommitNext ==
  ASSUME GroupInv, NEW p \in Peers, NEW e, Prepared(p, e), Commits(p, db[p], e)
  PROVE  NextEvent(p, e)
<1>1. PICK g \in db[p].events : Succeeds(g, e) /\ After(g) = p
  BY DEF Prepared
<1>2. db[p].known /\ db[p].ctrl = p /\ e \in Events /\ ReplicaOK(db[p]) /\ LogOK
  BY DEF Prepared, GroupInv
<1>3. PICK h \in db[p].events : h \in log /\ StandsAt(db[p], h)
  BY <1>2, Standing
<1>4. g \in log /\ g.seq <= db[p].last /\ \A n \in g.seq .. db[p].last : \E x \in db[p].events : x.seq = n
  BY <1>2 DEF ReplicaOK, ReplicaIn, StandsAt, StandsIn
<1>5. g.seq \in Nat /\ e.seq \in Nat /\ h.seq \in Nat /\ e.seq = g.seq + 1 /\ h.seq = db[p].last
  BY <1>1, <1>2, <1>3, <1>4, EventFields DEF LogOK, Succeeds, StandsAt, StandsIn
<1>6. e.seq = db[p].last + 1
  <2> SUFFICES ASSUME e.seq <= db[p].last PROVE FALSE
    BY <1>4, <1>5
  <2>1. e.seq \in g.seq .. db[p].last
    BY <1>5
  <2>2. PICK x \in db[p].events : x.seq = e.seq
    BY <1>4, <2>1
  <2> QED BY <2>2 DEF Commits
<1>7. g = h
  BY <1>2, <1>3, <1>4, <1>5, <1>6 DEF LogOK
<1>8. \A f \in log : f.seq < e.seq
  <2> SUFFICES ASSUME NEW f \in log PROVE f.seq < e.seq
    OBVIOUS
  <2>1. f.seq <= db[p].last /\ f.seq \in Nat
    BY <1>2, HasNewest, EventFields DEF LogOK
  <2> QED BY <2>1, <1>5, <1>6
<1>9. e.signer = p
  BY <1>1 DEF Succeeds
<1> QED BY <1>1, <1>3, <1>7, <1>8, <1>9 DEF Prepared, NextEvent

\* The controller was not gone when it became the controller.
LEMMA ControllerPresent ==
  ASSUME GroupInv, KeysOK, NEW p \in Peers, db[p].known, db[p].ctrl = p
  PROVE  ~Gone(log, p, db[p].last)
<1>1. PICK g \in db[p].events : g \in log /\ StandsAt(db[p], g)
  BY Standing
<1>2. Present(log, g, g.seq)
  BY <1>1 DEF KeysOK
<1> HIDE DEF Gone
<1> QED BY <1>1, <1>2 DEF Present, StandsAt, StandsIn, After

\* A step that leaves replicas, calls and the log alone.
LEMMA Unmoved ==
  ASSUME GroupInv, db' = db, log' = log, prep' = prep \/ (\E p \in Peers : prep' = [prep EXCEPT ![p] = NoEvent])
  PROVE  Still
<1>1. \A p \in Peers : prep'[p] \in {NoEvent, prep[p]}
  <2>1. CASE prep' = prep
    BY <2>1
  <2>2. CASE \E p \in Peers : prep' = [prep EXCEPT ![p] = NoEvent]
    BY <2>2
  <2> QED BY <2>1, <2>2
<1>2. db \in [Peers -> Replicas] /\ prep' \in [Peers -> Events \cup {NoEvent}]
  BY DEF GroupInv, TypeOK
<1> QED BY <1>1, <1>2 DEF Still, SameRows

\* An API call has built an event.
LEMMA PrepareStill ==
  ASSUME GroupInv, NEW p \in Peers, NEW op, NEW e, Prepare(p, op, e), Built(p, e)
  PROVE  Still
<1>1. db' = db /\ log' = log /\ prep' = [prep EXCEPT ![p] = e]
  BY DEF Prepare, stores
<1>2. db \in [Peers -> Replicas] /\ prep' \in [Peers -> Events \cup {NoEvent}]
  <2>1. e \in Events /\ prep \in [Peers -> Events \cup {NoEvent}] /\ db \in [Peers -> Replicas]
    BY DEF GroupInv, TypeOK, Built, Prepared
  <2> HIDE DEF Events, Replicas
  <2> QED BY <1>1, <2>1
<1>3. \A q \in Peers : prep'[q] \in {NoEvent, prep[q]} \/ Built(q, prep'[q])
  <2> HIDE DEF Built
  <2> SUFFICES ASSUME NEW q \in Peers, q = p PROVE prep'[q] \in {NoEvent, prep[q]} \/ Built(q, prep'[q])
    BY <1>1
  <2>1. prep'[p] = prep[p] \/ prep'[p] = e
    BY <1>1
  <2> QED BY <2>1
<1> QED BY <1>1, <1>2, <1>3 DEF Still, SameRows

\* What the guards of the calls say, and the event that goes with them.
LEMMA CallFacts ==
  ASSUME GroupInv, NEW p \in Peers, db[p].known, db[p].last + 1 <= scope.top
  PROVE  /\ db[p] \in Replicas /\ db[p].last + 1 <= MaxSeq /\ db[p].epoch \in Epochs
         /\ db[p].epoch <= db[p].last /\ db[p].last \in Nat /\ db[p].title \in 0 .. MaxSeq
         /\ db[p].epoch \in Nat
<1>1. db[p] \in Replicas /\ db[p].last \in Nat /\ db[p].epoch \in Epochs /\ db[p].epoch <= db[p].last
  BY Standing
<1>2. db[p].title \in 0 .. MaxSeq
  BY <1>1, ReplicaFields
<1> QED BY <1>1, <1>2, ScopeFields DEF Epochs

\* A call by the controller for an event that counts in members only.
LEMMA CallStill ==
  ASSUME GroupInv, NEW p \in Peers, NEW op, NEW e, Prepare(p, op, e), db[p].ctrl = p,
         e \in Events, e.type \notin {"create", "join"}, e.signer = p, e.seq = db[p].last + 1,
         e.epoch = (IF e.type \in Rotations THEN db[p].epoch + 1 ELSE db[p].epoch),
         e.type = "title" => e.val \in 0 .. MaxSeq,
         e.type = "invite" => e.target # p /\ e.val = db[p].title /\ e.holders \ {e.target} \subseteq Members(db[p]),
         e.type = "retention" => e.val \in 0 .. 1,
         e.type = "revoke" => op = "revoke" /\ e.val \in Msgs,
         e.type = "transfer" => op = "transfer" /\ e.target \in Members(db[p]),
         e.type \in Departs => e.target # p /\ e.target \notin e.holders
  PROVE  Still
<1>1. db[p].known /\ db[p].state = "active" /\ e.seq <= scope.top /\ op \in Ops
  BY DEF Prepare
<1>2. /\ db[p].epoch \in Nat /\ db[p].epoch <= db[p].last /\ db[p].last \in Nat /\ db[p].title \in 0 .. MaxSeq
  BY <1>1, CallFacts
<1>3. Sane(e)
  <2>1. e.epoch <= e.seq
    BY <1>2
  <2> QED BY <1>1, <1>2, <2>1 DEF Sane
<1>4. NextEvent(p, e)
  BY <1>1, <1>3, NextBuilt
<1>5. KeysOK => Present(log, e, e.seq - 1)
  <2> SUFFICES ASSUME KeysOK PROVE Present(log, e, e.seq - 1)
    OBVIOUS
  <2>1. e.seq - 1 = db[p].last
    BY <1>2
  <2>2. \A q \in Members(db[p]) : ~Gone(log, q, db[p].last)
    BY <1>1 DEF KeysOK
  <2>3. ~Gone(log, p, db[p].last)
    BY <1>1, ControllerPresent
  <2> HIDE DEF Gone
  <2> QED BY <2>1, <2>2, <2>3 DEF Present
<1> QED BY <1>1, <1>4, <1>5, NextPrepared, PrepareStill DEF Built

\* UpdateGroupTitle, TransferGroupController and the others, one by one.
LEMMA TitleStill == ASSUME GroupInv, NEW p \in Peers, PrepareTitle(p) PROVE Still
<1> DEFINE e == Event(p, "title", p, db[p].last + 1)
<1>1. Prepare(p, "title", e) /\ db[p].ctrl = p /\ db[p].known /\ e.seq <= scope.top
  BY DEF PrepareTitle, Prepare
<1>2. e.seq = db[p].last + 1
  BY DEF Event
<1>3. /\ db[p] \in Replicas /\ db[p].last + 1 <= MaxSeq /\ db[p].epoch \in Epochs
      /\ db[p].epoch <= db[p].last /\ db[p].last \in Nat
  BY <1>1, <1>2, CallFacts
<1>4. db[p].last + 1 \in 0 .. MaxSeq /\ "title" \in Types
  BY <1>3, ScopeFields DEF Types
<1>5. e \in Events /\ e.type = "title" /\ e.signer = p /\ e.epoch = db[p].epoch /\ e.val = db[p].last + 1
  BY <1>3, <1>4, NewEvent
<1> HIDE DEF e
<1> QED BY <1>1, <1>2, <1>4, <1>5, CallStill DEF Rotations, Departs

\* A dissolve is built (DissolveGroup).
LEMMA DissolveStill == ASSUME GroupInv, NEW p \in Peers, PrepareDissolve(p) PROVE Still
<1> DEFINE e == Event(p, "dissolve", p, 0)
<1>1. Prepare(p, "dissolve", e) /\ db[p].ctrl = p /\ db[p].known /\ e.seq <= scope.top
  BY DEF PrepareDissolve, Prepare
<1>2. e.seq = db[p].last + 1
  BY DEF Event
<1>3. /\ db[p] \in Replicas /\ db[p].last + 1 <= MaxSeq /\ db[p].epoch \in Epochs
      /\ db[p].epoch <= db[p].last /\ db[p].last \in Nat
  BY <1>1, <1>2, CallFacts
<1>4. 0 \in 0 .. MaxSeq /\ "dissolve" \in Types
  BY <1>3, ScopeFields DEF Types
<1>5. e \in Events /\ e.type = "dissolve" /\ e.signer = p /\ e.epoch = db[p].epoch
  BY <1>3, <1>4, NewEvent
<1> HIDE DEF e
<1> QED BY <1>1, <1>2, <1>4, <1>5, CallStill DEF Rotations, Departs

\* A retention change is built: by the controller, no event being delegated.
LEMMA RetentionStill ==
  ASSUME GroupInv, ~scope.delegated, NEW p \in Peers, NEW v \in 0 .. 1, PrepareRetention(p, v)
  PROVE  Still
<1> DEFINE e == Event(p, "retention", p, v)
<1>1. Prepare(p, "retention", e) /\ db[p].ctrl = p /\ db[p].known /\ e.seq <= scope.top
  BY DEF PrepareRetention, Prepare
<1>2. e.seq = db[p].last + 1
  BY DEF Event
<1>3. /\ db[p] \in Replicas /\ db[p].last + 1 <= MaxSeq /\ db[p].epoch \in Epochs
      /\ db[p].epoch <= db[p].last /\ db[p].last \in Nat
  BY <1>1, <1>2, CallFacts
<1>4. v \in 0 .. MaxSeq /\ "retention" \in Types
  BY <1>3, ScopeFields, GroupAssumption DEF Types
<1>5. e \in Events /\ e.type = "retention" /\ e.signer = p /\ e.epoch = db[p].epoch /\ e.val = v
  BY <1>3, <1>4, NewEvent
<1> HIDE DEF e
<1> QED BY <1>1, <1>2, <1>4, <1>5, CallStill DEF Rotations, Departs

\* A revoke is built, by the controller too.
LEMMA RevokeStill ==
  ASSUME GroupInv, ~scope.delegated, NEW p \in Peers, NEW m \in Msgs, PrepareRevoke(p, m)
  PROVE  Still
<1> DEFINE e == Event(p, "revoke", Author[m], m)
<1>1. Prepare(p, "revoke", e) /\ db[p].ctrl = p /\ db[p].known /\ e.seq <= scope.top
  BY DEF PrepareRevoke, Prepare
<1>2. e.seq = db[p].last + 1
  BY DEF Event
<1>3. /\ db[p] \in Replicas /\ db[p].last + 1 <= MaxSeq /\ db[p].epoch \in Epochs
      /\ db[p].epoch <= db[p].last /\ db[p].last \in Nat
  BY <1>1, <1>2, CallFacts
<1>4. Author[m] \in Peers /\ "revoke" \in Types
  BY GroupAssumption DEF Types
<1>5. e \in Events /\ e.type = "revoke" /\ e.signer = p /\ e.epoch = db[p].epoch /\ e.val = m
  BY <1>3, <1>4, NewEvent
<1> HIDE DEF e
<1> QED BY <1>1, <1>2, <1>4, <1>5, CallStill DEF Rotations, Departs

\* An invite is built: it counts in the active members.
LEMMA InviteStill ==
  ASSUME GroupInv, NEW p \in Peers, NEW q \in Peers, InviteGroupMember(p, q)
  PROVE  Still
<1> DEFINE e == InviteEvent(p, q)
<1>1. Prepare(p, "invite", e) /\ db[p].ctrl = p /\ db[p].known /\ e.seq <= scope.top
  BY DEF InviteGroupMember, Prepare
<1>2. e.seq = db[p].last + 1
  BY DEF InviteEvent, Event
<1>3. /\ db[p] \in Replicas /\ db[p].last + 1 <= MaxSeq /\ db[p].epoch \in Epochs
      /\ db[p].epoch <= db[p].last /\ db[p].last \in Nat
  BY <1>1, <1>2, CallFacts
<1>4. 0 \in 0 .. MaxSeq /\ "invite" \in Types /\ db[p].keys[db[p].epoch] # NoRow /\ q # p
  BY <1>3, ScopeFields DEF Types, InviteGroupMember
<1>5. /\ e \in Events /\ e.type = "invite" /\ e.signer = p /\ e.epoch = db[p].epoch /\ e.val = db[p].title
      /\ e.target = q /\ e.holders = Active(db[p]) \cup {q}
  BY <1>3, <1>4, NewEvent
<1> HIDE DEF e
<1> QED BY <1>1, <1>2, <1>4, <1>5, CallStill DEF Rotations, Departs, Members

\* A removal is built: the new key leaves out the peer it is about.
LEMMA RemoveStill ==
  ASSUME GroupInv, NEW p \in Peers, NEW q \in Peers, RemoveGroupMember(p, q)
  PROVE  Still
<1> DEFINE e == RotationEvent(p, "remove", q)
<1>1. Prepare(p, "remove", e) /\ db[p].ctrl = p /\ q # p /\ db[p].known /\ e.seq <= scope.top
  BY DEF RemoveGroupMember, Prepare
<1>2. e.seq = db[p].last + 1
  BY DEF RotationEvent, Event
<1>3. /\ db[p] \in Replicas /\ db[p].last + 1 <= MaxSeq /\ db[p].epoch \in Epochs
      /\ db[p].epoch <= db[p].last /\ db[p].last \in Nat
  BY <1>1, <1>2, CallFacts
<1>4. 0 \in 0 .. MaxSeq /\ "remove" \in Types /\ "remove" \in Rotations
  BY <1>3, ScopeFields DEF Types, Rotations
<1>5. /\ e \in Events /\ e.type = "remove" /\ e.signer = p /\ e.epoch = db[p].epoch + 1
      /\ e.target = q /\ e.holders = Active(db[p]) \ {q}
  BY <1>3, <1>4, NewEvent
<1> HIDE DEF e
<1> QED BY <1>1, <1>2, <1>4, <1>5, CallStill

\* A transfer is built, to an active member.
LEMMA TransferStill ==
  ASSUME GroupInv, NEW p \in Peers, NEW q \in Peers, PrepareTransfer(p, q)
  PROVE  Still
<1> DEFINE e == RotationEvent(p, "transfer", q)
<1>1. Prepare(p, "transfer", e) /\ db[p].ctrl = p /\ q \in Active(db[p]) /\ db[p].known /\ e.seq <= scope.top
  BY DEF PrepareTransfer, Prepare
<1>2. e.seq = db[p].last + 1
  BY DEF RotationEvent, Event
<1>3. /\ db[p] \in Replicas /\ db[p].last + 1 <= MaxSeq /\ db[p].epoch \in Epochs
      /\ db[p].epoch <= db[p].last /\ db[p].last \in Nat
  BY <1>1, <1>2, CallFacts
<1>4. 0 \in 0 .. MaxSeq /\ "transfer" \in Types /\ "transfer" \in Rotations
  BY <1>3, ScopeFields DEF Types, Rotations
<1>5. /\ e \in Events /\ e.type = "transfer" /\ e.signer = p /\ e.epoch = db[p].epoch + 1 /\ e.target = q
  BY <1>3, <1>4, NewEvent
<1> HIDE DEF e
<1> QED BY <1>1, <1>2, <1>4, <1>5, CallStill DEF Members, Departs

\* What a step may do.
Moved ==
    \/ Still
    \/ \E p \in Peers : Founds(p) \/ Forgets(p) \/ \E e : Appends(p, e) \/ Extends(p, e) \/ Joins(p, e)

\* The controller numbers an event and sends it out.
Announces(p, e) == Appends(p, e) /\ BroadcastGroupEvent(p, e, Recipients(p, e))
Silent == Still /\ ctl' = ctl /\ evjobs' = evjobs

\* The transaction of a prepared event, or its error.
LEMMA CommitMoves ==
  ASSUME GroupInv, NEW p \in Peers, CommitEvent(p)
  PROVE  Silent \/ \E e : Announces(p, e)
<1> DEFINE e == prep[p]
<1>1. e # NoEvent /\ prep' = [prep EXCEPT ![p] = NoEvent]
  BY DEF CommitEvent
<1>2. Prepared(p, e) /\ db[p] \in Replicas /\ db \in [Peers -> Replicas]
  BY <1>1 DEF GroupInv, PrepOK, TypeOK
<1>3. CASE Commits(p, db[p], e)
  <2> DEFINE o == StoreEvent(p, db[p], e)
  <2>1. db' = [db EXCEPT ![p] = o] /\ log' = log \cup {e} /\ BroadcastGroupEvent(p, e, Recipients(p, e))
    BY <1>3 DEF CommitEvent, Put
  <2>2. NextEvent(p, e)
    BY <1>2, <1>3, CommitNext
  <2>3. o \in Replicas /\ Rows(p, db[p], e, o) /\ o.msgs \subseteq db[p].msgs
    BY <1>2, StoreRows DEF Prepared
  <2> HIDE DEF o
  <2>4. Appends(p, e)
    BY <1>1, <2>1, <2>2, <2>3 DEF Appends, Becomes
  <2> QED BY <2>1, <2>4 DEF Announces
<1>4. CASE ~Commits(p, db[p], e)
  <2>1. db' = db /\ log' = log /\ ctl' = ctl /\ evjobs' = evjobs
    BY <1>4 DEF CommitEvent, stores
  <2> QED BY <1>1, <2>1, Unmoved DEF Silent
<1> QED BY <1>3, <1>4

\* A request of a member, accepted or not.
LEMMA HandleMoves ==
  ASSUME GroupInv, NEW r \in requests, HandleRequest(r)
  PROVE  r[3] \in Peers /\ (Silent \/ \E e : Announces(r[3], e))
<1> DEFINE p == r[3]
           q == r[2]
           e == IF r[1] = "join" THEN Event(p, "join", q, 0) ELSE RotationEvent(p, "leave", q)
           ok == /\ db[p].known /\ db[p].state = "active" /\ db[p].ctrl = p
                 /\ q \in IF r[1] = "join" THEN Invited(db[p]) ELSE Active(db[p])
                 /\ Commits(p, db[p], e)
<1>1. p \in Peers /\ q \in Peers /\ r[1] \in {"join", "leave"} /\ db[p] \in Replicas /\ r = <<r[1], q, p>>
  BY DEF GroupInv, TypeOK
<1>2. prep' = prep /\ db[p].last < scope.top
  BY DEF HandleRequest, threads
<1>3. CASE ok
  <2> DEFINE o == StoreEvent(p, db[p], e)
  <2>1. db' = [db EXCEPT ![p] = o] /\ log' = log \cup {e} /\ BroadcastGroupEvent(p, e, Recipients(p, e))
    BY <1>3 DEF HandleRequest, Put
  <2>2. db[p].known /\ db[p].last + 1 <= scope.top
    BY <1>1, <1>2, <1>3, Standing, ScopeFields
  <2>3. /\ db[p] \in Replicas /\ db[p].last + 1 <= MaxSeq /\ db[p].epoch \in Epochs
        /\ db[p].epoch <= db[p].last /\ db[p].last \in Nat /\ db[p].epoch \in Nat
    BY <1>1, <2>2, CallFacts
  <2>4. 0 \in 0 .. MaxSeq /\ "leave" \in Types /\ "join" \in Types /\ "leave" \in Rotations /\ "join" \notin Rotations
    BY <2>3, ScopeFields DEF Types, Rotations
  <2>5. /\ e \in Events /\ e.type = r[1] /\ e.signer = p /\ e.target = q /\ e.seq = db[p].last + 1
        /\ e.epoch = (IF e.type \in Rotations THEN db[p].epoch + 1 ELSE db[p].epoch)
        /\ e.target \notin e.holders
    <3>1. CASE r[1] = "join"
      BY <1>1, <2>3, <2>4, <3>1, NewEvent
    <3>2. CASE r[1] = "leave"
      BY <1>1, <2>3, <2>4, <3>2, NewEvent
    <3> QED BY <1>1, <3>1, <3>2
  <2>6. q \in Members(db[p]) /\ db[p].known /\ db[p].state = "active" /\ db[p].ctrl = p
    BY <1>3 DEF Members
  <2> HIDE DEF ok, o, e
  <2>7. Sane(e) /\ e.type # "create" /\ e.type # "invite" /\ e.type \in {"join", "leave"}
    <3>1. e.epoch <= e.seq
      BY <2>3, <2>5
    <3> QED BY <1>1, <2>5, <3>1 DEF Sane
  <2>8. NextEvent(p, e)
    <3> HIDE DEF p
    <3> QED BY <1>1, <2>5, <2>6, <2>7, NextBuilt
  <2>9. o \in Replicas /\ Rows(p, db[p], e, o) /\ o.msgs \subseteq db[p].msgs
    <3> HIDE DEF p
    <3> QED BY <1>1, <2>5, <2>7, StoreRows DEF o
  <2>10. Requested(p, e)
    <3> HIDE DEF p, q
    <3> QED BY <1>1, <2>5, <2>6, <2>7 DEF Requested
  <2>11. Appends(p, e)
    <3> HIDE DEF p, q
    <3> QED BY <1>2, <2>1, <2>8, <2>9, <2>10 DEF Appends, Becomes
  <2> QED BY <1>1, <2>1, <2>11 DEF Announces
<1>4. CASE ~ok
  <2>1. db' = db /\ log' = log /\ ctl' = ctl /\ evjobs' = evjobs
    BY <1>4 DEF HandleRequest, stores
  <2> QED BY <1>1, <1>2, <2>1, Unmoved DEF Silent
<1> QED BY <1>3, <1>4

\* CreateGroup.
LEMMA CreateFields ==
  ASSUME NEW p \in Peers
  PROVE  /\ Create(p) \in Events /\ Create(p).seq = 1 /\ Create(p).type = "create" /\ Create(p).signer = p
         /\ Create(p).epoch = 1 /\ Create(p).val = 1 /\ Create(p).target = p /\ Create(p).holders = {p}
<1>1. 1 \in 0 .. MaxSeq /\ 1 \in Epochs /\ 1 \in NoKey .. MaxSeq
  BY GroupAssumption DEF Epochs, NoKey
<1>2. "controller" \in Roles /\ "create" \in Types
  BY DEF Roles, Types
<1> HIDE DEF Epochs, NoKey, Roles, Types
<1> QED BY <1>1, <1>2 DEF Create, Events

\* CreateGroup numbers the first event.
LEMMA CreateMoves == ASSUME GroupInv, NEW p \in Peers, CreateGroup(p) PROVE Moved
<1> DEFINE R == [[q \in Peers |-> "none"] EXCEPT ![p] = "controller"]
           S == [[q \in Peers |-> "none"] EXCEPT ![p] = "active"]
           K == [[n \in Epochs |-> NoRow] EXCEPT ![1] = 1]
           o == [Absent EXCEPT !.known = TRUE, !.ctrl = p, !.epoch = 1, !.last = 1, !.title = 1,
                           !.role = R, !.status = S, !.events = {Create(p)}, !.keys = K]
<1>1. log = {} /\ log' = {Create(p)} /\ prep' = prep
  BY DEF CreateGroup, threads
<1>2. db' = [db EXCEPT ![p] = o]
  BY DEF CreateGroup, Absent
<1>3. R \in [Peers -> Roles] /\ S \in [Peers -> MemberStates]
  BY DEF Roles, MemberStates
<1>4. K \in [Epochs -> NoRow .. MaxSeq] /\ \A n \in Epochs : K[n] > NoKey => n = 1
  <2>1. 1 \in Epochs /\ 1 \in NoRow .. MaxSeq /\ NoRow \in NoRow .. MaxSeq /\ ~(NoRow > NoKey)
    BY GroupAssumption DEF Epochs, NoRow, NoKey
  <2> HIDE DEF Epochs, NoRow, NoKey
  <2> QED BY <2>1
<1>5. \A q \in Peers : S[q] = IF q = p THEN "active" ELSE "none"
  OBVIOUS
<1>6. {Create(p)} \in SUBSET Events /\ 1 \in 0 .. MaxSeq
  BY CreateFields, GroupAssumption
<1> HIDE DEF R, S, K, Epochs, NoRow, Events, Texts, Roles, MemberStates, Create
<1>7. o \in Replicas
  BY <1>3, <1>4, <1>6, AbsentRows DEF Replicas
<1>8. /\ o.known /\ o.last = 1 /\ o.ctrl = p /\ o.epoch = 1 /\ o.state = "active" /\ o.title = 1
      /\ o.events = {Create(p)} /\ o.keys = K /\ o.status = S /\ o.msgs = {}
  BY DEF Absent
<1> HIDE DEF o
<1>9. Members(o) = {p}
  BY <1>5, <1>8 DEF Members, Active, Invited
<1>10. Founds(p)
  BY <1>1, <1>2, <1>4, <1>7, <1>8, <1>9 DEF Founds, Becomes
<1> QED BY <1>10 DEF Moved

\* An event that arrives, on its own or in a sync response.
LEMMA ApplyMoves ==
  ASSUME GroupInv, NEW p \in Peers, NEW e \in log, Addressed(e, p), KeysOK => MayHear(p, e),
         db' = [db EXCEPT ![p] = Applied(p, db[p], e)], log' = log,
         prep' = prep
  PROVE  Moved
<1>1. /\ e \in Events /\ Sane(e) /\ e.seq >= 1 /\ (e.seq = 1 <=> e.type = "create")
      /\ db \in [Peers -> Replicas] /\ db[p] \in Replicas
  BY DEF GroupInv, LogOK, TypeOK
<1>2. db[p].known => db[p].last >= 1
  BY Standing
<1> DEFINE o == Applied(p, db[p], e)
<1>3. /\ o \in Replicas /\ o.msgs \subseteq db[p].msgs
      /\ \/ o = db[p]
         \/ /\ db[p].known /\ e.seq = db[p].last + 1 /\ Rows(p, db[p], e, o)
            /\ db[p].state = "active" \/ e.type = "dissolve"
         \/ ~db[p].known /\ e.type = "invite" /\ FirstRows(e, o)
  BY <1>1, <1>2, AppliedRows
<1>4. db' = [db EXCEPT ![p] = o]
  OBVIOUS
<1> HIDE DEF o, MayHear, Addressed
<1>5. CASE o = db[p]
  <2>1. db' = db
    BY <1>1, <1>4, <1>5
  <2> QED BY <2>1, Unmoved DEF Moved
<1>6. CASE /\ db[p].known /\ e.seq = db[p].last + 1 /\ Rows(p, db[p], e, o)
           /\ db[p].state = "active" \/ e.type = "dissolve"
  BY <1>3, <1>4, <1>6 DEF Moved, Extends, Becomes
<1>7. CASE ~db[p].known /\ e.type = "invite" /\ FirstRows(e, o)
  BY <1>3, <1>4, <1>7 DEF Moved, Joins, Becomes
<1> QED BY <1>3, <1>5, <1>6, <1>7

\* An event that was broadcast arrives.
LEMMA ReceiveMoves == ASSUME GroupInv, NEW p \in Peers, NEW e, ReceiveEvent(p, e) PROVE Moved
<1>1. <<p, e>> \in ctl /\ db' = [db EXCEPT ![p] = Applied(p, db[p], e)] /\ log' = log /\ prep' = prep
  BY DEF ReceiveEvent, Put, threads
<1>2. Addressed(e, p) /\ (KeysOK => MayHear(p, e))
  <2>1. \A x \in ctl : Addressed(x[2], x[1]) /\ (KeysOK => MayHear(x[1], x[2]))
    BY DEF GroupInv, Carried, KeysOK
  <2> HIDE DEF Addressed, MayHear, KeysOK
  <2> QED BY <1>1, <2>1
<1>3. e \in log
  BY <1>2 DEF Addressed
<1> HIDE DEF Addressed, MayHear, KeysOK
<1> QED BY <1>1, <1>2, <1>3, ApplyMoves

\* The next event of a sync answer is applied.
LEMMA SyncMoves == ASSUME GroupInv, NEW p \in Peers, SyncEvent(p) PROVE Moved
<1> DEFINE s == answer[p].events
           e == Head(s)
<1>1. s # <<>> /\ db' = [db EXCEPT ![p] = Applied(p, db[p], e)] /\ log' = log /\ prep' = prep
  BY DEF SyncEvent, Put
<1>2. /\ s \in Seq(log) /\ \A i \in 1 .. Len(s) : Addressed(s[i], p)
      /\ KeysOK => \A i \in 1 .. Len(s) : MayHear(p, s[i])
  BY DEF GroupInv, Carried, KeysOK
<1> HIDE DEF s, Addressed, MayHear, KeysOK
<1>3. e = s[1] /\ 1 \in 1 .. Len(s)
  BY <1>1, <1>2
<1>4. Addressed(e, p) /\ (KeysOK => MayHear(p, e))
  BY <1>2, <1>3
<1>5. e \in log
  BY <1>4 DEF Addressed
<1> HIDE DEF e
<1> QED BY <1>1, <1>4, <1>5, ApplyMoves

\* The records of a dissolved group are deleted.
LEMMA PurgeMoves == ASSUME GroupInv, NEW p \in Peers, PurgeArchived(p) PROVE Moved
<1>1. /\ "purge" \in Ops /\ db[p].known /\ db[p].state = "archived" /\ db' = [db EXCEPT ![p] = Absent]
      /\ log' = log /\ prep' = prep
  BY DEF PurgeArchived, Put, threads
<1>2. Absent \in Replicas /\ Absent.msgs = {}
  BY AbsentRows
<1>3. Becomes(p, Absent)
  <2> HIDE DEF Absent
  <2> QED BY <1>1, <1>2 DEF Becomes
<1>4. Forgets(p)
  BY <1>1, <1>3 DEF Forgets
<1> QED BY <1>4 DEF Moved

\* A step that changes messages of one node only.
LEMMA RowStill ==
  ASSUME GroupInv, NEW p \in Peers, NEW o \in Replicas, SameRows(o, db[p]),
         \A t \in o.msgs : t \in db[p].msgs \/ Numbered(t, Cardinality(added')),
         db' = [db EXCEPT ![p] = o], log' = log, prep' = prep
  PROVE  Still
<1>1. db \in [Peers -> Replicas] /\ prep' \in [Peers -> Events \cup {NoEvent}]
  BY DEF GroupInv, TypeOK
<1>2. \A q \in Peers : /\ SameRows(db'[q], db[q])
                      /\ \A t \in db'[q].msgs : t \in db[q].msgs \/ Numbered(t, Cardinality(added'))
  <2>1. \A q \in Peers : db'[q] = db[q] \/ (q = p /\ db'[q] = o)
    BY <1>1
  <2>2. \A q \in Peers : SameRows(db[q], db[q])
    BY DEF SameRows
  <2> HIDE DEF Numbered, SameRows
  <2> QED BY <2>1, <2>2
<1>3. db' \in [Peers -> Replicas]
  <2> HIDE DEF Replicas
  <2> QED BY <1>1
<1>4. \A q \in Peers : prep'[q] \in {NoEvent, prep[q]}
  OBVIOUS
<1> QED BY <1>1, <1>2, <1>3, <1>4 DEF Still

\* The retention sweep.
LEMMA DropRows ==
  ASSUME NEW d \in Replicas
  PROVE  DropAged(d) \in Replicas /\ SameRows(DropAged(d), d) /\ DropAged(d).msgs \subseteq d.msgs
<1> DEFINE S == {t \in d.msgs : t.id \notin aged}
<1>1. CASE d.retention = 0
  BY <1>1 DEF DropAged, SameRows
<1>2. CASE d.retention # 0
  <2>1. DropAged(d) = [d EXCEPT !.msgs = S]
    BY <1>2 DEF DropAged
  <2>2. S \in SUBSET d.msgs
    OBVIOUS
  <2>3. CASE d.msgs = {}
    <3>1. S = d.msgs
      BY <2>3
    <3>2. [d EXCEPT !.msgs = S] = d
      <4> HIDE DEF S, Texts, Events, Roles, MemberStates, Epochs, NoRow
      <4> QED BY <3>1 DEF Replicas
    <3> HIDE DEF S
    <3> QED BY <2>1, <3>2 DEF SameRows
  <2>4. CASE d.msgs # {}
    <3>1. PICK t \in d.msgs : TRUE
      BY <2>4
    <3>2. t \in Texts
      BY <3>1, ReplicaFields
    <3> HIDE DEF S
    <3> QED BY <2>1, <2>2, <3>2, MessageRows
  <2> QED BY <2>3, <2>4
<1> QED BY <1>1, <1>2

\* A text that arrives.
LEMMA StoredRows ==
  ASSUME NEW d \in Replicas, NEW t \in Texts
  PROVE  Stored(d, t) \in Replicas /\ SameRows(Stored(d, t), d) /\ Stored(d, t).msgs \subseteq d.msgs \cup {t}
<1>1. CASE Accepts(d, t)
  <2>1. Stored(d, t) = AddGroupMessage(d, t) /\ {} \in SUBSET d.msgs
    BY <1>1 DEF Stored
  <2>2. /\ AddGroupMessage(d, t) \in Replicas /\ SameRows(AddGroupMessage(d, t), d)
        /\ AddGroupMessage(d, t).msgs \subseteq d.msgs \cup {t}
    BY <2>1, MessageRows
  <2> QED BY <2>1, <2>2, Zenon
<1>2. CASE ~Accepts(d, t)
  BY <1>2 DEF Stored, SameRows
<1> QED BY <1>1, <1>2

\* The local deletion of a message that never left.
LEMMA DeleteStill == ASSUME GroupInv, NEW p \in Peers, NEW m \in Msgs, DeleteUnsent(p, m) PROVE Still
<1> DEFINE S == {t \in db[p].msgs : t.id # m}
           o == [db[p] EXCEPT !.msgs = S]
<1>1. db' = [db EXCEPT ![p] = o] /\ log' = log /\ prep' = prep /\ m \in IdsOf(db[p])
  BY DEF DeleteUnsent, Put, threads
<1>2. PICK t \in db[p].msgs : TRUE
  BY <1>1 DEF IdsOf
<1>3. db[p] \in Replicas
  BY DEF GroupInv, TypeOK
<1>4. t \in Texts /\ S \in SUBSET db[p].msgs
  BY <1>3, ReplicaFields
<1>5. o \in Replicas /\ SameRows(o, db[p]) /\ o.msgs \subseteq db[p].msgs
  <2> HIDE DEF S
  <2> QED BY <1>3, <1>4, MessageRows
<1> HIDE DEF o
<1> QED BY <1>1, <1>5, RowStill

\* A message is stored at its author.
LEMMA SendStill == ASSUME GroupInv, NEW m \in Msgs, SendGroupText(m) PROVE Still
<1> DEFINE p == Author[m]
           t == sealed[m][1]
           o == AddGroupMessage(db[p], t)
<1>1. db' = [db EXCEPT ![p] = o] /\ log' = log /\ prep' = prep /\ sealed[m] # <<>>
  BY DEF SendGroupText
<1>2. p \in Peers /\ t \in Texts /\ db[p] \in Replicas /\ {} \in SUBSET db[p].msgs
  BY <1>1, GroupAssumption DEF GroupInv, TypeOK
<1>a. Numbered(t, Cardinality(added'))
  BY <1>1 DEF GroupInv, Room, SendGroupText
<1> HIDE DEF p, t, Numbered
<1>3. o \in Replicas /\ SameRows(o, db[p]) /\ o.msgs \subseteq db[p].msgs \cup {t}
  BY <1>2, MessageRows
<1> HIDE DEF o
<1> QED BY <1>a, <1>1, <1>2, <1>3, RowStill

\* A message arrives.
LEMMA TextStill == ASSUME GroupInv, NEW p \in Peers, NEW t, ReceiveGroupText(p, t) PROVE Still
<1> DEFINE o == Stored(db[p], t)
<1>1. db' = [db EXCEPT ![p] = o] /\ log' = log /\ prep' = prep /\ <<p, t>> \in texts
  BY DEF ReceiveGroupText, Put, threads
<1>2. t \in Texts /\ db[p] \in Replicas
  BY <1>1 DEF GroupInv, TypeOK
<1>a. Numbered(t, Cardinality(added'))
  BY <1>1 DEF GroupInv, Room, ReceiveGroupText, threads
<1> HIDE DEF Numbered
<1>3. o \in Replicas /\ SameRows(o, db[p]) /\ o.msgs \subseteq db[p].msgs \cup {t}
  BY <1>2, StoredRows
<1> HIDE DEF o
<1> QED BY <1>a, <1>1, <1>3, RowStill

\* A message of a sync answer is stored.
LEMMA SyncTextStill == ASSUME GroupInv, NEW p \in Peers, NEW t \in answer[p].texts, SyncText(p, t) PROVE Still
<1> DEFINE o == Stored(db[p], t)
<1>1. db' = [db EXCEPT ![p] = o] /\ log' = log /\ prep' = prep
  BY DEF SyncText, Put
<1>2. t \in Texts /\ db[p] \in Replicas
  BY DEF GroupInv, TypeOK
<1>a. Numbered(t, Cardinality(added'))
  BY DEF GroupInv, Room, SyncText
<1> HIDE DEF Numbered
<1>3. o \in Replicas /\ SameRows(o, db[p]) /\ o.msgs \subseteq db[p].msgs \cup {t}
  BY <1>2, StoredRows
<1> HIDE DEF o
<1> QED BY <1>a, <1>1, <1>3, RowStill

\* Expired messages are deleted.
LEMMA CleanupStill == ASSUME GroupInv, NEW p \in Peers, CleanupExpired(p) PROVE Still
<1> DEFINE o == DropAged(db[p])
<1>1. db' = [db EXCEPT ![p] = o] /\ log' = log /\ prep' = prep
  BY DEF CleanupExpired, Put, threads
<1>2. db[p] \in Replicas
  BY DEF GroupInv, TypeOK
<1>3. o \in Replicas /\ SameRows(o, db[p]) /\ o.msgs \subseteq db[p].msgs
  BY <1>2, DropRows
<1> HIDE DEF o
<1> QED BY <1>1, <1>3, RowStill

\* Every step.
LEMMA NextMoves == ASSUME GroupInv, Ordered, Next PROVE Moved
<1>1. ASSUME NEW p \in Peers, ApiCall(p) PROVE Moved
  <2>1. CASE CreateGroup(p)
    BY <2>1, CreateMoves
  <2>2. CASE PrepareTitle(p) \/ PrepareDissolve(p) \/ \E q \in Peers : InviteGroupMember(p, q) \/ RemoveGroupMember(p, q)
                        \/ PrepareTransfer(p, q)
    BY <2>2, TitleStill, DissolveStill, InviteStill, RemoveStill, TransferStill DEF Moved
  <2>3. CASE \E q \in Peers : SyncGroup(p, q)
    <3>1. db' = db /\ log' = log /\ prep' = prep
      BY <2>3 DEF SyncGroup, stores
    <3> QED BY <3>1, Unmoved DEF Moved
  <2>4. CASE (\E v \in 0 .. 1 : PrepareRetention(p, v)) \/ \E m \in Msgs : PrepareRevoke(p, m)
    BY <2>4, RetentionStill, RevokeStill DEF Moved, Ordered
  <2>5. CASE \E m \in Msgs : DeleteUnsent(p, m)
    BY <2>5, DeleteStill DEF Moved
  <2>6. CASE AcceptGroupInvite(p) \/ LeaveGroup(p)
    <3>1. db' = db /\ log' = log /\ prep' = prep
      BY <2>6 DEF AcceptGroupInvite, LeaveGroup, stores, threads
    <3> QED BY <3>1, Unmoved DEF Moved
  <2> QED BY <1>1, <2>1, <2>2, <2>3, <2>4, <2>5, <2>6 DEF ApiCall
<1>2. ASSUME NEW p \in Peers, Receive(p) PROVE Moved
  <2>1. CASE \E x \in ctl : x[1] = p /\ ReceiveEvent(p, x[2])
    BY <2>1, ReceiveMoves
  <2>2. CASE \E x \in texts : x[1] = p /\ ReceiveGroupText(p, x[2])
    BY <2>2, TextStill DEF Moved
  <2>3. CASE SyncEvent(p)
    BY <2>3, SyncMoves
  <2>4. CASE \E t \in answer[p].texts : SyncText(p, t)
    BY <2>4, SyncTextStill DEF Moved
  <2> QED BY <1>2, <2>1, <2>2, <2>3, <2>4 DEF Receive
<1>3. ASSUME NEW p \in Peers, CommitEvent(p) \/ CleanupExpired(p) \/ PurgeArchived(p) PROVE Moved
  BY <1>3, CommitMoves, CleanupStill, PurgeMoves DEF Moved, Announces, Silent
<1>4. ASSUME NEW p \in Peers, Crash(p) PROVE Moved
  <2>1. db' = db /\ log' = log /\ prep' = [prep EXCEPT ![p] = NoEvent]
    BY <1>4 DEF Crash, stores
  <2> QED BY <2>1, Unmoved DEF Moved
<1>5. ASSUME NEW r \in requests, HandleRequest(r) PROVE Moved
  BY <1>5, HandleMoves DEF Moved, Announces, Silent
<1>6. ASSUME NEW m \in Msgs, SendGroupText(m) PROVE Moved
  BY <1>6, SendStill DEF Moved
<1>7. CASE \/ Lose
           \/ \E j \in evjobs : RetryEvent(j[1], j[2], j[3])
           \/ \E m \in Msgs : SealText(m) \/ MessageAges(m)
           \/ \E m \in Msgs, q \in Peers :
                MarkSent(m, q) \/ ReceiveAck(m, q) \/ \E ok \in BOOLEAN : RetryDelivery(m, q, ok)
  <2>1. db' = db /\ log' = log /\ prep' = prep
    BY <1>7 DEF Lose, RetryEvent, SealText, MessageAges, MarkSent, ReceiveAck, RetryDelivery, stores, threads
  <2> QED BY <2>1, Unmoved DEF Moved
<1> QED BY <1>1, <1>2, <1>3, <1>4, <1>5, <1>6, <1>7 DEF Next

-----------------------------------------------------------------------------
(* The log and the replicas after a step                                    *)

\* The title after n events does not depend on later ones.
LEMMA TitleStays ==
  ASSUME NEW L, L \subseteq Events, NEW e \in Events, \A f \in L : f.seq < e.seq,
         NEW n \in Nat, NEW t, TitleIs(L, n, t), n < e.seq \/ e.type \notin Names
  PROVE  TitleIs(L \cup {e}, n, t)
<1>1. PICK x \in L : /\ x.type \in Names /\ x.seq <= n /\ x.val = t
                     /\ \A f \in L : f.type \in Names /\ f.seq <= n => f.seq <= x.seq
  BY DEF TitleIs
<1>2. \A f \in L \cup {e} : f.type \in Names /\ f.seq <= n => f.seq <= x.seq
  <2> SUFFICES ASSUME NEW f \in L \cup {e}, f.type \in Names, f.seq <= n PROVE f.seq <= x.seq
    OBVIOUS
  <2>1. e.seq \in Nat
    BY EventFields
  <2>2. f \in L
    BY <2>1
  <2> QED BY <1>1, <2>2
<1> QED BY <1>1, <1>2 DEF TitleIs

\* Nor on an event that gives none.
LEMMA TitleNext ==
  ASSUME NEW L, L \subseteq Events, NEW n \in Nat, NEW t, TitleIs(L, n, t),
         \A f \in L : f.seq = n + 1 => f.type \notin Names
  PROVE  TitleIs(L, n + 1, t)
<1>1. PICK x \in L : /\ x.type \in Names /\ x.seq <= n /\ x.val = t
                     /\ \A f \in L : f.type \in Names /\ f.seq <= n => f.seq <= x.seq
  BY DEF TitleIs
<1>2. x.seq \in Nat /\ x.seq <= n + 1
  BY <1>1, EventFields
<1>3. \A f \in L : f.type \in Names /\ f.seq <= n + 1 => f.seq <= x.seq
  <2> SUFFICES ASSUME NEW f \in L, f.type \in Names, f.seq <= n + 1 PROVE f.seq <= x.seq
    OBVIOUS
  <2>1. f.seq \in Nat /\ f.seq # n + 1
    BY EventFields
  <2>2. f.seq <= n
    BY <2>1
  <2> QED BY <1>1, <2>2
<1> QED BY <1>1, <1>2, <1>3 DEF TitleIs

\* A title event gives its own.
LEMMA TitleGiven ==
  ASSUME NEW L, NEW e \in L, e.type \in Names, L \subseteq Events
  PROVE  TitleIs(L, e.seq, e.val)
<1>1. e.seq \in Nat
  BY EventFields
<1> QED BY <1>1 DEF TitleIs

\* The next event and the one it follows.
LEMMA NextFacts ==
  ASSUME GroupInv, NEW p \in Peers, NEW e, NextEvent(p, e)
  PROVE  /\ e \in Events /\ e.seq \in Nat /\ \A f \in log : f.seq < e.seq /\ f.seq \in Nat /\ f.seq >= 1
         /\ log \subseteq Events /\ e.seq = db[p].last + 1 /\ e.seq >= 2
         /\ \E g \in db[p].events : g \in log /\ StandsAt(db[p], g) /\ Succeeds(g, e)
<1>1. LogOK /\ e \in Events /\ \A f \in log : f.seq < e.seq
  BY DEF GroupInv, NextEvent
<1>2. PICK g \in db[p].events : StandsAt(db[p], g) /\ Succeeds(g, e)
  BY DEF NextEvent
<1>3. g \in log
  BY <1>2 DEF NextEvent, GroupInv, ReplicaOK, ReplicaIn
<1>4. e.seq \in Nat /\ g.seq \in Nat /\ g.seq >= 1 /\ e.seq = g.seq + 1 /\ db[p].last = g.seq
  BY <1>1, <1>2, <1>3, EventFields DEF LogOK, Succeeds, StandsAt, StandsIn
<1>5. \A f \in log : f.seq \in Nat /\ f.seq >= 1
  BY <1>1, EventFields DEF LogOK
<1> QED BY <1>1, <1>2, <1>3, <1>4, <1>5 DEF LogOK

\* The log stays one sequence: what is appended comes right after its newest event.
LEMMA LogStep == ASSUME GroupInv, Moved, scope' = scope PROVE LogOK'
<1>0. LogOK /\ Ops' = Ops /\ \A e : Sane(e)' <=> Sane(e)
  BY DEF GroupInv, Ops, Sane
<1> HIDE DEF Sane
<1>1. CASE log' = log
  BY <1>0, <1>1 DEF LogOK
<1>2. ASSUME NEW p \in Peers, Founds(p) PROVE LogOK'
  <2> DEFINE c == Create(p)
  <2>1. /\ c \in Events /\ c.seq = 1 /\ c.type = "create" /\ c.epoch = 1 /\ log' = {c}
    BY <1>2, CreateFields DEF Founds
  <2>2. Sane(c)'
    BY <2>1, <1>0 DEF Sane
  <2> HIDE DEF c, TitleIs
  <2>3. \A n \in 1 .. c.seq : n = c.seq
    BY <2>1
  <2> QED BY <2>1, <2>2, <2>3 DEF LogOK
<1>3. ASSUME NEW p \in Peers, NEW e, Appends(p, e) PROVE LogOK'
  <2>1. NextEvent(p, e) /\ log' = log \cup {e}
    BY <1>3 DEF Appends
  <2>2. /\ e \in Events /\ e.seq \in Nat /\ \A f \in log : f.seq < e.seq /\ f.seq \in Nat /\ f.seq >= 1
        /\ log \subseteq Events /\ e.seq >= 2
    BY <2>1, NextFacts
  <2>3. PICK g \in db[p].events : g \in log /\ Succeeds(g, e)
    BY <2>1, NextFacts
  <2>4. Sane(e) /\ e.type # "create" /\ (e.type = "invite" => TitleIs(log, e.seq - 1, e.val)) /\ e.seq = g.seq + 1
    BY <2>1, <2>3 DEF NextEvent, Succeeds
  <2>5. \A f, h \in log' : f.seq = h.seq => f = h
    BY <1>0, <2>1, <2>2 DEF LogOK
  <2>6. \A f \in log' : Sane(f)' /\ f.seq >= 1 /\ (f.seq = 1 <=> f.type = "create")
    BY <1>0, <2>1, <2>2, <2>4 DEF LogOK
  <2>7. \A f \in log' : \A n \in 1 .. f.seq : \E h \in log' : h.seq = n
    <3> SUFFICES ASSUME NEW n \in 1 .. e.seq, n # e.seq PROVE \E h \in log : h.seq = n
      BY <1>0, <2>1 DEF LogOK
    <3>1. n \in 1 .. g.seq
      BY <2>2, <2>3, <2>4
    <3> QED BY <1>0, <2>3, <3>1 DEF LogOK
  <2>8. \A f, h \in log' : h.seq = f.seq + 1 => Succeeds(f, h)
    <3> SUFFICES ASSUME NEW f \in log', NEW h \in log', h.seq = f.seq + 1 PROVE Succeeds(f, h)
      OBVIOUS
    <3>1. CASE f \in log /\ h \in log
      BY <1>0, <3>1 DEF LogOK
    <3>2. CASE h = e
      <4>1. f \in log
        BY <2>1, <2>2, <3>2
      <4>2. f.seq = g.seq
        BY <2>2, <2>3, <2>4, <3>2, <4>1
      <4> QED BY <1>0, <2>3, <3>2, <4>1, <4>2 DEF LogOK
    <3>3. CASE f = e
      BY <2>1, <2>2, <3>3
    <3> QED BY <2>1, <3>1, <3>2, <3>3
  <2>9. \A f \in log' : f.type = "invite" => TitleIs(log', f.seq, f.val)
    <3>1. ASSUME NEW f \in log, f.type = "invite" PROVE TitleIs(log', f.seq, f.val)
      <4>1. TitleIs(log, f.seq, f.val) /\ f.seq \in Nat /\ f.seq < e.seq
        BY <1>0, <2>2, <3>1 DEF LogOK
      <4> HIDE DEF TitleIs
      <4> QED BY <2>1, <2>2, <4>1, TitleStays
    <3>2. ASSUME e.type = "invite" PROVE TitleIs(log', e.seq, e.val)
      <4>1. g.seq \in Nat /\ TitleIs(log, g.seq, e.val) /\ \A f \in log : f.seq # g.seq + 1
        <5>1. g.seq \in Nat /\ g.seq = e.seq - 1
          BY <2>2, <2>3, <2>4
        <5>2. \A f \in log : f.seq # e.seq
          BY <2>2
        <5> HIDE DEF TitleIs
        <5> QED BY <2>4, <3>2, <5>1, <5>2
      <4>2. TitleIs(log, g.seq + 1, e.val)
        BY <2>2, <4>1, TitleNext
      <4>3. e.type \notin Names
        BY <3>2 DEF Names
      <4> HIDE DEF TitleIs
      <4> QED BY <2>1, <2>2, <2>4, <4>2, <4>3, TitleStays
    <3> QED BY <2>1, <3>1, <3>2
  <2>10. log' # {} => \E f \in log' : \A h \in log' : h.seq <= f.seq
    BY <2>1, <2>2
  <2> HIDE DEF TitleIs
  <2> QED BY <2>1, <2>2, <2>5, <2>6, <2>7, <2>8, <2>9, <2>10 DEF LogOK
<1> QED BY <1>1, <1>2, <1>3 DEF Moved, Still, Forgets, Extends, Joins

\* A replica whose rows stay, in a log that stays or grows.
LEMMA ReplicaStays ==
  ASSUME NEW L, L \subseteq Events, NEW e \in Events, \A f \in L : f.seq < e.seq, NEW d, NEW o,
         ReplicaIn(L, d), SameRows(o, d)
  PROVE  ReplicaIn(L, o) /\ ReplicaIn(L \cup {e}, o)
<1>1. \A g \in L : StandsIn(L, d, g) => StandsIn(L, o, g) /\ StandsIn(L \cup {e}, o, g)
  <2> SUFFICES ASSUME NEW g \in L, StandsIn(L, d, g) PROVE StandsIn(L, o, g) /\ StandsIn(L \cup {e}, o, g)
    OBVIOUS
  <2>1. TitleIs(L, g.seq, o.title) /\ g.seq \in Nat /\ g.seq < e.seq
    BY EventFields DEF StandsIn, SameRows
  <2>2. TitleIs(L \cup {e}, g.seq, o.title)
    BY <2>1, TitleStays
  <2> HIDE DEF TitleIs
  <2> QED BY <2>1, <2>2 DEF StandsIn, SameRows
<1> HIDE DEF StandsIn
<1> QED BY <1>1 DEF ReplicaIn, SameRows

\* A replica that takes the event after its last one.
LEMMA ReplicaExtends ==
  ASSUME NEW L, L \subseteq Events, NEW p \in Peers, NEW d, NEW o, NEW g \in d.events, NEW e \in L,
         ReplicaIn(L, d), d.known, Rows(p, d, e, o), StandsIn(L, d, g), Succeeds(g, e),
         d.state = "active" \/ e.type = "dissolve", \A f \in L : f.seq = e.seq => f = e,
         e.type # "create"
  PROVE  ReplicaIn(L, o)
<1>1. /\ g \in L /\ e.seq = g.seq + 1 /\ d.last = g.seq /\ g.seq \in Nat /\ e.seq \in Nat
      /\ \A f \in d.events : f \in L /\ f.seq <= d.last /\ f.seq \in Nat /\ \A n \in f.seq .. d.last : \E h \in d.events : h.seq = n
  BY EventFields DEF ReplicaIn, StandsIn, Succeeds
<1>2. o.known /\ o.last = e.seq /\ o.events = d.events \cup {e}
  BY DEF Rows
<1>3. TitleIs(L, e.seq, o.title)
  <2>1. CASE e.type = "title"
    <3>1. o.title = e.val
      BY <2>1 DEF Rows
    <3> QED BY <2>1, <3>1, TitleGiven DEF Names
  <2>2. CASE e.type # "title"
    <3>1. o.title = d.title /\ TitleIs(L, g.seq, d.title)
      BY <2>2 DEF Rows, StandsIn
    <3>2. \A f \in L : f.seq = g.seq + 1 => f.type \notin Names
      BY <1>1, <2>2 DEF Names
    <3>3. TitleIs(L, g.seq + 1, d.title)
      BY <1>1, <3>1, <3>2, TitleNext
    <3> HIDE DEF TitleIs
    <3> QED BY <1>1, <3>1, <3>3
  <2> QED BY <2>1, <2>2
<1>4. StandsIn(L, o, e)
  <2> HIDE DEF TitleIs
  <2> QED BY <1>2, <1>3 DEF StandsIn, Succeeds, Rows, After, Rotations
<1>5. \A f \in o.events : f.seq <= o.last /\ \A n \in f.seq .. o.last : \E h \in o.events : h.seq = n
  <2> SUFFICES ASSUME NEW f \in o.events
               PROVE  f.seq <= e.seq /\ \A n \in f.seq .. e.seq : \E h \in o.events : h.seq = n
    BY <1>2
  <2>1. CASE f = e
    BY <1>1, <1>2, <2>1
  <2>2. CASE f \in d.events
    <3> SUFFICES ASSUME NEW n \in f.seq .. e.seq PROVE f.seq <= e.seq /\ \E h \in o.events : h.seq = n
      BY <1>1, <2>2
    <3>1. CASE n = e.seq
      BY <1>1, <1>2, <2>2, <3>1
    <3>2. CASE n # e.seq
      <4>1. n \in f.seq .. d.last
        BY <1>1, <2>2, <3>2
      <4> QED BY <1>1, <1>2, <2>2, <4>1
    <3> QED BY <3>1, <3>2
  <2> QED BY <1>2, <2>1, <2>2
<1> HIDE DEF StandsIn
<1> QED BY <1>1, <1>2, <1>4, <1>5 DEF ReplicaIn

\* A replica that begins with an event.
LEMMA ReplicaBegins ==
  ASSUME NEW L, L \subseteq Events, NEW e \in L, NEW o, o.known, o.events = {e}, StandsIn(L, o, e)
  PROVE  ReplicaIn(L, o)
<1>1. o.last = e.seq /\ e.seq \in Nat
  BY EventFields DEF StandsIn
<1>2. \A n \in e.seq .. o.last : n = e.seq
  BY <1>1
<1> HIDE DEF StandsIn
<1> QED BY <1>1, <1>2 DEF ReplicaIn

\* Every replica stays a window of the log with the rows of the event it stands at.
LEMMA ReplicasStep ==
  ASSUME GroupInv, Moved, NEW q \in Peers
  PROVE  ReplicaIn(log', db'[q])
<1>0. /\ LogOK /\ log \subseteq Events /\ db \in [Peers -> Replicas]
      /\ \A p \in Peers : ReplicaIn(log, db[p]) /\ SameRows(db[p], db[p])
  BY DEF GroupInv, LogOK, TypeOK, ReplicaOK, SameRows
<1> HIDE DEF ReplicaIn
<1>1. CASE Still
  <2>1. SameRows(db'[q], db[q]) /\ log' = log
    BY <1>1 DEF Still
  <2>2. CASE db[q].known
    <3>1. PICK g \in db[q].events : g \in log /\ StandsAt(db[q], g)
      BY <2>2, Standing
    <3>2. db[q].events = db'[q].events /\ db'[q].known
      BY <2>1, <2>2 DEF SameRows
    <3>3. \A h \in log : StandsIn(log, db[q], h) => StandsIn(log, db'[q], h)
      <4> HIDE DEF TitleIs
      <4> QED BY <2>1 DEF StandsIn, SameRows
    <3> HIDE DEF StandsIn
    <3> QED BY <1>0, <2>1, <2>2, <3>2, <3>3 DEF ReplicaIn, SameRows
  <2>3. CASE ~db[q].known
    BY <1>0, <2>1, <2>3 DEF ReplicaIn, SameRows
  <2> QED BY <2>2, <2>3
<1>2. ASSUME NEW p \in Peers, Founds(p) PROVE ReplicaIn(log', db'[q])
  <2> DEFINE c == Create(p)
  <2>1. PICK o : /\ Becomes(p, o) /\ o.known /\ o.last = 1 /\ o.ctrl = p /\ o.epoch = 1
                 /\ o.state = "active" /\ o.title = 1 /\ o.events = {c}
    BY <1>2 DEF Founds
  <2>2. /\ c \in Events /\ c.seq = 1 /\ c.type = "create" /\ c.signer = p /\ c.epoch = 1 /\ c.val = 1
        /\ log = {} /\ log' = {c}
    BY <1>2, CreateFields DEF Founds
  <2>3. TitleIs({c}, c.seq, c.val)
    BY <2>2, TitleGiven DEF Names
  <2> HIDE DEF c, TitleIs
  <2>4. StandsIn({c}, o, c)
    BY <2>1, <2>2, <2>3 DEF StandsIn, After
  <2>5. ReplicaIn(log', o)
    BY <2>1, <2>2, <2>4, ReplicaBegins
  <2>6. CASE q = p
    BY <1>0, <2>1, <2>5, <2>6 DEF Becomes
  <2>7. CASE q # p
    <3>1. db'[q] = db[q]
      BY <1>0, <2>1, <2>7 DEF Becomes
    <3>2. ReplicaIn(log \cup {c}, db[q])
      BY <1>0, <2>2, ReplicaStays
    <3>3. log' = log \cup {c}
      BY <2>2
    <3> QED BY <3>1, <3>2, <3>3
  <2> QED BY <2>6, <2>7
<1>3. ASSUME NEW p \in Peers, Forgets(p) PROVE ReplicaIn(log', db'[q])
  <2>1. log' = log /\ (db'[q] = db[q] \/ db'[q] = Absent)
    BY <1>0, <1>3 DEF Forgets, Becomes
  <2>2. ReplicaIn(log, Absent)
    BY AbsentRows DEF ReplicaIn
  <2> HIDE DEF Absent
  <2> QED BY <1>0, <2>1, <2>2
<1>4. ASSUME NEW p \in Peers, NEW e, Appends(p, e) PROVE ReplicaIn(log', db'[q])
  <2>1. NextEvent(p, e) /\ log' = log \cup {e}
    BY <1>4 DEF Appends
  <2>2. PICK o : Becomes(p, o) /\ Rows(p, db[p], e, o)
    BY <1>4 DEF Appends
  <2>3. e \in Events /\ \A f \in log : f.seq < e.seq /\ f.seq \in Nat
    BY <2>1, NextFacts
  <2>4. PICK g \in db[p].events : g \in log /\ StandsAt(db[p], g) /\ Succeeds(g, e)
    BY <2>1, NextFacts
  <2>5. CASE q = p
    <3>1. db'[q] = o
      BY <1>0, <2>2, <2>5 DEF Becomes
    <3>2. ReplicaIn(log', db[p])
      BY <1>0, <2>1, <2>3, ReplicaStays
    <3>3. StandsIn(log', db[p], g)
      <4>1. StandsIn(log, db[p], g)
        BY <2>4 DEF StandsAt
      <4>2. TitleIs(log', g.seq, db[p].title)
        <5>1. TitleIs(log, g.seq, db[p].title) /\ g.seq \in Nat /\ g.seq < e.seq
          BY <2>3, <2>4, <4>1 DEF StandsIn
        <5> HIDE DEF TitleIs
        <5> QED BY <1>0, <2>1, <2>3, <5>1, TitleStays
      <4> HIDE DEF TitleIs
      <4> QED BY <4>1, <4>2 DEF StandsIn
    <3>4. \A f \in log' : f.seq = e.seq => f = e
      BY <2>1, <2>3
    <3>5. e \in log' /\ log' \subseteq Events /\ db[p].known /\ db[p].state = "active" /\ e.type # "create"
      BY <1>0, <2>1, <2>3 DEF NextEvent
    <3> HIDE DEF StandsIn
    <3>6. ReplicaIn(log', o)
      BY <2>2, <2>4, <3>2, <3>3, <3>4, <3>5, ReplicaExtends
    <3> QED BY <3>1, <3>6
  <2>6. CASE q # p
    <3>1. db'[q] = db[q]
      BY <1>0, <2>2, <2>6 DEF Becomes
    <3> QED BY <1>0, <2>1, <2>3, <3>1, ReplicaStays
  <2> QED BY <2>5, <2>6
<1>5. ASSUME NEW p \in Peers, NEW e, Extends(p, e) PROVE ReplicaIn(log', db'[q])
  <2>1. e \in log /\ log' = log /\ db[p].known /\ e.seq = db[p].last + 1
    BY <1>5 DEF Extends
  <2>2. PICK o : Becomes(p, o) /\ Rows(p, db[p], e, o) /\ (db[p].state = "active" \/ e.type = "dissolve")
    BY <1>5 DEF Extends
  <2>3. PICK g \in db[p].events : g \in log /\ StandsAt(db[p], g)
    BY <2>1, Standing
  <2>4. g.seq = db[p].last /\ StandsIn(log, db[p], g)
    BY <2>3 DEF StandsAt, StandsIn
  <2>5. Succeeds(g, e) /\ \A f \in log : f.seq = e.seq => f = e
    BY <1>0, <2>1, <2>3, <2>4 DEF LogOK
  <2>6. e.type # "create"
    <3>1. e.seq >= 2
      BY <2>1, Standing
    <3> QED BY <1>0, <2>1, <3>1 DEF LogOK
  <2> HIDE DEF StandsIn
  <2>7. ReplicaIn(log, o)
    BY <1>0, <2>1, <2>2, <2>3, <2>4, <2>5, <2>6, ReplicaExtends
  <2>8. db'[q] = db[q] \/ db'[q] = o
    BY <1>0, <2>2 DEF Becomes
  <2> QED BY <1>0, <2>1, <2>7, <2>8
<1>6. ASSUME NEW p \in Peers, NEW e, Joins(p, e) PROVE ReplicaIn(log', db'[q])
  <2>1. e \in log /\ log' = log /\ e.type = "invite"
    BY <1>6 DEF Joins
  <2>2. PICK o : Becomes(p, o) /\ FirstRows(e, o)
    BY <1>6 DEF Joins
  <2>3. TitleIs(log, e.seq, e.val)
    BY <1>0, <2>1 DEF LogOK
  <2>4. StandsIn(log, o, e)
    <3> HIDE DEF TitleIs
    <3> QED BY <2>1, <2>2, <2>3 DEF StandsIn, FirstRows, After
  <2>5. ReplicaIn(log, o)
    BY <1>0, <2>1, <2>2, <2>4, ReplicaBegins DEF FirstRows
  <2>6. db'[q] = db[q] \/ db'[q] = o
    BY <1>0, <2>2 DEF Becomes
  <2> QED BY <1>0, <2>1, <2>5, <2>6
<1> QED BY <1>1, <1>2, <1>3, <1>4, <1>5, <1>6 DEF Moved

-----------------------------------------------------------------------------
(* The invariant after a step, part by part                                 *)

\* A node has what it has signed: it is told of the group by an invite only when
\* it has signed nothing, since it keeps its records or never handed the role on.
LEMMA SignersStep == ASSUME GroupInv, Ordered, Moved, scope' = scope PROVE Signers'
<1>0. /\ Signers /\ LogOK /\ db \in [Peers -> Replicas] /\ Ops' = Ops
      /\ \A e \in log : e \in Events /\ e.signer \in Peers /\ e.seq \in Nat
      /\ \A q \in Peers : db[q].known => db[q].last \in Nat
  BY EventFields, Standing DEF GroupInv, TypeOK, LogOK, Ops
<1>1. CASE Still
  BY <1>0, <1>1 DEF Still, SameRows, Signers
<1>2. ASSUME NEW p \in Peers, Founds(p) PROVE Signers'
  <2>1. log' = {Create(p)} /\ db'[p].known /\ db'[p].last = 1
    BY <1>0, <1>2 DEF Founds, Becomes
  <2> QED BY <2>1, CreateFields DEF Signers
<1>3. ASSUME NEW p \in Peers, NEW e, Appends(p, e) PROVE Signers'
  <2>1. NextEvent(p, e) /\ log' = log \cup {e} /\ db[p].known /\ e.signer = p
    BY <1>3 DEF Appends, NextEvent
  <2>2. \A f \in log : f.seq < e.seq
    BY <2>1 DEF NextEvent
  <2>3. db'[p].known /\ db'[p].last = e.seq /\ \A q \in Peers \ {p} : db'[q] = db[q]
    BY <1>0, <1>3, <2>1 DEF Appends, Becomes, Rows
  <2>4. PICK g \in log : After(g) = p
    <3>1. PICK g \in db[p].events : g \in log /\ Succeeds(g, e)
      BY <2>1, NextFacts
    <3> QED BY <2>1, <3>1 DEF Succeeds
  <2>5. e.seq \in Nat
    BY <2>1, NextFacts
  <2>6. "transfer" \notin Ops => g.signer = p
    BY <1>0, <2>4 DEF LogOK, Sane, After
  <2>7. "transfer" \notin Ops => \A f \in log : f.signer = p
    BY <1>0, <2>6 DEF Signers
  <2>8. \A f \in log' : db'[f.signer].known => f.seq <= db'[f.signer].last
    <3> SUFFICES ASSUME NEW f \in log', db'[f.signer].known PROVE f.seq <= db'[f.signer].last
      OBVIOUS
    <3>1. CASE f = e
      BY <2>1, <2>3, <2>5, <3>1
    <3>2. CASE f \in log /\ f.signer = p
      BY <1>0, <2>2, <2>3, <2>5, <3>2
    <3>3. CASE f \in log /\ f.signer # p
      BY <1>0, <2>3, <3>3 DEF Signers
    <3> QED BY <2>1, <3>1, <3>2, <3>3
  <2>9. "purge" \notin Ops => \A f \in log' : db'[f.signer].known
    BY <1>0, <2>1, <2>3 DEF Signers
  <2> QED BY <1>0, <2>1, <2>7, <2>8, <2>9 DEF Signers
<1>4. ASSUME NEW p \in Peers, NEW e, Extends(p, e) PROVE Signers'
  <2>1. log' = log /\ db'[p].last = db[p].last + 1 /\ db'[p].known /\ db[p].known /\ \A q \in Peers \ {p} : db'[q] = db[q]
    BY <1>0, <1>4 DEF Extends, Becomes, Rows
  <2>2. \A f \in log : db'[f.signer].known => f.seq <= db'[f.signer].last
    <3> SUFFICES ASSUME NEW f \in log, db'[f.signer].known PROVE f.seq <= db'[f.signer].last
      OBVIOUS
    <3>1. CASE f.signer = p
      BY <1>0, <2>1, <3>1 DEF Signers
    <3>2. CASE f.signer # p
      BY <1>0, <2>1, <3>2 DEF Signers
    <3> QED BY <3>1, <3>2
  <2> QED BY <1>0, <2>1, <2>2 DEF Signers
<1>5. ASSUME NEW p \in Peers, NEW e, Joins(p, e) PROVE Signers'
  <2>1. log' = log /\ ~db[p].known /\ e \in log /\ e.signer # p /\ \A q \in Peers \ {p} : db'[q] = db[q]
    BY <1>0, <1>5 DEF Joins, Becomes, Addressed
  <2>2. \A f \in log : f.signer # p
    BY <1>0, <2>1 DEF Ordered, Signers
  <2> QED BY <1>0, <2>1, <2>2 DEF Signers
<1>6. ASSUME NEW p \in Peers, Forgets(p) PROVE Signers'
  <2>1. log' = log /\ "purge" \in Ops /\ ~db'[p].known /\ \A q \in Peers \ {p} : db'[q] = db[q]
    BY <1>0, <1>6, AbsentRows DEF Forgets, Becomes
  <2> QED BY <1>0, <2>1 DEF Signers
<1> QED BY <1>1, <1>2, <1>3, <1>4, <1>5, <1>6 DEF Moved

\* While a call runs, the event it has built stays one that follows an event of
\* its node.
LEMMA PrepStep == ASSUME GroupInv, Moved, scope' = scope PROVE PrepOK'
<1>0. /\ LogOK /\ db \in [Peers -> Replicas] /\ Ops' = Ops /\ \A e : Sane(e)' <=> Sane(e)
      /\ log \subseteq Events
      /\ \A q \in Peers : prep[q] # NoEvent => Prepared(q, prep[q])
  BY DEF GroupInv, TypeOK, LogOK, Ops, Sane, PrepOK
<1> HIDE DEF Sane
<1> SUFFICES ASSUME NEW q \in Peers, NEW e, e = prep'[q], e # NoEvent
             PROVE  /\ e \in Events /\ Sane(e)' /\ e.type # "create"
                    /\ db'[q].known /\ db'[q].state = "active" /\ db'[q].ctrl = q
                    /\ \E g \in db'[q].events : Succeeds(g, e) /\ After(g) = q
                    /\ e.type = "invite" => TitleIs(log', e.seq - 1, e.val)
  BY DEF PrepOK, Prepared
<1>1. ASSUME NEW f \in Events, \A g \in log : g.seq < f.seq, Prepared(q, e), e.type = "invite"
      PROVE  TitleIs(log \cup {f}, e.seq - 1, e.val)
  <2>1. PICK g \in db[q].events : Succeeds(g, e)
    BY <1>1 DEF Prepared
  <2>2. g \in log
    BY <1>1, <2>1 DEF Prepared, GroupInv, ReplicaOK, ReplicaIn
  <2>3. g.seq \in Nat /\ e.seq - 1 = g.seq /\ g.seq < f.seq /\ TitleIs(log, e.seq - 1, e.val)
    <3>1. g.seq \in Nat /\ e.seq = g.seq + 1
      BY <1>0, <2>1, <2>2, EventFields DEF Succeeds
    <3> QED BY <1>1, <2>2, <3>1 DEF Prepared
  <2> HIDE DEF TitleIs
  <2> QED BY <1>0, <1>1, <2>3, TitleStays
<1> HIDE DEF TitleIs
<1>2. CASE Still
  <2>1. Prepared(q, e)
    BY <1>0, <1>2 DEF Still, Built
  <2> QED BY <1>0, <1>2, <2>1 DEF Still, Prepared, SameRows
<1>3. ASSUME NEW p \in Peers, Founds(p) PROVE FALSE
  <2>1. log = {} /\ prep' = prep
    BY <1>3 DEF Founds
  <2> QED BY <1>0, <2>1 DEF Prepared, GroupInv, ReplicaOK, ReplicaIn
<1>4. ASSUME NEW p \in Peers, NEW f, Appends(p, f)
      PROVE  /\ \E g \in db'[q].events : Succeeds(g, e) /\ After(g) = q
             /\ db'[q].known /\ db'[q].state = "active" /\ db'[q].ctrl = q
             /\ Prepared(q, e) /\ (e.type = "invite" => TitleIs(log', e.seq - 1, e.val))
  <2>1. NextEvent(p, f) /\ log' = log \cup {f} /\ f \in Events /\ \A g \in log : g.seq < f.seq
    BY <1>4 DEF Appends, NextEvent
  <2>2. prep'[q] = prep[q] /\ (q = p => Requested(p, f))
    BY <1>0, <1>4 DEF Appends, GroupInv, TypeOK
  <2>3. Prepared(q, e)
    BY <1>0, <2>2
  <2>4. PICK o : Becomes(p, o) /\ Rows(p, db[p], f, o)
    BY <1>4 DEF Appends
  <2>5. CASE q # p
    <3>1. db'[q] = db[q]
      BY <1>0, <2>4, <2>5 DEF Becomes
    <3> QED BY <1>1, <2>1, <2>3, <3>1 DEF Prepared
  <2>6. CASE q = p
    <3>1. db'[q] = o /\ f.type \in {"join", "leave"}
      BY <1>0, <2>2, <2>4, <2>6 DEF Becomes, Requested
    <3> HIDE DEF Succeeds, After
    <3>2. db[q].events \subseteq o.events /\ o.known = db[q].known /\ o.ctrl = db[q].ctrl /\ o.state = db[q].state
      BY <2>4, <2>6, <3>1 DEF Rows
    <3> QED BY <1>1, <2>1, <2>3, <3>1, <3>2 DEF Prepared
  <2> QED BY <2>5, <2>6
<1>5. ASSUME NEW p \in Peers, (\E f : Extends(p, f) \/ Joins(p, f)) \/ Forgets(p) PROVE log' = log /\ Prepared(q, e) /\ db'[q] = db[q]
  <2>1. log' = log /\ prep' = prep /\ (q # p => db'[q] = db[q])
    BY <1>0, <1>5 DEF Extends, Joins, Forgets, Becomes
  <2>2. Prepared(q, e)
    BY <1>0, <2>1
  <2>3. q # p
    <3> SUFFICES ASSUME q = p PROVE FALSE
      OBVIOUS
    <3>1. db[p].known /\ db[p].state = "active" /\ db[p].ctrl = p
      BY <2>2 DEF Prepared
    <3>2. \A f \in log : f.seq <= db[p].last
      BY <3>1, HasNewest
    <3>3. db[p].last \in Nat
      BY <3>1, Standing
    <3> QED BY <1>5, <3>1, <3>2, <3>3 DEF Extends, Joins, Forgets
  <2> QED BY <2>1, <2>2, <2>3
<1> HIDE DEF Succeeds, After
<1>6. CASE \E p \in Peers : \E f : Appends(p, f)
  BY <1>0, <1>4, <1>6 DEF Prepared
<1>7. CASE \E p \in Peers : (\E f : Extends(p, f) \/ Joins(p, f)) \/ Forgets(p)
  BY <1>0, <1>5, <1>7 DEF Prepared
<1> QED BY <1>2, <1>3, <1>6, <1>7 DEF Moved

\* A nonempty set of natural numbers below a bound has a greatest element.
LEMMA Greatest ==
  ASSUME NEW T, NEW n \in Nat, T # {}, \A x \in T : x \in Nat /\ x <= n
  PROVE  \E x \in T : \A y \in T : y <= x
<1> DEFINE S == {n - x : x \in T}
<1>1. S \subseteq Nat /\ S # {}
  OBVIOUS
<1>2. PICK s \in S : \A y \in S : ~(<<y, s>> \in OpToRel(<, Nat))
  BY <1>1, WFMin, NatLessThanWellFounded
<1>3. \A y, z \in Nat : <<y, z>> \in OpToRel(<, Nat) <=> y < z
  BY DEF OpToRel
<1>4. \A y \in S : ~(y < s)
  BY <1>1, <1>2, <1>3, Zenon
<1>5. PICK x \in T : s = n - x
  OBVIOUS
<1>6. ASSUME NEW y \in T PROVE y <= x
  <2>1. n - y \in S
    OBVIOUS
  <2>2. ~(n - y < n - x)
    BY <1>4, <1>5, <2>1
  <2>3. x \in Nat /\ y \in Nat
    OBVIOUS
  <2> QED BY <2>2, <2>3
<1> QED BY <1>6

\* InOrder of the events of a log lists them and nothing else: the number of
\* events before an event ranks them without a gap.
LEMMA InOrderLists ==
  ASSUME NEW E, E \subseteq Events, \A e, f \in E : e.seq = f.seq => e = f
  PROVE  InOrder(E) \in Seq(E)
<1> DEFINE below(e) == {f \in E : f.seq < e.seq}
           c == Cardinality(E)
           rank == [e \in E |-> Cardinality(below(e)) + 1]
           seqs == [e \in E |-> e.seq]
<1>1. \A e \in E : e.seq \in Nat /\ e.seq \in 0 .. MaxSeq
  BY EventFields
<1>2. IsFiniteSet(E)
  <2>1. IsFiniteSet(0 .. MaxSeq)
    BY GroupAssumption, FS_Interval
  <2>2. seqs \in Injection(E, 0 .. MaxSeq)
    BY <1>1 DEF Injection, IsInjective
  <2> QED BY <2>1, <2>2, FS_Injection
<1>3. c \in Nat
  BY <1>2, FS_CardinalityType
<1>4. \A e \in E : IsFiniteSet(below(e)) /\ Cardinality(below(e)) \in Nat /\ Cardinality(below(e)) + 1 \in 1 .. c
  <2> SUFFICES ASSUME NEW e \in E
               PROVE  IsFiniteSet(below(e)) /\ Cardinality(below(e)) \in Nat /\ Cardinality(below(e)) + 1 \in 1 .. c
    OBVIOUS
  <2>1. below(e) \in SUBSET E /\ e \notin below(e)
    BY <1>1
  <2> HIDE DEF below
  <2>2. IsFiniteSet(below(e)) /\ Cardinality(below(e)) <= c /\ (c = Cardinality(below(e)) => E = below(e))
    BY <1>2, <2>1, FS_Subset
  <2>3. Cardinality(below(e)) \in Nat
    BY <2>2, FS_CardinalityType
  <2> HIDE DEF c
  <2> QED BY <1>3, <2>1, <2>2, <2>3
<1>5. \A e, f \in E : e.seq < f.seq => Cardinality(below(e)) < Cardinality(below(f))
  <2> SUFFICES ASSUME NEW e \in E, NEW f \in E, e.seq < f.seq
               PROVE  Cardinality(below(e)) < Cardinality(below(f))
    OBVIOUS
  <2>1. below(e) \in SUBSET below(f) /\ e \in below(f) /\ e \notin below(e)
    BY <1>1
  <2>2. IsFiniteSet(below(f)) /\ Cardinality(below(e)) \in Nat /\ Cardinality(below(f)) \in Nat
    BY <1>4
  <2> HIDE DEF below
  <2>3. Cardinality(below(e)) <= Cardinality(below(f)) /\ (Cardinality(below(f)) = Cardinality(below(e)) => below(f) = below(e))
    BY <2>1, <2>2, FS_Subset
  <2> QED BY <2>1, <2>2, <2>3
<1> DEFINE r(e) == Cardinality(below(e))
<1>6. \A e \in E : r(e) \in Nat /\ r(e) + 1 \in 1 .. c
  BY <1>4
<1>7. \A e, f \in E : e.seq < f.seq => r(e) < r(f)
  BY <1>5
<1>8. rank = [e \in E |-> r(e) + 1]
  OBVIOUS
<1>9. InOrder(E) = [i \in 1 .. c |-> CHOOSE e \in E : r(e) = i - 1]
  BY DEF InOrder
<1> HIDE DEF c, r, rank
<1>11. rank \in Injection(E, 1 .. c)
  <2>1. rank \in [E -> 1 .. c]
    BY <1>6, <1>8
  <2>2. ASSUME NEW e \in E, NEW f \in E, rank[e] = rank[f] PROVE e = f
    <3>1. r(e) = r(f) /\ r(e) \in Nat
      BY <1>6, <1>8, <2>2
    <3>2. ~(e.seq < f.seq) /\ ~(f.seq < e.seq)
      BY <1>6, <1>7, <3>1
    <3> QED BY <1>1, <3>2
  <2> QED BY <2>1, <2>2 DEF Injection, IsInjective
<1>12. IsFiniteSet(1 .. c) /\ Cardinality(1 .. c) = c
  BY <1>3, FS_Interval
<1>13. rank \in Surjection(E, 1 .. c)
  BY <1>11, <1>12, FS_Injection DEF c
<1>14. \A i \in 1 .. c : (CHOOSE e \in E : r(e) = i - 1) \in E
  <2> SUFFICES ASSUME NEW i \in 1 .. c PROVE (CHOOSE e \in E : r(e) = i - 1) \in E
    OBVIOUS
  <2>1. PICK e \in E : rank[e] = i
    BY <1>13 DEF Surjection
  <2>2. r(e) = i - 1
    BY <1>6, <1>8, <2>1
  <2> QED BY <2>2
<1>15. InOrder(E) \in [1 .. c -> E]
  BY <1>9, <1>14
<1> QED BY <1>3, <1>15

\* What a step puts under way: the event it numbers, an event queued for a retry,
\* the events of another node that a sync asks for.
SentTo(p, e, q) == q \in Recipients(p, e) \/ (e.type = "invite" /\ q = e.target)
News(p, q) == {e \in db[q].events : e.seq > db[p].last}
Told ==
    /\ \A x \in ctl' : \/ x \in ctl
                       \/ \E j \in evjobs : x = <<j[3], j[2]>>
                       \/ \E p, q \in Peers : \E e : Appends(p, e) /\ SentTo(p, e, q) /\ x = <<q, e>>
    /\ \A j \in evjobs' : \/ j \in evjobs
                          \/ \E p, q \in Peers : \E e : Appends(p, e) /\ SentTo(p, e, q) /\ j = <<p, e, q>>
    /\ \A p \in Peers : LET s == answer[p].events IN
          \/ answer'[p].events \in {s, <<>>}
          \/ s # <<>> /\ answer'[p].events = Tail(s)
          \/ /\ db[p].known
             /\ \E q \in Peers : /\ db[q].known /\ p \in Members(db[q])
                               /\ answer'[p].events = InOrder(News(p, q))

\* Broadcasts go out with the event they are about.
LEMMA AnnouncesTells ==
  ASSUME GroupInv, NEW p \in Peers, NEW e, Announces(p, e), answer' = answer
  PROVE  Told
<1>1. Appends(p, e) /\ e \in Events /\ e.target \in Peers /\ Recipients(p, e) \subseteq Peers
  <2>1. e \in Events
    BY DEF Announces, Appends, NextEvent
  <2>2. db[p].status \in [Peers -> MemberStates] /\ e.target \in Peers
    BY <2>1, ReplicaFields, EventFields DEF GroupInv, TypeOK
  <2> QED BY <2>1, <2>2 DEF Announces, Recipients, Members, Active, Invited
<1>2. BroadcastGroupEvent(p, e, Recipients(p, e))
  BY DEF Announces
<1> HIDE DEF Recipients
<1>3. PICK sent \in SUBSET Recipients(p, e), failed \in SUBSET Recipients(p, e) :
        /\ ctl' = ctl \cup {<<q, e>> : q \in sent \cup (IF e.type = "invite" THEN {e.target} ELSE {})}
        /\ evjobs' = evjobs \cup {<<p, e, q>> : q \in failed}
  BY <1>2 DEF BroadcastGroupEvent
<1> HIDE DEF Appends
<1>4. \A x \in ctl' : x \in ctl \/ \E q \in Peers : SentTo(p, e, q) /\ x = <<q, e>>
  BY <1>1, <1>3 DEF SentTo
<1>5. \A j \in evjobs' : j \in evjobs \/ \E q \in Peers : SentTo(p, e, q) /\ j = <<p, e, q>>
  BY <1>1, <1>3 DEF SentTo
<1> HIDE DEF SentTo
<1> QED BY <1>1, <1>4, <1>5 DEF Told

\* Every step.
LEMMA NextTells == ASSUME GroupInv, Next PROVE Told
<1>0. answer \in [Peers -> [events : Seq(Events), texts : SUBSET Texts]]
  BY DEF GroupInv, TypeOK
<1> HIDE DEF Events, Texts
<1>1. ASSUME ctl' \subseteq ctl, evjobs' \subseteq evjobs, answer' = answer PROVE Told
  BY <1>1 DEF Told
<1>2. ASSUME NEW p \in Peers, CommitEvent(p) PROVE Told
  <2>1. answer' = answer /\ (Silent \/ \E e : Announces(p, e))
    BY <1>2, CommitMoves DEF CommitEvent
  <2> QED BY <1>1, <2>1, AnnouncesTells DEF Silent
<1>3. ASSUME NEW r \in requests, HandleRequest(r) PROVE Told
  <2>1. answer' = answer /\ r[3] \in Peers /\ (Silent \/ \E e : Announces(r[3], e))
    BY <1>3, HandleMoves DEF HandleRequest, threads
  <2> QED BY <1>1, <2>1, AnnouncesTells DEF Silent
<1>4. ASSUME NEW j \in evjobs, RetryEvent(j[1], j[2], j[3]) PROVE Told
  <2>1. ctl' = ctl \cup {<<j[3], j[2]>>} /\ evjobs' \subseteq evjobs /\ answer' = answer
    BY <1>4 DEF RetryEvent, threads
  <2> QED BY <2>1 DEF Told
<1>5. ASSUME NEW p \in Peers, NEW q \in Peers, SyncGroup(p, q) PROVE Told
  <2>1. /\ ctl' = ctl /\ evjobs' = evjobs
        /\ db[p].known /\ db[q].known /\ p \in Members(db[q])
    BY <1>5 DEF SyncGroup, network, stores, Members
  <2>2. \A s \in Peers \ {p} : answer'[s] = answer[s]
    BY <1>0, <1>5 DEF SyncGroup
  <2>3. answer'[p].events = InOrder(News(p, q))
    BY <1>0, <1>5 DEF SyncGroup, News
  <2> HIDE DEF News
  <2> QED BY <2>1, <2>2, <2>3 DEF Told
<1>6. ASSUME NEW p \in Peers, SyncEvent(p) PROVE Told
  <2>1. ctl' = ctl /\ evjobs' = evjobs /\ answer[p].events # <<>>
    BY <1>6 DEF SyncEvent, network
  <2>2. \A s \in Peers \ {p} : answer'[s] = answer[s]
    BY <1>0, <1>6 DEF SyncEvent
  <2>3. answer'[p] = NoAnswer \/ answer'[p] = [answer[p] EXCEPT !.events = Tail(answer[p].events)]
    BY <1>0, <1>6 DEF SyncEvent
  <2>4. answer'[p].events = <<>> \/ answer'[p].events = Tail(answer[p].events)
    <3>1. NoAnswer.events = <<>>
      BY DEF NoAnswer
    <3>2. [answer[p] EXCEPT !.events = Tail(answer[p].events)].events = Tail(answer[p].events)
      BY <1>0
    <3> QED BY <2>3, <3>1, <3>2
  <2> QED BY <2>1, <2>2, <2>4 DEF Told
<1>7. ASSUME NEW p \in Peers, NEW t, SyncText(p, t) PROVE Told
  <2>1. ctl' = ctl /\ evjobs' = evjobs
    BY <1>7 DEF SyncText
  <2>2. \A s \in Peers : answer'[s].events = answer[s].events
    BY <1>0, <1>7 DEF SyncText
  <2> QED BY <2>1, <2>2 DEF Told
<1>8. ASSUME NEW p \in Peers, Crash(p) PROVE Told
  <2>1. ctl' = ctl /\ evjobs' = evjobs
    BY <1>8 DEF Crash, network, stores
  <2>2. \A s \in Peers : answer'[s] = answer[s] \/ answer'[s] = NoAnswer
    BY <1>0, <1>8 DEF Crash
  <2>3. \A s \in Peers : answer'[s].events \in {answer[s].events, <<>>}
    BY <2>2 DEF NoAnswer
  <2> QED BY <2>1, <2>3 DEF Told
<1>9. ASSUME NEW p \in Peers, ApiCall(p) PROVE Told
  <2>1. CASE \E q \in Peers : SyncGroup(p, q)
    BY <1>5, <2>1
  <2>2. CASE CreateGroup(p) \/ AcceptGroupInvite(p) \/ LeaveGroup(p) \/ \E m \in Msgs : DeleteUnsent(p, m)
    BY <1>1, <2>2 DEF CreateGroup, AcceptGroupInvite, LeaveGroup, DeleteUnsent, threads, network, stores
  <2>3. ASSUME NEW op, NEW e, Prepare(p, op, e) PROVE Told
    BY <1>1, <2>3 DEF Prepare, network, stores
  <2> QED BY <1>9, <2>1, <2>2, <2>3 DEF ApiCall, PrepareTitle, PrepareDissolve, InviteGroupMember,
              RemoveGroupMember, PrepareTransfer, PrepareRetention, PrepareRevoke
<1>10. ASSUME NEW p \in Peers, Receive(p) PROVE Told
  <2>1. CASE (\E x \in ctl : x[1] = p /\ ReceiveEvent(p, x[2])) \/ \E x \in texts : x[1] = p /\ ReceiveGroupText(p, x[2])
    BY <1>1, <2>1 DEF ReceiveEvent, ReceiveGroupText, threads
  <2> QED BY <1>6, <1>7, <1>10, <2>1 DEF Receive
<1>11. CASE \/ \E p \in Peers : CleanupExpired(p) \/ PurgeArchived(p)
            \/ \E m \in Msgs : SealText(m) \/ SendGroupText(m) \/ MessageAges(m)
            \/ \E m \in Msgs, q \in Peers :
                 MarkSent(m, q) \/ ReceiveAck(m, q) \/ \E ok \in BOOLEAN : RetryDelivery(m, q, ok)
            \/ Lose
  BY <1>1, <1>11 DEF CleanupExpired, PurgeArchived, SealText, SendGroupText, MessageAges, MarkSent,
       ReceiveAck, RetryDelivery, Lose, threads, network, stores
<1> QED BY <1>2, <1>3, <1>4, <1>8, <1>9, <1>10, <1>11 DEF Next

\* What is addressed stays so.
LEMMA AddressedStays ==
  ASSUME Moved, NEW e, NEW q, Addressed(e, q)
  PROVE  Addressed(e, q)'
BY DEF Addressed, Moved, Still, Founds, Forgets, Appends, Extends, Joins

\* A broadcast leaves its signer out; a sync asks for later events than a node's
\* last, and it has signed none of those.
LEMMA CarriedStep == ASSUME GroupInv, Moved, Told PROVE Carried'
<1>0. /\ LogOK /\ Signers /\ Carried /\ \A p \in Peers : ReplicaOK(db[p])
      /\ log \subseteq log'
      /\ \A e \in log : e \in Events /\ e.seq \in Nat
  BY EventFields DEF GroupInv, LogOK, Moved, Still, Founds, Forgets, Appends, Extends, Joins
<1>1. ASSUME NEW p \in Peers, NEW q \in Peers, NEW e, Appends(p, e), SentTo(p, e, q) PROVE Addressed(e, q)'
  <2>1. e \in log' /\ e.signer = p /\ Sane(e)
    BY <1>1 DEF Appends, NextEvent
  <2>2. q # p
    BY <1>1, <2>1 DEF SentTo, Recipients, Sane
  <2> QED BY <2>1, <2>2 DEF Addressed
<1>2. \A x \in ctl' : Addressed(x[2], x[1])'
  <2> SUFFICES ASSUME NEW x \in ctl' PROVE Addressed(x[2], x[1])'
    OBVIOUS
  <2> HIDE DEF Addressed, SentTo, Appends
  <2>1. CASE x \in ctl
    <3>1. Addressed(x[2], x[1])
      BY <1>0, <2>1 DEF Carried
    <3> QED BY <3>1, AddressedStays
  <2>2. ASSUME NEW j \in evjobs, x = <<j[3], j[2]>> PROVE Addressed(x[2], x[1])'
    <3>1. Addressed(j[2], j[3]) /\ x[1] = j[3] /\ x[2] = j[2]
      BY <1>0, <2>2 DEF Carried
    <3>2. Addressed(j[2], j[3])'
      BY <3>1, AddressedStays
    <3> QED BY <3>1, <3>2
  <2>3. ASSUME NEW p \in Peers, NEW q \in Peers, NEW e, Appends(p, e), SentTo(p, e, q), x = <<q, e>>
        PROVE  Addressed(x[2], x[1])'
    <3>1. x[1] = q /\ x[2] = e
      BY <2>3
    <3> QED BY <1>1, <2>3, <3>1
  <2> QED BY <2>1, <2>2, <2>3 DEF Told
<1>3. \A j \in evjobs' : Addressed(j[2], j[3])'
  <2> SUFFICES ASSUME NEW j \in evjobs' PROVE Addressed(j[2], j[3])'
    OBVIOUS
  <2> HIDE DEF Addressed, SentTo, Appends
  <2>1. CASE j \in evjobs
    <3>1. Addressed(j[2], j[3])
      BY <1>0, <2>1 DEF Carried
    <3> QED BY <3>1, AddressedStays
  <2>2. ASSUME NEW p \in Peers, NEW q \in Peers, NEW e, Appends(p, e), SentTo(p, e, q), j = <<p, e, q>>
        PROVE  Addressed(j[2], j[3])'
    <3>1. j[2] = e /\ j[3] = q
      BY <2>2
    <3> QED BY <1>1, <2>2, <3>1
  <2> QED BY <2>1, <2>2 DEF Told
<1>4. ASSUME NEW p \in Peers, NEW u, u = answer'[p].events
      PROVE  u \in Seq(log') /\ \A i \in 1 .. Len(u) : Addressed(u[i], p)'
  <2> DEFINE s == answer[p].events
  <2>1. s \in Seq(log) /\ \A i \in 1 .. Len(s) : Addressed(s[i], p)
    BY <1>0 DEF Carried
  <2> SUFFICES u \in Seq(log) /\ \A i \in 1 .. Len(u) : Addressed(u[i], p)
    <3>1. \A i \in 1 .. Len(u) : Addressed(u[i], p)'
      BY AddressedStays
    <3>2. u \in Seq(log')
      BY <1>0
    <3> QED BY <3>1, <3>2
  <2>2. CASE u \in {s, <<>>}
    <3>1. CASE u = <<>>
      BY <3>1
    <3> QED BY <2>1, <2>2, <3>1
  <2>3. CASE s # <<>> /\ u = Tail(s)
    <3>1. u \in Seq(log) /\ Len(u) = Len(s) - 1 /\ \A i \in 1 .. Len(u) : u[i] = s[i + 1]
      BY <2>1, <2>3
    <3> HIDE DEF s, Addressed
    <3>2. Len(s) \in Nat
      BY <2>1
    <3> QED BY <2>1, <3>1, <3>2
  <2>4. ASSUME NEW q \in Peers, db[p].known, u = InOrder(News(p, q)) PROVE u \in Seq(log) /\ \A i \in 1 .. Len(u) : Addressed(u[i], p)
    <3>1. \A e \in News(p, q) : e \in log /\ e.seq > db[p].last
      BY <1>0 DEF News, ReplicaOK, ReplicaIn
    <3>2. \A e \in News(p, q) : Addressed(e, p)
      <4>1. db[p].last \in Nat
        BY <2>4, Standing
      <4> QED BY <1>0, <2>4, <3>1, <4>1 DEF Addressed, Signers
    <3>3. News(p, q) \subseteq Events /\ \A e, f \in News(p, q) : e.seq = f.seq => e = f
      BY <1>0, <3>1 DEF LogOK
    <3>4. u \in Seq(News(p, q))
      BY <2>4, <3>3, InOrderLists
    <3> HIDE DEF News, Addressed
    <3>5. u \in Seq(log) /\ \A i \in 1 .. Len(u) : u[i] \in News(p, q)
      BY <3>1, <3>4
    <3> QED BY <3>2, <3>5
  <2> QED BY <1>4, <2>2, <2>3, <2>4 DEF Told
<1>5. \A p \in Peers : /\ answer'[p].events \in Seq(log')
                       /\ \A i \in 1 .. Len(answer'[p].events) : Addressed(answer[p].events[i], p)'
  BY <1>4 DEF Addressed
<1> HIDE DEF Addressed
<1> QED BY <1>2, <1>3, <1>5 DEF Carried

\* The texts of at most n senders' numbers.
Fit(n) == {t \in Texts : t.sseq <= n}
Answers == [events : Seq(Events), texts : SUBSET Texts]

\* What the invariant says of messages.
LEMMA RoomFacts ==
  ASSUME GroupInv
  PROVE  /\ IsFiniteSet(added) /\ Cardinality(added) \in Nat /\ added \subseteq Msgs
         /\ \A p \in Peers : db[p].msgs \subseteq Fit(Cardinality(added)) /\ answer[p].texts \subseteq Fit(Cardinality(added))
         /\ \A x \in texts : x \in Peers \X Fit(Cardinality(added))
         /\ \A m \in Msgs : sealed[m] # <<>> => sealed[m][1] \in Fit(Cardinality(added \cup {m}))
         /\ sealed \in [Msgs -> Seq(Texts)] /\ answer \in [Peers -> Answers]
<1>1. IsFiniteSet(added) /\ added \subseteq Msgs
  BY GroupAssumption, FS_Subset DEF GroupInv, TypeOK
<1>2. Cardinality(added) \in Nat
  BY <1>1, FS_CardinalityType
<1>3. /\ \A p \in Peers : db[p].msgs \subseteq Texts /\ answer[p].texts \subseteq Texts
      /\ \A x \in texts : x \in Peers \X Texts
      /\ sealed \in [Msgs -> Seq(Texts)] /\ answer \in [Peers -> Answers]
  <2>1. \A p \in Peers : db[p].msgs \subseteq Texts
    BY ReplicaFields DEF GroupInv, TypeOK
  <2>2. answer \in [Peers -> Answers]
    BY DEF GroupInv, TypeOK, Answers
  <2>3. \A p \in Peers : answer[p].texts \subseteq Texts
    <3> HIDE DEF Events, Texts
    <3> QED BY <2>2 DEF Answers
  <2> QED BY <2>1, <2>2, <2>3 DEF GroupInv, TypeOK
<1>4. Room
  BY DEF GroupInv
<1> HIDE DEF Texts
<1>5. \A m \in Msgs : sealed[m] # <<>> => sealed[m][1] \in Texts
  BY <1>3
<1>6. \A m \in Msgs : sealed[m] # <<>> => sealed[m][1] \in Fit(Cardinality(added \cup {m}))
  BY <1>4, <1>5 DEF Room, Numbered, Fit
<1>7. \A p \in Peers : db[p].msgs \subseteq Fit(Cardinality(added)) /\ answer[p].texts \subseteq Fit(Cardinality(added))
  BY <1>3, <1>4 DEF Room, Numbered, Fit
<1>8. \A x \in texts : x \in Peers \X Fit(Cardinality(added))
  BY <1>3, <1>4 DEF Room, Numbered, Fit
<1> QED BY <1>1, <1>2, <1>3, <1>6, <1>7, <1>8

\* A step that seals, stores and sends no text.
Calm ==
    /\ added' = added /\ sealed' = sealed /\ texts' \subseteq texts
    /\ marking' \subseteq marking /\ acks' \subseteq acks /\ aged' \subseteq Msgs
    /\ requests' \subseteq requests \cup ({"join", "leave"} \X Peers \X Peers)
    /\ answer' \in [Peers -> Answers] /\ \A p \in Peers : answer'[p].texts \subseteq answer[p].texts

\* What texts, their numbers and the goroutines of a step may become.
Spoken ==
    /\ added \subseteq added' /\ added' \subseteq Msgs /\ aged' \subseteq Msgs
    /\ sealed' \in [Msgs -> Seq(Texts)] /\ answer' \in [Peers -> Answers]
    /\ \A m \in Msgs : sealed'[m] # <<>> => sealed'[m][1] \in Fit(Cardinality(added' \cup {m}))
    /\ \A p \in Peers : answer'[p].texts \subseteq Fit(Cardinality(added'))
    /\ \A x \in texts' : x \in Peers \X Fit(Cardinality(added'))
    /\ marking' \subseteq Msgs \X Peers /\ acks' \subseteq Msgs \X Peers
    /\ requests' \subseteq {"join", "leave"} \X Peers \X Peers

\* A step that touches no message and no delivery.
LEMMA CalmSpeaks == ASSUME GroupInv, Calm PROVE Spoken
<1>1. marking \subseteq Msgs \X Peers /\ acks \subseteq Msgs \X Peers /\ requests \subseteq {"join", "leave"} \X Peers \X Peers
  BY DEF GroupInv, TypeOK
<1> HIDE DEF Fit, Answers, Texts
<1> QED BY <1>1, RoomFacts DEF Calm, Spoken

\* The steps that carry no text.
LEMMA CalmSteps ==
  ASSUME GroupInv, NEW p \in Peers,
         \/ CreateGroup(p) \/ AcceptGroupInvite(p) \/ LeaveGroup(p) \/ CommitEvent(p) \/ CleanupExpired(p)
         \/ PurgeArchived(p) \/ SyncEvent(p)
         \/ \E m \in Msgs : DeleteUnsent(p, m) \/ MessageAges(m) \/ \E q \in Peers : MarkSent(m, q) \/ ReceiveAck(m, q)
         \/ \E op, e : Prepare(p, op, e)
         \/ \E e : ReceiveEvent(p, e) \/ \E q \in Peers : RetryEvent(q, e, p)
         \/ \E r \in requests : HandleRequest(r)
         \/ Lose
  PROVE  Calm
<1>1. /\ answer \in [Peers -> Answers] /\ aged \subseteq Msgs
      /\ \A q \in Peers : db[q].ctrl \in Peers \cup {NoPeer}
  BY RoomFacts, ReplicaFields DEF GroupInv, TypeOK
<1> HIDE DEF Answers
<1>2. CASE \/ CreateGroup(p) \/ CommitEvent(p) \/ CleanupExpired(p) \/ PurgeArchived(p)
           \/ \E m \in Msgs : DeleteUnsent(p, m) \/ MessageAges(m) \/ \E q \in Peers : MarkSent(m, q) \/ ReceiveAck(m, q)
           \/ \E op, e : Prepare(p, op, e)
           \/ \E e : ReceiveEvent(p, e) \/ \E q \in Peers : RetryEvent(q, e, p)
           \/ \E r \in requests : HandleRequest(r)
           \/ Lose
  <2>1. /\ added' = added /\ sealed' = sealed /\ texts' \subseteq texts /\ answer' = answer
        /\ marking' \subseteq marking /\ acks' \subseteq acks /\ aged' \subseteq Msgs /\ requests' \subseteq requests
    BY <1>1, <1>2 DEF CreateGroup, CommitEvent, CleanupExpired, PurgeArchived, DeleteUnsent, MessageAges, MarkSent,
         ReceiveAck, Prepare, ReceiveEvent, RetryEvent, HandleRequest, Lose, threads, network, env, stores
  <2> QED BY <1>1, <2>1 DEF Calm
<1>3. CASE AcceptGroupInvite(p) \/ LeaveGroup(p)
  <2>1. /\ added' = added /\ sealed' = sealed /\ texts' = texts /\ answer' = answer
        /\ marking' = marking /\ acks' = acks /\ aged' = aged
        /\ \E t \in {"join", "leave"} : requests' = requests \cup {<<t, p, db[p].ctrl>>}
    BY <1>3 DEF AcceptGroupInvite, LeaveGroup, threads, network, env, stores
  <2>2. db[p].ctrl \in Peers
    <3>1. db[p].known
      BY <1>3 DEF AcceptGroupInvite, LeaveGroup
    <3>2. PICK e \in db[p].events : e \in log /\ StandsAt(db[p], e)
      BY <3>1, Standing
    <3>3. e \in Events
      BY <3>2 DEF GroupInv, LogOK
    <3> QED BY <3>2, <3>3, EventFields DEF StandsAt, StandsIn, After
  <2> QED BY <1>1, <2>1, <2>2 DEF Calm
<1>4. CASE SyncEvent(p)
  <2> DEFINE s == answer[p].events
             u == [answer[p] EXCEPT !.events = Tail(s)]
  <2>1. /\ added' = added /\ sealed' = sealed /\ texts' = texts /\ marking' = marking /\ acks' = acks
        /\ aged' = aged /\ requests' = requests /\ s # <<>>
    BY <1>4 DEF SyncEvent, network, env
  <2>2. answer' = [answer EXCEPT ![p] = IF Refused(p, db[p], Head(s)) THEN NoAnswer ELSE u]
    BY <1>4 DEF SyncEvent
  <2>3. NoAnswer \in Answers /\ NoAnswer.texts = {}
    <3>1. <<>> \in Seq(Events) /\ {} \in SUBSET Texts
      OBVIOUS
    <3> HIDE DEF Events, Texts
    <3> QED BY <3>1 DEF NoAnswer, Answers
  <2>4. u \in Answers /\ u.texts = answer[p].texts
    <3>1. answer[p] \in Answers
      BY <1>1
    <3> HIDE DEF Events, Texts
    <3>2. Tail(s) \in Seq(Events)
      BY <2>1, <3>1 DEF Answers
    <3> QED BY <3>1, <3>2 DEF Answers
  <2> HIDE DEF u, NoAnswer
  <2>5. answer' \in [Peers -> Answers] /\ \A q \in Peers : answer'[q].texts \subseteq answer[q].texts
    BY <1>1, <2>2, <2>3, <2>4
  <2> QED BY <1>1, <2>1, <2>5 DEF Calm
<1> QED BY <1>2, <1>3, <1>4

\* A text that fits fits also when more messages have been sent.
LEMMA FitGrows ==
  ASSUME NEW m \in Nat, NEW n \in Nat, n <= m
  PROVE  Fit(n) \subseteq Fit(m)
<1>1. \A t \in Texts : t.sseq \in Nat
  BY GroupAssumption, FS_CardinalityType DEF Texts
<1> QED BY <1>1 DEF Fit

\* SendGroupText has taken the next number: one more message, one greater number.
LEMMA SealSpeaks == ASSUME GroupInv, NEW m \in Msgs, SealText(m) PROVE Spoken
<1> DEFINE p == Author[m]
           d == db[p]
           seqs == {t.sseq : t \in {u \in d.msgs : Author[u.id] = p}}
           c == Cardinality(added)
           next == 1 + (IF seqs = {} THEN 0 ELSE CHOOSE n \in seqs : \A k \in seqs : k <= n)
           t0 == [id |-> m, sseq |-> next, epoch |-> d.epoch, key |-> d.keys[d.epoch]]
<1>1. /\ IsFiniteSet(added) /\ c \in Nat /\ added \subseteq Msgs /\ d.msgs \subseteq Fit(c)
      /\ sealed \in [Msgs -> Seq(Texts)] /\ answer \in [Peers -> Answers] /\ p \in Peers
      /\ marking \subseteq Msgs \X Peers /\ acks \subseteq Msgs \X Peers
      /\ requests \subseteq {"join", "leave"} \X Peers \X Peers /\ aged \subseteq Msgs
  BY RoomFacts, GroupAssumption DEF GroupInv, TypeOK
<1>2. Cardinality(Msgs) \in Nat /\ \A t \in Texts : t.sseq \in 1 .. Cardinality(Msgs) /\ t.sseq \in Nat
  <2>1. Cardinality(Msgs) \in Nat
    BY GroupAssumption, FS_CardinalityType
  <2> QED BY <2>1 DEF Texts
<1>3. m \notin added /\ d.known /\ d.keys[d.epoch] > NoKey /\ sealed' = [sealed EXCEPT ![m] = <<t0>>]
  BY DEF SealText
<1>4. Cardinality(added \cup {m}) = c + 1 /\ c + 1 <= Cardinality(Msgs)
  <2>1. Cardinality(added \cup {m}) = c + 1
    BY <1>1, <1>3, FS_AddElement
  <2>2. added \cup {m} \in SUBSET Msgs
    BY <1>1
  <2> QED BY <2>1, <2>2, FS_Subset, GroupAssumption
<1>5. next \in 1 .. c + 1
  <2>1. \A s \in seqs : s \in Nat /\ s <= c
    BY <1>1, <1>2 DEF Fit
  <2> HIDE DEF seqs, c
  <2>2. CASE seqs = {}
    BY <1>1, <2>2
  <2>3. CASE seqs # {}
    <3>1. \E n \in seqs : \A k \in seqs : k <= n
      BY <1>1, <2>1, <2>3, Greatest
    <3> DEFINE h == CHOOSE n \in seqs : \A k \in seqs : k <= n
    <3>2. h \in seqs
      BY <3>1
    <3>3. next = 1 + h
      BY <2>3
    <3> HIDE DEF h, next
    <3> QED BY <1>1, <2>1, <3>2, <3>3
  <2> QED BY <2>2, <2>3
<1>6. d.epoch \in Epochs /\ d.keys[d.epoch] \in 1 .. MaxSeq
  <2>1. d.epoch \in Epochs /\ d \in Replicas
    BY <1>1, <1>3, Standing
  <2>2. d.keys \in [Epochs -> NoRow .. MaxSeq]
    BY <2>1, ReplicaFields
  <2>3. d.keys[d.epoch] \in NoRow .. MaxSeq
    <3> HIDE DEF Epochs, NoRow
    <3> QED BY <2>1, <2>2
  <2> QED BY <1>3, <2>1, <2>3, GroupAssumption DEF NoRow, NoKey
<1> HIDE DEF seqs, c, next, d, p
<1>7. t0 \in Texts /\ t0.sseq = next /\ t0 \in Fit(c + 1)
  <2>1. next \in 1 .. Cardinality(Msgs) /\ next <= c + 1
    BY <1>1, <1>2, <1>4, <1>5
  <2> HIDE DEF Epochs
  <2>2. t0 \in Texts
    BY <1>6, <2>1 DEF Texts
  <2> QED BY <2>1, <2>2 DEF Fit
<1> HIDE DEF t0, Fit, Texts, Answers
<1>8. <<t0>> \in Seq(Texts) /\ <<t0>>[1] = t0
  BY <1>7
<1>9. /\ added' = added /\ texts' = texts /\ answer' = answer /\ marking' = marking /\ acks' = acks
      /\ aged' = aged /\ requests' = requests
  BY DEF SealText, network, env
<1>10. sealed' \in [Msgs -> Seq(Texts)] /\ \A n \in Msgs : sealed'[n] # <<>> => sealed'[n][1] \in Fit(Cardinality(added \cup {n}))
  <2>1. sealed' \in [Msgs -> Seq(Texts)]
    BY <1>1, <1>3, <1>8
  <2>2. ASSUME NEW n \in Msgs, sealed'[n] # <<>> PROVE sealed'[n][1] \in Fit(Cardinality(added \cup {n}))
    <3>1. CASE n = m
      BY <1>1, <1>3, <1>4, <1>7, <1>8, <3>1
    <3>2. CASE n # m
      BY <1>1, <1>3, <2>2, <3>2, RoomFacts
    <3> QED BY <3>1, <3>2
  <2> QED BY <2>1, <2>2
<1> QED BY <1>1, <1>9, <1>10, RoomFacts DEF Spoken

\* It stores and sends what it has sealed.
LEMMA SendSpeaks == ASSUME GroupInv, NEW m \in Msgs, SendGroupText(m) PROVE Spoken
<1> DEFINE p == Author[m]
           t == sealed[m][1]
           R == Active(db[p]) \ {p}
<1>1. /\ added' = added \cup {m} /\ sealed' = sealed /\ answer' = answer /\ acks' = acks /\ aged' = aged
      /\ requests' = requests /\ sealed[m] # <<>>
  BY DEF SendGroupText, env
<1>2. PICK sent \in SUBSET R, failed \in SUBSET R :
        texts' = texts \cup {<<q, t>> : q \in sent} /\ marking' = marking \cup {<<m, q>> : q \in sent \ failed}
  BY DEF SendGroupText
<1>3. R \subseteq Peers
  BY DEF Active
<1>4. t \in Fit(Cardinality(added'))
  BY <1>1, RoomFacts
<1>5. /\ marking \subseteq Msgs \X Peers /\ acks \subseteq Msgs \X Peers /\ aged \subseteq Msgs
      /\ requests \subseteq {"join", "leave"} \X Peers \X Peers
  BY DEF GroupInv, TypeOK
<1>6. added' \subseteq Msgs /\ Cardinality(added') \in Nat /\ Cardinality(added) \in Nat
      /\ Fit(Cardinality(added)) \subseteq Fit(Cardinality(added'))
  <2>1. added' \subseteq Msgs /\ IsFiniteSet(added') /\ added \in SUBSET added'
    BY <1>1, RoomFacts, FS_AddElement
  <2>2. Cardinality(added') \in Nat /\ Cardinality(added) <= Cardinality(added') /\ Cardinality(added) \in Nat
    BY <2>1, FS_Subset, FS_CardinalityType, RoomFacts
  <2> QED BY <2>1, <2>2, FitGrows
<1>7. \A n \in Msgs : Fit(Cardinality(added \cup {n})) \subseteq Fit(Cardinality(added' \cup {n}))
  <2> SUFFICES ASSUME NEW n \in Msgs PROVE Fit(Cardinality(added \cup {n})) \subseteq Fit(Cardinality(added' \cup {n}))
    OBVIOUS
  <2>1. IsFiniteSet(added \cup {n}) /\ IsFiniteSet(added' \cup {n}) /\ added \cup {n} \in SUBSET (added' \cup {n})
    BY <1>1, RoomFacts, FS_AddElement
  <2>2. /\ Cardinality(added' \cup {n}) \in Nat /\ Cardinality(added \cup {n}) \in Nat
        /\ Cardinality(added \cup {n}) <= Cardinality(added' \cup {n})
    BY <2>1, FS_Subset, FS_CardinalityType
  <2> QED BY <2>2, FitGrows
<1> HIDE DEF Fit, Texts, Answers, t, p, R
<1>8. /\ sealed \in [Msgs -> Seq(Texts)] /\ answer \in [Peers -> Answers]
      /\ \A n \in Msgs : sealed[n] # <<>> => sealed[n][1] \in Fit(Cardinality(added' \cup {n}))
      /\ \A q \in Peers : answer[q].texts \subseteq Fit(Cardinality(added'))
  BY <1>6, <1>7, RoomFacts
<1>9. \A x \in texts' : x \in Peers \X Fit(Cardinality(added'))
  BY <1>2, <1>3, <1>4, <1>6, RoomFacts
<1>10. marking' \subseteq Msgs \X Peers
  BY <1>2, <1>3, <1>5
<1> QED BY <1>1, <1>5, <1>6, <1>8, <1>9, <1>10 DEF Spoken

\* The other steps that touch texts, acknowledgements or goroutines.
LEMMA CopySpeaks ==
  ASSUME GroupInv, NEW p \in Peers,
         \/ \E m \in Msgs, q \in Peers, ok \in BOOLEAN : RetryDelivery(m, q, ok)
         \/ \E q \in Peers : SyncGroup(p, q)
         \/ \E t : <<p, t>> \in texts /\ ReceiveGroupText(p, t)
         \/ \E t \in answer[p].texts : SyncText(p, t)
         \/ Crash(p)
  PROVE  Spoken
<1> DEFINE F == Fit(Cardinality(added))
<1>1. /\ added \subseteq Msgs /\ aged \subseteq Msgs
      /\ \A q \in Peers : db[q].msgs \subseteq F /\ answer[q].texts \subseteq F
      /\ \A x \in texts : x \in Peers \X F
      /\ \A m \in Msgs : sealed[m] # <<>> => sealed[m][1] \in Fit(Cardinality(added \cup {m}))
      /\ sealed \in [Msgs -> Seq(Texts)] /\ answer \in [Peers -> Answers]
      /\ marking \subseteq Msgs \X Peers /\ acks \subseteq Msgs \X Peers
      /\ requests \subseteq {"join", "leave"} \X Peers \X Peers
      /\ \A m \in Msgs : Author[m] \in Peers
      /\ \A t \in F : t \in Texts /\ t.id \in Msgs
  BY RoomFacts, GroupAssumption DEF GroupInv, TypeOK, Fit, Texts
<1> HIDE DEF F, Texts, Answers, Fit
<1>2. ASSUME NEW m \in Msgs, NEW q \in Peers, NEW ok \in BOOLEAN, RetryDelivery(m, q, ok) PROVE Spoken
  <2>1. /\ added' = added /\ sealed' = sealed /\ answer' = answer /\ acks' = acks /\ aged' = aged /\ requests' = requests
        /\ marking' \subseteq marking \cup {<<m, q>>}
        /\ texts' \subseteq texts \cup {<<q, t>> : t \in db[Author[m]].msgs}
    BY <1>2 DEF RetryDelivery, env
  <2>2. \A x \in texts' : x \in Peers \X F
    BY <1>1, <2>1
  <2> QED BY <1>1, <2>1, <2>2 DEF Spoken, F
<1>3. ASSUME NEW q \in Peers, SyncGroup(p, q) PROVE Spoken
  <2> DEFINE s == InOrder(News(p, q))
             T == {t \in db[q].msgs : t.sseq > db[p].cursor[Author[t.id]]}
             a == [events |-> s, texts |-> T]
  <2>1. /\ added' = added /\ sealed' = sealed /\ acks' = acks /\ aged' = aged /\ requests' = requests
        /\ marking' = marking /\ texts' = texts
    BY <1>3 DEF SyncGroup, network, env
  <2>2. answer' = [answer EXCEPT ![p] = a]
    BY <1>3 DEF SyncGroup, News
  <2>3. T \subseteq F /\ T \subseteq Texts
    BY <1>1
  <2>4. s \in Seq(Events)
    <3>1. News(p, q) \subseteq log /\ log \subseteq Events
      BY DEF News, GroupInv, LogOK, ReplicaOK, ReplicaIn
    <3>2. News(p, q) \subseteq Events /\ \A e, f \in News(p, q) : e.seq = f.seq => e = f
      BY <3>1 DEF GroupInv, LogOK
    <3>3. s \in Seq(News(p, q))
      BY <3>2, InOrderLists
    <3> HIDE DEF s, News, Events
    <3> QED BY <3>2, <3>3
  <2> HIDE DEF s, T
  <2>5. a \in Answers /\ a.texts = T
    BY <2>3, <2>4 DEF Answers
  <2> HIDE DEF a
  <2>6. answer' \in [Peers -> Answers] /\ \A r \in Peers : answer'[r].texts \subseteq F
    BY <1>1, <2>2, <2>3, <2>5
  <2> QED BY <1>1, <2>1, <2>6 DEF Spoken, F
<1>4. ASSUME NEW t, <<p, t>> \in texts, ReceiveGroupText(p, t) PROVE Spoken
  <2>1. /\ added' = added /\ sealed' = sealed /\ answer' = answer /\ aged' = aged /\ requests' = requests
        /\ marking' = marking /\ texts' \subseteq texts /\ acks' \subseteq acks \cup {<<t.id, p>>}
    BY <1>4 DEF ReceiveGroupText, Acknowledge, threads, env
  <2>2. t \in F
    BY <1>1, <1>4
  <2> QED BY <1>1, <2>1, <2>2 DEF Spoken, F
<1>5. ASSUME NEW t \in answer[p].texts, SyncText(p, t) PROVE Spoken
  <2> DEFINE T == IF Unreadable(db[p], t) THEN {} ELSE answer[p].texts \ {t}
             a == [answer[p] EXCEPT !.texts = T]
  <2>1. /\ added' = added /\ sealed' = sealed /\ aged' = aged /\ requests' = requests
        /\ marking' = marking /\ texts' = texts /\ acks' \subseteq acks \cup {<<t.id, p>>}
    BY <1>5 DEF SyncText, Acknowledge, env
  <2>2. answer' = [answer EXCEPT ![p] = a]
    BY <1>1, <1>5 DEF SyncText, Answers
  <2>3. T \subseteq answer[p].texts
    OBVIOUS
  <2> HIDE DEF T
  <2>4. a \in Answers /\ a.texts = T
    BY <1>1, <2>3 DEF Answers
  <2> HIDE DEF a
  <2>5. answer' \in [Peers -> Answers] /\ \A r \in Peers : answer'[r].texts \subseteq F
    BY <1>1, <2>2, <2>3, <2>4
  <2>6. acks' \subseteq Msgs \X Peers
    <3>1. t \in F
      BY <1>1
    <3> QED BY <1>1, <2>1, <3>1
  <2>7. \A x \in texts' : x \in Peers \X F
    BY <1>1, <2>1
  <2> QED BY <1>1, <2>1, <2>5, <2>6, <2>7 DEF Spoken, F
<1>6. ASSUME Crash(p) PROVE Spoken
  <2>1. /\ added' = added /\ acks' = acks /\ aged' = aged /\ requests' = requests /\ texts' = texts
        /\ marking' \subseteq marking /\ answer' = [answer EXCEPT ![p] = NoAnswer]
        /\ sealed' = [m \in Msgs |-> IF Author[m] = p /\ m \notin added THEN <<>> ELSE sealed[m]]
    BY <1>6 DEF Crash, network, env
  <2>2. NoAnswer \in Answers /\ NoAnswer.texts = {}
    <3>1. <<>> \in Seq(Events) /\ {} \in SUBSET Texts
      OBVIOUS
    <3> HIDE DEF Events
    <3> QED BY <3>1 DEF NoAnswer, Answers
  <2> HIDE DEF NoAnswer
  <2>3. answer' \in [Peers -> Answers] /\ \A r \in Peers : answer'[r].texts \subseteq F
    BY <1>1, <2>1, <2>2
  <2>4. sealed' \in [Msgs -> Seq(Texts)] /\ \A m \in Msgs : sealed'[m] \in {<<>>, sealed[m]}
    BY <1>1, <2>1
  <2> QED BY <1>1, <2>1, <2>3, <2>4 DEF Spoken, F
<1> QED BY <1>2, <1>3, <1>4, <1>5, <1>6

\* Every step.
LEMMA NextSpeaks == ASSUME GroupInv, Next PROVE Spoken
<1>0. /\ \A x \in ctl : x[1] \in Peers
      /\ \A x \in texts : x[1] \in Peers /\ x = <<x[1], x[2]>>
      /\ \A j \in evjobs : j[1] \in Peers /\ j[3] \in Peers
  BY DEF GroupInv, TypeOK
<1>1. ASSUME NEW p \in Peers, ApiCall(p) PROVE Spoken
  <2>1. CASE \E q \in Peers : SyncGroup(p, q)
    BY <2>1, CopySpeaks
  <2>2. CASE CreateGroup(p) \/ AcceptGroupInvite(p) \/ LeaveGroup(p) \/ \E m \in Msgs : DeleteUnsent(p, m)
    BY <2>2, CalmSteps, CalmSpeaks
  <2>3. ASSUME NEW op, NEW e, Prepare(p, op, e) PROVE Spoken
    BY <2>3, CalmSteps, CalmSpeaks
  <2> QED BY <1>1, <2>1, <2>2, <2>3 DEF ApiCall, PrepareTitle, PrepareDissolve, InviteGroupMember,
              RemoveGroupMember, PrepareTransfer, PrepareRetention, PrepareRevoke
<1>2. ASSUME NEW p \in Peers, Receive(p) PROVE Spoken
  <2>1. CASE (\E x \in ctl : x[1] = p /\ ReceiveEvent(p, x[2])) \/ SyncEvent(p)
    BY <2>1, CalmSteps, CalmSpeaks
  <2>2. CASE \E x \in texts : x[1] = p /\ ReceiveGroupText(p, x[2])
    BY <1>0, <2>2, CopySpeaks
  <2>3. CASE \E t \in answer[p].texts : SyncText(p, t)
    BY <2>3, CopySpeaks
  <2> QED BY <1>2, <2>1, <2>2, <2>3 DEF Receive
<1>3. ASSUME NEW p \in Peers, CommitEvent(p) \/ CleanupExpired(p) \/ PurgeArchived(p) \/ Crash(p) PROVE Spoken
  <2>1. CASE Crash(p)
    BY <2>1, CopySpeaks
  <2>2. CASE CommitEvent(p) \/ CleanupExpired(p) \/ PurgeArchived(p)
    BY <2>2, CalmSteps, CalmSpeaks
  <2> QED BY <1>3, <2>1, <2>2
<1>4. ASSUME NEW j \in evjobs, RetryEvent(j[1], j[2], j[3]) PROVE Spoken
  BY <1>0, <1>4, CalmSteps, CalmSpeaks
<1>5. ASSUME NEW m \in Msgs, SealText(m) \/ SendGroupText(m) PROVE Spoken
  BY <1>5, SealSpeaks, SendSpeaks
<1>6. ASSUME NEW m \in Msgs, NEW q \in Peers, MarkSent(m, q) \/ ReceiveAck(m, q) \/ \E ok \in BOOLEAN : RetryDelivery(m, q, ok)
      PROVE  Spoken
  <2>1. CASE MarkSent(m, q) \/ ReceiveAck(m, q)
    BY <2>1, CalmSteps, CalmSpeaks
  <2>2. CASE \E ok \in BOOLEAN : RetryDelivery(m, q, ok)
    BY <2>2, CopySpeaks
  <2> QED BY <1>6, <2>1, <2>2
<1>7. ASSUME (\E r \in requests : HandleRequest(r)) \/ Lose \/ \E m \in Msgs : MessageAges(m) PROVE Spoken
  <2>1. CASE Peers # {}
    BY <1>7, <2>1, CalmSteps, CalmSpeaks
  <2>2. CASE Peers = {}
    <3>1. requests = {} /\ texts = {} /\ ctl = {} /\ acks = {} /\ Msgs = {}
      BY <2>2, GroupAssumption DEF GroupInv, TypeOK
    <3> QED BY <1>7, <3>1 DEF Lose
  <2> QED BY <2>1, <2>2
<1> QED BY <1>1, <1>2, <1>3, <1>4, <1>5, <1>6, <1>7 DEF Next

\* The deliveries: rows are set to a state, and go with the rows of their message.
LEMMA DelivStep == ASSUME GroupInv, Next PROVE deliv' \in [Msgs -> [Peers -> DeliveryStates]]
<1> DEFINE D == [Msgs -> [Peers -> DeliveryStates]]
<1>0. deliv \in D
  BY DEF GroupInv, TypeOK
<1>1. "none" \in DeliveryStates /\ "pending" \in DeliveryStates /\ "retry" \in DeliveryStates
      /\ "sent" \in DeliveryStates /\ "delivered" \in DeliveryStates
  BY DEF DeliveryStates
<1> HIDE DEF DeliveryStates
<1>2. \A p, d : Kept(p, d) \in D
  BY <1>0, <1>1 DEF Kept
<1>3. ASSUME NEW m \in Msgs, NEW q \in Peers, NEW s \in DeliveryStates, SetDelivery(m, q, s) PROVE deliv' \in D
  BY <1>0, <1>3 DEF SetDelivery
<1> HIDE DEF Kept, SetDelivery
<1>4. ASSUME NEW m \in Msgs, SendGroupText(m) PROVE deliv' \in D
  <2>1. PICK sent, failed : deliv' = [deliv EXCEPT ![m] = [q \in Peers |-> IF q \in failed THEN "retry"
                                 ELSE IF q \in Active(db[Author[m]]) \ {Author[m]} THEN "pending" ELSE "none"]]
    BY <1>4 DEF SendGroupText
  <2> QED BY <1>0, <1>1, <2>1
<1>5. ASSUME NEW m \in Msgs, NEW q \in Peers, MarkSent(m, q) \/ ReceiveAck(m, q) \/ \E ok \in BOOLEAN : RetryDelivery(m, q, ok)
      PROVE  deliv' \in D
  <2>1. deliv' = deliv \/ \E s \in DeliveryStates : SetDelivery(m, q, s)
    BY <1>1, <1>5 DEF MarkSent, ReceiveAck, RetryDelivery
  <2> QED BY <1>0, <1>3, <2>1
<1>6. ASSUME NEW p \in Peers, ApiCall(p) PROVE deliv' \in D
  <2>1. deliv' = deliv \/ \E d : deliv' = Kept(p, d)
    BY <1>6 DEF ApiCall, CreateGroup, PrepareTitle, PrepareDissolve, InviteGroupMember, RemoveGroupMember, PrepareTransfer,
         SyncGroup, PrepareRetention, PrepareRevoke, DeleteUnsent, AcceptGroupInvite, LeaveGroup, Prepare, Put, stores
  <2> QED BY <1>0, <1>2, <2>1
<1>7. ASSUME NEW p \in Peers, CommitEvent(p) \/ Receive(p) \/ CleanupExpired(p) \/ PurgeArchived(p) \/ Crash(p)
      PROVE  deliv' \in D
  <2>1. deliv' = deliv \/ \E d : deliv' = Kept(p, d)
    BY <1>7 DEF CommitEvent, Receive, CleanupExpired, PurgeArchived, Crash, ReceiveEvent, ReceiveGroupText, SyncEvent, SyncText,
         Put, stores
  <2> QED BY <1>0, <1>2, <2>1
<1>8. ASSUME NEW r \in requests, HandleRequest(r) PROVE deliv' \in D
  <2>1. deliv' = deliv \/ \E p, d : deliv' = Kept(p, d)
    BY <1>8 DEF HandleRequest, Put, stores
  <2> QED BY <1>0, <1>2, <2>1
<1>9. ASSUME \/ \E j \in evjobs : RetryEvent(j[1], j[2], j[3])
             \/ \E m \in Msgs : SealText(m) \/ MessageAges(m)
             \/ Lose
      PROVE  deliv' \in D
  BY <1>0, <1>9 DEF RetryEvent, SealText, MessageAges, Lose, stores
<1> QED BY <1>4, <1>5, <1>6, <1>7, <1>8, <1>9 DEF Next

\* The situation does not change.
LEMMA ScopeStays == ASSUME Next PROVE scope' = scope /\ nilIsNull' = nilIsNull
<1>1. ASSUME NEW p \in Peers, ApiCall(p) PROVE scope' = scope /\ nilIsNull' = nilIsNull
  BY <1>1 DEF ApiCall, CreateGroup, PrepareTitle, PrepareDissolve, InviteGroupMember, RemoveGroupMember, PrepareTransfer,
         SyncGroup, PrepareRetention, PrepareRevoke, DeleteUnsent, AcceptGroupInvite, LeaveGroup, Prepare, env
<1>2. ASSUME NEW p \in Peers, CommitEvent(p) \/ Receive(p) \/ CleanupExpired(p) \/ PurgeArchived(p) \/ Crash(p)
      PROVE  scope' = scope /\ nilIsNull' = nilIsNull
  BY <1>2 DEF CommitEvent, Receive, CleanupExpired, PurgeArchived, Crash, ReceiveEvent, ReceiveGroupText, SyncEvent, SyncText, env
<1>3. ASSUME \/ \E r \in requests : HandleRequest(r)
             \/ \E j \in evjobs : RetryEvent(j[1], j[2], j[3])
             \/ \E m \in Msgs : SealText(m) \/ SendGroupText(m) \/ MessageAges(m)
             \/ \E m \in Msgs, q \in Peers : MarkSent(m, q) \/ ReceiveAck(m, q) \/ \E ok \in BOOLEAN : RetryDelivery(m, q, ok)
             \/ Lose
      PROVE  scope' = scope /\ nilIsNull' = nilIsNull
  BY <1>3 DEF HandleRequest, RetryEvent, SealText, SendGroupText, MessageAges, MarkSent, ReceiveAck, RetryDelivery, Lose, env
<1> QED BY <1>1, <1>2, <1>3 DEF Next

\* The columns, goroutines and envelopes keep their types, and the senders' numbers their bound.
LEMMA TypeRoomStep == ASSUME GroupInv, Next, Moved, Told, Spoken, LogOK' PROVE TypeOK' /\ Room'
<1>0. db \in [Peers -> Replicas] /\ prep \in [Peers -> Events \cup {NoEvent}]
      /\ (\A x \in ctl : x \in Peers \X Events) /\ (\A j \in evjobs : j \in Peers \X Events \X Peers)
      /\ scope \in Scopes /\ nilIsNull \in BOOLEAN
  BY DEF GroupInv, TypeOK
<1>1. db' \in [Peers -> Replicas] /\ prep' \in [Peers -> Events \cup {NoEvent}]
  <2> HIDE DEF Replicas, Events
  <2>1. CASE Still
    BY <2>1 DEF Still
  <2>2. ASSUME NEW p \in Peers, NEW o, Becomes(p, o) PROVE db' \in [Peers -> Replicas]
    BY <1>0, <2>2 DEF Becomes
  <2> HIDE DEF Becomes
  <2>3. CASE \E p \in Peers : Founds(p) \/ Forgets(p) \/ \E e : Appends(p, e) \/ Extends(p, e) \/ Joins(p, e)
    <3>1. db' \in [Peers -> Replicas]
      BY <2>2, <2>3 DEF Founds, Forgets, Appends, Extends, Joins
    <3>2. prep' = prep \/ \E p \in Peers : prep' = [prep EXCEPT ![p] = NoEvent]
      BY <2>3 DEF Founds, Forgets, Appends, Extends, Joins
    <3> QED BY <1>0, <3>1, <3>2
  <2> QED BY <2>1, <2>3 DEF Moved
<1>2. (\A x \in ctl' : x \in Peers \X Events) /\ (\A j \in evjobs' : j \in Peers \X Events \X Peers)
  <2>1. \A p \in Peers : \A e : Appends(p, e) => e \in Events
    BY DEF Appends, NextEvent
  <2> HIDE DEF Appends, Events, SentTo
  <2>2. \A x \in ctl' : x \in Peers \X Events
    <3> SUFFICES ASSUME NEW x \in ctl' PROVE x \in Peers \X Events
      OBVIOUS
    <3>1. CASE x \in ctl
      BY <1>0, <3>1
    <3>2. CASE \E j \in evjobs : x = <<j[3], j[2]>>
      BY <1>0, <3>2
    <3>3. CASE \E p, q \in Peers : \E e : Appends(p, e) /\ SentTo(p, e, q) /\ x = <<q, e>>
      BY <2>1, <3>3
    <3> QED BY <3>1, <3>2, <3>3 DEF Told
  <2>3. \A j \in evjobs' : j \in Peers \X Events \X Peers
    <3> SUFFICES ASSUME NEW j \in evjobs' PROVE j \in Peers \X Events \X Peers
      OBVIOUS
    <3>1. CASE j \in evjobs
      BY <1>0, <3>1
    <3>2. CASE \E p, q \in Peers : \E e : Appends(p, e) /\ SentTo(p, e, q) /\ j = <<p, e, q>>
      BY <2>1, <3>2
    <3> QED BY <3>1, <3>2 DEF Told
  <2> QED BY <2>2, <2>3
<1>3. \A e \in log' : e \in Events
  BY DEF LogOK
<1>4. deliv' \in [Msgs -> [Peers -> DeliveryStates]] /\ scope' \in Scopes /\ nilIsNull' \in BOOLEAN
  BY <1>0, DelivStep, ScopeStays
<1>5. /\ \A x \in texts' : x \in Peers \X Texts /\ x[2].sseq <= Cardinality(added')
      /\ answer' \in [Peers -> [events : Seq(Events), texts : SUBSET Texts]]
      /\ \A m \in Msgs : sealed'[m] # <<>> => sealed'[m][1].sseq <= Cardinality(added' \cup {m})
      /\ \A p \in Peers : \A t \in answer'[p].texts : t.sseq <= Cardinality(added')
  <2>1. \A x \in texts' : x \in Peers \X Texts /\ x[2].sseq <= Cardinality(added')
    <3> HIDE DEF Texts
    <3> QED BY DEF Spoken, Fit
  <2> QED BY <2>1 DEF Spoken, Fit, Answers
<1>6. \A p \in Peers : \A t \in db'[p].msgs : t.sseq <= Cardinality(added')
  <2>1. /\ Cardinality(added) \in Nat /\ Cardinality(added') \in Nat /\ Cardinality(added) <= Cardinality(added')
    <3>1. IsFiniteSet(added') /\ added \in SUBSET added'
      BY FS_Subset, GroupAssumption DEF Spoken
    <3> QED BY <3>1, FS_Subset, FS_CardinalityType
  <2>2. \A t \in Texts : t.sseq \in Nat
    BY FS_CardinalityType, GroupAssumption DEF Texts
  <2>3. \A p \in Peers : \A t \in db[p].msgs : t \in Texts /\ t.sseq <= Cardinality(added)
    BY RoomFacts DEF Fit
  <2> HIDE DEF Texts
  <2>4. \A p \in Peers : \A t \in db[p].msgs : t.sseq <= Cardinality(added')
    BY <2>1, <2>2, <2>3
  <2>5. CASE Still
    BY <2>4, <2>5 DEF Still, Numbered
  <2>6. ASSUME NEW p \in Peers, NEW o, Becomes(p, o) PROVE \A q \in Peers : db'[q].msgs \subseteq db[q].msgs
    <3>1. \A q \in Peers : db'[q] = db[q] \/ (q = p /\ db'[q] = o)
      BY <1>0, <2>6 DEF Becomes
    <3>2. o.msgs \subseteq db[p].msgs
      BY <2>6 DEF Becomes
    <3> QED BY <3>1, <3>2
  <2> HIDE DEF Becomes
  <2>7. CASE \E p \in Peers : Founds(p) \/ Forgets(p) \/ \E e : Appends(p, e) \/ Extends(p, e) \/ Joins(p, e)
    <3>1. \E p \in Peers : \E o : Becomes(p, o)
      BY <2>7 DEF Founds, Forgets, Appends, Extends, Joins
    <3> QED BY <2>4, <2>6, <3>1
  <2> QED BY <2>5, <2>7 DEF Moved
<1>7. Room'
  BY <1>5, <1>6 DEF Room, Numbered
<1>8. TypeOK'
  <2> HIDE DEF Texts, Events, Replicas, DeliveryStates
  <2> QED BY <1>1, <1>2, <1>3, <1>4, <1>5 DEF TypeOK, Spoken
<1> QED BY <1>7, <1>8

-----------------------------------------------------------------------------
(* The group of a roster                                                    *)

RosterInvite(i) ==
    [seq |-> 2 * (i - 1), type |-> "invite", signer |-> Founder, target |-> Roster[i],
     role |-> IF Roster[i] \in Admins THEN "admin" ELSE "member",
     epoch |-> 1, key |-> 1, holders |-> {Roster[j] : j \in 1 .. i}, val |-> 1]
RosterJoin(i) ==
    [seq |-> 2 * i - 1, type |-> "join", signer |-> Founder, target |-> Roster[i],
     role |-> "none", epoch |-> 1, key |-> NoKey, holders |-> {}, val |-> 0]

\* The roster lists peers without repetition, and there is room for its events.
LEMMA RosterSeq ==
  ASSUME scope \in Scopes
  PROVE  /\ Roster \in Seq(Peers) /\ Len(Roster) \in Nat /\ 2 * Len(Roster) <= MaxSeq /\ MaxSeq \in Nat
         /\ \A i \in 1 .. Len(Roster) : Roster[i] \in Peers
         /\ \A i, j \in 1 .. Len(Roster) : Roster[i] = Roster[j] => i = j
         /\ Roster # <<>> => Len(Roster) >= 1 /\ Founder \in Peers
<1>1. scope \in Scope /\ scope.top >= 2 * Len(scope.roster) /\ MaxSeq \in Nat
      /\ \A i, j \in DOMAIN scope.roster : scope.roster[i] = scope.roster[j] => i = j
  BY GroupAssumption
<1>2. scope.roster \in Seq(Peers) /\ scope.top \in 0 .. MaxSeq
  BY <1>1 DEF Scope
<1>3. Len(scope.roster) \in Nat /\ DOMAIN scope.roster = 1 .. Len(scope.roster) /\ scope.top \in Nat /\ scope.top <= MaxSeq
  BY <1>1, <1>2
<1>4. 2 * Len(scope.roster) <= MaxSeq
  BY <1>1, <1>3
<1>5. scope.roster # <<>> => Len(scope.roster) >= 1
  BY <1>2
<1> QED BY <1>1, <1>2, <1>3, <1>4, <1>5 DEF Roster, Founder

\* Its events one by one.
LEMMA RosterEach ==
  ASSUME scope \in Scopes, Roster # <<>>
  PROVE  /\ RosterEvents \subseteq Events /\ Create(Founder) \in RosterEvents
         /\ \A i \in 2 .. Len(Roster) : RosterInvite(i) \in RosterEvents /\ RosterJoin(i) \in RosterEvents
         /\ \A e \in RosterEvents : \/ e = Create(Founder)
                                    \/ \E i \in 2 .. Len(Roster) : e \in {RosterInvite(i), RosterJoin(i)}
<1>1. RosterEvents = {Create(Founder)} \cup UNION {{RosterInvite(i), RosterJoin(i)} : i \in 2 .. Len(Roster)}
  BY DEF RosterEvents, RosterInvite, RosterJoin
<1>2. Create(Founder) \in Events /\ Founder \in Peers
  BY RosterSeq, CreateFields
<1>3. ASSUME NEW i \in 2 .. Len(Roster) PROVE RosterInvite(i) \in Events /\ RosterJoin(i) \in Events
  <2>1. /\ i \in 1 .. Len(Roster) /\ 2 * (i - 1) \in 0 .. MaxSeq /\ 2 * i - 1 \in 0 .. MaxSeq /\ 1 \in 0 .. MaxSeq /\ 0 \in 0 .. MaxSeq
        /\ 1 \in Epochs /\ 1 \in NoKey .. MaxSeq /\ NoKey \in NoKey .. MaxSeq
    BY RosterSeq DEF Epochs, NoKey
  <2>2. Roster[i] \in Peers /\ {Roster[j] : j \in 1 .. i} \in SUBSET Peers
    BY <2>1, RosterSeq
  <2>3. /\ "invite" \in Types /\ "join" \in Types /\ "admin" \in Roles /\ "member" \in Roles /\ "none" \in Roles
    BY DEF Types, Roles
  <2> HIDE DEF Types, Roles, Epochs, NoKey, Founder
  <2> QED BY <1>2, <2>1, <2>2, <2>3 DEF RosterInvite, RosterJoin, Events
<1> HIDE DEF RosterInvite, RosterJoin, Create, Events
<1> QED BY <1>1, <1>2, <1>3

\* What the proofs need of them.
LEMMA RosterFields ==
  ASSUME scope \in Scopes, Roster # <<>>, NEW e \in RosterEvents
  PROVE  /\ e.signer = Founder /\ e.epoch = 1 /\ e.seq \in 1 .. 2 * Len(Roster) - 1
         /\ e.type \in {"create", "invite", "join"} /\ (e.type = "create" <=> e.seq = 1)
         /\ e.type = "invite" => e.val = 1 /\ e.target # Founder
         /\ e.type = "create" => e.val = 1
<1>1. Len(Roster) \in Nat /\ Len(Roster) >= 1 /\ Founder \in Peers
  BY RosterSeq
<1>2. CASE e = Create(Founder)
  BY <1>1, <1>2, CreateFields
<1>3. ASSUME NEW i \in 2 .. Len(Roster), e = RosterInvite(i) PROVE e.target # Founder /\ e.type = "invite" /\ e.val = 1 /\ e.signer = Founder /\ e.epoch = 1 /\ e.seq = 2 * (i - 1)
  <2>1. Roster[i] # Roster[1]
    BY <1>1, RosterSeq
  <2> QED BY <1>3, <2>1 DEF RosterInvite, Founder
<1>4. ASSUME NEW i \in 2 .. Len(Roster), e = RosterJoin(i) PROVE e.type = "join" /\ e.signer = Founder /\ e.epoch = 1 /\ e.seq = 2 * i - 1
  BY <1>4 DEF RosterJoin
<1> QED BY <1>1, <1>2, <1>3, <1>4, RosterEach

\* They are numbered 1 to twice the length of the roster less one.
LEMMA RosterNumbers ==
  ASSUME scope \in Scopes, Roster # <<>>
  PROVE  /\ \A e, f \in RosterEvents : e.seq = f.seq => e = f
         /\ \A n \in 1 .. 2 * Len(Roster) - 1 : \E e \in RosterEvents : e.seq = n
<1>1. Len(Roster) \in Nat /\ Len(Roster) >= 1
  BY RosterSeq
<1>2. /\ Create(Founder).seq = 1
      /\ \A i \in 2 .. Len(Roster) : RosterInvite(i).seq = 2 * (i - 1) /\ RosterJoin(i).seq = 2 * i - 1
  BY DEF Create, RosterInvite, RosterJoin
<1> HIDE DEF Create, RosterInvite, RosterJoin, RosterEvents
<1>3. ASSUME NEW e \in RosterEvents, NEW f \in RosterEvents, e.seq = f.seq PROVE e = f
  <2>1. CASE e = Create(Founder) \/ f = Create(Founder)
    <3>1. \A i \in 2 .. Len(Roster) : RosterInvite(i).seq # 1 /\ RosterJoin(i).seq # 1
      BY <1>1, <1>2
    <3> QED BY <1>2, <1>3, <2>1, <3>1, RosterEach
  <2>2. ASSUME NEW i \in 2 .. Len(Roster), NEW j \in 2 .. Len(Roster),
               e \in {RosterInvite(i), RosterJoin(i)}, f \in {RosterInvite(j), RosterJoin(j)}
        PROVE  e = f
    <3>1. i \in Nat /\ j \in Nat
      BY <1>1
    <3>2. (2 * (i - 1) = 2 * (j - 1) => i = j) /\ (2 * i - 1 = 2 * j - 1 => i = j) /\ 2 * (i - 1) # 2 * j - 1 /\ 2 * i - 1 # 2 * (j - 1)
      BY <3>1
    <3>3. CASE e = RosterInvite(i) /\ f = RosterInvite(j)
      BY <1>2, <1>3, <3>2, <3>3
    <3>4. CASE e = RosterInvite(i) /\ f = RosterJoin(j)
      BY <1>2, <1>3, <3>2, <3>4
    <3>5. CASE e = RosterJoin(i) /\ f = RosterInvite(j)
      BY <1>2, <1>3, <3>2, <3>5
    <3>6. CASE e = RosterJoin(i) /\ f = RosterJoin(j)
      BY <1>2, <1>3, <3>2, <3>6
    <3> QED BY <2>2, <3>3, <3>4, <3>5, <3>6
  <2> QED BY <2>1, <2>2, RosterEach
<1>4. ASSUME NEW n \in 1 .. 2 * Len(Roster) - 1 PROVE \E e \in RosterEvents : e.seq = n
  <2>1. CASE n = 1
    BY <1>2, <2>1, RosterEach
  <2>2. CASE n # 1
    <3>1. PICK k \in Nat : n = 2 * k \/ n = 2 * k + 1
      <4>1. n \in Nat /\ n \div 2 \in Nat /\ (n = 2 * (n \div 2) \/ n = 2 * (n \div 2) + 1)
        BY <1>1
      <4> QED BY <4>1
    <3>2. k + 1 \in 2 .. Len(Roster) /\ 2 * (k + 1 - 1) = 2 * k /\ 2 * (k + 1) - 1 = 2 * k + 1
      BY <1>1, <2>2, <3>1
    <3>3. RosterInvite(k + 1).seq = 2 * k /\ RosterJoin(k + 1).seq = 2 * k + 1
      BY <1>2, <3>2
    <3>4. RosterInvite(k + 1) \in RosterEvents /\ RosterJoin(k + 1) \in RosterEvents
      BY <3>2, RosterEach
    <3> QED BY <3>1, <3>3, <3>4
  <2> QED BY <2>1, <2>2
<1> QED BY <1>3, <1>4

\* The replica of one of them: it has the events from its own invite on.
LEMMA RosterRows ==
  ASSUME scope \in Scopes, Roster # <<>>, NEW p \in Peers, p \in RosterSet, NEW d, d = RosterReplica(p)
  PROVE  /\ d \in Replicas /\ d.known /\ d.ctrl = Founder /\ d.epoch = 1 /\ d.title = 1 /\ d.state = "active"
         /\ d.last = 2 * Len(Roster) - 1 /\ d.msgs = {}
         /\ \A n \in Epochs : d.keys[n] > NoKey => n = 1
         /\ d.events \subseteq RosterEvents
         /\ \A e \in RosterEvents : e.seq = d.last => e \in d.events
         /\ \A e \in d.events, f \in RosterEvents : e.seq <= f.seq => f \in d.events
<1> DEFINE r == [q \in Peers |-> IF q \in RosterSet THEN RosterRole(Index(p), Index(q)) ELSE "none"]
           s == [q \in Peers |-> IF q \in RosterSet THEN "active" ELSE "none"]
           E == {e \in RosterEvents : p = Founder \/ e.seq >= 2 * (Index(p) - 1)}
           k == [Absent.keys EXCEPT ![1] = 1]
           l == 2 * Len(Roster) - 1
<1>1. Len(Roster) \in Nat /\ Len(Roster) >= 1 /\ Founder \in Peers /\ 2 * Len(Roster) <= MaxSeq /\ MaxSeq \in Nat
  BY RosterSeq
<1>2. Index(p) \in 1 .. Len(Roster)
  <2>1. DOMAIN Roster = 1 .. Len(Roster)
    BY RosterSeq
  <2> QED BY <2>1 DEF Index, RosterSet
<1>3. d = [Absent EXCEPT !.known = TRUE, !.ctrl = Founder, !.epoch = 1, !.title = 1, !.last = l,
                         !.role = r, !.status = s, !.events = E, !.keys = k]
  BY DEF RosterReplica, Absent
<1>4. r \in [Peers -> Roles] /\ s \in [Peers -> MemberStates]
  BY DEF RosterRole, Roles, MemberStates
<1>5. E \subseteq RosterEvents /\ E \in SUBSET Events
  <2> HIDE DEF RosterEvents, Events
  <2> QED BY RosterEach
<1>6. k \in [Epochs -> NoRow .. MaxSeq] /\ \A n \in Epochs : k[n] > NoKey => n = 1
  <2>1. 1 \in Epochs /\ 1 \in NoRow .. MaxSeq /\ NoRow \in NoRow .. MaxSeq /\ ~(NoRow > NoKey)
    BY GroupAssumption DEF Epochs, NoRow, NoKey
  <2>2. Absent.keys = [n \in Epochs |-> NoRow]
    BY DEF Absent
  <2> HIDE DEF Epochs, NoRow, NoKey
  <2> QED BY <2>1, <2>2
<1>7. l \in 0 .. MaxSeq /\ 1 \in 0 .. MaxSeq
  BY <1>1
<1>8. \A e \in RosterEvents : e.seq \in Nat /\ (e.seq = l => e \in E) /\ \A f \in E : f.seq <= e.seq => e \in E
  <2> SUFFICES ASSUME NEW e \in RosterEvents
               PROVE  e.seq \in Nat /\ (e.seq = l => e \in E) /\ \A f \in E : f.seq <= e.seq => e \in E
    OBVIOUS
  <2>1. \A f \in RosterEvents : f.seq \in Nat
    BY <1>1, RosterFields
  <2> HIDE DEF RosterEvents, Founder
  <2> QED BY <1>1, <1>2, <2>1
<1> HIDE DEF r, s, E, k, l, Epochs, NoRow, Events, Texts, Roles, MemberStates, RosterEvents, Founder
<1>9. d \in Replicas
  <2>1. Absent \in Replicas /\ Founder \in Peers \cup {NoPeer} /\ TRUE \in BOOLEAN
    BY <1>1, AbsentRows
  <2>2. ASSUME NEW A \in Replicas, NEW c \in Peers \cup {NoPeer}, NEW n \in 0 .. MaxSeq, NEW m \in 0 .. MaxSeq,
               NEW ro \in [Peers -> Roles], NEW st \in [Peers -> MemberStates], NEW ev \in SUBSET Events,
               NEW ke \in [Epochs -> NoRow .. MaxSeq]
        PROVE  [A EXCEPT !.known = TRUE, !.ctrl = c, !.epoch = m, !.title = m, !.last = n,
                         !.role = ro, !.status = st, !.events = ev, !.keys = ke] \in Replicas
    BY <2>2 DEF Replicas
  <2>3. /\ r \in [Peers -> Roles] /\ s \in [Peers -> MemberStates] /\ E \in SUBSET Events
        /\ k \in [Epochs -> NoRow .. MaxSeq] /\ l \in 0 .. MaxSeq /\ 1 \in 0 .. MaxSeq
    BY <1>4, <1>5, <1>6, <1>7
  <2> HIDE DEF Absent, Replicas
  <2>4. [Absent EXCEPT !.known = TRUE, !.ctrl = Founder, !.epoch = 1, !.title = 1, !.last = l,
                       !.role = r, !.status = s, !.events = E, !.keys = k] \in Replicas
    BY ONLY <2>1, <2>2, <2>3
  <2> QED BY <1>3, <2>4
<1>10. /\ d.known /\ d.ctrl = Founder /\ d.epoch = 1 /\ d.title = 1 /\ d.state = "active" /\ d.last = l
       /\ d.msgs = {} /\ d.events = E /\ d.keys = k
  BY <1>3 DEF Absent
<1> QED BY <1>5, <1>6, <1>8, <1>9, <1>10 DEF l

\* The first state.
LEMMA GroupInit == ASSUME Init PROVE GroupInv
<1>1. scope \in Scopes /\ nilIsNull \in BOOLEAN
  BY DEF Init
<1>2. \A p \in Peers : db[p] = (IF Roster = <<>> THEN Absent ELSE RosterReplica(p))
  BY DEF Init
<1>3. log = IF Roster = <<>> THEN {} ELSE RosterEvents
  BY DEF Init
<1>4. /\ evjobs = {} /\ ctl = {} /\ requests = {} /\ texts = {} /\ acks = {} /\ added = {} /\ aged = {} /\ marking = {}
      /\ prep = [p \in Peers |-> NoEvent] /\ sealed = [m \in Msgs |-> <<>>] /\ answer = [p \in Peers |-> NoAnswer]
      /\ deliv = [m \in Msgs |-> [q \in Peers |-> "none"]]
  BY DEF Init
<1>5. Len(Roster) \in Nat /\ (Roster # <<>> => Len(Roster) >= 1 /\ Founder \in Peers)
  BY <1>1, RosterSeq
<1>6. /\ Absent \in Replicas /\ ~Absent.known /\ Absent.events = {} /\ Absent.msgs = {}
  BY AbsentRows
<1>7. \A p \in Peers : db[p] \in Replicas /\ db[p].msgs = {}
                       /\ (db[p].known => Roster # <<>> /\ p \in RosterSet /\ db[p] = RosterReplica(p))
                       /\ (~db[p].known => db[p] = Absent)
  <2> SUFFICES ASSUME NEW p \in Peers
               PROVE  db[p] \in Replicas /\ db[p].msgs = {}
                      /\ (db[p].known => Roster # <<>> /\ p \in RosterSet /\ db[p] = RosterReplica(p))
                      /\ (~db[p].known => db[p] = Absent)
    OBVIOUS
  <2>1. CASE db[p] = Absent
    BY <1>6, <2>1
  <2>2. CASE Roster # <<>> /\ p \in RosterSet /\ db[p] = RosterReplica(p)
    BY <1>1, <2>2, RosterRows
  <2>3. p \notin RosterSet => RosterReplica(p) = Absent
    BY DEF RosterReplica
  <2> QED BY <1>2, <2>1, <2>2, <2>3
<1>8. /\ \A e \in log : /\ e \in Events /\ e.signer = Founder /\ e.epoch = 1 /\ e.seq \in 1 .. 2 * Len(Roster) - 1 /\ e.seq \in Nat
                        /\ e.type \in {"create", "invite", "join"} /\ (e.type = "create" <=> e.seq = 1)
                        /\ (e.type = "invite" => e.val = 1 /\ e.target # Founder)
                        /\ (e.type = "create" => e.val = 1)
      /\ \A e, f \in log : e.seq = f.seq => e = f
      /\ log # {} => Roster # <<>>
      /\ Roster # <<>> => \A n \in 1 .. 2 * Len(Roster) - 1 : \E e \in log : e.seq = n
  <2>1. CASE Roster = <<>>
    BY <1>3, <2>1
  <2>2. CASE Roster # <<>>
    <3>1. log = RosterEvents
      BY <1>3, <2>2
    <3> HIDE DEF RosterEvents
    <3>2. \A e \in log : /\ e \in Events /\ e.signer = Founder /\ e.epoch = 1 /\ e.seq \in 1 .. 2 * Len(Roster) - 1
                        /\ e.type \in {"create", "invite", "join"} /\ (e.type = "create" <=> e.seq = 1)
                        /\ (e.type = "invite" => e.val = 1 /\ e.target # Founder)
                        /\ (e.type = "create" => e.val = 1)
      BY <1>1, <2>2, <3>1, RosterEach, RosterFields
    <3>3. \A e \in log : e.seq \in Nat
      BY <1>5, <3>2
    <3> QED BY <1>1, <2>2, <3>1, <3>2, <3>3, RosterNumbers
  <2> QED BY <2>1, <2>2
<1>9. 1 \in 0 .. MaxSeq
  BY GroupAssumption
<1>10. \A n \in Nat : n >= 1 /\ log # {} => TitleIs(log, n, 1)
  <2> SUFFICES ASSUME NEW n \in Nat, n >= 1, Roster # <<>> PROVE TitleIs(log, n, 1)
    BY <1>8
  <2>1. 1 \in 1 .. 2 * Len(Roster) - 1
    BY <1>5
  <2>2. PICK x \in log : x.seq = 1
    BY <1>8, <2>1
  <2>3. \A f \in log : f.type \in Names => f.seq <= x.seq
    BY <1>8, <2>2 DEF Names
  <2>4. x.type \in Names /\ x.val = 1
    BY <1>8, <2>2 DEF Names
  <2> QED BY <2>2, <2>3, <2>4 DEF TitleIs
<1> HIDE DEF TitleIs
<1>11. LogOK
  <2>1. log \subseteq Events /\ \A e, f \in log : e.seq = f.seq => e = f
    BY <1>8
  <2>2. log # {} => \E e \in log : \A f \in log : f.seq <= e.seq
    <3> SUFFICES ASSUME Roster # <<>> PROVE \E e \in log : \A f \in log : f.seq <= e.seq
      BY <1>8
    <3>1. 2 * Len(Roster) - 1 \in 1 .. 2 * Len(Roster) - 1
      BY <1>5
    <3> QED BY <1>5, <1>8, <3>1
  <2>3. \A e \in log : Sane(e) /\ e.seq >= 1 /\ (e.seq = 1 <=> e.type = "create")
    BY <1>5, <1>8, <1>9 DEF Sane
  <2>4. \A e \in log : \A n \in 1 .. e.seq : \E f \in log : f.seq = n
    <3> SUFFICES ASSUME NEW e \in log, NEW n \in 1 .. e.seq PROVE \E f \in log : f.seq = n
      OBVIOUS
    <3>1. n \in 1 .. 2 * Len(Roster) - 1
      BY <1>5, <1>8
    <3> QED BY <1>8, <3>1
  <2>5. \A g, e \in log : e.seq = g.seq + 1 => Succeeds(g, e)
    BY <1>8 DEF Succeeds, After, Rotations
  <2>6. \A e \in log : e.type = "invite" => TitleIs(log, e.seq, e.val)
    BY <1>8, <1>10
  <2> QED BY <2>1, <2>2, <2>3, <2>4, <2>5, <2>6 DEF LogOK
<1>12. ASSUME NEW p \in Peers PROVE ReplicaOK(db[p])
  <2>1. CASE ~db[p].known
    BY <1>6, <1>7, <2>1 DEF ReplicaOK, ReplicaIn
  <2>2. CASE db[p].known
    <3> DEFINE d == db[p]
    <3>1. Roster # <<>> /\ p \in RosterSet /\ d = RosterReplica(p) /\ log = RosterEvents
      BY <1>3, <1>7, <2>2
    <3> HIDE DEF d, RosterEvents, RosterReplica, Founder
    <3>2. /\ d.known /\ d.ctrl = Founder /\ d.epoch = 1 /\ d.title = 1 /\ d.state = "active"
          /\ d.last = 2 * Len(Roster) - 1 /\ d.events \subseteq log
          /\ \A e \in log : e.seq = d.last => e \in d.events
          /\ \A e \in d.events, f \in log : e.seq <= f.seq => f \in d.events
      BY <1>1, <3>1, RosterRows
    <3>3. d.last \in 1 .. 2 * Len(Roster) - 1 /\ d.last \in Nat /\ d.last >= 1
      BY <1>5, <3>1, <3>2
    <3>4. PICK e \in log : e.seq = d.last
      BY <1>8, <3>1, <3>3, <3>2
    <3>5. e \in d.events /\ StandsIn(log, d, e)
      <4>1. TitleIs(log, e.seq, 1)
        BY <1>10, <3>3, <3>4
      <4>2. After(e) = Founder /\ e.epoch = 1 /\ e.type # "dissolve"
        BY <1>8, <3>4 DEF After
      <4> QED BY <3>2, <3>4, <4>1, <4>2 DEF StandsIn
    <3>6. \A f \in d.events : f.seq <= d.last /\ \A n \in f.seq .. d.last : \E g \in d.events : g.seq = n
      <4> SUFFICES ASSUME NEW f \in d.events
                   PROVE  f.seq <= d.last /\ \A n \in f.seq .. d.last : \E g \in d.events : g.seq = n
        OBVIOUS
      <4>1. f \in log /\ f.seq \in 1 .. 2 * Len(Roster) - 1 /\ f.seq \in Nat
        BY <1>8, <3>2
      <4>2. f.seq <= d.last
        BY <1>5, <3>2, <4>1
      <4>3. ASSUME NEW n \in f.seq .. d.last PROVE \E g \in d.events : g.seq = n
        <5>1. n \in 1 .. 2 * Len(Roster) - 1 /\ f.seq <= n
          BY <1>5, <3>2, <3>3, <4>1
        <5>2. PICK g \in log : g.seq = n
          BY <1>8, <3>1, <5>1
        <5> QED BY <3>2, <5>1, <5>2
      <4> QED BY <4>2, <4>3
    <3> HIDE DEF StandsIn
    <3>7. ReplicaIn(log, d)
      BY <3>2, <3>5, <3>6 DEF ReplicaIn
    <3> QED BY <3>7 DEF ReplicaOK, d
  <2> QED BY <2>1, <2>2
<1>13. Signers
  <2> SUFFICES ASSUME log # {} PROVE db[Founder].known /\ db[Founder].last = 2 * Len(Roster) - 1
    BY <1>5, <1>8 DEF Signers
  <2>1. Roster # <<>> /\ Founder \in Peers
    BY <1>5, <1>8
  <2>2. Founder \in RosterSet
    <3>1. 1 \in DOMAIN Roster
      BY <1>1, <1>5, <2>1, RosterSeq
    <3> QED BY <3>1 DEF Founder, RosterSet
  <2>3. db[Founder] = RosterReplica(Founder)
    BY <1>2, <2>1
  <2> QED BY <1>1, <2>1, <2>2, <2>3, RosterRows
<1>14. \A p \in Peers : answer[p] = NoAnswer /\ NoAnswer.events = <<>> /\ NoAnswer.texts = {}
  BY <1>4 DEF NoAnswer
<1>15. Carried /\ PrepOK
  <2>1. \A p \in Peers : prep[p] = NoEvent
    BY <1>4
  <2>2. <<>> \in Seq(log) /\ Len(<<>>) = 0 /\ 1 .. 0 = {}
    OBVIOUS
  <2>3. Carried
    <3> HIDE DEF Addressed, NoAnswer
    <3> QED BY <1>4, <1>14, <2>2 DEF Carried
  <2> QED BY <2>1, <2>3 DEF PrepOK
<1>16. Room
  <2>1. \A m \in Msgs : sealed[m] = <<>>
    BY <1>4
  <2> QED BY <1>4, <1>7, <1>14, <2>1 DEF Room
<1>17. TypeOK
  <2>1. db \in [Peers -> Replicas]
    <3>1. db = [p \in Peers |-> IF Roster = <<>> THEN Absent ELSE RosterReplica(p)]
      BY DEF Init
    <3> HIDE DEF Absent, RosterReplica, Replicas
    <3> QED BY <1>7, <3>1
  <2>2. deliv \in [Msgs -> [Peers -> DeliveryStates]]
    BY <1>4 DEF DeliveryStates
  <2>3. sealed \in [Msgs -> Seq(Texts)]
    <3> HIDE DEF Texts
    <3> QED BY <1>4
  <2>4. answer \in [Peers -> [events : Seq(Events), texts : SUBSET Texts]]
    <3> HIDE DEF Texts, Events
    <3> QED BY <1>4 DEF NoAnswer
  <2>5. prep \in [Peers -> Events \cup {NoEvent}]
    BY <1>4
  <2>6. \A e \in log : e \in Events
    BY <1>8
  <2> HIDE DEF Texts, Events, Replicas, DeliveryStates
  <2> QED BY <1>1, <1>4, <2>1, <2>2, <2>3, <2>4, <2>5, <2>6 DEF TypeOK
<1> QED BY <1>11, <1>12, <1>13, <1>15, <1>16, <1>17 DEF GroupInv

-----------------------------------------------------------------------------
(* The invariant of the specification                                       *)

\* The invariant is inductive.
LEMMA GroupStep == ASSUME Ordered => GroupInv, [Next]_vars PROVE (Ordered => GroupInv)'
<1>1. CASE Next
  <2>1. Ordered' = Ordered
    BY <1>1, ScopeStays DEF Ordered, Ops
  <2> SUFFICES ASSUME Ordered PROVE GroupInv'
    BY <2>1
  <2>2. GroupInv
    OBVIOUS
  <2>3. Moved /\ Told /\ Spoken /\ scope' = scope
    BY <1>1, <2>2, NextMoves, NextTells, NextSpeaks, ScopeStays
  <2>4. LogOK'
    BY <2>2, <2>3, LogStep
  <2>5. TypeOK' /\ Room'
    BY <1>1, <2>2, <2>3, <2>4, TypeRoomStep
  <2>6. Signers' /\ Carried' /\ PrepOK'
    BY <2>2, <2>3, SignersStep, CarriedStep, PrepStep
  <2>7. (\A p \in Peers : ReplicaOK(db[p]))'
    BY <2>2, <2>3, ReplicasStep DEF ReplicaOK
  <2> HIDE DEF TypeOK, LogOK, Signers, Carried, PrepOK, Room, ReplicaOK
  <2> QED BY <2>4, <2>5, <2>6, <2>7 DEF GroupInv
<1>2. CASE UNCHANGED vars
  <2>1. (Ordered => GroupInv)' = (Ordered => GroupInv)
    BY <1>2 DEF vars, stores, threads, network, env, Ordered, GroupInv, TypeOK, LogOK, ReplicaOK, Signers, Carried, PrepOK,
         Room, Ops, Sane, Addressed, Prepared
  <2> QED BY <2>1
<1> QED BY <1>1, <1>2

\* The tables, goroutines and envelopes of the group hold what they are meant to:
\* no event is numbered beyond the room there is, no sender number beyond the
\* number of messages sent.
THEOREM GroupTypeCorrect == Spec => [](Ordered => TypeOK)
<1>1. Init => (Ordered => GroupInv)
  BY GroupInit
<1>2. (Ordered => GroupInv) /\ [Next]_vars => (Ordered => GroupInv)'
  BY GroupStep
<1>3. (Ordered => GroupInv) => (Ordered => TypeOK)
  BY DEF GroupInv
<1> QED BY <1>1, <1>2, <1>3, PTL DEF Spec

\* Events that stand at one number leave the same rows (applyRemote... in
\* group_service.go), whether a node has applied all of them or started from an
\* invite that carries title and epoch.
LEMMA SameRowsAtOneEvent ==
  ASSUME GroupInv
  PROVE  RowsFollowLog
<1> SUFFICES ASSUME NEW p \in Peers, NEW q \in Peers, db[p].known, db[q].known, db[p].last = db[q].last
             PROVE  /\ db[p].ctrl = db[q].ctrl /\ db[p].epoch = db[q].epoch
                    /\ db[p].title = db[q].title /\ db[p].state = db[q].state
  BY DEF RowsFollowLog
<1>1. PICK e \in log : StandsAt(db[p], e)
  BY Standing
<1>2. PICK f \in log : StandsAt(db[q], f)
  BY Standing
<1>3. e = f
  <2>1. e.seq = f.seq
    <3> HIDE DEF TitleIs, After
    <3> QED BY <1>1, <1>2 DEF StandsAt, StandsIn
  <2>2. \A g, h \in log : g.seq = h.seq => g = h
    BY DEF GroupInv, LogOK
  <2> QED BY <2>1, <2>2
<1>4. db[p].title = db[q].title
  <2>1. TitleIs(log, e.seq, db[p].title) /\ TitleIs(log, e.seq, db[q].title)
    BY <1>1, <1>2, <1>3 DEF StandsAt, StandsIn
  <2>2. PICK x \in log : /\ x.type \in Names /\ x.seq <= e.seq /\ x.val = db[p].title
                         /\ \A g \in log : g.type \in Names /\ g.seq <= e.seq => g.seq <= x.seq
    BY <2>1 DEF TitleIs
  <2>3. PICK y \in log : /\ y.type \in Names /\ y.seq <= e.seq /\ y.val = db[q].title
                         /\ \A g \in log : g.type \in Names /\ g.seq <= e.seq => g.seq <= y.seq
    BY <2>1 DEF TitleIs
  <2>4. x.seq \in Nat /\ y.seq \in Nat
    BY EventFields DEF GroupInv, LogOK
  <2>5. x.seq = y.seq
    BY <2>2, <2>3, <2>4
  <2>6. x = y
    BY <2>5 DEF GroupInv, LogOK
  <2> QED BY <2>2, <2>3, <2>6
<1> HIDE DEF TitleIs
<1> QED BY <1>1, <1>2, <1>3, <1>4 DEF StandsAt, StandsIn

\* Replicas that have applied the same events agree on controller, epoch, title and
\* state, also one that started from an invite (ensureGroupForInviteEnvelope).
THEOREM RowsFollowLogAlways == Spec => [](Ordered => RowsFollowLog)
<1>1. Init => (Ordered => GroupInv)
  BY GroupInit
<1>2. (Ordered => GroupInv) /\ [Next]_vars => (Ordered => GroupInv)'
  BY GroupStep
<1>3. (Ordered => GroupInv) => (Ordered => RowsFollowLog)
  BY SameRowsAtOneEvent
<1> QED BY <1>1, <1>2, <1>3, PTL DEF Spec

-----------------------------------------------------------------------------
(* The replicas implement the shared log                                    *)

Held == [p \in Peers |-> db[p].events]

\* What the shared log sees of a step that changes one replica.
LEMMA OneRecord ==
  ASSUME NEW p \in Peers, NEW o, db \in [Peers -> Replicas], Becomes(p, o)
  PROVE  Held' = [Held EXCEPT ![p] = o.events] /\ Held[p] = db[p].events /\ Held'[p] = o.events
<1>1. \A q \in Peers : db'[q] = IF q = p THEN o ELSE db[q]
  BY DEF Becomes
<1>2. Held' = [q \in Peers |-> db'[q].events]
  BY DEF Held
<1>3. Held' = [q \in Peers |-> IF q = p THEN o.events ELSE db[q].events]
  BY <1>1, <1>2
<1> QED BY <1>3 DEF Held

\* The newest of a set of events.
LEMMA NewestIs ==
  ASSUME NEW L, NEW g \in L, \A e, f \in L : e.seq = f.seq => e = f, \A f \in L : f.seq <= g.seq,
         \A f \in L : f.seq \in Nat
  PROVE  Shared!Newest(L) = g
<1>1. \A f \in L : EventSeq(f) = f.seq
  BY DEF EventSeq
<1>2. Shared!Newest(L) = CHOOSE e \in L : \A f \in L : f.seq <= e.seq
  BY <1>1 DEF Shared!Newest, EventSeq
<1>3. \A x \in L : (\A f \in L : f.seq <= x.seq) => x = g
  <2> SUFFICES ASSUME NEW x \in L, \A f \in L : f.seq <= x.seq PROVE x = g
    OBVIOUS
  <2>1. g.seq <= x.seq /\ x.seq <= g.seq /\ g.seq \in Nat /\ x.seq \in Nat
    OBVIOUS
  <2>2. x.seq = g.seq
    BY <2>1
  <2> QED BY <2>2
<1> QED BY <1>2, <1>3

\* A step of the group is a step of the log, or none.
LEMMA SharesStep == ASSUME GroupInv, Moved PROVE [Shared!Next]_(Shared!logVars)
<1>0. /\ LogOK /\ db \in [Peers -> Replicas] /\ log \subseteq Events
      /\ \A e, f \in log : e.seq = f.seq => e = f
      /\ \A p \in Peers : /\ ~db[p].known => db[p].events = {}
                          /\ db[p].known => db[p].events \subseteq log /\ \A f \in db[p].events : f.seq <= db[p].last
  BY DEF GroupInv, TypeOK, LogOK, ReplicaOK, ReplicaIn
<1>e. \A e \in Events : e.seq \in Nat /\ EventSeq(e) = e.seq
  BY EventFields DEF EventSeq
<1>n. \A p \in Peers : Held'[p] # Held[p]
         /\ (Shared!AppendEvent(p) \/ Shared!Extend(p) \/ Shared!Join(p) \/ Shared!Forget(p)) => Shared!Next
  BY DEF Shared!Next, Held
<1>1. CASE Still
  <2>1. \A p \in Peers : db'[p].events = db[p].events
    BY <1>1 DEF Still, SameRows
  <2>2. Held' = Held
    BY <2>1 DEF Held
  <2> QED BY <1>1, <2>2 DEF Still, Shared!logVars, Held
<1>2. ASSUME NEW p \in Peers, Founds(p) PROVE Shared!Next
  <2>1. PICK o : Becomes(p, o) /\ o.events = {Create(p)}
    BY <1>2 DEF Founds
  <2>2. Held' = [Held EXCEPT ![p] = {Create(p)}] /\ Held[p] = db[p].events /\ Held'[p] = {Create(p)}
    BY <1>0, <2>1, OneRecord
  <2>3. log = {} /\ log' = {Create(p)} /\ db[p].events = {}
    BY <1>0, <1>2 DEF Founds
  <2>4. Create(p) \in Events /\ Create(p).seq = 1
    BY CreateFields
  <2> HIDE DEF Create
  <2>5. Held' = [Held EXCEPT ![p] = @ \cup {Create(p)}]
    BY <2>2, <2>3
  <2>6. Shared!AppendEvent(p)
    <3>1. Create(p) \in log' \ log /\ log' = log \cup {Create(p)} /\ EventSeq(Create(p)) = 1
      BY <2>3, <2>4 DEF EventSeq
    <3> QED BY <2>3, <2>4, <2>5, <3>1 DEF Shared!AppendEvent, Held
  <2> QED BY <1>n, <2>2, <2>3, <2>6
<1>3. ASSUME NEW p \in Peers, NEW e, Appends(p, e) PROVE Shared!Next
  <2>1. NextEvent(p, e) /\ log' = log \cup {e}
    BY <1>3 DEF Appends
  <2>2. PICK o : Becomes(p, o) /\ o.events = db[p].events \cup {e}
    BY <1>3 DEF Appends, Rows
  <2>3. Held' = [Held EXCEPT ![p] = db[p].events \cup {e}] /\ Held[p] = db[p].events /\ Held'[p] = db[p].events \cup {e}
    BY <1>0, <2>2, OneRecord
  <2>4. e \in Events /\ e.seq \in Nat /\ \A f \in log : f.seq < e.seq /\ f.seq \in Nat
    BY <2>1, NextFacts
  <2>5. PICK g \in db[p].events : g \in log /\ e.seq = g.seq + 1
    BY <2>1, NextFacts DEF Succeeds
  <2>6. e \notin log
    BY <2>4
  <2>7. Shared!Newest(log) = g
    <3>1. \A f \in log : f.seq <= g.seq
      BY <2>4, <2>5
    <3> QED BY <1>0, <2>4, <2>5, <3>1, NewestIs
  <2>8. Shared!AppendEvent(p)
    <3>1. e \in log' \ log /\ log # {}
      BY <2>1, <2>5, <2>6
    <3>2. Shared!Follows(e, log)
      BY <1>e, <2>4, <2>5, <2>7 DEF Shared!Follows, EventSeq
    <3>3. Shared!Newest(log) \in Held[p]
      BY <2>3, <2>5, <2>7
    <3>4. Held' = [Held EXCEPT ![p] = @ \cup {e}]
      BY <2>3
    <3> QED BY <2>1, <2>4, <3>1, <3>2, <3>3, <3>4 DEF Shared!AppendEvent, Held
  <2>9. Held'[p] # Held[p]
    BY <1>0, <2>1, <2>3, <2>6 DEF NextEvent
  <2> QED BY <1>n, <2>8, <2>9
<1>4. ASSUME NEW p \in Peers, NEW e, Extends(p, e) PROVE Shared!Next
  <2>1. e \in log /\ log' = log /\ db[p].known /\ e.seq = db[p].last + 1 /\ db[p].last \in Nat
    BY <1>4, Standing DEF Extends
  <2>2. PICK o : Becomes(p, o) /\ o.events = db[p].events \cup {e}
    BY <1>4 DEF Extends, Rows
  <2>3. Held' = [Held EXCEPT ![p] = db[p].events \cup {e}] /\ Held[p] = db[p].events /\ Held'[p] = db[p].events \cup {e}
    BY <1>0, <2>2, OneRecord
  <2>4. PICK g \in db[p].events : g.seq = db[p].last
    BY <2>1, Standing DEF StandsAt, StandsIn
  <2>5. /\ db[p].events \subseteq log /\ \A f \in db[p].events : f.seq <= g.seq
        /\ \A f \in db[p].events : f.seq \in Nat
    BY <1>0, <1>e, <2>1, <2>4
  <2>6. Shared!Newest(db[p].events) = g
    BY <1>0, <2>4, <2>5, NewestIs
  <2>7. e \notin db[p].events
    BY <2>1, <2>4, <2>5
  <2>8. Shared!Extend(p)
    <3>1. Shared!Follows(e, Held[p])
      BY <1>e, <2>1, <2>3, <2>4, <2>6 DEF Shared!Follows, EventSeq
    <3>2. Held' = [Held EXCEPT ![p] = @ \cup {e}]
      BY <2>3
    <3> QED BY <2>1, <3>1, <3>2 DEF Shared!Extend, Held
  <2> QED BY <1>n, <2>3, <2>7, <2>8
<1>5. ASSUME NEW p \in Peers, NEW e, Joins(p, e) PROVE Shared!Next
  <2>1. e \in log /\ log' = log /\ db[p].events = {}
    BY <1>0, <1>5 DEF Joins
  <2>2. PICK o : Becomes(p, o) /\ o.events = {e}
    BY <1>5 DEF Joins, FirstRows
  <2>3. Held' = [Held EXCEPT ![p] = {e}] /\ Held[p] = db[p].events /\ Held'[p] = {e}
    BY <1>0, <2>2, OneRecord
  <2>4. Shared!Join(p)
    BY <2>1, <2>3 DEF Shared!Join, Held
  <2> QED BY <1>n, <2>1, <2>3, <2>4
<1>6. ASSUME NEW p \in Peers, Forgets(p) PROVE Shared!Next
  <2>1. log' = log /\ db[p].known /\ Becomes(p, Absent) /\ Absent.events = {}
    BY <1>6, AbsentRows DEF Forgets
  <2>2. Held' = [Held EXCEPT ![p] = {}] /\ Held[p] = db[p].events /\ Held'[p] = {}
    BY <1>0, <2>1, OneRecord
  <2>3. db[p].events # {}
    BY <2>1, Standing
  <2>4. Shared!Forget(p)
    BY <2>1, <2>2 DEF Shared!Forget, Held
  <2> QED BY <1>n, <2>2, <2>3, <2>4
<1> QED BY <1>1, <1>2, <1>3, <1>4, <1>5, <1>6 DEF Moved

\* A log without gaps is numbered from 1 to the number of its events, and what a
\* replica has is a window of it.
LEMMA SharesInit == ASSUME GroupInv PROVE Shared!Init
<1>1. /\ log \subseteq Events /\ \A e, f \in log : e.seq = f.seq => e = f
      /\ log # {} => \E e \in log : \A f \in log : f.seq <= e.seq
      /\ \A e \in log : e.seq >= 1 /\ \A n \in 1 .. e.seq : \E f \in log : f.seq = n
  BY DEF GroupInv, LogOK
<1>2. \A e \in Events : e.seq \in Nat /\ EventSeq(e) = e.seq
  BY EventFields DEF EventSeq
<1>3. {EventSeq(e) : e \in log} = 1 .. Cardinality(log)
  <2>1. CASE log = {}
    <3>1. Cardinality(log) = 0 /\ 1 .. 0 = {}
      BY <2>1, FS_EmptySet
    <3> QED BY <2>1, <3>1
  <2>2. CASE log # {}
    <3>1. PICK e \in log : \A f \in log : f.seq <= e.seq
      BY <1>1, <2>2
    <3> DEFINE m == e.seq
               F == [f \in log |-> f.seq]
    <3>2. m \in Nat /\ m >= 1
      BY <1>1, <1>2, <3>1
    <3>3. \A f \in log : f.seq \in 1 .. m
      BY <1>1, <1>2, <3>1
    <3>4. \A n \in 1 .. m : \E f \in log : f.seq = n
      BY <1>1, <3>1
    <3> HIDE DEF m
    <3>5. F \in Injection(log, 1 .. m)
      BY <1>1, <3>3 DEF Injection, IsInjective
    <3>6. F \in Surjection(log, 1 .. m)
      BY <3>3, <3>4 DEF Surjection
    <3>7. ExistsBijection(log, 1 .. m)
      BY <3>5, <3>6 DEF ExistsBijection, Bijection
    <3>8. IsFiniteSet(1 .. m) /\ Cardinality(1 .. m) = m
      BY <3>2, FS_Interval
    <3>9. IsFiniteSet(log)
      BY <3>5, <3>8, FS_Injection
    <3>10. Cardinality(log) = m
      BY <3>7, <3>8, <3>9, FS_Bijection
    <3>11. {EventSeq(f) : f \in log} = 1 .. m
      BY <3>3, <3>4 DEF EventSeq
    <3> QED BY <3>10, <3>11
  <2> QED BY <2>1, <2>2
<1>4. ASSUME NEW p \in Peers PROVE db[p].events \subseteq log /\ Shared!Window(db[p].events)
  <2>1. CASE ~db[p].known
    BY <2>1 DEF GroupInv, ReplicaOK, ReplicaIn, Shared!Window
  <2>2. CASE db[p].known
    <3>1. /\ db[p].events \subseteq log /\ db[p].last \in Nat
          /\ \A f \in db[p].events : f.seq <= db[p].last /\ \A n \in f.seq .. db[p].last : \E g \in db[p].events : g.seq = n
      BY <2>2, Standing DEF GroupInv, ReplicaOK, ReplicaIn
    <3>2. ASSUME NEW e \in db[p].events, NEW f \in db[p].events, NEW n \in e.seq .. f.seq
          PROVE  \E g \in db[p].events : g.seq = n
      <4>1. e.seq \in Nat /\ f.seq \in Nat /\ f.seq <= db[p].last
        BY <1>1, <1>2, <3>1
      <4>2. n \in e.seq .. db[p].last
        BY <3>1, <4>1
      <4> QED BY <3>1, <4>2
    <3> QED BY <3>1, <3>2 DEF Shared!Window, EventSeq
  <2> QED BY <2>1, <2>2
<1>5. Shared!Cardinality(log) = Cardinality(log)
  BY DEF Shared!Cardinality, Cardinality
<1> QED BY <1>1, <1>3, <1>4, <1>5 DEF Shared!Init

\* GroupChat implements GroupLog: one log without a fork, appended to only by a
\* replica that has its newest event, and every replica a window that grows at its end.
THEOREM LogRefined == Spec /\ Ordered => ImplementsLog
<1>1. Init /\ Ordered => Shared!Init
  BY GroupInit, SharesInit
<1>2. Init => (Ordered => GroupInv)
  BY GroupInit
<1>3. (Ordered => GroupInv) /\ [Next]_vars => (Ordered => GroupInv)'
  BY GroupStep
<1>4. Ordered /\ [Next]_vars => Ordered'
  BY ScopeStays DEF Ordered, Ops, vars, env
<1>5. Ordered /\ (Ordered => GroupInv) /\ [Next]_vars => [Shared!Next]_(Shared!logVars)
  <2>1. CASE Next
    BY <2>1, NextMoves, SharesStep
  <2>2. CASE UNCHANGED vars
    BY <2>2 DEF vars, stores, Shared!logVars
  <2> QED BY <2>1, <2>2
<1> QED BY <1>1, <1>2, <1>3, <1>4, <1>5, PTL DEF Spec, ImplementsLog, Shared!Spec

-----------------------------------------------------------------------------
(* Who is gone, and who hears of what                                       *)

\* Whether a peer was gone does not depend on later events.
LEMMA GoneKept ==
  ASSUME NEW L, NEW e, e.seq \in Nat, \A f \in L : f.seq \in Nat /\ f.seq < e.seq,
         NEW n \in Nat, n < e.seq, NEW q
  PROVE  Gone(L \cup {e}, q, n) <=> Gone(L, q, n)
<1>1. \A f \in L \cup {e} : f.seq <= n => f \in L
  OBVIOUS
<1>2. ASSUME Gone(L \cup {e}, q, n) PROVE Gone(L, q, n)
  BY <1>1, <1>2 DEF Gone
<1>3. ASSUME Gone(L, q, n) PROVE Gone(L \cup {e}, q, n)
  BY <1>1, <1>3 DEF Gone
<1> QED BY <1>2, <1>3

\* Nobody goes by an event that lets another one go or nobody.
LEMMA GoneNext ==
  ASSUME NEW L, NEW e \in L, \A f \in L : f.seq \in Nat, \A f, g \in L : f.seq = g.seq => f = g,
         NEW q, ~(e.type \in Departs /\ e.target = q), ~Gone(L, q, e.seq - 1)
  PROVE  ~Gone(L, q, e.seq)
<1> SUFFICES ASSUME Gone(L, q, e.seq) PROVE FALSE
  OBVIOUS
<1>1. PICK w \in L : /\ w.type \in Departs /\ w.target = q /\ w.seq <= e.seq
                     /\ \A f \in L : f.type = "invite" /\ f.target = q /\ f.seq <= e.seq => f.seq < w.seq
  BY DEF Gone
<1>2. w.seq # e.seq
  BY <1>1
<1>3. w.seq \in Nat /\ e.seq \in Nat /\ w.seq <= e.seq - 1
  BY <1>1, <1>2
<1>4. \A f \in L : f.seq <= e.seq - 1 => f.seq <= e.seq
  BY <1>3
<1>5. Gone(L, q, e.seq - 1)
  BY <1>1, <1>3, <1>4 DEF Gone
<1> QED BY <1>5

\* An invite brings its target back.
LEMMA GoneNotInvited ==
  ASSUME NEW L, NEW e \in L, \A f \in L : f.seq \in Nat, e.type = "invite"
  PROVE  ~Gone(L, e.target, e.seq)
BY DEF Gone

\* A departure makes its target gone until the next invite.
LEMMA GoneDeparted ==
  ASSUME NEW L, NEW e \in L, \A f \in L : f.seq \in Nat, \A f, g \in L : f.seq = g.seq => f = g,
         e.type \in Departs, ~\E f \in L : f.type = "invite" /\ f.target = e.target /\ f.seq > e.seq,
         NEW n \in Nat, n >= e.seq
  PROVE  Gone(L, e.target, n)
<1>1. \A f \in L : f.type = "invite" /\ f.target = e.target => f.seq < e.seq
  <2> SUFFICES ASSUME NEW f \in L, f.type = "invite", f.target = e.target PROVE f.seq < e.seq
    OBVIOUS
  <2>1. f.seq # e.seq
    BY DEF Departs
  <2> QED BY <2>1
<1> QED BY <1>1 DEF Gone

\* What the events of a log are like.
LEMMA LogFacts ==
  ASSUME GroupInv
  PROVE  /\ \A f \in log : f \in Events /\ f.seq \in Nat /\ f.seq >= 1
         /\ \A f, g \in log : f.seq = g.seq => f = g
<1>1. log \subseteq Events /\ (\A f \in log : f.seq >= 1)
      /\ \A f, g \in log : f.seq = g.seq => f = g
  BY DEF GroupInv, LogOK
<1> QED BY <1>1, EventFields

\* Whoever is counted in by the event that is appended was not gone.
LEMMA AppendedPresent ==
  ASSUME GroupInv, KeysOK, NEW p \in Peers, NEW e, Appends(p, e)
  PROVE  /\ Present(log \cup {e}, e, e.seq)
         /\ \A q \in Members(db[p]) : ~(e.type \in Departs /\ e.target = q) => ~Gone(log \cup {e}, q, e.seq)
         /\ \A q \in Peers, n \in Nat : n < e.seq => (Gone(log \cup {e}, q, n) <=> Gone(log, q, n))
<1> DEFINE L == log \cup {e}
<1>1. NextEvent(p, e) /\ e.signer = p /\ Sane(e) /\ db[p].known /\ db[p].ctrl = p
  BY DEF Appends, NextEvent
<1>2. /\ e \in Events /\ e.seq \in Nat /\ e.seq - 1 \in Nat /\ e.seq - 1 < e.seq /\ db[p].last = e.seq - 1
      /\ \A f \in log : f.seq < e.seq /\ f.seq \in Nat
  <2>1. e.seq \in Nat /\ e.seq = db[p].last + 1 /\ db[p].last \in Nat
    BY <1>1, NextFacts, Standing
  <2>2. e \in Events /\ \A f \in log : f.seq < e.seq /\ f.seq \in Nat
    BY <1>1, NextFacts
  <2> QED BY <2>1, <2>2
<1>3. e \in L /\ (\A f \in L : f.seq \in Nat) /\ \A f, g \in L : f.seq = g.seq => f = g
  BY <1>2, LogFacts
<1>4. ASSUME NEW n \in Nat, n < e.seq, NEW q PROVE Gone(L, q, n) <=> Gone(log, q, n)
  BY <1>2, <1>4, GoneKept
<1> HIDE DEF Gone, L
<1>5. ASSUME NEW q, ~(e.type \in Departs /\ e.target = q), ~Gone(log, q, e.seq - 1) PROVE ~Gone(L, q, e.seq)
  <2>1. ~Gone(L, q, e.seq - 1)
    BY <1>2, <1>4, <1>5
  <2> HIDE DEF L
  <2> QED BY <1>3, <1>5, <2>1, GoneNext
<1>6. \A q \in Members(db[p]) : ~Gone(log, q, e.seq - 1)
  BY <1>1, <1>2 DEF KeysOK
<1>7. Present(log, e, e.seq - 1)
  <2>1. CASE prep[p] = e /\ e # NoEvent
    BY <2>1 DEF KeysOK
  <2>2. CASE Requested(p, e)
    <3>1. /\ e.type \in {"join", "leave"} /\ e.target \in Members(db[p]) /\ e.target \notin e.holders
          /\ <<e.type, e.target, p>> \in requests
      BY <2>2 DEF Requested
    <3>2. e.target # p
      BY <3>1 DEF KeysOK
    <3>3. ~Gone(log, p, e.seq - 1)
      BY <1>1, <1>2, ControllerPresent
    <3> QED BY <1>1, <1>6, <3>1, <3>2, <3>3 DEF Present
  <2> QED BY <2>1, <2>2 DEF Appends
<1>8. Present(L, e, e.seq)
  <2>1. e.type \in Departs => e.target # e.signer
    BY <1>7 DEF Present
  <2>2. ~Gone(L, e.signer, e.seq)
    BY <1>5, <1>7, <2>1 DEF Present
  <2>3. e.type \in {"join", "transfer"} => ~Gone(L, e.target, e.seq)
    BY <1>5, <1>7 DEF Present, Departs
  <2>4. e.type = "invite" => \A q \in e.holders \ {e.target} : ~Gone(L, q, e.seq)
    BY <1>5, <1>7 DEF Present, Departs
  <2> HIDE DEF L
  <2> QED BY <1>7, <2>2, <2>3, <2>4 DEF Present
<1>9. \A q \in Members(db[p]) : ~(e.type \in Departs /\ e.target = q) => ~Gone(L, q, e.seq)
  BY <1>5, <1>6
<1> QED BY <1>4, <1>8, <1>9 DEF L

\* Who was in the group after an event stays so.
LEMMA ReachStays ==
  ASSUME GroupInv, Moved, NEW q, NEW e, Reach(log, q, e)
  PROVE  Reach(log', q, e)
<1>1. PICK g \in log : g.seq >= e.seq /\ ~Gone(log, q, g.seq)
  BY DEF Reach
<1> HIDE DEF Gone
<1>2. CASE log' = log
  BY <1>2
<1>3. ASSUME NEW p \in Peers, NEW x, Appends(p, x) PROVE Reach(log', q, e)
  <2>1. NextEvent(p, x) /\ log' = log \cup {x}
    BY <1>3 DEF Appends
  <2>2. x.seq \in Nat /\ \A f \in log : f.seq \in Nat /\ f.seq < x.seq
    BY <2>1, NextFacts
  <2>3. ~Gone(log \cup {x}, q, g.seq)
    BY <1>1, <2>2, GoneKept
  <2>4. g \in log'
    BY <2>1
  <2> QED BY <1>1, <2>1, <2>3, <2>4 DEF Reach
<1>4. ASSUME NEW p \in Peers, Founds(p) PROVE FALSE
  BY <1>1, <1>4 DEF Founds
<1> QED BY <1>2, <1>3, <1>4 DEF Moved, Still, Forgets, Extends, Joins

\* Who may hear of an event may hear of it later.
LEMMA HearingStays ==
  ASSUME GroupInv, Moved, NEW q, NEW e, MayHear(q, e)
  PROVE  MayHear(q, e)'
<1>1. CASE Reach(log, q, e)
  <2>1. Reach(log', q, e)
    BY <1>1, ReachStays
  <2> HIDE DEF Reach
  <2> QED BY <2>1 DEF MayHear
<1> QED BY <1>1 DEF MayHear

\* An event goes to the members it leaves in the group and to the one it is about.
LEMMA SentHear ==
  ASSUME GroupInv, KeysOK, NEW p \in Peers, NEW e, Appends(p, e), NEW q \in Peers, SentTo(p, e, q)
  PROVE  MayHear(q, e)'
<1>1. log' = log \cup {e} /\ NextEvent(p, e)
  BY DEF Appends
<1>2. e.seq \in Nat /\ \A f \in log : f.seq \in Nat
  BY <1>1, NextFacts
<1> HIDE DEF Gone, Appends, Present
<1>3. ASSUME ~Gone(log', q, e.seq) PROVE MayHear(q, e)'
  <2>1. e \in log' /\ e.seq >= e.seq
    BY <1>1, <1>2
  <2>2. Reach(log', q, e)
    BY <1>3, <2>1 DEF Reach
  <2> HIDE DEF Reach
  <2> QED BY <2>2 DEF MayHear
<1>4. CASE e.type \in Departs /\ e.target = q
  BY <1>4 DEF MayHear
<1>5. CASE q \in Members(db[p]) /\ ~(e.type \in Departs /\ e.target = q)
  <2>1. ~Gone(log', q, e.seq)
    BY <1>1, <1>5, AppendedPresent
  <2> QED BY <1>3, <2>1
<1>6. CASE e.type = "invite" /\ e.target = q
  <2>1. e \in log' /\ \A f \in log' : f.seq \in Nat
    BY <1>1, <1>2
  <2>2. ~Gone(log', q, e.seq)
    BY <1>6, <2>1, GoneNotInvited
  <2> QED BY <1>3, <2>2
<1> QED BY <1>4, <1>5, <1>6 DEF SentTo, Recipients, Departs

\* Whatever is under way goes to peers that may hear of it.  A node answers a sync
\* of members only, and the requester was one at the node's last event.
LEMMA CarriedHear ==
  ASSUME GroupInv, KeysOK, Moved, Told
  PROVE  /\ (\A x \in ctl : MayHear(x[1], x[2]))'
         /\ (\A j \in evjobs : MayHear(j[3], j[2]))'
         /\ (\A p \in Peers : \A i \in 1 .. Len(answer[p].events) : MayHear(p, answer[p].events[i]))'
<1>0. /\ \A x \in ctl : MayHear(x[1], x[2])
      /\ \A j \in evjobs : MayHear(j[3], j[2])
      /\ \A p \in Peers : \A i \in 1 .. Len(answer[p].events) : MayHear(p, answer[p].events[i])
  BY DEF KeysOK
<1> HIDE DEF MayHear, SentTo, Appends, KeysOK, Moved
<1>1. \A x \in ctl' : MayHear(x[1], x[2])'
  <2> SUFFICES ASSUME NEW x \in ctl' PROVE MayHear(x[1], x[2])'
    OBVIOUS
  <2>1. CASE x \in ctl
    BY <1>0, <2>1, HearingStays
  <2>2. ASSUME NEW j \in evjobs, x = <<j[3], j[2]>> PROVE MayHear(x[1], x[2])'
    <3>1. MayHear(j[3], j[2])' /\ x[1] = j[3] /\ x[2] = j[2]
      BY <1>0, <2>2, HearingStays
    <3> QED BY <3>1
  <2>3. ASSUME NEW p \in Peers, NEW q \in Peers, NEW e, Appends(p, e), SentTo(p, e, q), x = <<q, e>>
        PROVE  MayHear(x[1], x[2])'
    <3>1. MayHear(q, e)' /\ x[1] = q /\ x[2] = e
      BY <2>3, SentHear
    <3> QED BY <3>1
  <2> QED BY <2>1, <2>2, <2>3 DEF Told
<1>2. \A j \in evjobs' : MayHear(j[3], j[2])'
  <2> SUFFICES ASSUME NEW j \in evjobs' PROVE MayHear(j[3], j[2])'
    OBVIOUS
  <2>1. CASE j \in evjobs
    BY <1>0, <2>1, HearingStays
  <2>2. ASSUME NEW p \in Peers, NEW q \in Peers, NEW e, Appends(p, e), SentTo(p, e, q), j = <<p, e, q>>
        PROVE  MayHear(j[3], j[2])'
    <3>1. MayHear(q, e)' /\ j[3] = q /\ j[2] = e
      BY <2>2, SentHear
    <3> QED BY <3>1
  <2> QED BY <2>1, <2>2 DEF Told
<1>3. ASSUME NEW p \in Peers, NEW u, u = answer'[p].events
      PROVE  \A i \in 1 .. Len(u) : MayHear(p, u[i])'
  <2> DEFINE s == answer[p].events
  <2>1. \A i \in 1 .. Len(s) : MayHear(p, s[i])
    BY <1>0
  <2>2. s \in Seq(log)
    BY DEF GroupInv, Carried
  <2> SUFFICES \A i \in 1 .. Len(u) : MayHear(p, u[i])
    BY HearingStays
  <2>3. CASE u \in {s, <<>>}
    <3>1. CASE u = <<>>
      BY <3>1
    <3> QED BY <2>1, <2>3, <3>1
  <2>4. CASE s # <<>> /\ u = Tail(s)
    <3>1. Len(u) = Len(s) - 1 /\ (\A i \in 1 .. Len(u) : u[i] = s[i + 1]) /\ Len(s) \in Nat
      BY <2>2, <2>4
    <3> HIDE DEF s
    <3> QED BY <2>1, <3>1
  <2>5. ASSUME NEW q \in Peers, db[q].known, p \in Members(db[q]), u = InOrder(News(p, q))
        PROVE  \A i \in 1 .. Len(u) : MayHear(p, u[i])
    <3>1. /\ db[q].events \subseteq log /\ \A f \in db[q].events : f.seq <= db[q].last
      BY <2>5 DEF GroupInv, ReplicaOK, ReplicaIn
    <3>2. PICK g \in log : g.seq = db[q].last
      BY <2>5, Standing DEF StandsAt, StandsIn
    <3>3. ~Gone(log, p, g.seq)
      BY <2>5, <3>2 DEF KeysOK
    <3>4. \A e \in News(p, q) : MayHear(p, e)
      <4> SUFFICES ASSUME NEW e \in News(p, q) PROVE MayHear(p, e)
        OBVIOUS
      <4>1. e.seq <= g.seq /\ e.seq \in Nat /\ g.seq \in Nat
        BY <3>1, <3>2, LogFacts DEF News
      <4> QED BY <3>2, <3>3, <4>1 DEF MayHear, Reach
    <3>5. News(p, q) \subseteq log
      BY <3>1 DEF News
    <3>6. News(p, q) \subseteq Events /\ \A e, f \in News(p, q) : e.seq = f.seq => e = f
      BY <3>5, LogFacts
    <3>7. u \in Seq(News(p, q))
      BY <2>5, <3>6, InOrderLists
    <3> HIDE DEF News
    <3>8. \A i \in 1 .. Len(u) : u[i] \in News(p, q)
      BY <3>7
    <3> QED BY <3>4, <3>8
  <2> QED BY <1>3, <2>3, <2>4, <2>5 DEF Told
<1>4. \A p \in Peers : \A i \in 1 .. Len(answer'[p].events) : MayHear(p, answer[p].events[i])'
  BY <1>3 DEF MayHear
<1> QED BY <1>1, <1>2, <1>4

\* The parts of KeysOK about the log and the calls in progress.
EventsOK == EpochsGrow /\ \A e \in log : Present(log, e, e.seq)
CallsOK == \A p \in Peers : prep[p] # NoEvent => Present(log, prep[p], prep[p].seq - 1)
MembersOK == \A p \in Peers : db[p].known => \A q \in Members(db[p]) : ~Gone(log, q, db[p].last)
HeldOK == \A p \in Peers : \A n \in Epochs : db[p].keys[n] > NoKey => \E e \in log : e.epoch = n /\ Reach(log, p, e)

\* The columns that matter here, of a node in a step.
LEMMA RowsOf ==
  ASSUME GroupInv, NEW p \in Peers, NEW o, Becomes(p, o)
  PROVE  /\ db'[p] = o /\ \A q \in Peers \ {p} : db'[q] = db[q]
         /\ \A q \in Peers : db[q].status \in [Peers -> MemberStates] /\ Members(db[q]) \subseteq Peers
<1>1. db \in [Peers -> Replicas] /\ db' = [db EXCEPT ![p] = o]
  BY DEF GroupInv, TypeOK, Becomes
<1> QED BY <1>1, ReplicaFields DEF Members, Active, Invited

\* The first event of a group: nothing was there before it.
LEMMA FoundsFirst ==
  ASSUME GroupInv, NEW p \in Peers, Founds(p)
  PROVE  /\ \A q \in Peers : ~db[q].known /\ prep[q] = NoEvent
         /\ log' = {Create(p)} /\ log = {} /\ Create(p) \in Events /\ Create(p).seq = 1 /\ Create(p).epoch = 1
         /\ Create(p).type = "create" /\ Create(p).signer = p
         /\ \A q, n : ~Gone(log', q, n)
<1>1. log = {} /\ log' = {Create(p)}
  BY DEF Founds
<1>2. /\ Create(p) \in Events /\ Create(p).seq = 1 /\ Create(p).epoch = 1
      /\ Create(p).type = "create" /\ Create(p).signer = p
  BY CreateFields DEF Create
<1> HIDE DEF Create
<1>3. \A q \in Peers : ~db[q].known
  BY <1>1, Standing
<1>4. \A q \in Peers : prep[q] = NoEvent
  BY <1>3 DEF GroupInv, PrepOK, Prepared
<1>5. \A q, n : ~Gone(log', q, n)
  BY <1>1, <1>2 DEF Gone, Departs
<1> QED BY <1>1, <1>2, <1>3, <1>4, <1>5

\* An event counts in nobody who was gone, and epochs grow with the numbers.
LEMMA EventsStep == ASSUME GroupInv, KeysOK, Moved PROVE EventsOK'
<1>1. CASE log' = log
  BY <1>1 DEF EventsOK, KeysOK, EpochsGrow, Present, Gone
<1>2. ASSUME NEW p \in Peers, NEW e, Appends(p, e) PROVE EventsOK'
  <2>1. NextEvent(p, e) /\ log' = log \cup {e}
    BY <1>2 DEF Appends
  <2>2. e \in Events /\ e.seq \in Nat /\ \A f \in log : f.seq < e.seq /\ f.seq \in Nat
    BY <2>1, NextFacts
  <2>3. PICK g \in log : Succeeds(g, e)
    BY <2>1, NextFacts
  <2>4. \A f \in log : f \in Events /\ f.epoch \in Nat
    BY LogFacts, EventFields
  <2>5. \A f \in log : f.epoch <= g.epoch
    <3> SUFFICES ASSUME NEW f \in log PROVE f.epoch <= g.epoch
      OBVIOUS
    <3>1. e.seq = g.seq + 1 /\ f.seq <= g.seq
      BY <2>2, <2>3 DEF Succeeds
    <3>2. CASE f.seq < g.seq
      BY <3>2 DEF KeysOK, EpochsGrow
    <3>3. CASE f.seq = g.seq
      <4>1. f = g
        BY <3>3, LogFacts
      <4> QED BY <2>4, <4>1
    <3> QED BY <2>2, <3>1, <3>2, <3>3
  <2>6. e.epoch \in Nat /\ \A f \in log : f.epoch <= e.epoch /\ (e.type \in Rotations => f.epoch < e.epoch)
    <3>1. e.epoch = IF e.type \in Rotations THEN g.epoch + 1 ELSE g.epoch
      BY <2>3 DEF Succeeds
    <3>2. e.epoch \in Nat
      BY <2>2, EventFields
    <3> HIDE DEF Rotations
    <3> QED BY <2>4, <2>5, <3>1, <3>2
  <2>7. EpochsGrow'
    <3> SUFFICES ASSUME NEW f \in log', NEW h \in log', f.seq < h.seq
                 PROVE  f.epoch <= h.epoch /\ (h.type \in Rotations => f.epoch < h.epoch)
      BY DEF EpochsGrow
    <3>1. f \in log
      BY <2>1, <2>2
    <3>2. CASE h = e
      BY <2>6, <3>1, <3>2
    <3>3. CASE h \in log
      BY <3>1, <3>3 DEF KeysOK, EpochsGrow
    <3> QED BY <2>1, <3>2, <3>3
  <2>8. \A f \in log' : Present(log', f, f.seq)
    <3>1. Present(log', e, e.seq)
      BY <1>2, <2>1, AppendedPresent
    <3>2. ASSUME NEW f \in log PROVE Present(log', f, f.seq)
      <4>1. Present(log, f, f.seq) /\ f.seq \in Nat /\ f.seq < e.seq
        BY <2>2 DEF KeysOK
      <4>2. f.signer \in Peers /\ f.target \in Peers /\ f.holders \subseteq Peers
        BY <2>4, EventFields
      <4>3. \A q \in Peers : Gone(log', q, f.seq) <=> Gone(log, q, f.seq)
        BY <1>2, <2>1, <4>1, AppendedPresent
      <4> HIDE DEF Gone
      <4> QED BY <4>1, <4>2, <4>3 DEF Present
    <3> HIDE DEF Present
    <3> QED BY <2>1, <3>1, <3>2
  <2> QED BY <2>7, <2>8 DEF EventsOK
<1>3. ASSUME NEW p \in Peers, Founds(p) PROVE EventsOK'
  <2>1. /\ log' = {Create(p)} /\ Create(p) \in Events /\ Create(p).seq = 1 /\ Create(p).epoch = 1
        /\ Create(p).type = "create" /\ \A q, n : ~Gone(log', q, n)
    BY <1>3, FoundsFirst
  <2> HIDE DEF Gone, Create
  <2> QED BY <2>1 DEF EventsOK, EpochsGrow, Present, Departs
<1> QED BY <1>1, <1>2, <1>3 DEF Moved, Still, Forgets, Extends, Joins

\* What a call has built counts in nobody who was gone.
LEMMA CallsStep == ASSUME GroupInv, KeysOK, Moved PROVE CallsOK'
<1>0. /\ \A p \in Peers : prep[p] # NoEvent => Present(log, prep[p], prep[p].seq - 1)
      /\ prep \in [Peers -> Events \cup {NoEvent}]
  BY DEF KeysOK, GroupInv, TypeOK
<1>1. CASE Still
  <2> SUFFICES ASSUME NEW p \in Peers, prep'[p] # NoEvent PROVE Present(log', prep'[p], prep'[p].seq - 1)
    BY DEF CallsOK
  <2>1. Present(log, prep'[p], prep'[p].seq - 1)
    BY <1>0, <1>1 DEF Still, Built
  <2> QED BY <1>1, <2>1 DEF Still
<1>2. ASSUME NEW p \in Peers, NEW e, Appends(p, e) PROVE CallsOK'
  <2> SUFFICES ASSUME NEW q \in Peers, prep'[q] # NoEvent PROVE Present(log', prep'[q], prep'[q].seq - 1)
    BY DEF CallsOK
  <2>1. prep'[q] = prep[q]
    BY <1>0, <1>2 DEF Appends
  <2> DEFINE x == prep[q]
  <2>2. Prepared(q, x) /\ Present(log, x, x.seq - 1)
    BY <1>0, <2>1 DEF GroupInv, PrepOK
  <2>3. PICK g \in log : x.seq = g.seq + 1
    BY <2>2 DEF Prepared, Succeeds, GroupInv, ReplicaOK, ReplicaIn
  <2>4. NextEvent(p, e) /\ log' = log \cup {e}
    BY <1>2 DEF Appends
  <2>5. x.seq - 1 = g.seq /\ g.seq \in Nat /\ g.seq < e.seq
    BY <2>3, <2>4, NextFacts
  <2>6. \A r \in Peers : Gone(log', r, g.seq) <=> Gone(log, r, g.seq)
    <3> HIDE DEF Gone
    <3> QED BY <1>2, <2>4, <2>5, AppendedPresent
  <2>7. x.signer \in Peers /\ x.target \in Peers /\ x.holders \subseteq Peers
    BY <2>2, EventFields DEF Prepared
  <2> HIDE DEF Gone, x
  <2>8. Present(log', x, x.seq - 1)
    BY <2>2, <2>5, <2>6, <2>7 DEF Present
  <2> QED BY <2>1, <2>8 DEF x
<1>3. ASSUME NEW p \in Peers, Founds(p) PROVE CallsOK'
  <2>1. \A q \in Peers : prep'[q] = NoEvent
    BY <1>3, FoundsFirst DEF Founds
  <2> QED BY <2>1 DEF CallsOK
<1>4. CASE log' = log /\ prep' = prep
  BY <1>0, <1>4 DEF CallsOK
<1> QED BY <1>1, <1>2, <1>3, <1>4 DEF Moved, Forgets, Extends, Joins

\* A peer that is gone has no row as a member on a node that stands past its
\* departure; whom an event makes a member was not gone.
LEMMA MembersStep == ASSUME GroupInv, KeysOK, Moved, EventsOK' PROVE MembersOK'
<1>0. /\ \A p \in Peers : db[p].known => \A q \in Members(db[p]) : ~Gone(log, q, db[p].last)
      /\ \A e \in log : Present(log, e, e.seq)
      /\ db \in [Peers -> Replicas]
      /\ \A e \in log' : Present(log', e, e.seq)
  BY DEF KeysOK, EventsOK, GroupInv, TypeOK
<1> HIDE DEF Gone, KeysOK, EventsOK
<1>1. CASE Still
  <2>1. \A p \in Peers : SameRows(db'[p], db[p]) /\ log' = log
    BY <1>1 DEF Still
  <2>2. \A p \in Peers : db'[p].known = db[p].known /\ db'[p].last = db[p].last /\ Members(db'[p]) = Members(db[p])
    BY <2>1 DEF SameRows, Members, Active, Invited
  <2> QED BY <1>0, <2>1, <2>2 DEF MembersOK
<1>2. ASSUME NEW p \in Peers, NEW e, Appends(p, e) PROVE MembersOK'
  <2>1. NextEvent(p, e) /\ log' = log \cup {e}
    BY <1>2 DEF Appends
  <2>2. PICK o : Becomes(p, o) /\ Rows(p, db[p], e, o)
    BY <1>2 DEF Appends
  <2>3. db'[p] = o /\ \A q \in Peers \ {p} : db'[q] = db[q] /\ Members(db[q]) \subseteq Peers
    BY <2>2, RowsOf
  <2>4. e.seq \in Nat /\ e \in log' /\ (\A f \in log' : f.seq \in Nat) /\ e.seq = db[p].last + 1
    BY <2>1, NextFacts
  <2>5. ASSUME NEW q \in Members(o) PROVE ~Gone(log', q, e.seq)
    <3>1. CASE q \in Members(db[p]) /\ ~(e.type \in Departs /\ q = e.target)
      BY <1>2, <2>1, <3>1, AppendedPresent
    <3>2. CASE e.type = "join" /\ q = e.target
      BY <1>0, <2>4, <3>2 DEF Present
    <3>3. CASE e.type = "invite" /\ q = e.target
      BY <2>4, <3>3, GoneNotInvited
    <3> QED BY <2>2, <3>1, <3>2, <3>3 DEF Rows
  <2>6. ASSUME NEW r \in Peers \ {p}, db[r].known, NEW q \in Members(db[r]) PROVE ~Gone(log', q, db[r].last)
    <3>1. PICK g \in log : g.seq = db[r].last
      BY <2>6, Standing DEF StandsAt, StandsIn
    <3>2. db[r].last \in Nat /\ db[r].last < e.seq
      BY <2>1, <2>6, <3>1, NextFacts
    <3>3. q \in Peers
      BY <2>3
    <3>4. Gone(log', q, db[r].last) <=> Gone(log, q, db[r].last)
      BY <1>2, <2>1, <3>2, <3>3, AppendedPresent
    <3> QED BY <1>0, <2>6, <3>4
  <2>7. o.last = e.seq
    BY <2>2 DEF Rows
  <2> HIDE DEF Members
  <2> QED BY <2>3, <2>5, <2>6, <2>7 DEF MembersOK
<1>3. ASSUME NEW p \in Peers, NEW e, e \in log, log' = log, NEW o, Becomes(p, o), o.last = e.seq,
             \A q \in Members(o) : ~Gone(log, q, e.seq)
      PROVE  MembersOK'
  <2>1. db'[p] = o /\ \A q \in Peers \ {p} : db'[q] = db[q]
    BY <1>3, RowsOf
  <2> HIDE DEF Members
  <2> QED BY <1>0, <1>3, <2>1 DEF MembersOK
<1>4. ASSUME NEW p \in Peers, NEW e, Extends(p, e) PROVE MembersOK'
  <2>1. e \in log /\ log' = log /\ db[p].known /\ e.seq = db[p].last + 1
    BY <1>4 DEF Extends
  <2>2. PICK o : Becomes(p, o) /\ Rows(p, db[p], e, o)
    BY <1>4 DEF Extends
  <2>3. e.seq - 1 = db[p].last
    BY <2>1, Standing
  <2>4. ASSUME NEW q \in Members(o) PROVE ~Gone(log, q, e.seq)
    <3>1. CASE q \in Members(db[p]) /\ ~(e.type \in Departs /\ q = e.target)
      <4>1. ~Gone(log, q, e.seq - 1)
        BY <1>0, <2>1, <2>3, <3>1
      <4> QED BY <2>1, <3>1, <4>1, LogFacts, GoneNext
    <3>2. CASE e.type = "join" /\ q = e.target
      BY <1>0, <2>1, <3>2 DEF Present
    <3>3. CASE e.type = "invite" /\ q = e.target
      BY <2>1, <3>3, LogFacts, GoneNotInvited
    <3> QED BY <2>2, <3>1, <3>2, <3>3 DEF Rows
  <2> QED BY <1>3, <2>1, <2>2, <2>4 DEF Rows
<1>5. ASSUME NEW p \in Peers, NEW e, Joins(p, e) PROVE MembersOK'
  <2>1. e \in log /\ log' = log /\ e.type = "invite"
    BY <1>5 DEF Joins
  <2>2. PICK o : Becomes(p, o) /\ FirstRows(e, o)
    BY <1>5 DEF Joins
  <2>3. ~Gone(log, e.target, e.seq)
    BY <2>1, LogFacts, GoneNotInvited
  <2>4. \A q \in Members(o) : ~Gone(log, q, e.seq)
    BY <1>0, <2>1, <2>2, <2>3 DEF Present, FirstRows
  <2> QED BY <1>3, <2>1, <2>2, <2>4 DEF FirstRows
<1>6. ASSUME NEW p \in Peers, Founds(p) PROVE MembersOK'
  <2>1. \A q, n : ~Gone(log', q, n)
    BY <1>6, FoundsFirst
  <2> QED BY <2>1 DEF MembersOK
<1>7. ASSUME NEW p \in Peers, Forgets(p) PROVE MembersOK'
  <2>1. Becomes(p, Absent) /\ log' = log /\ ~Absent.known
    BY <1>7, AbsentRows DEF Forgets
  <2>2. db'[p] = Absent /\ \A q \in Peers \ {p} : db'[q] = db[q]
    BY <2>1, RowsOf
  <2> HIDE DEF Members, Absent
  <2> QED BY <1>0, <2>1, <2>2 DEF MembersOK
<1> QED BY <1>1, <1>2, <1>4, <1>5, <1>6, <1>7 DEF Moved

\* A key a node holds is that of an epoch it was in the group in or after: it gets
\* one from a rotation that counts it in, or from an invite it may hear of.
LEMMA HeldStep == ASSUME GroupInv, KeysOK, Moved, EventsOK' PROVE HeldOK'
<1>0. /\ \A p \in Peers : \A n \in Epochs : db[p].keys[n] > NoKey => \E e \in log : e.epoch = n /\ Reach(log, p, e)
      /\ \A e \in log : Present(log, e, e.seq)
      /\ \A e \in log' : Present(log', e, e.seq)
      /\ log \subseteq log'
  BY DEF KeysOK, EventsOK, Moved, Still, Founds, Forgets, Appends, Extends, Joins
<1> HIDE DEF Gone, KeysOK, EventsOK
<1>1. ASSUME NEW p \in Peers, NEW n \in Epochs, db[p].keys[n] > NoKey PROVE \E e \in log' : e.epoch = n /\ Reach(log', p, e)
  <2>1. PICK e \in log : e.epoch = n /\ Reach(log, p, e)
    BY <1>0, <1>1
  <2>2. Reach(log', p, e)
    BY <2>1, ReachStays
  <2> QED BY <1>0, <2>1, <2>2
<1> HIDE DEF Reach
<1>2. ASSUME NEW p \in Peers, NEW o, Becomes(p, o),
             \A n \in Epochs : o.keys[n] > NoKey =>
                o.keys[n] = db[p].keys[n] \/ \E e \in log' : e.epoch = n /\ Reach(log', p, e)
      PROVE  HeldOK'
  <2>1. db'[p] = o /\ \A q \in Peers \ {p} : db'[q] = db[q]
    BY <1>2, RowsOf
  <2> QED BY <1>1, <1>2, <2>1 DEF HeldOK
<1>3. CASE Still
  <2>1. \A p \in Peers : db'[p].keys = db[p].keys
    BY <1>3 DEF Still, SameRows
  <2> QED BY <1>1, <2>1 DEF HeldOK
<1>4. ASSUME NEW p \in Peers, NEW e, Appends(p, e) PROVE HeldOK'
  <2>1. e.signer = p /\ e \in log' /\ e.seq \in Nat
    BY <1>4, NextFacts DEF Appends, NextEvent
  <2>2. Reach(log', p, e)
    BY <1>0, <2>1 DEF Present, Reach
  <2>3. PICK o : Becomes(p, o) /\ Rows(p, db[p], e, o)
    BY <1>4 DEF Appends
  <2> QED BY <1>2, <2>1, <2>2, <2>3 DEF Rows
<1>5. ASSUME NEW p \in Peers, NEW e, Extends(p, e) PROVE HeldOK'
  <2>1. e \in log /\ log' = log /\ MayHear(p, e)
    BY <1>5 DEF Extends
  <2>2. e.type = "invite" \/ (e.type \in Rotations /\ p \in e.holders) => Reach(log', p, e)
    BY <1>0, <2>1 DEF MayHear, Present, Departs
  <2>3. PICK o : Becomes(p, o) /\ Rows(p, db[p], e, o)
    BY <1>5 DEF Extends
  <2> QED BY <1>2, <2>1, <2>2, <2>3 DEF Rows
<1>6. ASSUME NEW p \in Peers, NEW e, Joins(p, e) PROVE HeldOK'
  <2>1. e \in log /\ log' = log /\ MayHear(p, e) /\ e.type = "invite"
    BY <1>6 DEF Joins
  <2>2. Reach(log', p, e)
    BY <2>1 DEF MayHear, Departs
  <2>3. PICK o : Becomes(p, o) /\ FirstRows(e, o)
    BY <1>6 DEF Joins
  <2> QED BY <1>2, <2>1, <2>2, <2>3 DEF FirstRows
<1>7. ASSUME NEW p \in Peers, Founds(p) PROVE HeldOK'
  <2>1. /\ log' = {Create(p)} /\ Create(p).epoch = 1 /\ Create(p).seq = 1 /\ \A q, n : ~Gone(log', q, n)
    BY <1>7, FoundsFirst
  <2> HIDE DEF Create
  <2>2. Create(p) \in log' /\ Reach(log', p, Create(p))
    BY <2>1 DEF Reach
  <2>3. PICK o : Becomes(p, o) /\ \A n \in Epochs : o.keys[n] > NoKey => n = 1
    BY <1>7 DEF Founds
  <2> QED BY <1>2, <2>1, <2>2, <2>3
<1>8. ASSUME NEW p \in Peers, Forgets(p) PROVE HeldOK'
  <2>1. Becomes(p, Absent) /\ \A n \in Epochs : ~(Absent.keys[n] > NoKey)
    BY <1>8 DEF Forgets, Absent, NoRow, NoKey
  <2> HIDE DEF Absent
  <2> QED BY <1>2, <2>1
<1> QED BY <1>3, <1>4, <1>5, <1>6, <1>7, <1>8 DEF Moved

\* The controller asks nobody to let it join or leave.
LEMMA RequestsStep ==
  ASSUME Next, \A r \in requests : r[2] # r[3]
  PROVE  \A r \in requests' : r[2] # r[3]
<1>1. ASSUME NEW p \in Peers, ApiCall(p) PROVE \A r \in requests' : r[2] # r[3]
  <2>1. CASE AcceptGroupInvite(p)
    BY <2>1 DEF AcceptGroupInvite
  <2>2. CASE LeaveGroup(p)
    BY <2>2 DEF LeaveGroup
  <2>3. ASSUME NEW op, NEW e, Prepare(p, op, e) PROVE requests' = requests
    BY <2>3 DEF Prepare, network
  <2>4. CASE CreateGroup(p) \/ (\E q \in Peers : SyncGroup(p, q)) \/ \E m \in Msgs : DeleteUnsent(p, m)
    BY <2>4 DEF CreateGroup, SyncGroup, DeleteUnsent, network
  <2> QED BY <1>1, <2>1, <2>2, <2>3, <2>4 DEF ApiCall, PrepareTitle, PrepareDissolve, InviteGroupMember,
              RemoveGroupMember, PrepareTransfer, PrepareRetention, PrepareRevoke
<1>2. ASSUME NEW r \in requests, HandleRequest(r) PROVE requests' \subseteq requests
  BY <1>2 DEF HandleRequest
<1>3. ASSUME NEW p \in Peers, CommitEvent(p) \/ Receive(p) \/ CleanupExpired(p) \/ PurgeArchived(p) \/ Crash(p)
      PROVE  requests' = requests
  BY <1>3 DEF CommitEvent, Receive, CleanupExpired, PurgeArchived, Crash, ReceiveEvent, ReceiveGroupText, SyncEvent,
       SyncText, network
<1>4. CASE \/ \E j \in evjobs : RetryEvent(j[1], j[2], j[3])
           \/ \E m \in Msgs : SealText(m) \/ SendGroupText(m) \/ MessageAges(m)
           \/ \E m \in Msgs, q \in Peers :
                MarkSent(m, q) \/ ReceiveAck(m, q) \/ \E ok \in BOOLEAN : RetryDelivery(m, q, ok)
           \/ Lose
  BY <1>4 DEF RetryEvent, SealText, SendGroupText, MessageAges, MarkSent, ReceiveAck, RetryDelivery, Lose, network
<1> QED BY <1>1, <1>2, <1>3, <1>4 DEF Next

\* A group of a roster: nobody has left.
LEMMA KeysInit == ASSUME Init PROVE KeysOK
<1>1. scope \in Scopes /\ log = (IF Roster = <<>> THEN {} ELSE RosterEvents)
      /\ \A p \in Peers : db[p] = (IF Roster = <<>> THEN Absent ELSE RosterReplica(p))
  BY DEF Init
<1>2. /\ requests = {} /\ ctl = {} /\ evjobs = {} /\ \A p \in Peers : prep[p] = NoEvent
      /\ \A p \in Peers : answer[p].events = <<>>
  BY DEF Init, NoAnswer
<1>3. \A e \in log : e.epoch = 1 /\ e.type \in {"create", "invite", "join"}
  <2> HIDE DEF RosterEvents
  <2> QED BY <1>1, RosterFields
<1>4. \A q, n : ~Gone(log, q, n)
  BY <1>3 DEF Gone, Departs
<1>5. EpochsGrow /\ \A e \in log : Present(log, e, e.seq)
  <2> HIDE DEF Gone
  <2> QED BY <1>3, <1>4 DEF EpochsGrow, Present, Departs, Rotations
<1>6. ASSUME NEW p \in Peers, NEW n \in Epochs, db[p].keys[n] > NoKey PROVE \E e \in log : e.epoch = n /\ Reach(log, p, e)
  <2>1. db[p] # Absent
    BY <1>6 DEF Absent, NoRow, NoKey
  <2>2. Roster # <<>> /\ p \in RosterSet /\ db[p] = RosterReplica(p)
    BY <1>1, <2>1 DEF RosterReplica
  <2>3. n = 1
    <3> HIDE DEF RosterReplica, RosterEvents
    <3> QED BY <1>1, <1>6, <2>2, RosterRows
  <2>4. Create(Founder) \in log
    BY <1>1, <2>2, RosterEach
  <2>5. Create(Founder).seq \in Nat
    BY DEF Create
  <2> HIDE DEF Create, Gone
  <2> QED BY <1>3, <1>4, <2>3, <2>4, <2>5 DEF Reach
<1> HIDE DEF Gone, Present, EpochsGrow, Reach, MayHear
<1>7. \A p \in Peers : \A i \in 1 .. Len(answer[p].events) : MayHear(p, answer[p].events[i])
  <2>1. Len(<<>>) = 0 /\ 1 .. 0 = {}
    OBVIOUS
  <2> QED BY <1>2, <2>1
<1> QED BY <1>2, <1>4, <1>5, <1>6, <1>7 DEF KeysOK

\* What the keys rest on, after a step.
LEMMA KeysStep == ASSUME Ordered => GroupInv /\ KeysOK, [Next]_vars PROVE (Ordered => GroupInv /\ KeysOK)'
<1>0. (Ordered => GroupInv)'
  BY GroupStep
<1>1. CASE Next
  <2>1. Ordered' = Ordered
    BY <1>1, ScopeStays DEF Ordered, Ops
  <2> SUFFICES ASSUME Ordered PROVE KeysOK'
    BY <1>0, <2>1
  <2>2. GroupInv /\ KeysOK
    OBVIOUS
  <2>3. Moved /\ Told
    BY <1>1, <2>2, NextMoves, NextTells
  <2>4. EventsOK' /\ CallsOK'
    BY <2>2, <2>3, EventsStep, CallsStep
  <2>5. MembersOK' /\ HeldOK'
    BY <2>2, <2>3, <2>4, MembersStep, HeldStep
  <2>6. \A r \in requests' : r[2] # r[3]
    <3>1. \A r \in requests : r[2] # r[3]
      BY <2>2 DEF KeysOK
    <3> QED BY <1>1, <3>1, RequestsStep
  <2>7. /\ (\A x \in ctl : MayHear(x[1], x[2]))'
        /\ (\A j \in evjobs : MayHear(j[3], j[2]))'
        /\ (\A p \in Peers : \A i \in 1 .. Len(answer[p].events) : MayHear(p, answer[p].events[i]))'
    BY <2>2, <2>3, CarriedHear
  <2> HIDE DEF Gone, Present, EpochsGrow, Reach, MayHear, Members
  <2> QED BY <2>4, <2>5, <2>6, <2>7 DEF KeysOK, EventsOK, CallsOK, MembersOK, HeldOK
<1>2. CASE UNCHANGED vars
  <2>1. KeysOK' = KeysOK /\ Ordered' = Ordered
    BY <1>2 DEF vars, stores, threads, network, env, Ordered, Ops, KeysOK, EpochsGrow, Present, MayHear, Reach, Gone,
         Members, Active, Invited
  <2> QED BY <1>0, <2>1
<1> QED BY <1>1, <1>2

\* A key of a later epoch would have come with an event that a peer that is gone is
\* neither sent nor counted in by.
LEMMA GoneHasNoKey ==
  ASSUME GroupInv, KeysOK
  PROVE  DepartedLackKeys
<1> SUFFICES ASSUME NEW e \in log, e.type \in Departs,
                    ~\E f \in log : f.type = "invite" /\ f.target = e.target /\ f.seq > e.seq,
                    NEW n \in Epochs, n >= e.epoch, ~(db[e.target].keys[n] <= NoKey)
             PROVE  FALSE
  BY DEF DepartedLackKeys, Departs
<1>1. e.target \in Peers /\ e.seq \in Nat /\ e.epoch \in Nat /\ n \in Nat
  BY LogFacts, EventFields DEF Epochs
<1>2. db[e.target].keys[n] > NoKey
  <2>1. db[e.target].keys[n] \in NoRow .. MaxSeq
    BY <1>1, ReplicaFields DEF GroupInv, TypeOK
  <2> QED BY <2>1, GroupAssumption DEF NoRow, NoKey
<1>3. PICK x \in log : x.epoch = n /\ Reach(log, e.target, x)
  BY <1>1, <1>2 DEF KeysOK
<1>4. PICK g \in log : g.seq >= x.seq /\ ~Gone(log, e.target, g.seq)
  BY <1>3 DEF Reach
<1>5. g.seq \in Nat /\ x.seq \in Nat
  BY LogFacts
<1>6. ~(g.seq >= e.seq)
  <2> HIDE DEF Gone
  <2> QED BY <1>4, <1>5, LogFacts, GoneDeparted
<1>7. x.seq < e.seq
  BY <1>1, <1>4, <1>5, <1>6
<1>8. x.epoch < e.epoch
  BY <1>7 DEF KeysOK, EpochsGrow, Departs, Rotations
<1> QED BY <1>1, <1>3, <1>8

\* A peer that has left or was removed, and was not invited again, never gets the
\* key of an epoch that began with its departure or later, by whatever way: a
\* broadcast, a retry, a sync, or an old invite.
THEOREM DepartedLackKeysAlways == Spec => [](Ordered => DepartedLackKeys)
<1>1. Init => (Ordered => GroupInv /\ KeysOK)
  BY GroupInit, KeysInit
<1>2. (Ordered => GroupInv /\ KeysOK) /\ [Next]_vars => (Ordered => GroupInv /\ KeysOK)'
  BY KeysStep
<1>3. (Ordered => GroupInv /\ KeysOK) => (Ordered => DepartedLackKeys)
  BY GoneHasNoKey
<1> QED BY <1>1, <1>2, <1>3, PTL DEF Spec

-----------------------------------------------------------------------------
(* Messages that were acknowledged                                          *)

\* t is what its author has sealed and stored under its id.
Genuine(t) == t.id \in added /\ t = sealed[t.id][1]

\* Every copy of a message is what its author has sealed.
Copies ==
    /\ \A m \in added : sealed[m] # <<>>
    /\ \A m \in Msgs : sealed[m] # <<>> => sealed[m][1].id = m
    /\ \A p \in Peers : \A t \in db[p].msgs \cup answer[p].texts : Genuine(t)
    /\ \A x \in texts : Genuine(x[2])

\* No two messages an author has stored carry the same sender_seq.
NoReuse ==
    \A m, n \in added :
        Author[m] = Author[n] /\ sealed[m][1].sseq = sealed[n][1].sseq => m = n

\* Replica d has message m, or had it and has a reason to be without it.
Has(d, m) == d.known /\ (m \in IdsOf(d) \cup d.revoked \cup aged \/ d.state = "archived")

\* Whoever has acknowledged a message has it, and only then it counts as delivered.
Receipts ==
    /\ \A x \in acks : x[2] # Author[x[1]] => Has(db[x[2]], x[1])
    /\ \A m \in Msgs :
          /\ deliv[m][Author[m]] = "none"
          /\ \A q \in Peers : deliv[m][q] = "delivered" => Has(db[q], m)

\* From replica d to replica o of node p no message gets lost without a reason.
Lasts(p, d, o) ==
    d.known =>
        /\ o.known /\ d.revoked \subseteq o.revoked
        /\ (d.state = "archived" => o.state = "archived")
        /\ \/ o.state = "archived"
           \/ \A t \in d.msgs : \/ t \in o.msgs
                               \/ t.id \in o.revoked \cup aged
                               \/ (Author[t.id] = p /\ "revoke" \in Ops)

\* Only a revoke marks a message as revoked.
Unrevoked(d, o) == "revoke" \notin Ops => o.revoked \subseteq d.revoked

\* The transaction of an event deletes what it revokes, what is too old, or all
\* of a group that it dissolves.
LEMMA StoreLasts ==
  ASSUME NEW p \in Peers, NEW d \in Replicas, NEW e \in Events, Sane(e), e.type # "create"
  PROVE  Lasts(p, d, StoreEvent(p, d, e)) /\ Unrevoked(d, StoreEvent(p, d, e))
<1> DEFINE o == StoreEvent(p, d, e)
           i == InsertEvent(d, e)
           n == NewEpoch(p, d, e)
<1>1. o \in Replicas /\ Rows(p, d, e, o)
  BY StoreRows
<1>2. o.known = d.known /\ o.state = (IF e.type = "dissolve" THEN "archived" ELSE d.state)
  <2> HIDE DEF o
  <2> QED BY <1>1 DEF Rows
<1>3. i \in Replicas /\ i.msgs = d.msgs /\ i.revoked = d.revoked
  BY InsertRows
<1>4. n \in Replicas /\ n.msgs = d.msgs /\ n.revoked = d.revoked
  <2> DEFINE K == [i.keys EXCEPT ![e.epoch] = IF p \in e.holders THEN e.key ELSE NoKey]
  <2>1. n \in Replicas /\ n.msgs = d.msgs
    BY EpochRows
  <2>2. n = [i EXCEPT !.epoch = e.epoch, !.keys = K]
    <3> HIDE DEF i, Epochs, Events, Texts, Roles, MemberStates, NoRow
    <3> QED BY <1>3 DEF NewEpoch, Replicas, i
  <2> HIDE DEF i, n, K, Epochs, Events, Texts, Roles, MemberStates, NoRow
  <2>3. n.revoked = i.revoked
    BY <1>3, <2>2 DEF Replicas
  <2> QED BY <1>3, <2>1, <2>3
<1>5. e.type \in Types
  BY EventFields
<1> HIDE DEF i, n, o, Events, Texts, Roles, MemberStates, Epochs, NoRow
<1>6. CASE e.type \in {"invite", "join", "leave", "remove", "transfer", "title"}
  <2>1. o.msgs = d.msgs /\ o.revoked = d.revoked
    <3>1. CASE e.type = "invite"
      BY <3>1, <1>3 DEF o, StoreEvent, UpsertGroupMember, i, Replicas
    <3>2. CASE e.type = "join"
      BY <3>2, <1>3 DEF o, StoreEvent, ActivateGroupMember, i, Replicas
    <3>3. CASE e.type \in {"leave", "remove"}
      BY <3>3, <1>4 DEF o, StoreEvent, FinishGroupMembershipChange, n, Replicas
    <3>4. CASE e.type = "transfer"
      BY <3>4, <1>4 DEF o, StoreEvent, TransferGroupController, n, Replicas
    <3>5. CASE e.type = "title"
      BY <3>5, <1>3 DEF o, StoreEvent, UpdateGroupTitle, i, Replicas
    <3> QED BY <1>6, <3>1, <3>2, <3>3, <3>4, <3>5
  <2> QED BY <1>2, <2>1 DEF Lasts, Unrevoked, o
<1>7. CASE e.type = "retention"
  <2> DEFINE k == [i EXCEPT !.retention = e.val]
  <2>1. o = DropAged(k)
    BY <1>7 DEF o, StoreEvent, UpdateGroupRetention, i
  <2>2. e.val \in 0 .. 1
    BY <1>7 DEF Sane
  <2>3. k \in Replicas /\ k.msgs = d.msgs /\ k.revoked = d.revoked
    BY <2>2, <1>3 DEF Replicas
  <2> HIDE DEF k
  <2>4. /\ o.revoked = d.revoked
        /\ o.msgs = d.msgs \/ o.msgs = {t \in d.msgs : t.id \notin aged}
    BY <2>1, <2>3 DEF DropAged, Replicas
  <2> QED BY <1>2, <1>7, <2>4 DEF Lasts, Unrevoked, o
<1>8. CASE e.type = "dissolve"
  <2>1. o.revoked = d.revoked
    BY <1>3, <1>8 DEF o, StoreEvent, DissolveGroup, i, Replicas
  <2> QED BY <1>2, <1>8, <2>1 DEF Lasts, Unrevoked, o
<1>9. CASE e.type = "revoke"
  <2>1. /\ o.revoked = d.revoked \cup {e.val}
        /\ o.msgs = {t \in d.msgs : t.id # e.val}
    BY <1>3, <1>9 DEF o, StoreEvent, StoreRevoke, i, Replicas
  <2>2. "revoke" \in Ops
    BY <1>9 DEF Sane
  <2> QED BY <1>2, <1>9, <2>1, <2>2 DEF Lasts, Unrevoked, o
<1> QED BY <1>5, <1>6, <1>7, <1>8, <1>9 DEF Types, o

\* An event that arrives, also the invite that makes a replica.
LEMMA AppliedLasts ==
  ASSUME GroupInv, NEW p \in Peers, NEW e \in log
  PROVE  /\ Lasts(p, db[p], Applied(p, db[p], e)) /\ Unrevoked(db[p], Applied(p, db[p], e))
         /\ Applied(p, db[p], e).msgs \subseteq db[p].msgs
<1> DEFINE d == db[p]
           o == Applied(p, d, e)
           g == IF d.known THEN d ELSE GroupFromInvite(p, e)
           k == IF e.type = "invite" THEN [g EXCEPT !.keys[e.epoch] = e.key] ELSE g
<1>1. /\ e \in Events /\ Sane(e) /\ e.seq >= 1 /\ (e.seq = 1 <=> e.type = "create")
      /\ d \in Replicas
  BY DEF GroupInv, LogOK, TypeOK
<1>2. d.known => d.last \in Nat /\ d.last >= 1
  BY Standing
<1>3. o.msgs \subseteq d.msgs
  BY <1>1, <1>2, AppliedRows
<1>4. CASE o = d
  BY <1>4 DEF Lasts, Unrevoked
<1>5. CASE o # d
  <2>1. o = StoreEvent(p, k, e) /\ Authorised(d, e) /\ Due(g, e)
    BY <1>5 DEF Applied
  <2>2. ~d.known => e.type = "invite"
    BY <2>1 DEF Authorised
  <2>3. g \in Replicas /\ (~d.known => g.revoked = {})
    <3>1. CASE d.known
      BY <1>1, <3>1
    <3>2. CASE ~d.known
      <4>1. g \in Replicas
        BY <1>1, <2>2, <3>2, InviteRows
      <4>2. g.revoked = {}
        <5>1. g = GroupFromInvite(p, e)
          BY <3>2
        <5> HIDE DEF g, Epochs, NoRow
        <5> QED BY <5>1 DEF GroupFromInvite, Absent
      <4> QED BY <4>1, <4>2
    <3> QED BY <3>1, <3>2
  <2>4. e.type # "create"
    <3>1. d.known => g = d
      OBVIOUS
    <3> HIDE DEF g, d
    <3> QED BY <1>1, <1>2, <2>1, <2>2, <3>1 DEF Due
  <2>5. /\ k \in Replicas /\ k.known = g.known /\ k.state = g.state /\ k.msgs = g.msgs /\ k.revoked = g.revoked
    <3>1. CASE e.type # "invite"
      BY <2>3, <3>1
    <3>2. CASE e.type = "invite"
      <4> DEFINE w == [g.keys EXCEPT ![e.epoch] = e.key]
      <4>1. e.epoch \in Epochs /\ e.key \in NoRow .. MaxSeq
        <5>1. e.epoch \in Epochs /\ e.key \in NoKey .. MaxSeq
          BY <1>1, EventFields
        <5> QED BY <5>1, GroupAssumption DEF NoRow, NoKey
      <4>2. w \in [Epochs -> NoRow .. MaxSeq]
        <5>1. g.keys \in [Epochs -> NoRow .. MaxSeq]
          <6> HIDE DEF g
          <6> QED BY <2>3, ReplicaFields
        <5> HIDE DEF g, Epochs, NoRow
        <5> QED BY <4>1, <5>1
      <4>3. k = [g EXCEPT !.keys = w]
        <5>1. k = [g EXCEPT !.keys[e.epoch] = e.key]
          BY <3>2
        <5> HIDE DEF g, k, Epochs
        <5> QED BY <5>1, <2>3 DEF Replicas
      <4> HIDE DEF g, k, w, Epochs, NoRow, Events, Texts, Roles, MemberStates
      <4> QED BY <2>3, <4>2, <4>3 DEF Replicas
    <3> QED BY <3>1, <3>2
  <2>6. Lasts(p, k, o) /\ Unrevoked(k, o)
    <3> HIDE DEF k
    <3> QED BY <1>1, <2>1, <2>4, <2>5, StoreLasts
  <2> SUFFICES Lasts(p, d, o) /\ Unrevoked(d, o)
    BY <1>3
  <2>7. CASE d.known
    <3>1. g = d
      BY <2>7
    <3> HIDE DEF g, k, o, d
    <3> QED BY <2>5, <2>6, <3>1 DEF Lasts, Unrevoked
  <2>8. CASE ~d.known
    <3> HIDE DEF g, k, o, d
    <3> QED BY <2>3, <2>5, <2>6, <2>8 DEF Lasts, Unrevoked
  <2> QED BY <2>7, <2>8
<1> QED BY <1>3, <1>4, <1>5

\* The columns of a replica after AddGroupMessage.
LEMMA AddRows ==
  ASSUME NEW d \in Replicas, NEW t \in Texts
  PROVE  LET o == AddGroupMessage(d, t) IN
         /\ o.msgs = {u \in d.msgs : u.id # t.id /\ ~(Author[u.id] = Author[t.id] /\ u.sseq = t.sseq)} \cup {t}
         /\ o.known = d.known /\ o.state = d.state /\ o.revoked = d.revoked
<1> DEFINE s == Author[t.id]
           M == {u \in d.msgs : u.id # t.id /\ ~(Author[u.id] = s /\ u.sseq = t.sseq)} \cup {t}
           C == [d.cursor EXCEPT ![s] = IF t.sseq > @ THEN t.sseq ELSE @]
           o == AddGroupMessage(d, t)
<1>1. o = [d EXCEPT !.msgs = M, !.cursor = C]
  <2> HIDE DEF Texts
  <2> QED BY DEF AddGroupMessage, Replicas
<1> HIDE DEF M, C, o, Texts, Events, Roles, MemberStates, Epochs, NoRow
<1>2. o.msgs = M /\ o.known = d.known /\ o.state = d.state /\ o.revoked = d.revoked
  BY <1>1 DEF Replicas
<1> QED BY <1>2 DEF o, M

\* AddGroupMessage replaces nothing but the message itself.
LEMMA AddedLasts ==
  ASSUME NEW p \in Peers, NEW d \in Replicas, NEW t \in Texts,
         \A u \in d.msgs : u.id = t.id \/ (Author[u.id] = Author[t.id] /\ u.sseq = t.sseq) => u = t
  PROVE  /\ Lasts(p, d, AddGroupMessage(d, t)) /\ t \in AddGroupMessage(d, t).msgs
<1> DEFINE o == AddGroupMessage(d, t)
           M == {u \in d.msgs : u.id # t.id /\ ~(Author[u.id] = Author[t.id] /\ u.sseq = t.sseq)} \cup {t}
<1>1. o.msgs = M /\ o.known = d.known /\ o.state = d.state /\ o.revoked = d.revoked
  BY AddRows
<1>2. d.msgs \subseteq M /\ t \in M
  OBVIOUS
<1> HIDE DEF o, M
<1>3. Lasts(p, d, o) /\ t \in o.msgs
  BY <1>1, <1>2 DEF Lasts
<1> QED BY <1>3 DEF o

\* Two copies under one id, or under one number of one author, are the same.
LEMMA OneText ==
  ASSUME GroupInv, Copies, NoReuse, NEW t, NEW u, Genuine(t), Genuine(u),
         u.id = t.id \/ (Author[u.id] = Author[t.id] /\ u.sseq = t.sseq)
  PROVE  u = t
<1>1. u.id = t.id
  BY DEF NoReuse, Genuine
<1> QED BY <1>1 DEF Genuine

\* The sweep deletes what is too old.
LEMMA DropLasts ==
  ASSUME NEW p \in Peers, NEW d \in Replicas
  PROVE  Lasts(p, d, DropAged(d)) /\ Unrevoked(d, DropAged(d)) /\ DropAged(d).msgs \subseteq d.msgs
<1> DEFINE o == DropAged(d)
           M == {t \in d.msgs : t.id \notin aged}
<1>1. o = d \/ o = [d EXCEPT !.msgs = M]
  BY DEF DropAged
<1>2. \A t \in d.msgs : t \in M \/ t.id \in aged
  OBVIOUS
<1>3. M \subseteq d.msgs
  OBVIOUS
<1> HIDE DEF o, M, Texts, Events, Roles, MemberStates, Epochs, NoRow
<1>4. o.known = d.known /\ o.state = d.state /\ o.revoked = d.revoked /\ o.msgs \in {d.msgs, M}
  BY <1>1 DEF Replicas
<1>5. Lasts(p, d, o) /\ Unrevoked(d, o) /\ o.msgs \subseteq d.msgs
  BY <1>2, <1>3, <1>4 DEF Lasts, Unrevoked
<1> QED BY <1>5 DEF o

\* What a step makes of the messages of node p.
Keeps(p) ==
    /\ Unrevoked(db[p], db'[p])
    /\ \A t \in db'[p].msgs : t \in db[p].msgs \/ Genuine(t)'
    /\ NoReuse' /\ "purge" \notin Ops => Lasts(p, db[p], db'[p])

\* A step that changes the replica of one node at most.
LEMMA RowKeeps ==
  ASSUME GroupInv, NEW p \in Peers, NEW o,
         Unrevoked(db[p], o), \A t \in o.msgs : t \in db[p].msgs \/ Genuine(t)',
         NoReuse' /\ "purge" \notin Ops => Lasts(p, db[p], o),
         db' = [db EXCEPT ![p] = o]
  PROVE  \A q \in Peers : Keeps(q)
<1>1. db \in [Peers -> Replicas]
  BY DEF GroupInv, TypeOK
<1>2. db'[p] = o
  BY <1>1
<1>3. Keeps(p)
  BY <1>2 DEF Keeps
<1>4. ASSUME NEW q \in Peers, q # p PROVE Keeps(q)
  <2>1. db'[q] = db[q]
    BY <1>1, <1>4
  <2> QED BY <2>1 DEF Keeps, Unrevoked, Lasts
<1> QED BY <1>3, <1>4

\* A step that leaves the databases alone loses nothing.
LEMMA DbKeeps == ASSUME db' = db PROVE \A q \in Peers : Keeps(q)
BY DEF Keeps, Unrevoked, Lasts

\* A text that arrives is stored, or not.
LEMMA StoredKeeps ==
  ASSUME GroupInv, Copies, NEW p \in Peers, NEW t \in Texts, Genuine(t), added' = added, sealed' = sealed,
         db' = [db EXCEPT ![p] = Stored(db[p], t)]
  PROVE  /\ \A q \in Peers : Keeps(q)
         /\ Accepts(db[p], t) => t \in db'[p].msgs /\ db'[p].known
         /\ ~Accepts(db[p], t) => db' = db
<1>1. db \in [Peers -> Replicas] /\ db[p] \in Replicas
  BY DEF GroupInv, TypeOK
<1>2. CASE ~Accepts(db[p], t)
  <2>1. db' = db
    BY <1>1, <1>2 DEF Stored
  <2> QED BY <1>2, <2>1, DbKeeps
<1>3. CASE Accepts(db[p], t)
  <2> DEFINE o == AddGroupMessage(db[p], t)
  <2>1. db' = [db EXCEPT ![p] = o] /\ db[p].known
    BY <1>3 DEF Stored, Accepts
  <2>2. o.msgs \subseteq db[p].msgs \cup {t} /\ t \in o.msgs /\ o.known = db[p].known /\ o.revoked = db[p].revoked
    BY <1>1, AddRows
  <2>3. Genuine(t)' /\ (NoReuse' => NoReuse)
    BY DEF Genuine, NoReuse
  <2>4. ASSUME NoReuse' PROVE Lasts(p, db[p], o)
    <3>1. \A u \in db[p].msgs : Genuine(u)
      BY DEF Copies
    <3>2. \A u \in db[p].msgs : u.id = t.id \/ (Author[u.id] = Author[t.id] /\ u.sseq = t.sseq) => u = t
      BY <2>3, <2>4, <3>1, OneText
    <3> QED BY <1>1, <3>2, AddedLasts
  <2>5. Unrevoked(db[p], o)
    BY <2>2 DEF Unrevoked
  <2> HIDE DEF o
  <2>6. \A q \in Peers : Keeps(q)
    <3>1. \A u \in o.msgs : u \in db[p].msgs \/ Genuine(u)'
      BY <2>2, <2>3
    <3> QED BY <2>1, <2>4, <2>5, <3>1, RowKeeps
  <2>7. db'[p] = o
    BY <1>1, <2>1
  <2> QED BY <1>3, <2>1, <2>2, <2>6, <2>7
<1> QED BY <1>2, <1>3

\* The transaction of an event that was built here.
LEMMA EventKeeps ==
  ASSUME GroupInv, NEW p \in Peers, NEW e \in Events, Sane(e), e.type # "create",
         db' = [db EXCEPT ![p] = StoreEvent(p, db[p], e)]
  PROVE  \A q \in Peers : Keeps(q)
<1> DEFINE o == StoreEvent(p, db[p], e)
<1>1. db[p] \in Replicas
  BY DEF GroupInv, TypeOK
<1>2. Lasts(p, db[p], o) /\ Unrevoked(db[p], o) /\ o.msgs \subseteq db[p].msgs
  BY <1>1, StoreRows, StoreLasts
<1> HIDE DEF o
<1> QED BY <1>2, RowKeeps DEF o

\* The requests of members.
LEMMA HandleKeeps == ASSUME GroupInv, NEW r \in requests, HandleRequest(r) PROVE \A q \in Peers : Keeps(q)
<1> DEFINE p == r[3]
           q == r[2]
           e == IF r[1] = "join" THEN Event(p, "join", q, 0) ELSE RotationEvent(p, "leave", q)
           ok == /\ db[p].known /\ db[p].state = "active" /\ db[p].ctrl = p
                 /\ q \in IF r[1] = "join" THEN Invited(db[p]) ELSE Active(db[p])
                 /\ Commits(p, db[p], e)
<1>1. p \in Peers /\ q \in Peers /\ r[1] \in {"join", "leave"}
  BY DEF GroupInv, TypeOK
<1>2. db[p].last < scope.top
  BY DEF HandleRequest
<1>3. CASE ok
  <2>1. db' = [db EXCEPT ![p] = StoreEvent(p, db[p], e)]
    BY <1>3 DEF HandleRequest, Put
  <2>2. db[p].known /\ db[p].last + 1 <= scope.top
    BY <1>1, <1>2, <1>3, Standing, ScopeFields
  <2>3. /\ db[p] \in Replicas /\ db[p].last + 1 <= MaxSeq /\ db[p].epoch \in Epochs
        /\ db[p].epoch <= db[p].last /\ db[p].last \in Nat /\ db[p].epoch \in Nat
    BY <1>1, <2>2, CallFacts
  <2>4. 0 \in 0 .. MaxSeq /\ "leave" \in Types /\ "join" \in Types /\ "leave" \in Rotations /\ "join" \notin Rotations
    BY <2>3, ScopeFields DEF Types, Rotations
  <2>5. /\ e \in Events /\ e.type = r[1] /\ e.seq = db[p].last + 1
        /\ e.epoch \in {db[p].epoch, db[p].epoch + 1}
    <3>1. CASE r[1] = "join"
      BY <1>1, <2>3, <2>4, <3>1, NewEvent
    <3>2. CASE r[1] = "leave"
      BY <1>1, <2>3, <2>4, <3>2, NewEvent
    <3> QED BY <1>1, <3>1, <3>2
  <2> HIDE DEF ok, e
  <2>6. Sane(e) /\ e.type # "create"
    <3>1. e.epoch <= e.seq
      BY <2>3, <2>5
    <3> QED BY <1>1, <2>5, <3>1 DEF Sane
  <2> HIDE DEF p
  <2> QED BY <1>1, <2>1, <2>5, <2>6, EventKeeps
<1>4. CASE ~ok
  <2>1. db' = db
    BY <1>4 DEF HandleRequest, stores
  <2> QED BY <2>1, DbKeeps
<1> QED BY <1>3, <1>4

\* An event of the log that arrives.
LEMMA ApplyKeeps ==
  ASSUME GroupInv, NEW p \in Peers, NEW e \in log, db' = [db EXCEPT ![p] = Applied(p, db[p], e)]
  PROVE  \A q \in Peers : Keeps(q)
<1> DEFINE o == Applied(p, db[p], e)
<1>1. Lasts(p, db[p], o) /\ Unrevoked(db[p], o) /\ o.msgs \subseteq db[p].msgs
  BY AppliedLasts
<1> HIDE DEF o
<1> QED BY <1>1, RowKeeps DEF o

\* CreateGroup: there was no replica before.
LEMMA CreateKeeps == ASSUME GroupInv, NEW p \in Peers, CreateGroup(p) PROVE \A q \in Peers : Keeps(q)
<1> DEFINE o == [Absent EXCEPT !.known = TRUE, !.ctrl = p, !.epoch = 1, !.last = 1, !.title = 1,
                           !.role[p] = "controller", !.status[p] = "active",
                           !.events = {Create(p)}, !.keys[1] = 1]
<1>1. log = {} /\ db' = [db EXCEPT ![p] = o]
  BY DEF CreateGroup
<1>2. ~db[p].known
  BY <1>1, Standing
<1>3. o.msgs = {} /\ o.revoked = {}
  BY DEF Absent
<1> HIDE DEF o
<1>4. Lasts(p, db[p], o) /\ Unrevoked(db[p], o) /\ \A t \in o.msgs : t \in db[p].msgs
  BY <1>2, <1>3 DEF Lasts, Unrevoked
<1> QED BY <1>1, <1>4, RowKeeps

\* DeleteUnsent takes the row of a message of the node's own.
LEMMA DeleteKeeps ==
  ASSUME GroupInv, NEW p \in Peers, NEW m \in Msgs, DeleteUnsent(p, m)
  PROVE  \A q \in Peers : Keeps(q)
<1> DEFINE M == {t \in db[p].msgs : t.id # m}
           o == [db[p] EXCEPT !.msgs = M]
<1>1. db' = [db EXCEPT ![p] = o] /\ "revoke" \in Ops /\ Author[m] = p
  BY DEF DeleteUnsent, Put
<1>2. db[p] \in Replicas
  BY DEF GroupInv, TypeOK
<1>3. \A t \in db[p].msgs : t \in M \/ Author[t.id] = p
  BY <1>1
<1>4. M \subseteq db[p].msgs
  OBVIOUS
<1> HIDE DEF M, Texts, Events, Roles, MemberStates, Epochs, NoRow
<1>5. o.msgs = M /\ o.known = db[p].known /\ o.state = db[p].state /\ o.revoked = db[p].revoked
  BY <1>2 DEF Replicas
<1> HIDE DEF o
<1>6. Lasts(p, db[p], o) /\ Unrevoked(db[p], o) /\ \A t \in o.msgs : t \in db[p].msgs
  BY <1>1, <1>3, <1>4, <1>5 DEF Lasts, Unrevoked
<1> QED BY <1>1, <1>6, RowKeeps

\* SendGroupText stores what it has sealed.
LEMMA SendKeeps ==
  ASSUME GroupInv, Copies, NEW m \in Msgs, SendGroupText(m)
  PROVE  \A q \in Peers : Keeps(q)
<1>a. PICK t : t = sealed[m][1]
  OBVIOUS
<1> DEFINE p == Author[m]
           o == AddGroupMessage(db[p], t)
<1>1. /\ db' = [db EXCEPT ![p] = o] /\ sealed' = sealed /\ added' = added \cup {m} /\ sealed[m] # <<>>
  BY <1>a DEF SendGroupText
<1>2. p \in Peers /\ db[p] \in Replicas /\ t \in Texts /\ t.id = m
  BY <1>a, <1>1, RoomFacts, GroupAssumption DEF GroupInv, TypeOK, Copies, Fit
<1>3. Genuine(t)' /\ \A u \in db[p].msgs : Genuine(u)'
  BY <1>a, <1>1, <1>2 DEF Genuine, Copies
<1> HIDE DEF p
<1>4. o.msgs \subseteq db[p].msgs \cup {t} /\ t \in o.msgs /\ o.revoked = db[p].revoked
  BY <1>2, AddRows
<1>5. ASSUME NoReuse' PROVE Lasts(p, db[p], o)
  <2>1. \A u \in db[p].msgs : u.id = t.id \/ (Author[u.id] = Author[t.id] /\ u.sseq = t.sseq) => u = t
    <3> SUFFICES ASSUME NEW u \in db[p].msgs, u.id = t.id \/ (Author[u.id] = Author[t.id] /\ u.sseq = t.sseq)
                 PROVE  u = t
      OBVIOUS
    <3>1. u.id = t.id
      BY <1>1, <1>3, <1>5 DEF NoReuse, Genuine
    <3> QED BY <1>3, <3>1 DEF Genuine
  <2> QED BY <1>2, <2>1, AddedLasts
<1> HIDE DEF o
<1>6. Unrevoked(db[p], o) /\ \A u \in o.msgs : u \in db[p].msgs \/ Genuine(u)'
  BY <1>3, <1>4 DEF Unrevoked
<1> QED BY <1>1, <1>2, <1>5, <1>6, RowKeeps

\* Every step.
LEMMA NextKeeps == ASSUME GroupInv, Copies, Next PROVE \A q \in Peers : Keeps(q)
<1>1. ASSUME NEW p \in Peers, ApiCall(p) PROVE \A q \in Peers : Keeps(q)
  <2>1. CASE CreateGroup(p)
    BY <2>1, CreateKeeps
  <2>2. CASE \E m \in Msgs : DeleteUnsent(p, m)
    BY <2>2, DeleteKeeps
  <2>3. ASSUME NEW op, NEW e, Prepare(p, op, e) PROVE db' = db
    BY <2>3 DEF Prepare, stores
  <2>4. CASE AcceptGroupInvite(p) \/ LeaveGroup(p) \/ \E q \in Peers : SyncGroup(p, q)
    <3>1. db' = db
      BY <2>4 DEF AcceptGroupInvite, LeaveGroup, SyncGroup, stores
    <3> QED BY <3>1, DbKeeps
  <2>5. CASE PrepareTitle(p) \/ PrepareDissolve(p) \/ (\E m \in Msgs : PrepareRevoke(p, m))
             \/ (\E v \in 0 .. 1 : PrepareRetention(p, v))
             \/ \E q \in Peers : InviteGroupMember(p, q) \/ RemoveGroupMember(p, q) \/ PrepareTransfer(p, q)
    <3>1. db' = db
      BY <2>3, <2>5 DEF PrepareTitle, PrepareDissolve, InviteGroupMember,
              RemoveGroupMember, PrepareTransfer, PrepareRetention, PrepareRevoke
    <3> QED BY <3>1, DbKeeps
  <2> QED BY <1>1, <2>1, <2>2, <2>4, <2>5 DEF ApiCall
<1>2. ASSUME NEW p \in Peers, CommitEvent(p) PROVE \A q \in Peers : Keeps(q)
  <2>1. CASE db' = db
    BY <2>1, DbKeeps
  <2>2. CASE db' = [db EXCEPT ![p] = StoreEvent(p, db[p], prep[p])]
    <3>1. Prepared(p, prep[p])
      BY <1>2 DEF CommitEvent, GroupInv, PrepOK
    <3>2. prep[p] \in Events /\ Sane(prep[p]) /\ prep[p].type # "create"
      BY <3>1 DEF Prepared
    <3> QED BY <2>2, <3>2, EventKeeps
  <2> QED BY <1>2, <2>1, <2>2 DEF CommitEvent, Put, stores
<1>3. ASSUME NEW p \in Peers, Receive(p) PROVE \A q \in Peers : Keeps(q)
  <2>1. CASE \E x \in ctl : x[1] = p /\ ReceiveEvent(p, x[2])
    <3>1. PICK x \in ctl : ReceiveEvent(p, x[2])
      BY <2>1
    <3>2. x[2] \in log
      BY DEF GroupInv, Carried, Addressed
    <3>3. db' = [db EXCEPT ![p] = Applied(p, db[p], x[2])]
      BY <3>1 DEF ReceiveEvent, Put
    <3> QED BY <3>2, <3>3, ApplyKeeps
  <2>2. CASE \E x \in texts : x[1] = p /\ ReceiveGroupText(p, x[2])
    <3>1. PICK x \in texts : ReceiveGroupText(p, x[2])
      BY <2>2
    <3>2. x[2] \in Texts /\ Genuine(x[2])
      BY DEF GroupInv, TypeOK, Copies
    <3>3. db' = [db EXCEPT ![p] = Stored(db[p], x[2])] /\ added' = added /\ sealed' = sealed
      BY <3>1 DEF ReceiveGroupText, Put, threads
    <3> QED BY <3>2, <3>3, StoredKeeps
  <2>3. CASE SyncEvent(p)
    <3>1. /\ db' = [db EXCEPT ![p] = Applied(p, db[p], Head(answer[p].events))]
          /\ answer[p].events # <<>>
      BY <2>3 DEF SyncEvent, Put
    <3>2. answer[p].events \in Seq(log)
      BY DEF GroupInv, Carried
    <3>3. Head(answer[p].events) \in log
      BY <3>1, <3>2
    <3> QED BY <3>1, <3>3, ApplyKeeps
  <2>4. CASE \E t \in answer[p].texts : SyncText(p, t)
    <3>1. PICK t \in answer[p].texts : SyncText(p, t)
      BY <2>4
    <3>2. t \in Texts /\ Genuine(t)
      BY RoomFacts DEF Copies, Fit
    <3>3. db' = [db EXCEPT ![p] = Stored(db[p], t)] /\ added' = added /\ sealed' = sealed
      BY <3>1 DEF SyncText, Put
    <3> QED BY <3>2, <3>3, StoredKeeps
  <2> QED BY <1>3, <2>1, <2>2, <2>3, <2>4 DEF Receive
<1>4. ASSUME NEW p \in Peers, CleanupExpired(p) PROVE \A q \in Peers : Keeps(q)
  <2>1. db' = [db EXCEPT ![p] = DropAged(db[p])] /\ db[p] \in Replicas
    BY <1>4 DEF CleanupExpired, Put, GroupInv, TypeOK
  <2>2. Lasts(p, db[p], DropAged(db[p])) /\ Unrevoked(db[p], DropAged(db[p])) /\ DropAged(db[p]).msgs \subseteq db[p].msgs
    BY <2>1, DropLasts
  <2> HIDE DEF Lasts, Unrevoked
  <2> QED BY <2>1, <2>2, RowKeeps
<1>5. ASSUME NEW p \in Peers, PurgeArchived(p) PROVE \A q \in Peers : Keeps(q)
  <2>1. db' = [db EXCEPT ![p] = Absent] /\ "purge" \in Ops
    BY <1>5 DEF PurgeArchived, Put
  <2>2. Absent.msgs = {} /\ Absent.revoked = {}
    BY DEF Absent
  <2>3. Unrevoked(db[p], Absent) /\ \A t \in Absent.msgs : t \in db[p].msgs
    BY <2>2 DEF Unrevoked
  <2> QED BY <2>1, <2>3, RowKeeps
<1>6. ASSUME NEW m \in Msgs, SendGroupText(m) PROVE \A q \in Peers : Keeps(q)
  BY <1>6, SendKeeps
<1>7. CASE \/ Lose
           \/ \E p \in Peers : Crash(p)
           \/ \E j \in evjobs : RetryEvent(j[1], j[2], j[3])
           \/ \E m \in Msgs : SealText(m) \/ MessageAges(m)
           \/ \E m \in Msgs, q \in Peers :
                MarkSent(m, q) \/ ReceiveAck(m, q) \/ \E ok \in BOOLEAN : RetryDelivery(m, q, ok)
  <2>1. db' = db
    BY <1>7 DEF Lose, Crash, RetryEvent, SealText, MessageAges, MarkSent, ReceiveAck, RetryDelivery, stores
  <2> QED BY <2>1, DbKeeps
<1> QED BY <1>1, <1>2, <1>3, <1>4, <1>5, <1>6, <1>7, HandleKeeps DEF Next

\* What a step does to the copies on their way.
Sends ==
    /\ \A m \in added : m \in added' /\ sealed'[m] = sealed[m]
    /\ \A m \in added' : sealed'[m] # <<>>
    /\ \A m \in Msgs : sealed'[m] # <<>> => sealed'[m][1].id = m
    /\ \A p \in Peers : \A t \in answer'[p].texts : Genuine(t)'
    /\ \A x \in texts' : Genuine(x[2])'

\* What is genuine stays so.
LEMMA GenuineStays ==
  ASSUME \A m \in added : m \in added' /\ sealed'[m] = sealed[m], NEW t, Genuine(t)
  PROVE  Genuine(t)'
BY DEF Genuine

\* A step that neither stores nor sends a text leaves the copies as they are.
LEMMA CalmSends == ASSUME Copies, Calm PROVE Sends
<1>1. \A m \in added : m \in added' /\ sealed'[m] = sealed[m]
  BY DEF Calm
<1>2. /\ \A p \in Peers : \A t \in answer'[p].texts : Genuine(t)
      /\ \A x \in texts' : Genuine(x[2])
  BY DEF Calm, Copies
<1>3. /\ \A p \in Peers : \A t \in answer'[p].texts : Genuine(t)'
      /\ \A x \in texts' : Genuine(x[2])'
  BY <1>1, <1>2, GenuineStays
<1> QED BY <1>1, <1>3 DEF Sends, Calm, Copies

\* The steps that touch texts and answers.
LEMMA CopySends ==
  ASSUME GroupInv, Copies, NEW p \in Peers,
         \/ \E m \in Msgs, q \in Peers, ok \in BOOLEAN : RetryDelivery(m, q, ok)
         \/ \E q \in Peers : SyncGroup(p, q)
         \/ \E t : ReceiveGroupText(p, t)
         \/ \E t \in answer[p].texts : SyncText(p, t)
         \/ Crash(p)
         \/ \E m \in Msgs : SealText(m) \/ SendGroupText(m)
  PROVE  Sends
<1>1. /\ sealed \in [Msgs -> Seq(Texts)] /\ answer \in [Peers -> Answers] /\ added \subseteq Msgs
      /\ \A m \in Msgs : Author[m] \in Peers
      /\ \A q \in Peers : \A t \in db[q].msgs \cup answer[q].texts : Genuine(t)
      /\ \A x \in texts : Genuine(x[2])
      /\ \A m \in added : sealed[m] # <<>>
      /\ \A m \in Msgs : sealed[m] # <<>> => sealed[m][1].id = m
  BY RoomFacts, GroupAssumption DEF Copies
<1> HIDE DEF Texts, Answers
<1>2. ASSUME NEW m \in Msgs, NEW q \in Peers, NEW ok \in BOOLEAN, RetryDelivery(m, q, ok) PROVE Sends
  <2>1. /\ added' = added /\ sealed' = sealed /\ answer' = answer
        /\ texts' \subseteq texts \cup {<<q, t>> : t \in db[Author[m]].msgs}
    BY <1>2 DEF RetryDelivery
  <2>2. \A x \in texts' : Genuine(x[2])
    <3>1. \A t \in db[Author[m]].msgs : Genuine(t)
      BY <1>1
    <3> SUFFICES ASSUME NEW x \in texts' PROVE Genuine(x[2])
      OBVIOUS
    <3>2. x \in texts \/ \E t \in db[Author[m]].msgs : x = <<q, t>>
      BY <2>1
    <3>3. x \in texts \/ x[2] \in db[Author[m]].msgs
      BY <3>2
    <3> QED BY <1>1, <3>1, <3>3
  <2>3. \A t : Genuine(t)' <=> Genuine(t)
    BY <2>1 DEF Genuine
  <2> QED BY <1>1, <2>1, <2>2, <2>3 DEF Sends
<1>3. ASSUME NEW q \in Peers, SyncGroup(p, q) PROVE Sends
  <2> DEFINE T == {t \in db[q].msgs : t.sseq > db[p].cursor[Author[t.id]]}
  <2>1. /\ added' = added /\ sealed' = sealed /\ texts' = texts
    BY <1>3 DEF SyncGroup, network
  <2>2. \E s : answer' = [answer EXCEPT ![p] = [events |-> s, texts |-> T]]
    BY <1>3 DEF SyncGroup
  <2>3. \A t \in T : Genuine(t)
    BY <1>1
  <2> HIDE DEF T
  <2>4. \A r \in Peers : \A t \in answer'[r].texts : t \in answer[r].texts \/ t \in T
    BY <1>1, <2>2
  <2>5. \A t : Genuine(t)' <=> Genuine(t)
    BY <2>1 DEF Genuine
  <2> QED BY <1>1, <2>1, <2>3, <2>4, <2>5 DEF Sends
<1>4. ASSUME NEW t, ReceiveGroupText(p, t) PROVE Sends
  <2>1. /\ added' = added /\ sealed' = sealed /\ answer' = answer /\ texts' \subseteq texts
    BY <1>4 DEF ReceiveGroupText, threads
  <2>2. \A u : Genuine(u)' <=> Genuine(u)
    BY <2>1 DEF Genuine
  <2> QED BY <1>1, <2>1, <2>2 DEF Sends
<1>5. ASSUME NEW t \in answer[p].texts, SyncText(p, t) PROVE Sends
  <2> DEFINE T == IF Unreadable(db[p], t) THEN {} ELSE answer[p].texts \ {t}
             a == [answer[p] EXCEPT !.texts = T]
  <2>1. added' = added /\ sealed' = sealed /\ texts' = texts
    BY <1>5 DEF SyncText
  <2>2. answer' = [answer EXCEPT ![p] = a]
    BY <1>1, <1>5 DEF SyncText, Answers
  <2>3. T \subseteq answer[p].texts
    OBVIOUS
  <2> HIDE DEF T
  <2>4. a.texts = T
    BY <1>1 DEF Answers
  <2> HIDE DEF a
  <2>5. \A r \in Peers : answer'[r].texts \subseteq answer[r].texts
    BY <1>1, <2>2, <2>3, <2>4
  <2>6. \A u : Genuine(u)' <=> Genuine(u)
    BY <2>1 DEF Genuine
  <2> QED BY <1>1, <2>1, <2>5, <2>6 DEF Sends
<1>6. ASSUME Crash(p) PROVE Sends
  <2>1. /\ added' = added /\ texts' = texts /\ answer' = [answer EXCEPT ![p] = NoAnswer]
        /\ sealed' = [m \in Msgs |-> IF Author[m] = p /\ m \notin added THEN <<>> ELSE sealed[m]]
    BY <1>6 DEF Crash, network
  <2>2. \A q \in Peers : answer'[q].texts \subseteq answer[q].texts
    BY <1>1, <2>1 DEF NoAnswer
  <2>3. \A m \in added : sealed'[m] = sealed[m]
    BY <1>1, <2>1
  <2>4. \A m \in Msgs : sealed'[m] # <<>> => sealed'[m] = sealed[m]
    BY <2>1
  <2>5. \A u : Genuine(u) => Genuine(u)'
    BY <2>1, <2>3 DEF Genuine
  <2> QED BY <1>1, <2>1, <2>2, <2>3, <2>4, <2>5 DEF Sends
<1>7. ASSUME NEW m \in Msgs, SealText(m) PROVE Sends
  <2>1. /\ added' = added /\ texts' = texts /\ answer' = answer /\ m \notin added
    BY <1>7 DEF SealText, network
  <2>a. PICK s, c, k : sealed' = [sealed EXCEPT ![m] = <<[id |-> m, sseq |-> s, epoch |-> c, key |-> k]>>]
    BY <1>7 DEF SealText
  <2>2. PICK u : sealed' = [sealed EXCEPT ![m] = <<u>>] /\ u.id = m
    <3>1. [id |-> m, sseq |-> s, epoch |-> c, key |-> k].id = m
      OBVIOUS
    <3> QED BY <2>a, <3>1
  <2>3. \A n \in added : sealed'[n] = sealed[n]
    BY <1>1, <2>1, <2>2
  <2>4. sealed'[m] = <<u>> /\ \A n \in Msgs : n # m => sealed'[n] = sealed[n]
    BY <1>1, <2>2
  <2>5. \A v : Genuine(v) => Genuine(v)'
    BY <2>1, <2>3 DEF Genuine
  <2>6. \A n \in Msgs : sealed'[n] # <<>> => sealed'[n][1].id = n
    BY <1>1, <2>2, <2>4
  <2> QED BY <1>1, <2>1, <2>3, <2>5, <2>6 DEF Sends
<1>8. ASSUME NEW m \in Msgs, SendGroupText(m) PROVE Sends
  <2>1. PICK t : t = sealed[m][1]
    OBVIOUS
  <2>2. /\ added' = added \cup {m} /\ sealed' = sealed /\ answer' = answer /\ sealed[m] # <<>>
        /\ \E sent : texts' = texts \cup {<<q, t>> : q \in sent}
    BY <1>8, <2>1 DEF SendGroupText
  <2>3. Genuine(t)' /\ \A u : Genuine(u) => Genuine(u)'
    BY <1>1, <2>1, <2>2 DEF Genuine
  <2>4. \A x \in texts' : x[2] = t \/ x \in texts
    BY <2>2
  <2> QED BY <1>1, <2>2, <2>3, <2>4 DEF Sends
<1> QED BY <1>2, <1>3, <1>4, <1>5, <1>6, <1>7, <1>8

\* Every step.
LEMMA NextSends == ASSUME GroupInv, Copies, Next PROVE Sends
<1>0. /\ \A x \in ctl : x[1] \in Peers
      /\ \A j \in evjobs : j[1] \in Peers /\ j[3] \in Peers
      /\ \A r \in requests : r[3] \in Peers
      /\ \A m \in Msgs : Author[m] \in Peers
  BY GroupAssumption DEF GroupInv, TypeOK
<1>1. ASSUME NEW p \in Peers, ApiCall(p) PROVE Sends
  <2>1. CASE \E q \in Peers : SyncGroup(p, q)
    BY <2>1, CopySends
  <2>2. CASE CreateGroup(p) \/ AcceptGroupInvite(p) \/ LeaveGroup(p) \/ \E m \in Msgs : DeleteUnsent(p, m)
    BY <2>2, CalmSteps, CalmSends
  <2>3. ASSUME NEW op, NEW e, Prepare(p, op, e) PROVE Sends
    BY <2>3, CalmSteps, CalmSends
  <2> QED BY <1>1, <2>1, <2>2, <2>3 DEF ApiCall, PrepareTitle, PrepareDissolve, InviteGroupMember,
              RemoveGroupMember, PrepareTransfer, PrepareRetention, PrepareRevoke
<1>2. ASSUME NEW p \in Peers, Receive(p) PROVE Sends
  <2>1. CASE (\E x \in ctl : x[1] = p /\ ReceiveEvent(p, x[2])) \/ SyncEvent(p)
    BY <2>1, CalmSteps, CalmSends
  <2>2. CASE (\E x \in texts : x[1] = p /\ ReceiveGroupText(p, x[2])) \/ \E t \in answer[p].texts : SyncText(p, t)
    BY <2>2, CopySends
  <2> QED BY <1>2, <2>1, <2>2 DEF Receive
<1>3. ASSUME NEW p \in Peers, CommitEvent(p) \/ CleanupExpired(p) \/ PurgeArchived(p) \/ Crash(p) PROVE Sends
  <2>1. CASE Crash(p)
    BY <2>1, CopySends
  <2>2. CASE CommitEvent(p) \/ CleanupExpired(p) \/ PurgeArchived(p)
    BY <2>2, CalmSteps, CalmSends
  <2> QED BY <1>3, <2>1, <2>2
<1>4. ASSUME NEW j \in evjobs, RetryEvent(j[1], j[2], j[3]) PROVE Sends
  BY <1>0, <1>4, CalmSteps, CalmSends
<1>5. ASSUME NEW m \in Msgs, SealText(m) \/ SendGroupText(m) PROVE Sends
  BY <1>0, <1>5, CopySends
<1>6. ASSUME NEW m \in Msgs, NEW q \in Peers, MarkSent(m, q) \/ ReceiveAck(m, q) \/ \E ok \in BOOLEAN : RetryDelivery(m, q, ok)
      PROVE  Sends
  <2>1. CASE MarkSent(m, q) \/ ReceiveAck(m, q)
    BY <2>1, CalmSteps, CalmSends
  <2>2. CASE \E ok \in BOOLEAN : RetryDelivery(m, q, ok)
    BY <2>2, CopySends
  <2> QED BY <1>6, <2>1, <2>2
<1>7. ASSUME (\E r \in requests : HandleRequest(r)) \/ Lose \/ \E m \in Msgs : MessageAges(m) PROVE Sends
  <2>1. CASE Peers # {}
    BY <1>7, <2>1, CalmSteps, CalmSends
  <2>2. CASE Peers = {}
    <3>1. requests = {} /\ texts = {} /\ ctl = {} /\ acks = {} /\ Msgs = {}
      BY <2>2, GroupAssumption DEF GroupInv, TypeOK
    <3> QED BY <1>7, <3>1 DEF Lose
  <2> QED BY <2>1, <2>2
<1> QED BY <1>1, <1>2, <1>3, <1>4, <1>5, <1>6, <1>7 DEF Next

\* Every copy stays what its author has sealed.
LEMMA CopiesStep == ASSUME GroupInv, Copies, Next PROVE Copies'
<1>1. Sends /\ \A p \in Peers : Keeps(p)
  BY NextSends, NextKeeps
<1>2. \A p \in Peers : \A t \in db'[p].msgs : Genuine(t)'
  <2>1. \A p \in Peers : \A t \in db'[p].msgs : Genuine(t) \/ Genuine(t)'
    BY <1>1 DEF Keeps, Copies
  <2> QED BY <1>1, <2>1, GenuineStays DEF Sends
<1> QED BY <1>1, <1>2 DEF Sends, Copies

\* What a step does to deliveries: only an acknowledgement sets "delivered".
Delivers ==
    \A m \in Msgs :
        /\ deliv'[m][Author[m]] = "none"
        /\ \A q \in Peers : deliv'[m][q] = "delivered" =>
              deliv[m][q] = "delivered" \/ (<<m, q>> \in acks /\ q # Author[m])

\* Rows that stay as they are or go.
LEMMA RowsDeliver ==
  ASSUME GroupInv, Receipts, deliv' \in [Msgs -> [Peers -> DeliveryStates]],
         \A m \in Msgs, q \in Peers : deliv'[m][q] \in {"none", deliv[m][q]}
  PROVE  Delivers
<1>1. \A m \in Msgs : Author[m] \in Peers
  BY GroupAssumption
<1> QED BY <1>1 DEF Delivers, Receipts

\* One row is set.
LEMMA SetDelivers ==
  ASSUME GroupInv, Receipts, NEW m \in Msgs, NEW q \in Peers, NEW s, SetDelivery(m, q, s),
         s = "delivered" => <<m, q>> \in acks
  PROVE  Delivers
<1>1. deliv \in [Msgs -> [Peers -> DeliveryStates]] /\ \A n \in Msgs : Author[n] \in Peers
  BY GroupAssumption DEF GroupInv, TypeOK
<1>2. \A n \in Msgs, r \in Peers :
        deliv'[n][r] = IF n = m /\ r = q THEN (IF deliv[m][q] = "none" THEN "none" ELSE s) ELSE deliv[n][r]
  BY <1>1 DEF SetDelivery
<1>3. \A n \in Msgs : deliv[n][Author[n]] = "none"
  BY DEF Receipts
<1> QED BY <1>1, <1>2, <1>3 DEF Delivers

\* Every step.
LEMMA NextDelivers == ASSUME GroupInv, Receipts, Next PROVE Delivers
<1>0. /\ deliv \in [Msgs -> [Peers -> DeliveryStates]] /\ deliv' \in [Msgs -> [Peers -> DeliveryStates]]
      /\ \A n \in Msgs : Author[n] \in Peers
  BY DelivStep, GroupAssumption DEF GroupInv, TypeOK
<1>1. ASSUME deliv' = deliv \/ \E p, d : deliv' = Kept(p, d) PROVE Delivers
  <2>1. \A m \in Msgs, q \in Peers : deliv'[m][q] \in {"none", deliv[m][q]}
    BY <1>1 DEF Kept
  <2> QED BY <1>0, <2>1, RowsDeliver
<1> HIDE DEF Kept, SetDelivery
<1>2. ASSUME NEW m \in Msgs, SendGroupText(m) PROVE Delivers
  <2>1. PICK sent, failed : /\ failed \subseteq Active(db[Author[m]]) \ {Author[m]}
                            /\ deliv' = [deliv EXCEPT ![m] = [q \in Peers |-> IF q \in failed THEN "retry"
                                 ELSE IF q \in Active(db[Author[m]]) \ {Author[m]} THEN "pending" ELSE "none"]]
    BY <1>2 DEF SendGroupText
  <2>2. deliv'[m] = [q \in Peers |-> IF q \in failed THEN "retry"
                                 ELSE IF q \in Active(db[Author[m]]) \ {Author[m]} THEN "pending" ELSE "none"]
    BY <1>0, <2>1
  <2>3. deliv'[m][Author[m]] = "none" /\ \A q \in Peers : deliv'[m][q] # "delivered"
    BY <1>0, <2>1, <2>2
  <2>4. \A n \in Msgs : n # m => deliv'[n] = deliv[n]
    BY <1>0, <2>1
  <2>5. \A n \in Msgs : deliv[n][Author[n]] = "none"
    BY DEF Receipts
  <2> QED BY <2>3, <2>4, <2>5 DEF Delivers
<1>3. ASSUME NEW m \in Msgs, NEW q \in Peers, MarkSent(m, q) \/ ReceiveAck(m, q) \/ \E ok \in BOOLEAN : RetryDelivery(m, q, ok)
      PROVE  Delivers
  <2>1. deliv' = deliv \/ \E s : SetDelivery(m, q, s) /\ (s = "delivered" => <<m, q>> \in acks)
    <3>1. CASE MarkSent(m, q)
      BY <3>1 DEF MarkSent
    <3>2. CASE ReceiveAck(m, q)
      BY <3>2 DEF ReceiveAck
    <3>3. CASE \E ok \in BOOLEAN : RetryDelivery(m, q, ok)
      BY <3>3 DEF RetryDelivery
    <3> QED BY <1>3, <3>1, <3>2, <3>3
  <2> QED BY <1>1, <2>1, SetDelivers
<1>4. ASSUME NEW p \in Peers, ApiCall(p) PROVE Delivers
  <2>1. deliv' = deliv \/ \E d : deliv' = Kept(p, d)
    BY <1>4 DEF ApiCall, CreateGroup, PrepareTitle, PrepareDissolve, InviteGroupMember, RemoveGroupMember, PrepareTransfer,
         SyncGroup, PrepareRetention, PrepareRevoke, DeleteUnsent, AcceptGroupInvite, LeaveGroup, Prepare, Put, stores
  <2> QED BY <1>1, <2>1
<1>5. ASSUME NEW p \in Peers, CommitEvent(p) \/ Receive(p) \/ CleanupExpired(p) \/ PurgeArchived(p) \/ Crash(p)
      PROVE  Delivers
  <2>1. deliv' = deliv \/ \E d : deliv' = Kept(p, d)
    BY <1>5 DEF CommitEvent, Receive, CleanupExpired, PurgeArchived, Crash, ReceiveEvent, ReceiveGroupText, SyncEvent, SyncText,
         Put, stores
  <2> QED BY <1>1, <2>1
<1>6. ASSUME NEW r \in requests, HandleRequest(r) PROVE Delivers
  <2>1. deliv' = deliv \/ \E p, d : deliv' = Kept(p, d)
    BY <1>6 DEF HandleRequest, Put, stores
  <2> QED BY <1>1, <2>1
<1>7. ASSUME \/ \E j \in evjobs : RetryEvent(j[1], j[2], j[3])
             \/ \E m \in Msgs : SealText(m) \/ MessageAges(m)
             \/ Lose
      PROVE  Delivers
  <2>1. deliv' = deliv
    BY <1>7 DEF RetryEvent, SealText, MessageAges, Lose, stores
  <2> QED BY <1>1, <2>1
<1> QED BY <1>2, <1>3, <1>4, <1>5, <1>6, <1>7 DEF Next

\* What a step acknowledges is there.
Acks == \A x \in acks' : x \in acks \/ Has(db[x[2]], x[1])'

\* A text is stored, or was revoked, when it is acknowledged.
LEMMA TextAcks ==
  ASSUME GroupInv, Copies, NEW p \in Peers, NEW t \in Texts, Genuine(t), added' = added, sealed' = sealed,
         db' = [db EXCEPT ![p] = Stored(db[p], t)], Acknowledge(p, db[p], t)
  PROVE  Acks
<1>1. /\ Accepts(db[p], t) => t \in db'[p].msgs /\ db'[p].known
      /\ ~Accepts(db[p], t) => db' = db
  BY StoredKeeps
<1>2. CASE acks' = acks
  BY <1>2 DEF Acks
<1>3. CASE acks' = acks \cup {<<t.id, p>>} /\ (Accepts(db[p], t) \/ (db[p].known /\ t.id \in db[p].revoked))
  <2>1. db'[p].known /\ (t \in db'[p].msgs \/ t.id \in db'[p].revoked)
    BY <1>1, <1>3
  <2>2. Has(db[p], t.id)'
    BY <2>1 DEF Has, IdsOf
  <2> SUFFICES ASSUME NEW x \in acks', x \notin acks PROVE Has(db[x[2]], x[1])'
    BY DEF Acks
  <2>3. x[1] = t.id /\ x[2] = p
    BY <1>3
  <2> QED BY <2>2, <2>3
<1> QED BY <1>2, <1>3 DEF Acknowledge

\* Every step.
LEMMA NextAcks == ASSUME GroupInv, Copies, Next PROVE Acks
<1>1. ASSUME acks' \subseteq acks PROVE Acks
  BY <1>1 DEF Acks
<1>2. ASSUME NEW p \in Peers, Receive(p) PROVE Acks
  <2>1. CASE \E x \in texts : x[1] = p /\ ReceiveGroupText(p, x[2])
    <3>1. PICK x \in texts : ReceiveGroupText(p, x[2])
      BY <2>1
    <3>2. x[2] \in Texts /\ Genuine(x[2])
      BY DEF GroupInv, TypeOK, Copies
    <3>3. /\ db' = [db EXCEPT ![p] = Stored(db[p], x[2])] /\ added' = added /\ sealed' = sealed
          /\ Acknowledge(p, db[p], x[2])
      BY <3>1 DEF ReceiveGroupText, Put, threads
    <3> QED BY <3>2, <3>3, TextAcks
  <2>2. CASE \E t \in answer[p].texts : SyncText(p, t)
    <3>1. PICK t \in answer[p].texts : SyncText(p, t)
      BY <2>2
    <3>2. t \in Texts /\ Genuine(t)
      BY RoomFacts DEF Copies, Fit
    <3>3. /\ db' = [db EXCEPT ![p] = Stored(db[p], t)] /\ added' = added /\ sealed' = sealed
          /\ Acknowledge(p, db[p], t)
      BY <3>1 DEF SyncText, Put
    <3> QED BY <3>2, <3>3, TextAcks
  <2>3. CASE (\E x \in ctl : x[1] = p /\ ReceiveEvent(p, x[2])) \/ SyncEvent(p)
    <3>1. acks' = acks
      BY <2>3 DEF ReceiveEvent, SyncEvent, network
    <3> QED BY <1>1, <3>1
  <2> QED BY <1>2, <2>1, <2>2, <2>3 DEF Receive
<1>3. ASSUME NEW p \in Peers, ApiCall(p) PROVE Acks
  <2>1. acks' = acks
    BY <1>3 DEF ApiCall, CreateGroup, PrepareTitle, PrepareDissolve, InviteGroupMember, RemoveGroupMember, PrepareTransfer,
         SyncGroup, PrepareRetention, PrepareRevoke, DeleteUnsent, AcceptGroupInvite, LeaveGroup, Prepare, network
  <2> QED BY <1>1, <2>1
<1>4. ASSUME NEW p \in Peers, CommitEvent(p) \/ CleanupExpired(p) \/ PurgeArchived(p) \/ Crash(p) PROVE Acks
  <2>1. acks' = acks
    BY <1>4 DEF CommitEvent, CleanupExpired, PurgeArchived, Crash, network
  <2> QED BY <1>1, <2>1
<1>5. ASSUME \/ \E r \in requests : HandleRequest(r)
             \/ \E j \in evjobs : RetryEvent(j[1], j[2], j[3])
             \/ \E m \in Msgs : SealText(m) \/ SendGroupText(m) \/ MessageAges(m)
             \/ \E m \in Msgs, q \in Peers : MarkSent(m, q) \/ ReceiveAck(m, q) \/ \E ok \in BOOLEAN : RetryDelivery(m, q, ok)
             \/ Lose
      PROVE  Acks
  <2>1. acks' \subseteq acks
    BY <1>5 DEF HandleRequest, RetryEvent, SealText, SendGroupText, MessageAges, MarkSent, ReceiveAck, RetryDelivery, Lose, network
  <2> QED BY <1>1, <2>1
<1> QED BY <1>2, <1>3, <1>4, <1>5 DEF Next

\* Messages only age, under "retention".
LEMMA NextAges == ASSUME Next PROVE aged \subseteq aged' /\ ("retention" \notin Ops => aged' = aged)
<1>1. ASSUME NEW p \in Peers, ApiCall(p) PROVE aged' = aged
  BY <1>1 DEF ApiCall, CreateGroup, PrepareTitle, PrepareDissolve, InviteGroupMember, RemoveGroupMember, PrepareTransfer,
         SyncGroup, PrepareRetention, PrepareRevoke, DeleteUnsent, AcceptGroupInvite, LeaveGroup, Prepare, env
<1>2. ASSUME NEW p \in Peers, CommitEvent(p) \/ Receive(p) \/ CleanupExpired(p) \/ PurgeArchived(p) \/ Crash(p)
      PROVE  aged' = aged
  BY <1>2 DEF CommitEvent, Receive, CleanupExpired, PurgeArchived, Crash, ReceiveEvent, ReceiveGroupText, SyncEvent, SyncText, env
<1>3. ASSUME \/ \E r \in requests : HandleRequest(r)
             \/ \E j \in evjobs : RetryEvent(j[1], j[2], j[3])
             \/ \E m \in Msgs : SealText(m) \/ SendGroupText(m)
             \/ \E m \in Msgs, q \in Peers : MarkSent(m, q) \/ ReceiveAck(m, q) \/ \E ok \in BOOLEAN : RetryDelivery(m, q, ok)
             \/ Lose
      PROVE  aged' = aged
  BY <1>3 DEF HandleRequest, RetryEvent, SealText, SendGroupText, MarkSent, ReceiveAck, RetryDelivery, Lose, env
<1>4. ASSUME NEW m \in Msgs, MessageAges(m) PROVE aged \subseteq aged' /\ "retention" \in Ops
  BY <1>4 DEF MessageAges
<1> QED BY <1>1, <1>2, <1>3, <1>4 DEF Next

\* What a node has it keeps, or has a reason to be without.
LEMMA HasStays ==
  ASSUME NEW q \in Peers, NEW m \in Msgs, Author[m] # q, Has(db[q], m), Lasts(q, db[q], db'[q]), aged \subseteq aged'
  PROVE  Has(db[q], m)'
<1>1. db[q].known /\ db'[q].known /\ db[q].revoked \subseteq db'[q].revoked
  BY DEF Has, Lasts
<1>2. CASE m \in db[q].revoked \cup aged \/ db'[q].state = "archived"
  BY <1>1, <1>2 DEF Has
<1>3. CASE db[q].state = "archived"
  BY <1>1, <1>3 DEF Has, Lasts
<1>4. CASE m \in IdsOf(db[q]) /\ db'[q].state # "archived"
  <2>1. PICK t \in db[q].msgs : t.id = m
    BY <1>4 DEF IdsOf
  <2>2. t \in db'[q].msgs \/ t.id \in db'[q].revoked \cup aged
    BY <1>1, <1>4, <2>1 DEF Lasts
  <2> QED BY <1>1, <2>1, <2>2 DEF Has, IdsOf
<1> QED BY <1>2, <1>3, <1>4 DEF Has

\* The invariant is inductive while no number is used twice and no replica is purged.
LEMMA ReceiptsStep ==
  ASSUME GroupInv, Copies, Receipts, NoReuse', "purge" \notin Ops, Next
  PROVE  Receipts'
<1>1. Delivers /\ Acks /\ aged \subseteq aged' /\ \A q \in Peers : Lasts(q, db[q], db'[q])
  BY NextDelivers, NextAcks, NextAges, NextKeeps DEF Keeps
<1>2. acks \subseteq Msgs \X Peers
  BY DEF GroupInv, TypeOK
<1>3. ASSUME NEW m \in Msgs, NEW q \in Peers, q # Author[m], Has(db[q], m) PROVE Has(db[q], m)'
  BY <1>1, <1>3, HasStays
<1> HIDE DEF Has
<1>4. \A x \in acks' : x[2] # Author[x[1]] => Has(db[x[2]], x[1])'
  <2> SUFFICES ASSUME NEW x \in acks', x[2] # Author[x[1]] PROVE Has(db[x[2]], x[1])'
    OBVIOUS
  <2>1. CASE x \in acks
    <3>1. x[1] \in Msgs /\ x[2] \in Peers /\ Has(db[x[2]], x[1])
      BY <1>2, <2>1 DEF Receipts
    <3> QED BY <1>3, <3>1
  <2>2. CASE x \notin acks
    BY <1>1, <2>2 DEF Acks
  <2> QED BY <2>1, <2>2
<1>5. ASSUME NEW m \in Msgs, NEW q \in Peers, deliv'[m][q] = "delivered" PROVE Has(db[q], m)'
  <2>1. q # Author[m]
    BY <1>1, <1>5 DEF Delivers
  <2>2. Has(db[q], m)
    <3>1. CASE deliv[m][q] = "delivered"
      BY <3>1 DEF Receipts
    <3>2. CASE <<m, q>> \in acks
      BY <2>1, <3>2 DEF Receipts
    <3> QED BY <1>1, <1>5, <3>1, <3>2 DEF Delivers
  <2> QED BY <1>3, <2>1, <2>2
<1> QED BY <1>1, <1>4, <1>5 DEF Receipts, Delivers

\* The invariant: deliveries are told apart only while rows keep what they hold.
Delivered == GroupInv /\ Copies /\ (NoReuse /\ "purge" \notin Ops => Receipts)

\* Every step keeps it.
LEMMA DeliveredStep == ASSUME Ordered => Delivered, [Next]_vars PROVE (Ordered => Delivered)'
<1>1. CASE Next
  <2>1. Ordered' = Ordered /\ Ops' = Ops
    BY <1>1, ScopeStays DEF Ordered, Ops
  <2> SUFFICES ASSUME Ordered PROVE Delivered'
    BY <2>1
  <2>2. GroupInv /\ Copies /\ (NoReuse /\ "purge" \notin Ops => Receipts)
    BY DEF Delivered
  <2>3. GroupInv'
    BY <1>1, <2>1, <2>2, GroupStep
  <2>4. Copies' /\ Sends
    BY <1>1, <2>2, CopiesStep, NextSends
  <2>5. NoReuse' => NoReuse
    BY <2>4 DEF NoReuse, Sends
  <2>6. NoReuse' /\ "purge" \notin Ops => Receipts'
    BY <1>1, <2>2, <2>5, ReceiptsStep
  <2> HIDE DEF GroupInv, Copies, NoReuse, Receipts
  <2> QED BY <2>1, <2>3, <2>4, <2>6 DEF Delivered
<1>2. CASE UNCHANGED vars
  <2>1. (Ordered => GroupInv)'
    BY <1>2, GroupStep DEF Delivered
  <2>2. Ordered' = Ordered /\ Ops' = Ops /\ Copies' = Copies /\ NoReuse' = NoReuse /\ Receipts' = Receipts
    BY <1>2 DEF vars, stores, threads, network, env, Ordered, Ops, Copies, Genuine, NoReuse, Receipts, Has, IdsOf
  <2> HIDE DEF GroupInv, Copies, NoReuse, Receipts, Ordered
  <2> QED BY <2>1, <2>2 DEF Delivered
<1> QED BY <1>1, <1>2

\* A replica of the roster starts without messages.
LEMMA RosterEmpty == ASSUME NEW p PROVE RosterReplica(p).msgs = {} /\ RosterReplica(p).revoked = {}
<1>1. Absent.msgs = {} /\ Absent.revoked = {}
  BY DEF Absent
<1>2. CASE p \notin RosterSet
  BY <1>1, <1>2 DEF RosterReplica
<1>3. CASE p \in RosterSet
  <2> DEFINE r == [q \in Peers |-> IF q \in RosterSet THEN RosterRole(Index(p), Index(q)) ELSE "none"]
             s == [q \in Peers |-> IF q \in RosterSet THEN "active" ELSE "none"]
             E == {e \in RosterEvents : p = Founder \/ e.seq >= 2 * (Index(p) - 1)}
  <2>1. RosterReplica(p) = [Absent EXCEPT
        !.known = TRUE, !.ctrl = Founder, !.epoch = 1, !.title = 1,
        !.last = 2 * Len(Roster) - 1, !.role = r, !.status = s, !.events = E, !.keys[1] = 1]
    BY <1>3 DEF RosterReplica
  <2> HIDE DEF r, s, E, Founder, Roster
  <2> QED BY <2>1 DEF Absent
<1> QED BY <1>2, <1>3

\* At the start nothing is sent.
LEMMA DeliveredInit == ASSUME Init PROVE Delivered
<1>1. GroupInv
  BY GroupInit
<1>2. /\ added = {} /\ texts = {} /\ acks = {} /\ \A m \in Msgs : sealed[m] = <<>>
      /\ \A m \in Msgs : Author[m] \in Peers
  BY GroupAssumption DEF Init
<1>3. \A m \in Msgs, q \in Peers : deliv[m][q] = "none"
  BY DEF Init
<1>4. \A p \in Peers : db[p].msgs = {} /\ answer[p].texts = {}
  <2>1. \A p \in Peers : answer[p].texts = {}
    BY DEF Init, NoAnswer
  <2>2. \A p \in Peers : db[p].msgs = {}
    BY RosterEmpty, AbsentRows DEF Init
  <2> QED BY <2>1, <2>2
<1>5. Copies
  BY <1>2, <1>4 DEF Copies
<1>6. Receipts
  BY <1>2, <1>3 DEF Receipts
<1> QED BY <1>1, <1>5, <1>6 DEF Delivered

\* A message that its author's node shows as delivered is stored at the recipient, or
\* was revoked, has expired, or went with its group (handleIncomingGroupAck), as long
\* as no two stored messages of an author have one sender_seq, over which INSERT OR
\* REPLACE would exchange them, and no replica is purged and made anew by an old invite.
THEOREM DeliveredHolds ==
    Spec => [](Ordered /\ "purge" \notin Ops /\ NoReuse => DeliveredIsStored)
<1>1. Init => (Ordered => Delivered)
  BY DeliveredInit
<1>2. (Ordered => Delivered) /\ [Next]_vars => (Ordered => Delivered)'
  BY DeliveredStep
<1>3. (Ordered => Delivered) => (Ordered /\ "purge" \notin Ops /\ NoReuse => DeliveredIsStored)
  BY DEF Delivered, Receipts, Has, DeliveredIsStored
<1> QED BY <1>1, <1>2, <1>3, PTL DEF Spec

-----------------------------------------------------------------------------
(* The numbers of a sender                                                  *)

\* Calls do not overlap and no stored message is deleted: what SendGroupText reads
\* as the greatest sender_seq of its rows is the greatest it has used.
Lasting == "send" \notin scope.races /\ Ops \cap {"revoke", "retention", "purge"} = {}

\* Every number that was used is in the rows of its author, while the group lives,
\* and an author seals one text at a time.
Unused(m) == \A n \in added : Author[n] = Author[m] => sealed[n][1].sseq # sealed[m][1].sseq
RowsStay ==
    /\ aged = {} /\ \A p \in Peers : db[p].revoked = {}
    /\ \A m \in Msgs : sealed[m] # <<>> => db[Author[m]].known
    /\ \A m \in added : db[Author[m]].state = "archived" \/ sealed[m][1] \in db[Author[m]].msgs
OneAtATime ==
    \A m \in Msgs \ added :
        sealed[m] # <<>> =>
            /\ Unused(m)
            /\ \A n \in Msgs \ added : sealed[n] # <<>> /\ Author[n] = Author[m] => n = m
Numbers == NoReuse /\ RowsStay /\ OneAtATime

\* A step that neither seals nor stores a text; one that crashes drops some.
Quiet == added' = added /\ \A m \in Msgs : sealed'[m] \in {<<>>, sealed[m]}

\* Only SendGroupText's first half seals a text and only its second stores one.
LEMMA NextSeals ==
  ASSUME GroupInv, Next
  PROVE  Quiet \/ \E m \in Msgs : SealText(m) \/ SendGroupText(m)
<1>1. ASSUME added' = added, sealed' = sealed PROVE Quiet
  BY <1>1 DEF Quiet
<1>2. ASSUME NEW p \in Peers, ApiCall(p) PROVE Quiet
  <2>1. added' = added /\ sealed' = sealed
    BY <1>2 DEF ApiCall, CreateGroup, PrepareTitle, PrepareDissolve, InviteGroupMember, RemoveGroupMember, PrepareTransfer,
         SyncGroup, PrepareRetention, PrepareRevoke, DeleteUnsent, AcceptGroupInvite, LeaveGroup, Prepare, threads
  <2> QED BY <1>1, <2>1
<1>3. ASSUME NEW p \in Peers, CommitEvent(p) \/ Receive(p) \/ CleanupExpired(p) \/ PurgeArchived(p) PROVE Quiet
  <2>1. added' = added /\ sealed' = sealed
    BY <1>3 DEF CommitEvent, Receive, CleanupExpired, PurgeArchived, ReceiveEvent, ReceiveGroupText, SyncEvent, SyncText, threads
  <2> QED BY <1>1, <2>1
<1>4. ASSUME NEW p \in Peers, Crash(p) PROVE Quiet
  <2>1. added' = added /\ \A m \in Msgs : sealed'[m] = IF Author[m] = p /\ m \notin added THEN <<>> ELSE sealed[m]
    BY <1>4 DEF Crash
  <2> QED BY <2>1 DEF Quiet
<1>5. ASSUME \/ \E r \in requests : HandleRequest(r)
             \/ \E j \in evjobs : RetryEvent(j[1], j[2], j[3])
             \/ \E m \in Msgs : MessageAges(m)
             \/ \E m \in Msgs, q \in Peers : MarkSent(m, q) \/ ReceiveAck(m, q) \/ \E ok \in BOOLEAN : RetryDelivery(m, q, ok)
             \/ Lose
      PROVE  Quiet
  <2>1. added' = added /\ sealed' = sealed
    BY <1>5 DEF HandleRequest, RetryEvent, MessageAges, MarkSent, ReceiveAck, RetryDelivery, Lose, threads
  <2> QED BY <1>1, <2>1
<1> QED BY <1>2, <1>3, <1>4, <1>5 DEF Next

\* The next sender_seq is none that the author's rows hold.
LEMMA SealNew ==
  ASSUME GroupInv, Copies, RowsStay, NEW m \in Msgs, SealText(m)
  PROVE  /\ m \notin added /\ added' = added /\ db' = db
         /\ \A n \in Msgs : n # m => sealed'[n] = sealed[n]
         /\ sealed'[m] # <<>> /\ db[Author[m]].known
         /\ \A n \in added : Author[n] = Author[m] => sealed[n][1].sseq # sealed'[m][1].sseq
<1> DEFINE p == Author[m]
           d == db[p]
           seqs == {t.sseq : t \in {u \in d.msgs : Author[u.id] = p}}
           next == 1 + (IF seqs = {} THEN 0 ELSE CHOOSE n \in seqs : \A k \in seqs : k <= n)
           t0 == [id |-> m, sseq |-> next, epoch |-> d.epoch, key |-> d.keys[d.epoch]]
<1>1. /\ m \notin added /\ d.known /\ d.state = "active" /\ sealed' = [sealed EXCEPT ![m] = <<t0>>]
      /\ added' = added /\ db' = db
  BY DEF SealText, stores
<1>2. sealed \in [Msgs -> Seq(Texts)] /\ added \subseteq Msgs /\ p \in Peers /\ Cardinality(added) \in Nat
  BY RoomFacts, GroupAssumption
<1>3. \A x \in seqs : x \in Nat /\ x <= Cardinality(added)
  <2>1. d.msgs \subseteq Fit(Cardinality(added))
    BY <1>2, RoomFacts
  <2>2. \A t \in Texts : t.sseq \in Nat
    BY GroupAssumption, FS_CardinalityType DEF Texts
  <2> QED BY <2>1, <2>2 DEF Fit
<1>4. ASSUME NEW x \in seqs PROVE x # next
  <2>1. \E n \in seqs : \A k \in seqs : k <= n
    <3> HIDE DEF seqs
    <3> QED BY <1>2, <1>3, <1>4, Greatest
  <2> DEFINE h == CHOOSE n \in seqs : \A k \in seqs : k <= n
  <2>2. h \in seqs /\ x <= h
    <3> HIDE DEF seqs
    <3> QED BY <2>1
  <2>3. next = 1 + h
    BY <1>4
  <2> HIDE DEF h, next, seqs
  <2>4. x \in Nat /\ h \in Nat
    BY <1>3, <2>2
  <2> QED BY <2>2, <2>3, <2>4
<1>5. \A n \in added : Author[n] = p => sealed[n][1].sseq \in seqs
  <2> SUFFICES ASSUME NEW n \in added, Author[n] = p PROVE sealed[n][1].sseq \in seqs
    OBVIOUS
  <2>1. sealed[n][1] \in d.msgs
    BY <1>1 DEF RowsStay
  <2>2. sealed[n][1].id = n
    BY <1>2 DEF Copies
  <2> QED BY <2>1, <2>2
<1>6. <<t0>>[1] = t0 /\ t0.sseq = next /\ <<t0>> # <<>>
  <2> HIDE DEF next
  <2> QED OBVIOUS
<1> HIDE DEF t0, next, seqs
<1>7. sealed'[m] = <<t0>> /\ \A n \in Msgs : n # m => sealed'[n] = sealed[n]
  BY <1>1, <1>2
<1> QED BY <1>1, <1>4, <1>5, <1>6, <1>7

\* What is sealed in a step that seals nothing was sealed before.
LEMMA OldSeals ==
  ASSUME GroupInv, Copies, Numbers, Lasting, Next, Quiet \/ \E m \in Msgs : SendGroupText(m)
  PROVE  NoReuse' /\ OneAtATime' /\ \A m \in Msgs : sealed'[m] \in {<<>>, sealed[m]}
<1>0. (\A m \in added : m \in added' /\ sealed'[m] = sealed[m]) /\ added \subseteq Msgs
  BY NextSends DEF Sends, GroupInv, TypeOK
<1>1. CASE Quiet
  <2>1. added' = added /\ (\A m \in added : sealed'[m] = sealed[m]) /\ \A m \in Msgs : sealed'[m] \in {<<>>, sealed[m]}
    BY <1>0, <1>1 DEF Quiet
  <2>2. NoReuse'
    BY <2>1 DEF Numbers, NoReuse
  <2>3. OneAtATime'
    BY <2>1 DEF Numbers, OneAtATime, Unused
  <2> QED BY <2>1, <2>2, <2>3
<1>2. ASSUME NEW m \in Msgs, SendGroupText(m) PROVE NoReuse' /\ OneAtATime' /\ \A n \in Msgs : sealed'[n] \in {<<>>, sealed[n]}
  <2>1. added' = added \cup {m} /\ sealed' = sealed /\ sealed[m] # <<>> /\ m \notin added
    BY <1>2 DEF SendGroupText
  <2>2. Unused(m) /\ \A n \in Msgs \ added : sealed[n] # <<>> /\ Author[n] = Author[m] => n = m
    BY <2>1 DEF Numbers, OneAtATime
  <2>3. NoReuse'
    BY <2>1, <2>2 DEF Numbers, NoReuse, Unused
  <2>4. OneAtATime'
    BY <1>0, <2>1, <2>2 DEF Numbers, OneAtATime, Unused
  <2> QED BY <2>1, <2>3, <2>4
<1> QED BY <1>1, <1>2

\* The rows of an author keep every number.
LEMMA RowsStayStep ==
  ASSUME GroupInv, Copies, Numbers, Lasting, Next, NoReuse',
         \A m \in Msgs : sealed'[m] # <<>> => db[Author[m]].known,
         \A m \in added' \ added : SendGroupText(m)
  PROVE  RowsStay'
<1>0. "purge" \notin Ops /\ "revoke" \notin Ops /\ "retention" \notin Ops
  BY DEF Lasting
<1>1. /\ aged = {} /\ (\A p \in Peers : db[p].revoked = {}) /\ NoReuse
      /\ \A m \in added : db[Author[m]].state = "archived" \/ sealed[m][1] \in db[Author[m]].msgs
  BY DEF Numbers, RowsStay
<1>2. aged' = {} /\ \A p \in Peers : Lasts(p, db[p], db'[p]) /\ Unrevoked(db[p], db'[p])
  BY <1>0, <1>1, NextAges, NextKeeps DEF Keeps
<1>3. \A p \in Peers : db'[p].revoked = {}
  BY <1>0, <1>1, <1>2 DEF Unrevoked
<1>4. \A m \in Msgs : Author[m] \in Peers
  BY GroupAssumption
<1>5. \A m \in Msgs : sealed'[m] # <<>> => db'[Author[m]].known
  BY <1>2, <1>4 DEF Lasts
<1>6. (\A m \in added : m \in added' /\ sealed'[m] = sealed[m] /\ sealed[m] # <<>>) /\ added \subseteq Msgs
      /\ \A m \in added' : m \in Msgs
  BY NextSends, NextSpeaks DEF Sends, Copies, Spoken, GroupInv, TypeOK
<1>7. ASSUME NEW m \in added PROVE db'[Author[m]].state = "archived" \/ sealed'[m][1] \in db'[Author[m]].msgs
  <2>1. db[Author[m]].known /\ Author[m] \in Peers /\ Lasts(Author[m], db[Author[m]], db'[Author[m]])
    BY <1>2, <1>4, <1>6 DEF Numbers, RowsStay
  <2>2. CASE db[Author[m]].state = "archived"
    BY <2>1, <2>2 DEF Lasts
  <2>3. CASE sealed[m][1] \in db[Author[m]].msgs /\ db'[Author[m]].state # "archived"
    <3>1. \/ sealed[m][1] \in db'[Author[m]].msgs
          \/ sealed[m][1].id \in db'[Author[m]].revoked \cup aged
      BY <1>0, <2>1, <2>3 DEF Lasts
    <3> QED BY <1>1, <1>3, <1>6, <2>1, <3>1
  <2> QED BY <1>1, <2>2, <2>3
<1>8. ASSUME NEW m \in added', m \notin added PROVE sealed'[m][1] \in db'[Author[m]].msgs
  <2>1. PICK t : t = sealed[m][1]
    OBVIOUS
  <2>2. m \in Msgs /\ SendGroupText(m)
    BY <1>6, <1>8
  <2>3. /\ sealed' = sealed /\ sealed[m] # <<>>
        /\ db' = [db EXCEPT ![Author[m]] = AddGroupMessage(db[Author[m]], t)]
    BY <2>1, <2>2 DEF SendGroupText
  <2>4. t \in Texts /\ db \in [Peers -> Replicas] /\ db[Author[m]] \in Replicas
    BY <1>4, <2>1, <2>2, <2>3, RoomFacts DEF GroupInv, TypeOK, Fit
  <2>5. t \in AddGroupMessage(db[Author[m]], t).msgs
    BY <2>4, AddRows
  <2> QED BY <1>4, <2>1, <2>2, <2>3, <2>4, <2>5
<1> QED BY <1>2, <1>3, <1>5, <1>7, <1>8 DEF RowsStay

\* The invariant is inductive.
LEMMA NumbersStep == ASSUME GroupInv, Copies, Numbers, Lasting, Next PROVE Numbers'
<1>0. (\A m \in added : m \in added' /\ sealed'[m] = sealed[m]) /\ added \subseteq Msgs
  BY NextSends DEF Sends, GroupInv, TypeOK
<1>1. CASE Quiet \/ \E m \in Msgs : SendGroupText(m)
  <2>1. NoReuse' /\ OneAtATime' /\ \A m \in Msgs : sealed'[m] \in {<<>>, sealed[m]}
    BY <1>1, OldSeals
  <2>2. \A m \in Msgs : sealed'[m] # <<>> => db[Author[m]].known
    BY <2>1 DEF Numbers, RowsStay
  <2>3. \A m \in added' \ added : SendGroupText(m)
    <3>1. CASE added' = added
      BY <3>1
    <3>2. ASSUME NEW n \in Msgs, SendGroupText(n) PROVE \A m \in added' \ added : SendGroupText(m)
      <4>1. added' = added \cup {n}
        BY <3>2 DEF SendGroupText
      <4>2. \A m \in added' \ added : m = n
        BY <4>1
      <4> QED BY <3>2, <4>2
    <3> QED BY <1>1, <3>1, <3>2 DEF Quiet
  <2>4. RowsStay'
    BY <2>1, <2>2, <2>3, RowsStayStep
  <2> QED BY <2>1, <2>4 DEF Numbers
<1>2. ASSUME NEW m \in Msgs, SealText(m) PROVE Numbers'
  <2>1. /\ m \notin added /\ added' = added /\ db' = db
        /\ \A n \in Msgs : n # m => sealed'[n] = sealed[n]
        /\ sealed'[m] # <<>> /\ db[Author[m]].known
        /\ \A n \in added : Author[n] = Author[m] => sealed[n][1].sseq # sealed'[m][1].sseq
    BY <1>2, SealNew DEF Numbers
  <2>2. NoReuse'
    BY <1>0, <2>1 DEF Numbers, NoReuse
  <2>3. RowsStay'
    <3>1. \A n \in Msgs : sealed'[n] # <<>> => db[Author[n]].known
      BY <2>1 DEF Numbers, RowsStay
    <3> QED BY <2>1, <2>2, <3>1, RowsStayStep
  <2>4. \A n \in Msgs \ added : sealed[n] # <<>> => Author[n] # Author[m]
    BY <1>2 DEF SealText, Lasting
  <2>5. OneAtATime'
    BY <1>0, <2>1, <2>4 DEF Numbers, OneAtATime, Unused
  <2> QED BY <2>2, <2>3, <2>5 DEF Numbers
<1> QED BY <1>1, <1>2, NextSeals

\* Two messages an author has stored never carry one sender_seq (SendGroupText,
\* NextGroupSenderSeq), and so never one nonce under the key of an epoch, where the
\* calls of an author do not overlap and messages are neither revoked nor expire.
THEOREM NumbersHold == Spec => [](Ordered /\ Lasting => NoReuse)
<1>1. Init => (Ordered => Delivered) /\ (Ordered /\ Lasting => Numbers)
  <2> SUFFICES ASSUME Init PROVE (Ordered => Delivered) /\ Numbers
    OBVIOUS
  <2>1. added = {} /\ aged = {} /\ \A m \in Msgs : sealed[m] = <<>>
    BY DEF Init
  <2>2. \A p \in Peers : db[p].revoked = {}
    <3>1. Absent.revoked = {}
      BY DEF Absent
    <3> QED BY <3>1, RosterEmpty DEF Init
  <2>3. Numbers
    BY <2>1, <2>2 DEF Numbers, NoReuse, RowsStay, OneAtATime
  <2> QED BY <2>3, DeliveredInit
<1>2. (Ordered => Delivered) /\ (Ordered /\ Lasting => Numbers) /\ [Next]_vars
      => ((Ordered => Delivered) /\ (Ordered /\ Lasting => Numbers))'
  <2> SUFFICES ASSUME Ordered => Delivered, Ordered /\ Lasting => Numbers, [Next]_vars
               PROVE  ((Ordered => Delivered) /\ (Ordered /\ Lasting => Numbers))'
    OBVIOUS
  <2>1. (Ordered => Delivered)'
    BY DeliveredStep
  <2>2. CASE Next
    <3>1. Ordered' = Ordered /\ Lasting' = Lasting
      BY <2>2, ScopeStays DEF Ordered, Lasting, Ops
    <3>2. Ordered /\ Lasting => Numbers'
      BY <2>2, NumbersStep DEF Delivered
    <3> QED BY <2>1, <3>1, <3>2
  <2>3. CASE UNCHANGED vars
    <3>1. Ordered' = Ordered /\ Lasting' = Lasting /\ Numbers' = Numbers
      BY <2>3 DEF vars, stores, threads, network, env, Ordered, Lasting, Ops, Numbers, NoReuse, RowsStay, OneAtATime, Unused
    <3> QED BY <2>1, <3>1
  <2> QED BY <2>2, <2>3
<1>3. (Ordered => Delivered) /\ (Ordered /\ Lasting => Numbers) => (Ordered /\ Lasting => NoReuse)
  BY DEF Numbers
<1> QED BY <1>1, <1>2, <1>3, PTL DEF Spec

==============================================================================
