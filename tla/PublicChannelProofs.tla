------------------------- MODULE PublicChannelProofs -------------------------
(***************************************************************************)
(* Proofs about PublicChannel, for any subscribers, callers, messages,     *)
(* bounds and scopes.                                                      *)
(***************************************************************************)
EXTENDS PublicChannel, FiniteSetTheorems, WellFoundedInduction, TLAPS

-----------------------------------------------------------------------------
(* The inductive invariant                                                  *)

\* A row of a node: a placeholder holds neither messages nor a head.
Sane(d) ==
    /\ d \in Tables /\ IsFiniteSet(d.log)
    /\ Placeholder(d.prof) => Held(d) = {} /\ d.head = NoHead /\ d.pver = 0

\* The steps of each kind of job.
StepsOf(kind) ==
    CASE kind = "sync" -> {"page", "item", "apply", "head", "finish"}
      [] kind = "snapshot" -> {"profile", "head", "messages", "applyprofile", "applyhead", "applymessages"}
      [] kind = "load" -> {"profile", "head", "applyhead", "messages", "applymessages"}
      [] OTHER -> {"idle"}

\* What every job of a node with row d keeps to in situation sc ...
Typed(sc, j, d) ==
    /\ j \in Jobs /\ j.left \subseteq sc.sources /\ j.tries <= sc.attempts
    /\ ~Placeholder(j.prof) => ~Placeholder(d.prof)

\* ... and what its step relies on: the peer it talks to, and a verified
\* profile wherever the next steps write messages.
Sound(sc, j, d) ==
    /\ Typed(sc, j, d)
    /\ j.pc \in StepsOf(j.kind)
    /\ j.src \in sc.sources \cup {NoOne}
    /\ j.pc \in {"item", "apply"} => j.items # {}
    /\ j.pc \in {"item", "apply", "head"} => j.src # NoOne
    /\ j.pc = "apply" => ~Placeholder(IF Earliest(j.items).kind = "profile" THEN j.got ELSE j.prof)
    /\ (j.pc = "apply" /\ Earliest(j.items).kind = "message") => Earliest(j.items).id \in Ids
    /\ (j.kind = "load" /\ j.pc \in {"messages", "applymessages"}) => ~Placeholder(j.prof)
    /\ ((j.kind = "load" /\ j.pc \in {"head", "applyhead"}) \/ j.pc = "applyprofile") => ~Placeholder(j.got)
    /\ (j.kind = "snapshot" /\ j.pc \in {"applyhead", "applymessages"}) => ~Placeholder(d.prof)

\* An owner call has a channel to work on, an edit has a message.
Rooted(k, d) == k.pc # "idle" => d.here /\ (k.op \in Editing => k.id \in Ids)

\* The tables, the calls and the jobs.
Sorted ==
    /\ db \in [Nodes -> Tables] /\ \A n \in Nodes : Sane(db[n])
    /\ topic \subseteq Subs /\ notes \in [Subs -> SUBSET Seqs] /\ aged \subseteq Ids
    /\ call \in [Callers -> Calls]
    /\ \A c \in Callers : Rooted(call[c], db[Owner])
    /\ db[Owner].here => ~Placeholder(db[Owner].prof)
    /\ job \in [Subs -> [Workers -> Jobs]]
    /\ \A s \in Subs, w \in Workers : Sound(scope, job[s][w], db[s])
    /\ pushes \subseteq Seqs /\ pushing \in Seqs \cup {NoPush} /\ stored \in Seqs
    /\ faults \in 0..scope.budget /\ scope \in Scopes

Version(i, m) == [id |-> i, ver |-> m.ver, seq |-> m.seq, del |-> m.del]
Versions == [id : Ids, ver : Nat \ {0}, seq : Seqs, del : BOOLEAN]
Row(x) == [seq |-> x.seq, kind |-> "message", id |-> x.id]

\* The owner's numbers: the changes are numbered without gap up to last_seq,
\* and every signed version is the only one of its number.
Numbered(d, log) ==
    /\ \A n \in 1..d.lastSeq : \E c \in d.log : c.seq = n
    /\ \A c \in d.log : c.seq <= d.lastSeq
    /\ log \subseteq Versions
    /\ \A x \in log :
          /\ x.seq <= d.lastSeq /\ x.id <= d.lastMsg
          /\ d.msgs[x.id].ver >= x.ver /\ Row(x) \in d.log
    /\ \A x, y \in log :
          /\ (x.seq = y.seq \/ (x.id = y.id /\ x.ver = y.ver)) => x = y
          /\ (x.id = y.id /\ x.ver < y.ver) => ~x.del

\* A call that may still commit: nobody has committed since it read the head,
\* and then what it read is what the tables hold.
UpToDate(k, d) ==
    /\ k.head.seq <= d.lastSeq
    /\ k.head.seq = d.lastSeq => k.head.last = d.lastMsg
    /\ (k.head.seq = d.lastSeq /\ k.op \in Editing) =>
          k.id \in Ids /\ k.msg = d.msgs[k.id] /\ k.msg # NoMsg /\ ~k.msg.del
    /\ k.op \notin Editing => k.msg = NoMsg

\* Every copy of a message, stored or under way, was signed by the owner.
Genuine(ms, log) == \A i \in Ids : ms[i] # NoMsg => Version(i, ms[i]) \in log
Carried(j, log) ==
    /\ Genuine(j.msgs, log)
    /\ (j.pc = "apply" /\ Earliest(j.items).kind = "message") => Version(Earliest(j.items).id, j.msg) \in log

\* Until the first message expires.
Books ==
    aged = {} =>
    /\ Numbered(db[Owner], signed)
    /\ \A n \in Nodes : Genuine(db[n].msgs, signed)
    /\ \A s \in Subs, w \in Workers : Carried(job[s][w], signed)
    /\ \A c \in Callers : call[c].pc = "commit" => UpToDate(call[c], db[Owner])
    /\ stored <= db[Owner].lastSeq
    /\ pushing # NoPush => stored <= pushing /\ pushing <= db[Owner].lastSeq

\* Everything signed up to n is in ms, in that version or a later one.
Covers(ms, n, log) == \A x \in log : x.seq <= n => ms[x.id].ver >= x.ver

\* What a job has applied and what its page has left to apply.
SyncCovers(j, ms, last, log) ==
    /\ j.after <= last /\ j.next <= last /\ j.cur <= last
    /\ Covers(ms, j.after, log) /\ Covers(ms, j.next, log)
    /\ j.pc \in {"item", "apply", "head"} =>
          /\ j.cur <= j.last /\ j.last <= last /\ j.page <= last
          /\ j.more => j.page > j.next
          /\ \A c \in j.items : c.seq <= last
          /\ \A x \in log : x.seq <= (IF j.more THEN j.page ELSE j.last) =>
                (ms[x.id].ver >= x.ver \/ Row(x) \in j.items)
    /\ j.pc = "apply" => \A x \in log : Row(x) = Earliest(j.items) => j.msg.ver >= x.ver
    /\ j.pc = "head" => j.items = {}
    /\ j.pc = "finish" => Covers(ms, j.cur, log)
SnapshotCovers(j, last, log) ==
    /\ j.pc \in {"messages", "applyprofile", "applyhead", "applymessages"} => j.hd.seq <= last
    /\ j.pc \in {"applyprofile", "applyhead", "applymessages"} => Covers(j.msgs, j.hd.seq, log)
JobCovers(j, ms, last, log) ==
    /\ j.kind = "sync" => SyncCovers(j, ms, last, log)
    /\ j.kind = "snapshot" => SnapshotCovers(j, last, log)
RowCovers(d, last, log) == d.synced <= last /\ Covers(d.msgs, d.synced, log)

\* The situations SyncedCovers is about.
FromOwner == "exchange" \notin Ops /\ Sources \subseteq {Owner} /\ Cardinality(Ids) <= PageLimit /\ aged = {}

Caught ==
    FromOwner =>
    \A s \in Subs :
       /\ RowCovers(db[s], db[Owner].lastSeq, signed)
       /\ \A w \in Workers : JobCovers(job[s][w], db[s].msgs, db[Owner].lastSeq, signed)

ChannelInv == Sorted /\ Books /\ Caught

-----------------------------------------------------------------------------
(* Numbers                                                                  *)

\* The larger of two numbers.
LEMMA MaxTwo ==
  ASSUME NEW a \in Int, NEW b \in Int
  PROVE  Max({a, b}) = IF a >= b THEN a ELSE b
<1>1. CASE a >= b
  <2>1. \A x \in {a, b} : (\A y \in {a, b} : x >= y) <=> x = a
    BY <1>1
  <2> QED BY <1>1, <2>1 DEF Max
<1>2. CASE ~(a >= b)
  <2>1. \A x \in {a, b} : (\A y \in {a, b} : x >= y) <=> x = b
    BY <1>2
  <2> QED BY <1>2, <2>1 DEF Max
<1> QED BY <1>1, <1>2

\* A nonempty set of natural numbers has a least element.
LEMMA Least ==
  ASSUME NEW T, T \subseteq Nat, T # {}
  PROVE  \E x \in T : \A y \in T : x <= y
<1>1. \E x \in T : \A y \in T : ~(<<y, x>> \in OpToRel(<, Nat))
  BY WFMin, NatLessThanWellFounded
<1>2. \A x, y \in Nat : <<y, x>> \in OpToRel(<, Nat) <=> y < x
  BY DEF OpToRel
<1>3. \E x \in T : \A y \in T : ~(y < x)
  BY <1>1, <1>2, Zenon
<1> QED BY <1>3

\* A nonempty set of numbers up to n has a largest element.
LEMMA MaxOf ==
  ASSUME NEW n \in Nat, NEW T \in SUBSET (0..n), T # {}
  PROVE  Max(T) \in T /\ \A y \in T : y <= Max(T)
<1> DEFINE U == {k \in 0..n : n - k \in T}
<1>1. U \subseteq Nat /\ U # {}
  <2>1. PICK t \in T : TRUE
    OBVIOUS
  <2>2. n - t \in 0..n /\ n - (n - t) = t
    BY <2>1
  <2> QED BY <2>1, <2>2
<1>2. PICK k \in U : \A u \in U : k <= u
  BY <1>1, Least
<1>3. n - k \in T /\ k \in 0..n
  BY <1>2
<1>4. ASSUME NEW y \in T PROVE n - k >= y
  <2>1. n - y \in 0..n /\ n - (n - y) = y
    OBVIOUS
  <2>2. n - y \in U
    BY <2>1
  <2>3. k <= n - y
    BY <1>2, <2>2
  <2>4. y \in 0..n
    OBVIOUS
  <2> HIDE DEF U
  <2> QED BY <1>3, <2>3, <2>4
<1>5. \E x \in T : \A y \in T : x >= y
  BY <1>3, <1>4
<1>6. Max(T) \in T /\ \A y \in T : Max(T) >= y
  BY <1>5 DEF Max
<1> QED BY <1>6

\* The numbers of the module.
LEMMA Numbers ==
  /\ MaxSeq \in Nat /\ Seqs = 0..MaxSeq
  /\ \E n \in Nat \ {0} : Ids = 1..n
  /\ Owner \in Nodes /\ Subs \subseteq Nodes /\ \A s \in Subs : s # Owner /\ s \in Nodes
  /\ NoOne \notin Nodes
  BY ChannelAssumption DEF Seqs, Nodes

\* The earliest change of a page, which FetchItem takes next.
LEMMA EarliestIn ==
  ASSUME NEW T \in SUBSET Changes, T # {}
  PROVE  Earliest(T) \in T
<1> DEFINE U == {c.seq : c \in T}
<1>1. U \subseteq Nat /\ U # {}
  BY Numbers DEF Changes
<1>2. PICK k \in U : \A u \in U : k <= u
  BY <1>1, Least
<1>3. PICK c \in T : c.seq = k
  BY <1>2
<1>4. \A x \in T : c.seq <= x.seq
  BY <1>2, <1>3
<1> QED BY <1>3, <1>4 DEF Earliest

-----------------------------------------------------------------------------
(* The transactions of store.go                                             *)

\* The parts of a row.
LEMMA Columns ==
  ASSUME NEW d \in Tables
  PROVE  /\ d.here \in BOOLEAN /\ d.prof \in Profiles /\ d.pver \in Nat /\ d.lastSeq \in Seqs
         /\ d.lastMsg \in Ids \cup {0} /\ d.head \in Heads /\ d.msgs \in [Ids -> Messages]
         /\ d.log \in SUBSET Changes /\ d.seen \in Seqs /\ d.synced \in Seqs /\ d.sub \in BOOLEAN
  BY DEF Tables

\* The larger of two sequence numbers, and of two message numbers.
LEMMA MaxSeqs ==
  ASSUME NEW a \in Seqs, NEW b \in Seqs
  PROVE  Max({a, b}) \in Seqs /\ Max({a, b}) \in {a, b} /\ Max({a, b}) >= a /\ Max({a, b}) >= b
  BY MaxTwo, Numbers

\* The larger of two message numbers, none counted as 0.
LEMMA MaxIds ==
  ASSUME NEW a \in Ids \cup {0}, NEW b \in Ids \cup {0}
  PROVE  Max({a, b}) \in Ids \cup {0} /\ Max({a, b}) >= a /\ Max({a, b}) >= b
<1>1. a \in Int /\ b \in Int
  BY Numbers
<1> QED BY <1>1, MaxTwo

\* applyProfile with a verified profile leaves the messages alone and never a
\* placeholder behind: one that it keeps is at least as new.
LEMMA ApplyProfileSane ==
  ASSUME NEW d, Sane(d), NEW p \in Profiles, ~Placeholder(p)
  PROVE  LET e == ApplyProfile(d, p)
         IN  /\ Sane(e) /\ ~Placeholder(e.prof)
             /\ e.msgs = d.msgs /\ e.synced = d.synced /\ e.lastSeq = d.lastSeq
<1>1. d \in Tables
  BY DEF Sane
<1>2. p.ver \in Nat /\ d.pver \in Nat /\ d.prof \in Profiles
  BY <1>1, Columns DEF Profiles
<1>3. CASE d.here /\ (p.ver < d.pver \/ (p.ver = d.pver /\ p = d.prof))
  <2>1. ApplyProfile(d, p) = d
    BY <1>3 DEF ApplyProfile
  <2>2. ~Placeholder(d.prof)
    BY <1>2, <1>3 DEF Sane, Placeholder
  <2> QED BY <2>1, <2>2
<1>4. CASE ~(d.here /\ (p.ver < d.pver \/ (p.ver = d.pver /\ p = d.prof)))
  <2> DEFINE e == [d EXCEPT !.here = TRUE, !.prof = p, !.pver = p.ver]
  <2>1. ApplyProfile(d, p) = e
    BY <1>4 DEF ApplyProfile
  <2>2. /\ e \in Tables /\ e.prof = p /\ e.log = d.log
        /\ e.msgs = d.msgs /\ e.synced = d.synced /\ e.lastSeq = d.lastSeq
    BY <1>1, <1>2 DEF Tables
  <2> HIDE DEF e
  <2>3. IsFiniteSet(e.log)
    BY <2>2 DEF Sane
  <2> QED BY <2>1, <2>2, <2>3 DEF Sane
<1> QED BY <1>3, <1>4

\* applyHead writes nothing into a placeholder row.
LEMMA ApplyHeadSane ==
  ASSUME NEW d, Sane(d), NEW h \in Heads
  PROVE  LET e == ApplyHead(d, h)
         IN  Sane(e) /\ e.prof = d.prof /\ e.msgs = d.msgs /\ e.synced = d.synced
<1>1. d \in Tables
  BY DEF Sane
<1>2. CASE ApplyHead(d, h) = d
  BY <1>2
<1>3. CASE ~(ApplyHead(d, h) = d)
  <2> DEFINE e == [d EXCEPT !.lastSeq = h.seq, !.lastMsg = h.last, !.pver = h.pver, !.head = h]
  <2>1. ApplyHead(d, h) = e /\ ~Placeholder(d.prof)
    BY <1>3 DEF ApplyHead
  <2>2. e \in Tables /\ e.prof = d.prof /\ e.log = d.log /\ e.msgs = d.msgs /\ e.synced = d.synced
    BY <1>1 DEF Tables, Heads
  <2> HIDE DEF e
  <2> QED BY <2>1, <2>2 DEF Sane
<1> QED BY <1>2, <1>3

\* applyMessage writes into a row with a profile, and only a newer version.
LEMMA ApplyMessageSane ==
  ASSUME NEW d, Sane(d), ~Placeholder(d.prof), NEW i \in Ids, NEW m \in Messages
  PROVE  LET e == ApplyMessage(d, i, m)
         IN  /\ Sane(e) /\ e.prof = d.prof /\ e.synced = d.synced
             /\ e.msgs = IF m.ver <= d.msgs[i].ver THEN d.msgs ELSE [d.msgs EXCEPT ![i] = m]
<1>1. d \in Tables
  BY DEF Sane
<1>2. CASE m.ver <= d.msgs[i].ver
  BY <1>2 DEF ApplyMessage
<1>3. CASE ~(m.ver <= d.msgs[i].ver)
  <2> DEFINE a == Max({d.lastSeq, m.seq})
             b == Max({d.lastMsg, i})
             e == [d EXCEPT !.msgs[i] = m, !.lastSeq = a, !.lastMsg = b]
  <2>1. ApplyMessage(d, i, m) = e
    BY <1>3 DEF ApplyMessage
  <2>2. a \in Seqs /\ b \in Ids \cup {0}
    BY <1>1, Columns, MaxSeqs, MaxIds DEF Messages
  <2> HIDE DEF a, b
  <2>3. /\ e \in Tables /\ e.prof = d.prof /\ e.log = d.log /\ e.synced = d.synced
        /\ e.msgs = [d.msgs EXCEPT ![i] = m]
    BY <1>1, <2>2 DEF Tables
  <2> HIDE DEF e
  <2> QED BY <1>3, <2>1, <2>3 DEF Sane
<1> QED BY <1>2, <1>3

\* The change rows grow by one at most, the sync state moves forward.
LEMMA RecordChangeSane ==
  ASSUME NEW d, Sane(d), NEW c \in Changes
  PROVE  LET e == RecordChange(d, c)
         IN  Sane(e) /\ e.prof = d.prof /\ e.msgs = d.msgs /\ e.synced = d.synced
<1>1. d \in Tables
  BY DEF Sane
<1>2. CASE RecordChange(d, c) = d
  BY <1>2
<1>3. CASE ~(RecordChange(d, c) = d)
  <2> DEFINE e == [d EXCEPT !.log = @ \cup {c}]
  <2>1. RecordChange(d, c) = e
    BY <1>3 DEF RecordChange
  <2>2. /\ e \in Tables /\ e.prof = d.prof /\ e.msgs = d.msgs /\ e.log = d.log \cup {c}
        /\ e.head = d.head /\ e.pver = d.pver /\ e.synced = d.synced
    BY <1>1 DEF Tables
  <2>3. IsFiniteSet(e.log)
    BY <2>2, FS_AddElement DEF Sane
  <2> HIDE DEF e
  <2> QED BY <2>1, <2>2, <2>3 DEF Sane, Held
<1> QED BY <1>2, <1>3

\* UpdateSyncState moves the cursor and nothing else that the invariant reads.
LEMMA UpdateSyncStateSane ==
  ASSUME NEW d, Sane(d), NEW seq \in Seqs, NEW b \in BOOLEAN
  PROVE  LET e == UpdateSyncState(d, seq, b)
         IN  Sane(e) /\ e.prof = d.prof /\ e.msgs = d.msgs /\ e.synced = Max({d.synced, seq})
<1>1. d \in Tables
  BY DEF Sane
<1> DEFINE u == Max({d.seen, seq})
           v == Max({d.synced, seq})
           e == [d EXCEPT !.seen = u, !.synced = v, !.sub = b]
<1>2. u \in Seqs /\ v \in Seqs
  BY <1>1, Columns, MaxSeqs
<1> HIDE DEF u, v
<1>3. /\ e \in Tables /\ e.prof = d.prof /\ e.msgs = d.msgs /\ e.log = d.log
      /\ e.head = d.head /\ e.pver = d.pver /\ e.synced = v
  BY <1>1, <1>2 DEF Tables
<1>4. UpdateSyncState(d, seq, b) = e
  BY DEF UpdateSyncState, u, v
<1> HIDE DEF e
<1> QED BY <1>3, <1>4 DEF Sane, Held, v

\* EnsureSubscribedChannel leaves profile, messages and cursor alone.
LEMMA EnsureSubscribedSane ==
  ASSUME NEW d, Sane(d), NEW seq \in Seqs
  PROVE  LET e == EnsureSubscribedChannel(d, seq)
         IN  Sane(e) /\ e.prof = d.prof /\ e.msgs = d.msgs /\ e.synced = d.synced
<1>1. d \in Tables
  BY DEF Sane
<1> DEFINE u == Max({d.seen, seq})
           e == [d EXCEPT !.here = TRUE, !.seen = u, !.sub = TRUE]
<1>2. u \in Seqs
  BY <1>1, Columns, MaxSeqs
<1> HIDE DEF u
<1>3. /\ e \in Tables /\ e.prof = d.prof /\ e.msgs = d.msgs /\ e.log = d.log
      /\ e.head = d.head /\ e.pver = d.pver /\ e.synced = d.synced
  BY <1>1, <1>2 DEF Tables
<1>4. EnsureSubscribedChannel(d, seq) = e
  BY DEF EnsureSubscribedChannel, u
<1> HIDE DEF e
<1> QED BY <1>3, <1>4 DEF Sane, Held

\* The retention sweep takes messages and change rows away; without expired
\* messages it does nothing.
LEMMA SweptSane ==
  ASSUME NEW d, Sane(d)
  PROVE  LET e == Swept(d)
         IN  /\ Sane(e) /\ e.prof = d.prof /\ e.synced = d.synced /\ e.here = d.here
             /\ aged = {} => e = d
<1>1. d \in Tables
  BY DEF Sane
<1> DEFINE gone == IF d.prof.limited THEN Held(d) \cap aged ELSE {}
           ms == [i \in Ids |-> IF i \in gone THEN NoMsg ELSE d.msgs[i]]
           log == {c \in d.log : c.id \notin gone}
           e == [d EXCEPT !.msgs = ms, !.log = log]
<1>2. Swept(d) = e
  BY DEF Swept
<1>3. NoMsg \in Messages
  BY Numbers DEF NoMsg, Messages
<1>4. ms \in [Ids -> Messages] /\ log \in SUBSET d.log /\ \A i \in Ids : ms[i] # NoMsg => d.msgs[i] = ms[i]
  BY <1>1, <1>3, Columns
<1>5. aged = {} => ms = d.msgs /\ log = d.log
  <2>1. SUFFICES ASSUME aged = {} PROVE ms = d.msgs /\ log = d.log
    OBVIOUS
  <2>2. gone = {}
    BY <2>1
  <2> HIDE DEF gone
  <2> QED BY <1>1, <2>2, Columns
<1> HIDE DEF ms, log
<1>6. /\ e \in Tables /\ e.prof = d.prof /\ e.msgs = ms /\ e.log = log /\ e.here = d.here
      /\ e.head = d.head /\ e.pver = d.pver /\ e.synced = d.synced
  BY <1>1, <1>4, Columns DEF Tables
<1>7. aged = {} => e = d
  BY <1>1, <1>5 DEF Tables
<1> HIDE DEF e
<1>8. IsFiniteSet(e.log)
  BY <1>4, <1>6, FS_Subset DEF Sane
<1>9. Held(d) = {} => Held(e) = {}
  BY <1>4, <1>6 DEF Held
<1> QED BY <1>2, <1>6, <1>7, <1>8, <1>9 DEF Sane

\* A page of messages: what has not expired and is newer is taken.
LEMMA ApplyMessagesSane ==
  ASSUME NEW d, Sane(d), ~Placeholder(d.prof), NEW p, NEW ms \in [Ids -> Messages]
  PROVE  LET e == ApplyMessages(d, p, ms)
         IN  /\ Sane(e) /\ e.prof = d.prof /\ e.synced = d.synced
             /\ \A i \in Ids : e.msgs[i] = IF ms[i] # NoMsg /\ ~IsMessageExpired(p, i) /\ ms[i].ver > d.msgs[i].ver
                                           THEN ms[i] ELSE d.msgs[i]
<1>1. d \in Tables
  BY DEF Sane
<1> DEFINE new == {i \in Ids : ms[i] # NoMsg /\ ~IsMessageExpired(p, i) /\ ms[i].ver > d.msgs[i].ver}
           T == {d.lastSeq} \cup {ms[i].seq : i \in new}
           U == {d.lastMsg} \cup new
           mm == [i \in Ids |-> IF i \in new THEN ms[i] ELSE d.msgs[i]]
           e == [d EXCEPT !.msgs = mm, !.lastSeq = Max(T), !.lastMsg = Max(U)]
<1>2. ApplyMessages(d, p, ms) = e
  BY DEF ApplyMessages
<1>3. Max(T) \in Seqs
  <2>1. T \in SUBSET (0..MaxSeq) /\ T # {} /\ MaxSeq \in Nat
    BY <1>1, Columns, Numbers DEF Messages
  <2> QED BY <2>1, MaxOf, Numbers
<1>4. Max(U) \in Ids \cup {0}
  <2>1. PICK n \in Nat : Ids = 1..n
    BY Numbers
  <2>2. U \in SUBSET (0..n) /\ U # {}
    BY <1>1, <2>1, Columns
  <2> HIDE DEF U
  <2>3. Max(U) \in 0..n
    BY <2>2, MaxOf
  <2> QED BY <2>1, <2>3
<1>5. mm \in [Ids -> Messages]
  BY <1>1, Columns
<1>6. \A i \in Ids : mm[i] = IF ms[i] # NoMsg /\ ~IsMessageExpired(p, i) /\ ms[i].ver > d.msgs[i].ver
                             THEN ms[i] ELSE d.msgs[i]
  OBVIOUS
<1> HIDE DEF T, U, mm
<1>7. e \in Tables /\ e.prof = d.prof /\ e.log = d.log /\ e.msgs = mm /\ e.synced = d.synced
  BY <1>1, <1>3, <1>4, <1>5 DEF Tables
<1> HIDE DEF e
<1> QED BY <1>2, <1>6, <1>7 DEF Sane

-----------------------------------------------------------------------------
(* Jobs                                                                     *)

\* A job as good as the invariant asks of a node whose row is d.
Fit(j, d) ==
    /\ Sound(scope, j, d)
    /\ aged = {} => Carried(j, signed)
    /\ FromOwner => JobCovers(j, d.msgs, db[Owner].lastSeq, signed)

\* A job that may start over with another peer.
Spare(j, d) ==
    /\ Typed(scope, j, d)
    /\ FromOwner /\ j.kind = "sync" =>
          j.after <= db[Owner].lastSeq /\ Covers(d.msgs, j.after, signed)

\* A situation of the module.
LEMMA ScopeParts ==
  ASSUME scope \in Scopes
  PROVE  /\ scope.sources \in SUBSET Nodes /\ scope.page \in Nat \ {0} /\ scope.chunk \in Nat \ {0}
         /\ scope.attempts \in Nat \ {0} /\ scope.lastSeen \in SUBSET Seqs /\ scope.budget \in Nat
         /\ scope.ids \in SUBSET Ids
  BY ChannelAssumption DEF Scope, Seqs

\* The parts of a job.
LEMMA Locals ==
  ASSUME NEW j \in Jobs
  PROVE  /\ j.pc \in JobSteps /\ j.kind \in JobKinds /\ j.src \in Nodes \cup {NoOne} /\ j.left \in SUBSET Nodes
         /\ j.after \in Seqs /\ j.next \in Seqs /\ j.cur \in Seqs /\ j.last \in Seqs /\ j.page \in Seqs
         /\ j.more \in BOOLEAN /\ j.items \in SUBSET Changes /\ j.tries \in Nat /\ j.before \in Nat
         /\ j.prof \in Profiles /\ j.got \in Profiles /\ j.hd \in Heads /\ j.msg \in Messages
         /\ j.msgs \in [Ids -> Messages]
  BY DEF Jobs

\* The absent profile, head and message, and the names of kinds and steps.
LEMMA NothingTyped ==
  NoMsg \in Messages /\ NoProfile \in Profiles /\ NoHead \in Heads /\ Placeholder(NoProfile)
  BY Numbers DEF NoMsg, Messages, NoProfile, Profiles, NoHead, Heads, Placeholder

\* Kinds and steps have different names.
LEMMA StepNames ==
  /\ JobSteps = {"page", "item", "head", "profile", "messages", "idle", "apply", "finish",
                 "applyprofile", "applyhead", "applymessages"}
  /\ JobKinds = {"none", "sync", "snapshot", "load"}
  BY DEF JobSteps, RpcSteps, JobKinds

\* The idle job is a job.
LEMMA IdleTyped == IdleJob \in Jobs
  BY NothingTyped, Numbers, StepNames DEF IdleJob, Jobs

\* No fetch under way.
LEMMA IdleFit ==
  ASSUME scope \in Scopes, NEW d
  PROVE  Fit(IdleJob, d) /\ Spare(IdleJob, d)
<1>1. IdleJob \in Jobs
  BY IdleTyped
<1>2. /\ IdleJob.pc = "idle" /\ IdleJob.kind = "none" /\ IdleJob.src = NoOne /\ IdleJob.left = {}
      /\ IdleJob.tries = 0 /\ IdleJob.prof = NoProfile /\ IdleJob.msgs = [i \in Ids |-> NoMsg]
  BY DEF IdleJob
<1>3. Typed(scope, IdleJob, d)
  BY <1>1, <1>2, ScopeParts, NothingTyped DEF Typed
<1>4. Sound(scope, IdleJob, d)
  BY <1>2, <1>3 DEF Sound, StepsOf
<1>5. Carried(IdleJob, signed)
  BY <1>2 DEF Carried, Genuine
<1>6. JobCovers(IdleJob, d.msgs, db[Owner].lastSeq, signed)
  BY <1>2 DEF JobCovers
<1> QED BY <1>2, <1>3, <1>4, <1>5, <1>6 DEF Fit, Spare

\* syncAfter starts from a number that is covered.
LEMMA SyncJobFit ==
  ASSUME scope \in Scopes, NEW d, NEW peers \in SUBSET scope.sources, NEW after \in Seqs,
         FromOwner => after <= db[Owner].lastSeq /\ Covers(d.msgs, after, signed)
  PROVE  Fit(SyncJob(peers, after), d)
<1>1. CASE peers = {}
  BY <1>1, IdleFit DEF SyncJob
<1>2. CASE peers # {}
  <2> DEFINE j == [IdleJob EXCEPT !.pc = "page", !.kind = "sync", !.left = peers, !.after = after,
                         !.next = after, !.cur = after]
  <2>1. SyncJob(peers, after) = j
    BY <1>2 DEF SyncJob
  <2>2. peers \in SUBSET Nodes
    BY ScopeParts
  <2>3. j \in Jobs
    BY <2>2, IdleTyped, StepNames DEF Jobs
  <2>4. /\ j.pc = "page" /\ j.kind = "sync" /\ j.left = peers /\ j.after = after /\ j.next = after /\ j.cur = after
        /\ j.src = NoOne /\ j.tries = 0 /\ j.prof = NoProfile /\ j.msgs = [i \in Ids |-> NoMsg]
    BY DEF IdleJob
  <2> HIDE DEF j
  <2>5. Typed(scope, j, d)
    BY <2>3, <2>4, ScopeParts, NothingTyped DEF Typed
  <2>6. Sound(scope, j, d)
    BY <2>4, <2>5 DEF Sound, StepsOf
  <2>7. Carried(j, signed)
    BY <2>4 DEF Carried, Genuine
  <2>8. FromOwner => JobCovers(j, d.msgs, db[Owner].lastSeq, signed)
    BY <2>4 DEF JobCovers, SyncCovers
  <2> QED BY <2>1, <2>6, <2>7, <2>8 DEF Fit
<1> QED BY <1>1, <1>2

\* An attempt of bootstrapSubscriptionAsync.
LEMMA SnapshotJobFit ==
  ASSUME scope \in Scopes, NEW d, NEW peers \in SUBSET scope.sources, NEW seen \in Seqs, NEW tries \in Nat
  PROVE  Fit(SnapshotJob(peers, seen, tries), d)
<1>1. CASE tries > scope.attempts \/ peers = {}
  BY <1>1, IdleFit DEF SnapshotJob
<1>2. CASE ~(tries > scope.attempts \/ peers = {})
  <2> DEFINE j == [IdleJob EXCEPT !.pc = "profile", !.kind = "snapshot", !.left = peers, !.after = seen,
                         !.tries = tries]
  <2>1. SnapshotJob(peers, seen, tries) = j
    BY <1>2 DEF SnapshotJob
  <2>2. peers \in SUBSET Nodes
    BY ScopeParts
  <2>3. j \in Jobs
    BY <2>2, IdleTyped, StepNames DEF Jobs
  <2>4. /\ j.pc = "profile" /\ j.kind = "snapshot" /\ j.left = peers
        /\ j.src = NoOne /\ j.tries = tries /\ j.prof = NoProfile /\ j.msgs = [i \in Ids |-> NoMsg]
    BY DEF IdleJob
  <2> HIDE DEF j
  <2>5. Typed(scope, j, d)
    BY <1>2, <2>3, <2>4, ScopeParts, NothingTyped DEF Typed
  <2>6. Sound(scope, j, d)
    BY <2>4, <2>5 DEF Sound, StepsOf
  <2>7. Carried(j, signed)
    BY <2>4 DEF Carried, Genuine
  <2>8. FromOwner => JobCovers(j, d.msgs, db[Owner].lastSeq, signed)
    BY <2>4 DEF JobCovers, SnapshotCovers
  <2> QED BY <2>1, <2>6, <2>7, <2>8 DEF Fit
<1> QED BY <1>1, <1>2

\* LoadMessagesFromProviders: the messages only with a profile.
LEMMA LoadJobFit ==
  ASSUME scope \in Scopes, NEW d, NEW peers \in SUBSET scope.sources, NEW before \in Nat,
         NEW p \in Profiles, ~Placeholder(p) => ~Placeholder(d.prof),
         NEW pc, pc = (IF Placeholder(p) THEN "profile" ELSE "messages")
  PROVE  LET j == [IdleJob EXCEPT !.kind = "load", !.left = peers, !.before = before, !.prof = p, !.pc = pc]
         IN  Fit(j, d)
<1> DEFINE j == [IdleJob EXCEPT !.kind = "load", !.left = peers, !.before = before, !.prof = p, !.pc = pc]
<1>1. peers \in SUBSET Nodes
  BY ScopeParts
<1>2. pc \in {"profile", "messages"} /\ (pc = "messages" => ~Placeholder(p))
  OBVIOUS
<1>3. j \in Jobs
  <2>1. pc \in JobSteps /\ "load" \in JobKinds
    BY <1>2, StepNames
  <2> QED BY <1>1, <2>1, IdleTyped DEF Jobs
<1>4. /\ j.pc = pc /\ j.kind = "load" /\ j.left = peers
      /\ j.src = NoOne /\ j.tries = 0 /\ j.prof = p /\ j.msgs = [i \in Ids |-> NoMsg]
  BY DEF IdleJob
<1> HIDE DEF j
<1>5. Typed(scope, j, d)
  BY <1>3, <1>4, ScopeParts DEF Typed
<1>6. Sound(scope, j, d)
  BY <1>2, <1>4, <1>5 DEF Sound, StepsOf
<1>7. Carried(j, signed)
  BY <1>2, <1>4 DEF Carried, Genuine
<1>8. FromOwner => JobCovers(j, d.msgs, db[Owner].lastSeq, signed)
  BY <1>4 DEF JobCovers
<1> QED BY <1>6, <1>7, <1>8 DEF Fit, j

\* The next peer, or the next attempt.
LEMMA NextPeerFit ==
  ASSUME scope \in Scopes, NEW d, NEW s, NEW j, Spare(j, d)
  PROVE  Fit(NextPeer(s, j), d)
<1>1. /\ j \in Jobs /\ j.left \in SUBSET scope.sources /\ j.tries <= scope.attempts
      /\ ~Placeholder(j.prof) => ~Placeholder(d.prof)
  BY DEF Spare, Typed
<1>2. j.after \in Seqs /\ j.tries \in Nat /\ j.before \in Nat /\ j.prof \in Profiles /\ j.kind \in JobKinds
  BY <1>1, Locals
<1>3. Peers(s) \in SUBSET scope.sources
  BY DEF Peers, Sources
<1>4. CASE j.left # {} /\ j.kind = "sync"
  BY <1>1, <1>2, <1>4, SyncJobFit DEF NextPeer, Spare
<1>5. CASE j.left # {} /\ j.kind = "snapshot"
  <2> DEFINE k == SnapshotJob(j.left, j.after, j.tries)
  <2>1. NextPeer(s, j) = [k EXCEPT !.tries = j.tries]
    BY <1>5 DEF NextPeer
  <2>2. k = [IdleJob EXCEPT !.pc = "profile", !.kind = "snapshot", !.left = j.left, !.after = j.after, !.tries = j.tries]
    BY <1>1, <1>2, <1>5, ScopeParts DEF SnapshotJob
  <2>3. [k EXCEPT !.tries = j.tries] = k
    BY <2>2 DEF IdleJob
  <2> HIDE DEF k
  <2>4. NextPeer(s, j) = k
    BY <2>1, <2>3
  <2> QED BY <1>1, <1>2, <2>4, SnapshotJobFit DEF k
<1>6. CASE j.left # {} /\ j.kind = "load"
  BY <1>1, <1>2, <1>6, LoadJobFit DEF NextPeer
<1>7. CASE j.left = {} /\ j.kind = "snapshot"
  BY <1>2, <1>3, <1>7, SnapshotJobFit DEF NextPeer
<1>8. CASE ~(j.left # {} /\ j.kind \in {"sync", "snapshot", "load"}) /\ ~(j.left = {} /\ j.kind = "snapshot")
  <2>1. NextPeer(s, j) = IdleJob
    BY <1>8 DEF NextPeer
  <2> QED BY <2>1, IdleFit
<1> QED BY <1>4, <1>5, <1>6, <1>7, <1>8

\* A verification error.
LEMMA GiveUpFit ==
  ASSUME scope \in Scopes, NEW d, NEW s, NEW j \in Jobs
  PROVE  Fit(GiveUp(s, j), d)
<1>1. Peers(s) \in SUBSET scope.sources /\ j.after \in Seqs /\ j.tries + 1 \in Nat
  BY Locals DEF Peers, Sources
<1> QED BY <1>1, SnapshotJobFit, IdleFit DEF GiveUp

-----------------------------------------------------------------------------
(* The steps of a job                                                       *)

\* The row of a subscriber moves on from d to e: nothing newer is lost, and the
\* cursor passes only what is there.
RowFit(d, e) ==
    /\ Sane(e) /\ (~Placeholder(d.prof) => ~Placeholder(e.prof))
    /\ aged = {} => Genuine(e.msgs, signed) /\ \A i \in Ids : e.msgs[i].ver >= d.msgs[i].ver
    /\ FromOwner => RowCovers(e, db[Owner].lastSeq, signed)

\* A step of worker w of subscriber s.
Moves(s, w) ==
    \E e, j : /\ db' = [db EXCEPT ![s] = e] /\ job' = [job EXCEPT ![s][w] = j]
              /\ RowFit(db[s], e) /\ Fit(j, e)

\* What the invariant says of one worker.
LEMMA AtWork ==
  ASSUME ChannelInv, NEW s \in Subs, NEW w \in Workers
  PROVE  /\ Fit(job[s][w], db[s]) /\ RowFit(db[s], db[s]) /\ Sane(db[s])
         /\ scope \in Scopes /\ db = [db EXCEPT ![s] = db[s]]
         /\ Typed(scope, job[s][w], db[s]) /\ job[s][w] \in Jobs
         /\ s \in Nodes /\ s # Owner
<1>1. s \in Nodes /\ s # Owner
  BY Numbers
<1>2. Sane(db[s]) /\ scope \in Scopes /\ db \in [Nodes -> Tables] /\ Sound(scope, job[s][w], db[s])
  BY <1>1 DEF ChannelInv, Sorted
<1>3. aged = {} => Genuine(db[s].msgs, signed) /\ Carried(job[s][w], signed)
  BY <1>1 DEF ChannelInv, Books
<1>4. \A i \in Ids : db[s].msgs[i].ver >= db[s].msgs[i].ver
  BY <1>2, Columns DEF Sane, Messages
<1>5. FromOwner => /\ RowCovers(db[s], db[Owner].lastSeq, signed)
                   /\ JobCovers(job[s][w], db[s].msgs, db[Owner].lastSeq, signed)
  BY DEF ChannelInv, Caught
<1>6. Typed(scope, job[s][w], db[s]) /\ job[s][w] \in Jobs
  BY <1>2 DEF Sound, Typed
<1>7. db = [db EXCEPT ![s] = db[s]]
  BY <1>1, <1>2
<1> QED BY <1>1, <1>2, <1>3, <1>4, <1>5, <1>6, <1>7 DEF Fit, RowFit

\* A step that only changes the job.
LEMMA JobOnly ==
  ASSUME ChannelInv, NEW s \in Subs, NEW w \in Workers, NEW j,
         db' = db, Put(s, w, j), Fit(j, db[s])
  PROVE  Moves(s, w)
<1>1. db' = [db EXCEPT ![s] = db[s]] /\ RowFit(db[s], db[s])
  BY AtWork
<1> QED BY <1>1 DEF Moves, Put

\* A job that has a peer or gives one up can still start over.
LEMMA SpareAt ==
  ASSUME scope \in Scopes, NEW d, NEW j, Fit(j, d)
  PROVE  /\ Spare(j, d)
         /\ \A p \in Nodes : Spare(At(j, p), d)
         /\ \A p \in Nodes : Spare([j EXCEPT !.left = @ \ {p}], d)
<1>1. /\ Typed(scope, j, d) /\ j \in Jobs
      /\ FromOwner /\ j.kind = "sync" => j.after <= db[Owner].lastSeq /\ Covers(d.msgs, j.after, signed)
  BY DEF Fit, Sound, Typed, JobCovers, SyncCovers
<1>2. ASSUME NEW p \in Nodes
      PROVE  Spare(At(j, p), d)
  <2> DEFINE k == [j EXCEPT !.src = p, !.left = @ \ {p}]
  <2>1. /\ k \in Jobs /\ k.left = j.left \ {p} /\ k.tries = j.tries /\ k.prof = j.prof
        /\ k.kind = j.kind /\ k.after = j.after
    BY <1>1 DEF Jobs
  <2>2. At(j, p) = k
    BY DEF At
  <2> HIDE DEF k
  <2> QED BY <1>1, <2>1, <2>2 DEF Spare, Typed
<1>3. ASSUME NEW p \in Nodes
      PROVE  Spare([j EXCEPT !.left = @ \ {p}], d)
  <2> DEFINE k == [j EXCEPT !.left = @ \ {p}]
  <2>1. /\ k \in Jobs /\ k.left = j.left \ {p} /\ k.tries = j.tries /\ k.prof = j.prof
        /\ k.kind = j.kind /\ k.after = j.after
    BY <1>1 DEF Jobs
  <2> HIDE DEF k
  <2>2. Spare(k, d)
    BY <1>1, <2>1 DEF Spare, Typed
  <2> QED BY <2>2 DEF k
<1> QED BY <1>1, <1>2, <1>3 DEF Spare

\* The peer of an RPC is a node the situation allows.
LEMMA PeerIn ==
  ASSUME scope \in Scopes, NEW d, NEW j, Sound(scope, j, d), NEW p \in Peer(j), j.left # {} \/ j.src # NoOne
  PROVE  p \in Nodes /\ p \in scope.sources
<1>1. j.left \subseteq scope.sources /\ j.src \in scope.sources \cup {NoOne}
  BY DEF Sound, Typed
<1> QED BY <1>1, ScopeParts DEF Peer

\* GetChannelChanges: a page holds the next changes without gap.
LEMMA PageOf ==
  ASSUME NEW d, Sane(d), NEW after \in Seqs, scope \in Scopes
  PROVE  LET r == GetChannelChanges(d, after)
         IN  /\ r.items \in SUBSET Changes /\ r.items \subseteq d.log /\ r.more \in BOOLEAN
             /\ r.next \in Seqs /\ r.last = d.lastSeq
             /\ r.next = after \/ \E c \in d.log : r.next = c.seq
             /\ r.more => r.next > after
             /\ \A c \in d.log : (c.seq > after /\ (r.more => c.seq <= r.next)) => c \in r.items
<1> DEFINE later == {c \in d.log : c.seq > after}
           before(c) == {x \in later : x.seq < c.seq}
           page == {c \in later : Cardinality(before(c)) < ChangesLimit}
           S == {c.seq : c \in page}
           r == GetChannelChanges(d, after)
<1>1. /\ r.items = page /\ r.more = (page # later) /\ r.last = d.lastSeq
      /\ r.next = IF page = {} THEN after ELSE Max(S)
  BY DEF GetChannelChanges
<1>2. d.log \in SUBSET Changes /\ IsFiniteSet(d.log) /\ \A c \in Changes : c.seq \in Seqs
  BY Columns DEF Sane, Changes
<1>3. ChangesLimit \in Nat \ {0}
  BY ScopeParts DEF ChangesLimit
<1>4. ASSUME page # {}
      PROVE  Max(S) \in Seqs /\ (\E c \in page : Max(S) = c.seq) /\ Max(S) > after /\ \A c \in page : c.seq <= Max(S)
  <2>1. S \in SUBSET (0..MaxSeq) /\ S # {} /\ MaxSeq \in Nat
    BY <1>2, <1>4, Numbers
  <2>2. Max(S) \in S /\ \A y \in S : y <= Max(S)
    BY <2>1, MaxOf
  <2>3. PICK c \in page : Max(S) = c.seq
    BY <2>2
  <2> QED BY <1>2, <2>2, <2>3, Numbers
<1>5. \A c \in later : IsFiniteSet(before(c)) /\ Cardinality(before(c)) \in Nat
  <2>1. SUFFICES ASSUME NEW c \in later
                 PROVE  IsFiniteSet(before(c)) /\ Cardinality(before(c)) \in Nat
    OBVIOUS
  <2>2. before(c) \subseteq d.log
    OBVIOUS
  <2> QED BY <1>2, <2>2, FS_Subset, FS_CardinalityType
<1>6. later # {} => page # {}
  <2>1. SUFFICES ASSUME later # {} PROVE page # {}
    OBVIOUS
  <2>2. {c.seq : c \in later} \subseteq Nat /\ {c.seq : c \in later} # {}
    BY <1>2, <2>1, Numbers
  <2>3. PICK n \in {c.seq : c \in later} : \A k \in {c.seq : c \in later} : n <= k
    BY <2>2, Least
  <2>4. PICK c \in later : c.seq = n
    BY <2>3
  <2>5. before(c) = {}
    BY <1>2, <2>2, <2>3, <2>4
  <2>6. Cardinality(before(c)) = 0
    BY <2>5, FS_EmptySet, Zenon
  <2> HIDE DEF before
  <2> QED BY <1>3, <2>4, <2>6
<1>7. ASSUME NEW c \in d.log, c.seq > after, page # later => c.seq <= Max(S)
      PROVE  c \in page
  <2>1. c \in later
    BY <1>7
  <2>2. CASE page = later
    BY <2>1, <2>2
  <2>3. CASE page # later
    <3>1. page # {}
      BY <1>6, <2>3
    <3>2. PICK y \in page : Max(S) = y.seq
      BY <1>4, <3>1
    <3>3. c.seq <= y.seq /\ y \in later /\ Cardinality(before(y)) < ChangesLimit
      BY <1>7, <2>3, <3>2
    <3>4. before(c) \subseteq before(y)
      BY <1>2, <2>1, <3>3, Numbers
    <3>5. Cardinality(before(c)) <= Cardinality(before(y))
      BY <1>5, <3>3, <3>4, FS_Subset
    <3>6. Cardinality(before(c)) \in Nat /\ Cardinality(before(y)) \in Nat
      BY <1>5, <2>1, <3>3
    <3> HIDE DEF before
    <3> QED BY <1>3, <2>1, <3>3, <3>5, <3>6
  <2> QED BY <2>2, <2>3
<1>8. page \subseteq d.log
  OBVIOUS
<1> HIDE DEF page, S, later, r
<1>9. page # later => page # {}
  BY <1>6, <1>8 DEF page
<1>10. r.more = (page # later) /\ (r.more => r.next = Max(S))
  BY <1>1, <1>9
<1>11. r.items \in SUBSET Changes /\ r.items \subseteq d.log /\ r.more \in BOOLEAN /\ r.last = d.lastSeq
  BY <1>1, <1>2, <1>8
<1>12. r.next \in Seqs /\ (r.next = after \/ \E c \in d.log : r.next = c.seq)
  BY <1>1, <1>4, <1>8
<1>13. r.more => r.next > after
  BY <1>4, <1>9, <1>10
<1>14. \A c \in d.log : (c.seq > after /\ (r.more => c.seq <= r.next)) => c \in r.items
  BY <1>1, <1>7, <1>10
<1> QED BY <1>11, <1>12, <1>13, <1>14 DEF r

\* The job that has fetched a page.
Pages == [items : SUBSET Changes, more : BOOLEAN, last : Seqs, next : Seqs]
Paged(j, p, r, prof) ==
    [At(j, p) EXCEPT !.pc = IF r.items = {} THEN "head" ELSE "item",
                     !.items = r.items, !.more = r.more, !.page = r.next, !.last = r.last, !.prof = prof]

\* The fields of a job that has received a page.
LEMMA PagedJob ==
  ASSUME NEW j \in Jobs, NEW p \in Nodes, NEW r \in Pages, NEW prof \in Profiles
  PROVE  LET k == Paged(j, p, r, prof)
         IN  /\ k \in Jobs /\ k.pc = (IF r.items = {} THEN "head" ELSE "item")
             /\ k.kind = j.kind /\ k.src = p /\ k.left = j.left \ {p}
             /\ k.after = j.after /\ k.next = j.next /\ k.cur = j.cur /\ k.last = r.last
             /\ k.page = r.next /\ k.more = r.more /\ k.items = r.items /\ k.tries = j.tries /\ k.prof = prof
             /\ k.msgs = j.msgs
<1> DEFINE pc == IF r.items = {} THEN "head" ELSE "item"
           items == r.items
           more == r.more
           last == r.last
           next == r.next
<1>1. pc \in JobSteps /\ items \in SUBSET Changes /\ more \in BOOLEAN /\ last \in Seqs /\ next \in Seqs
  BY StepNames DEF Pages
<1> DEFINE k == [[j EXCEPT !.src = p, !.left = @ \ {p}] EXCEPT
                    !.pc = pc, !.items = items, !.more = more, !.page = next, !.last = last, !.prof = prof]
<1>2. Paged(j, p, r, prof) = k
  BY DEF Paged, At
<1> HIDE DEF pc, items, more, last, next
<1>3. /\ k \in Jobs /\ k.pc = pc
      /\ k.kind = j.kind /\ k.src = p /\ k.left = j.left \ {p}
      /\ k.after = j.after /\ k.next = j.next /\ k.cur = j.cur /\ k.last = last
      /\ k.page = next /\ k.more = more /\ k.items = items /\ k.tries = j.tries /\ k.prof = prof
      /\ k.msgs = j.msgs
  BY <1>1 DEF Jobs
<1> HIDE DEF k
<1> QED BY <1>2, <1>3 DEF pc, items, more, last, next

\* A page is fetched: what is left to apply is on it.
LEMMA FetchPageMoves ==
  ASSUME ChannelInv, NEW s \in Subs, NEW w \in Workers, FetchPage(s, w)
  PROVE  Moves(s, w)
<1> DEFINE j == job[s][w]
           d == db[s]
<1>1. Fit(j, d) /\ Sane(d) /\ scope \in Scopes /\ j \in Jobs /\ Typed(scope, j, d) /\ Sound(scope, j, d)
  BY AtWork DEF Fit
<1>2. j.pc = "page" /\ j.kind = "sync"
  BY <1>1, StepNames, Locals DEF FetchPage, Sound, StepsOf
<1>3. PICK p \in Peer(j) :
        LET r == GetChannelChanges(db[p], j.next)
        IN  Put(s, w, IF ~db[p].here THEN NextPeer(s, At(j, p))
                      ELSE [At(j, p) EXCEPT !.pc = IF r.items = {} THEN "head" ELSE "item",
                               !.items = r.items, !.more = r.more, !.page = r.next,
                               !.last = r.last, !.prof = db[s].prof])
  BY DEF FetchPage
<1>4. p \in Nodes /\ p \in scope.sources /\ Sane(db[p])
  <2>1. p \in Nodes /\ p \in scope.sources
    BY <1>1, PeerIn, <1>3 DEF Peer
  <2> QED BY <2>1 DEF ChannelInv, Sorted
<1>5. db' = db
  BY DEF FetchPage
<1>6. CASE ~db[p].here
  <2>1. Fit(NextPeer(s, At(j, p)), d)
    BY <1>1, <1>4, SpareAt, NextPeerFit
  <2> QED BY <1>3, <1>5, <1>6, <2>1, JobOnly
<1>7. CASE db[p].here
  <2> DEFINE r == GetChannelChanges(db[p], j.next)
             k == [At(j, p) EXCEPT !.pc = IF r.items = {} THEN "head" ELSE "item",
                               !.items = r.items, !.more = r.more, !.page = r.next,
                               !.last = r.last, !.prof = db[s].prof]
  <2>1. Put(s, w, k)
    BY <1>3, <1>7
  <2>2. j.next \in Seqs /\ d.prof \in Profiles /\ db[p].lastSeq \in Seqs
    BY <1>1, <1>4, Locals, Columns DEF Sane
  <2>3. /\ r.items \in SUBSET Changes /\ r.items \subseteq db[p].log /\ r.more \in BOOLEAN
        /\ r.next \in Seqs /\ r.last = db[p].lastSeq
        /\ r.next = j.next \/ \E c \in db[p].log : r.next = c.seq
        /\ r.more => r.next > j.next
        /\ \A c \in db[p].log : (c.seq > j.next /\ (r.more => c.seq <= r.next)) => c \in r.items
    BY <1>1, <1>4, <2>2, PageOf
  <2> HIDE DEF r
  <2>4. /\ k \in Jobs /\ k.pc = (IF r.items = {} THEN "head" ELSE "item") /\ k.kind = "sync" /\ k.src = p
        /\ k.left = j.left \ {p} /\ k.after = j.after /\ k.next = j.next /\ k.cur = j.cur /\ k.last = r.last
        /\ k.page = r.next /\ k.more = r.more /\ k.items = r.items /\ k.tries = j.tries /\ k.prof = d.prof
        /\ k.msgs = j.msgs
    <3>1. k = Paged(j, p, r, d.prof)
      BY DEF Paged
    <3>2. r \in Pages
      BY <2>2, <2>3 DEF r, GetChannelChanges, Pages
    <3> HIDE DEF k
    <3> QED BY <1>1, <1>2, <1>4, <2>2, <3>1, <3>2, PagedJob
  <2> HIDE DEF k
  <2>5. Typed(scope, k, d)
    BY <1>1, <2>4 DEF Typed
  <2>6. Sound(scope, k, d)
    BY <1>4, <2>4, <2>5, Numbers DEF Sound, StepsOf
  <2>7. aged = {} => Carried(k, signed)
    BY <1>1, <2>4 DEF Fit, Carried
  <2>8. ASSUME FromOwner
        PROVE  SyncCovers(k, d.msgs, db[Owner].lastSeq, signed)
    <3> DEFINE last == db[Owner].lastSeq
    <3>1. p = Owner
      BY <1>4, <2>8 DEF FromOwner, Sources
    <3>2. /\ Numbered(db[Owner], signed)
          /\ SyncCovers(j, d.msgs, last, signed)
      BY <1>1, <1>2, <2>8 DEF ChannelInv, Books, FromOwner, Fit, JobCovers
    <3>3. /\ j.after <= last /\ j.next <= last /\ j.cur <= last
          /\ Covers(d.msgs, j.after, signed) /\ Covers(d.msgs, j.next, signed)
      BY <3>2 DEF SyncCovers
    <3>4. r.last = last /\ r.next <= last /\ \A c \in r.items : c.seq <= last
      BY <2>3, <3>1, <3>2, <3>3 DEF Numbered
    <3>5. ASSUME NEW x \in signed, x.seq <= (IF r.more THEN r.next ELSE r.last)
          PROVE  d.msgs[x.id].ver >= x.ver \/ Row(x) \in r.items
      <4>1. Row(x) \in db[Owner].log /\ Row(x).seq = x.seq /\ x.seq \in Seqs
        BY <3>2 DEF Numbered, Row, Versions
      <4>2. CASE x.seq <= j.next
        BY <3>3, <4>2 DEF Covers
      <4>3. CASE x.seq > j.next
        BY <2>3, <3>1, <3>5, <4>1, <4>3
      <4> QED BY <2>2, <4>1, <4>2, <4>3, Numbers
    <3> HIDE DEF last
    <3>6. k.pc \in {"head", "item"} /\ (k.pc = "head" => k.items = {})
      BY <2>4
    <3>7. k.cur <= k.last /\ k.last <= last /\ k.page <= last
      BY <2>3, <2>4, <3>3, <3>4, <2>2, Numbers DEF last
    <3>8. \A x \in signed : x.seq <= (IF k.more THEN k.page ELSE k.last) =>
                (d.msgs[x.id].ver >= x.ver \/ Row(x) \in k.items)
      BY <2>4, <3>5
    <3>9. (k.more => k.page > k.next) /\ \A c \in k.items : c.seq <= last
      BY <2>3, <2>4, <3>4
    <3> QED BY <2>4, <3>3, <3>6, <3>7, <3>8, <3>9 DEF SyncCovers, last
  <2>9. Fit(k, d)
    BY <2>4, <2>6, <2>7, <2>8 DEF Fit, JobCovers
  <2> QED BY <1>5, <2>1, <2>9, JobOnly
<1> QED BY <1>6, <1>7

\* What is covered stays covered when the row moves on.
LEMMA CoversKept ==
  ASSUME ChannelInv, NEW d, Sane(d), NEW e, RowFit(d, e), FromOwner, NEW n, Covers(d.msgs, n, signed)
  PROVE  Covers(e.msgs, n, signed)
<1>1. signed \subseteq Versions /\ \A i \in Ids : e.msgs[i].ver >= d.msgs[i].ver
  BY DEF ChannelInv, Books, FromOwner, Numbered, RowFit
<1>2. d.msgs \in [Ids -> Messages] /\ e.msgs \in [Ids -> Messages]
  BY Columns DEF RowFit, Sane
<1>3. ASSUME NEW x \in signed, x.seq <= n PROVE e.msgs[x.id].ver >= x.ver
  <2>1. x.id \in Ids /\ x.ver \in Nat /\ d.msgs[x.id].ver >= x.ver
    BY <1>1, <1>3 DEF Covers, Versions
  <2>2. d.msgs[x.id].ver \in Nat /\ e.msgs[x.id].ver \in Nat
    BY <1>2, <2>1 DEF Messages
  <2> QED BY <1>1, <2>1, <2>2
<1> QED BY <1>3 DEF Covers

\* A job stays as good when the row moves on, by the other worker too.
LEMMA FitKept ==
  ASSUME ChannelInv, NEW d, Sane(d), NEW e, RowFit(d, e), NEW j, Fit(j, d)
  PROVE  Fit(j, e)
<1>1. Sound(scope, j, e)
  BY DEF Fit, RowFit, Sound, Typed
<1>2. ASSUME FromOwner, j.kind = "sync"
      PROVE  SyncCovers(j, e.msgs, db[Owner].lastSeq, signed)
  <2>1. SyncCovers(j, d.msgs, db[Owner].lastSeq, signed)
    BY <1>2 DEF Fit, JobCovers
  <2>2. Covers(e.msgs, j.after, signed) /\ Covers(e.msgs, j.next, signed)
    BY <1>2, <2>1, CoversKept DEF SyncCovers
  <2>3. j.pc = "finish" => Covers(e.msgs, j.cur, signed)
    BY <1>2, <2>1, CoversKept DEF SyncCovers
  <2>4. ASSUME NEW x \in signed, d.msgs[x.id].ver >= x.ver
        PROVE  e.msgs[x.id].ver >= x.ver
    <3>1. signed \subseteq Versions /\ \A i \in Ids : e.msgs[i].ver >= d.msgs[i].ver
      BY <1>2 DEF ChannelInv, Books, FromOwner, Numbered, RowFit
    <3>2. x.id \in Ids /\ x.ver \in Nat
      BY <3>1 DEF Versions
    <3>3. d.msgs[x.id].ver \in Nat /\ e.msgs[x.id].ver \in Nat
      BY <3>2, Columns DEF RowFit, Sane, Messages
    <3> QED BY <2>4, <3>1, <3>2, <3>3
  <2> QED BY <2>1, <2>2, <2>3, <2>4 DEF SyncCovers
<1>3. FromOwner => JobCovers(j, e.msgs, db[Owner].lastSeq, signed)
  BY <1>2 DEF Fit, JobCovers
<1> QED BY <1>1, <1>3 DEF Fit

\* A step that changes the row and the job.
LEMMA BothMove ==
  ASSUME ChannelInv, NEW s \in Subs, NEW w \in Workers, NEW j, NEW e,
         PutDb(s, e), Put(s, w, j), RowFit(db[s], e), Fit(j, e)
  PROVE  Moves(s, w)
  BY DEF Moves, Put, PutDb

\* A row whose messages and cursor are the same.
LEMMA SameFit ==
  ASSUME ChannelInv, NEW s \in Subs, NEW w \in Workers, NEW e, Sane(e),
         ~Placeholder(db[s].prof) => ~Placeholder(e.prof),
         aged = {} => e.msgs = db[s].msgs, e.synced = db[s].synced
  PROVE  RowFit(db[s], e)
<1>1. RowFit(db[s], db[s])
  BY AtWork
<1> QED BY <1>1 DEF RowFit, RowCovers, FromOwner

\* The profile or the message of the next change.
LEMMA FetchItemMoves ==
  ASSUME ChannelInv, NEW s \in Subs, NEW w \in Workers, FetchItem(s, w)
  PROVE  Moves(s, w)
<1> DEFINE j == job[s][w]
           d == db[s]
           c == Earliest(j.items)
           p == db[j.src]
           fails == IF c.kind = "profile" THEN ~ProfileVerifies(p) ELSE c.id \notin Held(p) \/ Placeholder(j.prof)
<1>1. Fit(j, d) /\ Sane(d) /\ scope \in Scopes /\ j \in Jobs /\ Typed(scope, j, d) /\ Sound(scope, j, d)
  BY AtWork DEF Fit
<1>2. j.pc = "item" /\ j.kind = "sync"
  BY <1>1, StepNames, Locals DEF FetchItem, Sound, StepsOf
<1>3. c \in Changes /\ c \in j.items
  BY <1>1, <1>2, EarliestIn, Locals DEF Sound
<1>4. j.src \in Nodes /\ j.src \in scope.sources /\ Sane(p)
  <2>1. j.src \in Nodes /\ j.src \in scope.sources
    BY <1>1, <1>2, ScopeParts DEF Sound
  <2> QED BY <2>1 DEF ChannelInv, Sorted
<1>5. db' = db
  BY DEF FetchItem
<1>6. Put(s, w, IF fails THEN NextPeer(s, j)
                     ELSE IF c.kind = "profile" THEN [j EXCEPT !.pc = "apply", !.got = p.prof]
                     ELSE [j EXCEPT !.pc = "apply", !.msg = p.msgs[c.id]])
  BY DEF FetchItem
<1>7. CASE fails
  <2>1. Fit(NextPeer(s, j), d)
    BY <1>1, SpareAt, NextPeerFit
  <2> QED BY <1>5, <1>6, <1>7, <2>1, JobOnly
<1>8. CASE ~fails /\ c.kind = "profile"
  <2> DEFINE g == p.prof
             k == [j EXCEPT !.pc = "apply", !.got = g]
  <2>1. Put(s, w, k) /\ g \in Profiles /\ ~Placeholder(g)
    BY <1>4, <1>6, <1>8, Columns DEF ProfileVerifies, Sane
  <2> HIDE DEF g
  <2>2. /\ k \in Jobs /\ k.pc = "apply" /\ k.kind = "sync" /\ k.src = j.src /\ k.left = j.left /\ k.got = g
        /\ k.after = j.after /\ k.next = j.next /\ k.cur = j.cur /\ k.last = j.last /\ k.page = j.page
        /\ k.more = j.more /\ k.items = j.items /\ k.tries = j.tries /\ k.prof = j.prof /\ k.msgs = j.msgs
    BY <1>1, <1>2, <2>1, StepNames DEF Jobs
  <2> HIDE DEF k
  <2>3. Sound(scope, k, d)
    BY <1>1, <1>2, <1>8, <2>1, <2>2 DEF Sound, Typed, StepsOf
  <2>4. aged = {} => Carried(k, signed)
    BY <1>1, <1>8, <2>2 DEF Fit, Carried
  <2>5. \A x \in signed : Row(x) # Earliest(k.items)
    BY <1>8, <2>2 DEF Row
  <2>6. FromOwner => JobCovers(k, d.msgs, db[Owner].lastSeq, signed)
    BY <1>1, <1>2, <2>2, <2>5 DEF Fit, JobCovers, SyncCovers
  <2> QED BY <1>5, <2>1, <2>3, <2>4, <2>6, JobOnly DEF Fit
<1>9. CASE ~fails /\ c.kind # "profile"
  <2> DEFINE m == p.msgs[c.id]
             k == [j EXCEPT !.pc = "apply", !.msg = m]
  <2>1. c.id \in Held(p) /\ ~Placeholder(j.prof) /\ Put(s, w, k)
    BY <1>6, <1>9
  <2>2. c.id \in Ids /\ m # NoMsg /\ m \in Messages /\ c.kind = "message"
    BY <1>3, <1>4, <1>9, <2>1, Columns DEF Held, Sane, Changes
  <2>3. aged = {} => Version(c.id, m) \in signed
    BY <1>4, <2>2 DEF ChannelInv, Books, Genuine
  <2>4. ASSUME FromOwner, NEW x \in signed, Row(x) = c
        PROVE  m.ver >= x.ver
    <3>1. x.id = c.id /\ j.src = Owner
      BY <1>4, <2>4 DEF Row, FromOwner, Sources
    <3> QED BY <2>4, <3>1 DEF ChannelInv, Books, FromOwner, Numbered
  <2> HIDE DEF m
  <2>5. /\ k \in Jobs /\ k.pc = "apply" /\ k.kind = "sync" /\ k.src = j.src /\ k.left = j.left /\ k.msg = m
        /\ k.after = j.after /\ k.next = j.next /\ k.cur = j.cur /\ k.last = j.last /\ k.page = j.page
        /\ k.more = j.more /\ k.items = j.items /\ k.tries = j.tries /\ k.prof = j.prof /\ k.msgs = j.msgs
    BY <1>1, <1>2, <2>2, StepNames DEF Jobs
  <2> HIDE DEF k
  <2>6. Sound(scope, k, d)
    BY <1>1, <1>2, <2>1, <2>2, <2>5 DEF Sound, Typed, StepsOf
  <2>7. aged = {} => Carried(k, signed)
    BY <1>1, <2>3, <2>5 DEF Fit, Carried
  <2>8. FromOwner => JobCovers(k, d.msgs, db[Owner].lastSeq, signed)
    BY <1>1, <1>2, <2>4, <2>5 DEF Fit, JobCovers, SyncCovers
  <2> QED BY <1>5, <2>1, <2>6, <2>7, <2>8, JobOnly DEF Fit
<1> QED BY <1>7, <1>8, <1>9

\* The job that has applied a change of its page, which is off the list.
Rest(j, p) ==
    [j EXCEPT !.items = @ \ {Earliest(j.items)}, !.got = NoProfile, !.msg = NoMsg,
              !.pc = IF j.items = {Earliest(j.items)} THEN "head" ELSE "item", !.prof = p]

\* The job after its earliest change fits the row that holds it.
LEMMA RestFit ==
  ASSUME ChannelInv, NEW d, NEW e, Sane(d), RowFit(d, e), NEW j \in Jobs, Fit(j, d),
         j.pc = "apply", NEW p \in Profiles, ~Placeholder(p) => ~Placeholder(e.prof),
         FromOwner => \A x \in signed : Row(x) = Earliest(j.items) => e.msgs[x.id].ver >= x.ver
  PROVE  Fit(Rest(j, p), e)
<1> DEFINE k == Rest(j, p)
           c == Earliest(j.items)
           rest == j.items \ {c}
           pc == IF j.items = {c} THEN "head" ELSE "item"
<1>1. Sound(scope, j, d) /\ Typed(scope, j, d) /\ j.kind = "sync" /\ scope \in Scopes
  BY StepNames, Locals DEF Fit, Sound, StepsOf, ChannelInv, Sorted
<1>2. c \in j.items
  BY <1>1, EarliestIn, Locals DEF Sound
<1>3. rest \in SUBSET Changes /\ pc \in JobSteps /\ (pc = "head" => rest = {}) /\ (pc = "item" => rest # {})
      /\ pc \in {"head", "item"}
  BY <1>2, StepNames, Locals
<1>4. k = [j EXCEPT !.items = rest, !.got = NoProfile, !.msg = NoMsg, !.pc = pc, !.prof = p]
  BY DEF Rest
<1> HIDE DEF rest, pc, k
<1>5. /\ k \in Jobs /\ k.pc = pc /\ k.kind = j.kind /\ k.src = j.src /\ k.left = j.left
      /\ k.after = j.after /\ k.next = j.next /\ k.cur = j.cur /\ k.last = j.last /\ k.page = j.page
      /\ k.more = j.more /\ k.items = rest /\ k.tries = j.tries /\ k.prof = p /\ k.msgs = j.msgs
  BY ONLY <1>3, <1>4, NothingTyped DEF Jobs
<1>6. Sound(scope, k, e)
  BY <1>1, <1>3, <1>5 DEF Sound, Typed, StepsOf
<1>7. aged = {} => Carried(k, signed)
  BY <1>3, <1>5 DEF Fit, Carried
<1>8. ASSUME FromOwner
      PROVE  SyncCovers(k, e.msgs, db[Owner].lastSeq, signed)
  <2>1. Fit(j, e)
    BY FitKept
  <2>2. SyncCovers(j, e.msgs, db[Owner].lastSeq, signed)
    BY <1>1, <1>8, <2>1 DEF Fit, JobCovers
  <2>3. \A x \in signed : x.seq <= (IF j.more THEN j.page ELSE j.last) =>
                (e.msgs[x.id].ver >= x.ver \/ Row(x) \in rest)
    BY <1>8, <2>2 DEF SyncCovers, rest
  <2>4. \A y \in rest : y.seq <= db[Owner].lastSeq
    BY <2>2 DEF SyncCovers, rest
  <2> QED BY <1>3, <1>5, <2>2, <2>3, <2>4 DEF SyncCovers
<1> QED BY <1>1, <1>5, <1>6, <1>7, <1>8 DEF Fit, JobCovers, k

\* A change is applied.
LEMMA ApplyItemMoves ==
  ASSUME ChannelInv, NEW s \in Subs, NEW w \in Workers, ApplyItem(s, w)
  PROVE  Moves(s, w)
<1> DEFINE j == job[s][w]
           d == db[s]
           c == Earliest(j.items)
           rest == [j EXCEPT !.items = @ \ {c}, !.got = NoProfile, !.msg = NoMsg,
                             !.pc = IF j.items = {c} THEN "head" ELSE "item"]
           kept == Rest(j, j.prof)
<1>1. /\ Fit(j, d) /\ Sane(d) /\ scope \in Scopes /\ j \in Jobs /\ Typed(scope, j, d) /\ Sound(scope, j, d)
      /\ RowFit(d, d)
  BY AtWork DEF Fit
<1>2. j.pc = "apply" /\ j.kind = "sync"
  BY <1>1, StepNames, Locals DEF ApplyItem, Sound, StepsOf
<1>3. c \in Changes /\ c \in j.items
  BY <1>1, <1>2, EarliestIn, Locals DEF Sound
<1>4. rest = kept
  <2>1. rest.prof = j.prof /\ kept = [rest EXCEPT !.prof = j.prof]
    BY <1>1 DEF Jobs, Rest
  <2> QED BY <1>1, <2>1 DEF Jobs
<1>5. j.got \in Profiles /\ j.prof \in Profiles /\ j.msg \in Messages /\ (~Placeholder(j.prof) => ~Placeholder(d.prof))
  BY <1>1, Locals DEF Typed
<1>6. CASE /\ c.kind = "profile"
           /\ PutDb(s, RecordChange(Swept(ApplyProfile(d, j.got)), c))
           /\ Put(s, w, [rest EXCEPT !.prof = j.got])
  <2> DEFINE e1 == ApplyProfile(d, j.got)
             e2 == Swept(e1)
             e == RecordChange(e2, c)
             k == Rest(j, j.got)
  <2>1. [rest EXCEPT !.prof = j.got] = k
    BY <1>1 DEF Jobs, Rest
  <2>2. ~Placeholder(j.got)
    BY <1>1, <1>2, <1>6 DEF Sound
  <2>3. Sane(e1) /\ ~Placeholder(e1.prof) /\ e1.msgs = d.msgs /\ e1.synced = d.synced
    BY <1>1, <1>5, <2>2, ApplyProfileSane
  <2> HIDE DEF e1
  <2>4. Sane(e2) /\ e2.prof = e1.prof /\ e2.synced = e1.synced /\ (aged = {} => e2 = e1)
    BY <2>3, SweptSane
  <2> HIDE DEF e2
  <2>5. Sane(e) /\ e.prof = e2.prof /\ e.msgs = e2.msgs /\ e.synced = e2.synced
    BY <1>3, <2>4, RecordChangeSane
  <2>6. PutDb(s, e) /\ Put(s, w, k)
    BY <1>6, <2>1 DEF e1, e2
  <2> HIDE DEF e, rest, kept
  <2>7. RowFit(d, e)
    BY <2>3, <2>4, <2>5, SameFit
  <2>8. \A x \in signed : Row(x) # c
    BY <1>6 DEF Row
  <2>9. Fit(k, e)
    BY <1>1, <1>2, <1>5, <2>3, <2>4, <2>5, <2>7, <2>8, RestFit
  <2> QED BY <2>6, <2>7, <2>9, BothMove
<1>7. CASE c.kind = "message" /\ IsMessageExpired(j.prof, c.id) /\ db' = db /\ Put(s, w, rest)
  <2>1. aged # {}
    BY <1>7 DEF IsMessageExpired
  <2>2. Put(s, w, kept)
    BY <1>4, <1>7
  <2>3. ~FromOwner
    BY <2>1 DEF FromOwner
  <2> HIDE DEF rest
  <2>4. Fit(kept, d)
    BY <1>1, <1>2, <1>5, <2>3, RestFit
  <2> HIDE DEF kept
  <2> QED BY <1>7, <2>2, <2>4, JobOnly
<1>8. CASE /\ c.kind = "message" /\ SameVersionOtherSignature(d, c.id, j.msg)
           /\ db' = db /\ Put(s, w, NextPeer(s, j))
  <2>1. Fit(NextPeer(s, j), d)
    BY <1>1, SpareAt, NextPeerFit
  <2> QED BY <1>8, <2>1, JobOnly
<1>9. CASE /\ c.kind = "message"
           /\ PutDb(s, RecordChange(ApplyMessage(d, c.id, j.msg), c)) /\ Put(s, w, rest)
  <2> DEFINE m == j.msg
             i == c.id
             e1 == ApplyMessage(d, i, m)
             e == RecordChange(e1, c)
  <2>1. i \in Ids /\ ~Placeholder(d.prof)
    BY <1>1, <1>2, <1>5, <1>9 DEF Sound
  <2>2. aged = {} => Version(i, m) \in signed
    BY <1>1, <1>2, <1>9 DEF Fit, Carried
  <2>3. FromOwner => \A x \in signed : Row(x) = c => m.ver >= x.ver
    BY <1>1, <1>2 DEF Fit, JobCovers, SyncCovers
  <2>4. PutDb(s, e) /\ Put(s, w, kept)
    BY <1>4, <1>9
  <2>5. /\ Sane(e1) /\ e1.prof = d.prof /\ e1.synced = d.synced
        /\ e1.msgs = IF m.ver <= d.msgs[i].ver THEN d.msgs ELSE [d.msgs EXCEPT ![i] = m]
    BY <1>1, <1>5, <2>1, ApplyMessageSane
  <2> HIDE DEF e1
  <2>6. Sane(e) /\ e.prof = e1.prof /\ e.msgs = e1.msgs /\ e.synced = e1.synced
    BY <1>3, <2>5, RecordChangeSane
  <2> HIDE DEF e, rest, kept
  <2>7. d.msgs \in [Ids -> Messages] /\ m.ver \in Nat /\ \A a \in Ids : d.msgs[a].ver \in Nat
    BY <1>1, <1>5, Columns DEF Sane, Messages
  <2>8. \A a \in Ids : e.msgs[a] = (IF a = i /\ ~(m.ver <= d.msgs[i].ver) THEN m ELSE d.msgs[a])
    BY <2>5, <2>6, <2>7
  <2> HIDE DEF i, m
  <2>9. \A a \in Ids : e.msgs[a].ver >= d.msgs[a].ver
    BY <2>7, <2>8
  <2>10. aged = {} => Genuine(e.msgs, signed)
    BY <1>1, <2>2, <2>8 DEF RowFit, Genuine
  <2>11. RowFit(d, e)
    <3>1. ASSUME FromOwner PROVE RowCovers(e, db[Owner].lastSeq, signed)
      <4>1. RowCovers(d, db[Owner].lastSeq, signed) /\ signed \subseteq Versions
        BY <1>1, <3>1 DEF RowFit, ChannelInv, Books, Numbered, FromOwner
      <4>2. e.msgs \in [Ids -> Messages]
        BY <2>6, Columns DEF Sane
      <4>3. Covers(e.msgs, d.synced, signed)
        BY <2>7, <2>9, <4>1, <4>2 DEF RowCovers, Covers, Versions, Messages
      <4> QED BY <2>5, <2>6, <4>1, <4>3 DEF RowCovers
    <3> QED BY <2>5, <2>6, <2>9, <2>10, <3>1 DEF RowFit
  <2>12. ASSUME FromOwner, NEW x \in signed, Row(x) = c
         PROVE  e.msgs[x.id].ver >= x.ver
    <3>1. x.id = i /\ m.ver >= x.ver /\ x.ver \in Nat
      BY <2>3, <2>12 DEF Row, i, ChannelInv, Books, FromOwner, Numbered, Versions
    <3> QED BY <2>1, <2>7, <2>8, <3>1
  <2>13. Fit(kept, e)
    <3>1. ~Placeholder(j.prof) => ~Placeholder(e.prof)
      BY <1>5, <2>5, <2>6
    <3> QED BY <1>1, <1>2, <1>5, <2>11, <2>12, <3>1, RestFit DEF kept
  <2> QED BY <2>4, <2>11, <2>13, BothMove
<1> QED BY <1>6, <1>7, <1>8, <1>9 DEF ApplyItem

\* The end of a page: the next one, or the cursor.
LEMMA EndPageFit ==
  ASSUME ChannelInv, NEW d, NEW j, Fit(j, d), j.kind = "sync", j.pc = "head"
  PROVE  Fit(EndPage(j), d)
<1>1. scope \in Scopes /\ Sound(scope, j, d) /\ j \in Jobs /\ j.left \subseteq scope.sources /\ j.src \in scope.sources
  BY DEF ChannelInv, Sorted, Fit, Sound, Typed
<1> DEFINE cur == Max({j.cur, j.last})
           last == db[Owner].lastSeq
<1>2. cur \in Seqs /\ j.src \in Nodes /\ cur = IF j.cur >= j.last THEN j.cur ELSE j.last
  <2>1. j.cur \in Seqs /\ j.last \in Seqs /\ j.src \in Nodes
    BY <1>1, Locals, ScopeParts
  <2>2. j.cur \in Int /\ j.last \in Int
    BY <2>1, Numbers
  <2> QED BY <2>1, <2>2, MaxSeqs, MaxTwo
<1> DEFINE left == j.left
           after == j.after
           page == j.page
           src == j.src
<1>0. left \in SUBSET Nodes /\ after \in Seqs /\ page \in Seqs /\ src \in Nodes
  BY <1>1, <1>2, Locals
<1> DEFINE base == SyncJob(left \cup {src}, after)
<1>3. /\ base \in Jobs /\ base.pc = "page" /\ base.kind = "sync" /\ base.after = after /\ base.next = after
      /\ base.src = NoOne /\ base.tries = 0 /\ base.prof = NoProfile /\ base.msgs = [i \in Ids |-> NoMsg]
  <2> HIDE DEF left, after, src
  <2>1. base = [IdleJob EXCEPT !.pc = "page", !.kind = "sync", !.left = left \cup {src}, !.after = after,
                         !.next = after, !.cur = after]
    BY DEF SyncJob
  <2>2. base \in Jobs
    <3>1. left \cup {src} \in SUBSET scope.sources
      BY <1>1 DEF left, src
    <3>2. FromOwner => after <= db[Owner].lastSeq /\ Covers(d.msgs, after, signed)
      BY DEF Fit, JobCovers, SyncCovers, after
    <3>3. Fit(base, d)
      BY <1>0, <1>1, <3>1, <3>2, SyncJobFit
    <3> QED BY <3>3 DEF Fit, Sound, Typed
  <2>3. /\ base.pc = "page" /\ base.kind = "sync" /\ base.after = after /\ base.next = after
        /\ base.src = NoOne /\ base.tries = 0 /\ base.prof = NoProfile /\ base.msgs = [i \in Ids |-> NoMsg]
    BY ZenonT(40), <2>1 DEF IdleJob
  <2> QED BY <2>2, <2>3
<1>4. ASSUME FromOwner
      PROVE  /\ SyncCovers(j, d.msgs, last, signed) /\ cur <= last /\ last \in Seqs
             /\ Covers(d.msgs, IF j.more THEN j.page ELSE cur, signed)
             /\ j.more => j.page > j.next
  <2>1. SyncCovers(j, d.msgs, last, signed)
    BY <1>4 DEF Fit, JobCovers
  <2>2. last \in Seqs
    BY Columns, Numbers DEF ChannelInv, Sorted
  <2>3. cur = j.last /\ cur <= last
    BY <1>1, <1>2, <2>1, Locals, Numbers DEF SyncCovers
  <2> QED BY <2>1, <2>2, <2>3 DEF SyncCovers, Covers
<1>5. CASE j.more /\ j.page > j.next
  <2> DEFINE k == [base EXCEPT !.left = left, !.src = src, !.cur = cur, !.next = page]
  <2>1. EndPage(j) = k
    BY <1>5 DEF EndPage
  <2>2. k \in Jobs
    <3> HIDE DEF left, after, page, src, cur, base
    <3> QED BY ZenonT(40), <1>0, <1>2, <1>3, StepNames DEF Jobs
  <2> HIDE DEF cur
  <2>3. /\ k.pc = "page" /\ k.kind = "sync" /\ k.left = j.left /\ k.after = j.after /\ k.next = j.page /\ k.cur = cur
        /\ k.src = j.src /\ k.tries = 0 /\ k.prof = NoProfile /\ k.msgs = [i \in Ids |-> NoMsg]
    <3> HIDE DEF base
    <3> QED BY <1>3 DEF Jobs
  <2> HIDE DEF k
  <2>4. Sound(scope, k, d)
    BY <1>1, <2>2, <2>3, ScopeParts, NothingTyped DEF Sound, Typed, StepsOf
  <2>5. Carried(k, signed)
    BY <2>3 DEF Carried, Genuine
  <2>6. FromOwner => SyncCovers(k, d.msgs, last, signed)
    BY <1>4, <1>5, <2>3 DEF SyncCovers
  <2> QED BY <2>1, <2>3, <2>4, <2>5, <2>6 DEF Fit, JobCovers
<1>6. CASE ~(j.more /\ j.page > j.next)
  <2> DEFINE k == [base EXCEPT !.left = left, !.pc = "finish", !.cur = cur]
  <2>1. EndPage(j) = k
    BY <1>6 DEF EndPage
  <2>2. k \in Jobs
    <3> HIDE DEF left, after, page, src, cur, base
    <3> QED BY ZenonT(40), <1>0, <1>2, <1>3, StepNames DEF Jobs
  <2> HIDE DEF cur
  <2>3. /\ k.pc = "finish" /\ k.kind = "sync" /\ k.left = j.left /\ k.after = j.after /\ k.next = j.after /\ k.cur = cur
        /\ k.src = NoOne /\ k.tries = 0 /\ k.prof = NoProfile /\ k.msgs = [i \in Ids |-> NoMsg]
    <3> HIDE DEF base
    <3> QED BY <1>3 DEF Jobs
  <2> HIDE DEF k
  <2>4. Sound(scope, k, d)
    BY <1>1, <2>2, <2>3, ScopeParts, NothingTyped DEF Sound, Typed, StepsOf
  <2>5. Carried(k, signed)
    BY <2>3 DEF Carried, Genuine
  <2>6. FromOwner => SyncCovers(k, d.msgs, last, signed)
    BY <1>4, <1>6, <2>3 DEF SyncCovers
  <2> QED BY <2>1, <2>3, <2>4, <2>5, <2>6 DEF Fit, JobCovers
<1> QED BY <1>5, <1>6

\* The head after a page.
LEMMA FetchAndApplyHeadMoves ==
  ASSUME ChannelInv, NEW s \in Subs, NEW w \in Workers, FetchAndApplyHead(s, w)
  PROVE  Moves(s, w)
<1> DEFINE j == job[s][w]
           d == db[s]
           p == db[j.src]
           e == IF HeadVerifies(p) THEN ApplyHead(d, p.head) ELSE d
<1>1. Fit(j, d) /\ Sane(d) /\ scope \in Scopes /\ j \in Jobs /\ Sound(scope, j, d)
  BY AtWork DEF Fit
<1>2. j.pc = "head" /\ j.kind = "sync" /\ PutDb(s, e) /\ Put(s, w, EndPage(j))
  BY DEF FetchAndApplyHead
<1>3. p.head \in Heads
  <2>1. j.src \in Nodes
    BY <1>1, <1>2, ScopeParts DEF Sound
  <2> QED BY <2>1, Columns DEF ChannelInv, Sorted
<1>4. Sane(e) /\ e.prof = d.prof /\ e.msgs = d.msgs /\ e.synced = d.synced
  BY <1>1, <1>3, ApplyHeadSane
<1> HIDE DEF e
<1>5. RowFit(d, e)
  BY <1>4, SameFit
<1>6. Fit(EndPage(j), e)
  BY <1>1, <1>2, <1>5, FitKept, EndPageFit
<1> QED BY <1>2, <1>5, <1>6, BothMove

\* The head of a snapshot or of a load.
LEMMA FetchHeadMoves ==
  ASSUME ChannelInv, NEW s \in Subs, NEW w \in Workers, FetchHead(s, w)
  PROVE  Moves(s, w)
<1> DEFINE j == job[s][w]
           d == db[s]
           p == db[j.src]
<1>1. Fit(j, d) /\ Sane(d) /\ scope \in Scopes /\ j \in Jobs /\ Typed(scope, j, d) /\ Sound(scope, j, d)
  BY AtWork DEF Fit
<1>2. j.pc = "head" /\ j.kind # "sync" /\ j.kind \in {"snapshot", "load"} /\ db' = db
  BY <1>1, StepNames, Locals DEF FetchHead, Sound, StepsOf
<1>3. j.src \in Nodes /\ j.src \in scope.sources /\ p.head \in Heads
  <2>1. j.src \in Nodes /\ j.src \in scope.sources
    BY <1>1, <1>2, ScopeParts DEF Sound
  <2> QED BY <2>1, Columns DEF ChannelInv, Sorted
<1>4. CASE j.kind = "snapshot"
  <2> DEFINE h == IF HeadVerifies(p) THEN p.head ELSE NoHead
             k == [j EXCEPT !.hd = h, !.pc = "messages"]
  <2>1. Put(s, w, k) /\ h \in Heads
    BY <1>3, <1>4, NothingTyped DEF FetchHead
  <2>2. FromOwner => h.seq <= db[Owner].lastSeq
    <3>1. SUFFICES ASSUME FromOwner PROVE h.seq <= db[Owner].lastSeq
      OBVIOUS
    <3>2. p = db[Owner] /\ db[Owner].lastSeq \in Nat
      BY <1>3, <3>1, Columns, Numbers DEF FromOwner, Sources, ChannelInv, Sorted
    <3>3. CASE HeadVerifies(p)
      BY <3>2, <3>3 DEF HeadVerifies, GetChannelHead
    <3> QED BY <3>2, <3>3 DEF NoHead
  <2> HIDE DEF h
  <2>3. /\ k \in Jobs /\ k.pc = "messages" /\ k.kind = j.kind /\ k.src = j.src /\ k.left = j.left /\ k.hd = h
        /\ k.tries = j.tries /\ k.prof = j.prof /\ k.msgs = j.msgs
    BY <1>1, <2>1, StepNames DEF Jobs
  <2> HIDE DEF k
  <2>4. Sound(scope, k, d)
    BY <1>1, <1>4, <2>3 DEF Sound, Typed, StepsOf
  <2>5. aged = {} => Carried(k, signed)
    BY <1>1, <2>3 DEF Fit, Carried
  <2>6. FromOwner => JobCovers(k, d.msgs, db[Owner].lastSeq, signed)
    BY <1>4, <2>2, <2>3 DEF JobCovers, SnapshotCovers
  <2> QED BY <1>2, <2>1, <2>4, <2>5, <2>6, JobOnly DEF Fit
<1>5. CASE j.kind = "load" /\ HeadVerifies(p)
  <2> DEFINE h == p.head
             k == [j EXCEPT !.hd = h, !.pc = "applyhead"]
  <2>1. Put(s, w, k) /\ h \in Heads
    BY <1>3, <1>5 DEF FetchHead
  <2> HIDE DEF h
  <2>3. /\ k \in Jobs /\ k.pc = "applyhead" /\ k.kind = j.kind /\ k.src = j.src /\ k.left = j.left /\ k.hd = h
        /\ k.tries = j.tries /\ k.prof = j.prof /\ k.msgs = j.msgs /\ k.got = j.got
    BY <1>1, <2>1, StepNames DEF Jobs
  <2> HIDE DEF k
  <2>4. Sound(scope, k, d)
    BY <1>1, <1>2, <1>5, <2>3 DEF Sound, Typed, StepsOf
  <2>5. aged = {} => Carried(k, signed)
    BY <1>1, <2>3 DEF Fit, Carried
  <2>6. FromOwner => JobCovers(k, d.msgs, db[Owner].lastSeq, signed)
    BY <1>5, <2>3 DEF JobCovers
  <2> QED BY <1>2, <2>1, <2>4, <2>5, <2>6, JobOnly DEF Fit
<1>6. CASE j.kind = "load" /\ ~HeadVerifies(p)
  <2>1. Put(s, w, GiveUp(s, j)) /\ Fit(GiveUp(s, j), d)
    BY <1>1, <1>6, GiveUpFit DEF FetchHead
  <2> QED BY <1>2, <2>1, JobOnly
<1> QED BY <1>2, <1>4, <1>5, <1>6

\* The head of a snapshot is applied, or the profile and the head of a load.
LEMMA ApplyHeadStepMoves ==
  ASSUME ChannelInv, NEW s \in Subs, NEW w \in Workers, ApplyHeadStep(s, w)
  PROVE  Moves(s, w)
<1> DEFINE j == job[s][w]
           d == db[s]
<1>1. Fit(j, d) /\ Sane(d) /\ scope \in Scopes /\ j \in Jobs /\ Typed(scope, j, d) /\ Sound(scope, j, d)
  BY AtWork DEF Fit
<1>2. j.pc = "applyhead" /\ j.hd \in Heads /\ j.got \in Profiles /\ j.before \in Nat
  BY <1>1, Locals DEF ApplyHeadStep
<1>3. CASE /\ j.kind = "snapshot"
           /\ PutDb(s, ApplyHead(d, j.hd))
           /\ Put(s, w, [j EXCEPT !.pc = "applymessages", !.got = NoProfile])
  <2> DEFINE e == ApplyHead(d, j.hd)
             k == [j EXCEPT !.pc = "applymessages", !.got = NoProfile]
  <2>1. Sane(e) /\ e.prof = d.prof /\ e.msgs = d.msgs /\ e.synced = d.synced
    BY <1>1, <1>2, ApplyHeadSane
  <2>2. PutDb(s, e) /\ Put(s, w, k)
    BY <1>3
  <2> HIDE DEF e
  <2>3. RowFit(d, e)
    BY <2>1, SameFit
  <2>4. /\ k \in Jobs /\ k.pc = "applymessages" /\ k.kind = j.kind /\ k.src = j.src /\ k.left = j.left
        /\ k.tries = j.tries /\ k.prof = j.prof /\ k.msgs = j.msgs /\ k.hd = j.hd
    BY <1>1, NothingTyped, StepNames DEF Jobs
  <2> HIDE DEF k
  <2>5. Sound(scope, k, e)
    BY <1>1, <1>2, <1>3, <2>1, <2>4 DEF Sound, Typed, StepsOf
  <2>6. aged = {} => Carried(k, signed)
    BY <1>1, <2>4 DEF Fit, Carried
  <2>7. FromOwner => JobCovers(k, e.msgs, db[Owner].lastSeq, signed)
    BY <1>1, <1>2, <1>3, <2>4 DEF Fit, JobCovers, SnapshotCovers
  <2> QED BY <2>2, <2>3, <2>5, <2>6, <2>7, BothMove DEF Fit
<1>4. CASE /\ j.kind = "load"
           /\ PutDb(s, ApplyHead(ApplyProfile(d, j.got), j.hd))
           /\ Put(s, w, [IdleJob EXCEPT !.kind = "load", !.pc = "messages", !.left = Peers(s),
                                        !.before = j.before, !.prof = j.got])
  <2> DEFINE g == j.got
             b == j.before
             peers == Peers(s)
             e1 == ApplyProfile(d, g)
             e == ApplyHead(e1, j.hd)
             k == [IdleJob EXCEPT !.kind = "load", !.pc = "messages", !.left = peers, !.before = b, !.prof = g]
             l == [IdleJob EXCEPT !.kind = "load", !.left = peers, !.before = b, !.prof = g, !.pc = "messages"]
  <2>1. ~Placeholder(g)
    BY <1>1, <1>2, <1>4 DEF Sound
  <2>2. Sane(e1) /\ ~Placeholder(e1.prof) /\ e1.msgs = d.msgs /\ e1.synced = d.synced
    BY <1>1, <1>2, <2>1, ApplyProfileSane
  <2>3. PutDb(s, e) /\ Put(s, w, k)
    BY <1>4
  <2> HIDE DEF e1
  <2>4. Sane(e) /\ e.prof = e1.prof /\ e.msgs = e1.msgs /\ e.synced = e1.synced
    BY <1>2, <2>2, ApplyHeadSane
  <2> HIDE DEF e
  <2>5. RowFit(d, e)
    BY <2>2, <2>4, SameFit
  <2>6. peers \in SUBSET scope.sources
    BY DEF Peers, Sources
  <2>7. k = l
    <3> HIDE DEF g, b, peers
    <3> QED BY ZenonT(40) DEF IdleJob
  <2>8. Fit(l, e)
    BY <1>1, <1>2, <2>1, <2>2, <2>4, <2>6, LoadJobFit
  <2> HIDE DEF k, l
  <2> QED BY <2>3, <2>5, <2>7, <2>8, BothMove
<1> QED BY <1>3, <1>4 DEF ApplyHeadStep

\* The cursor moves to what the pages have announced.
LEMMA FinishMoves ==
  ASSUME ChannelInv, NEW s \in Subs, NEW w \in Workers, Finish(s, w)
  PROVE  Moves(s, w)
<1> DEFINE j == job[s][w]
           d == db[s]
           e == UpdateSyncState(d, j.cur, TRUE)
<1>1. Fit(j, d) /\ Sane(d) /\ scope \in Scopes /\ j \in Jobs /\ Sound(scope, j, d) /\ RowFit(d, d)
  BY AtWork DEF Fit
<1>2. j.pc = "finish" /\ j.kind = "sync" /\ PutDb(s, e)
  BY <1>1, StepNames, Locals DEF Finish, Sound, StepsOf
<1>3. j.cur \in Seqs /\ d.synced \in Seqs
  BY <1>1, Locals, Columns DEF Sane
<1>4. Sane(e) /\ e.prof = d.prof /\ e.msgs = d.msgs /\ e.synced = Max({d.synced, j.cur})
  BY <1>1, <1>3, UpdateSyncStateSane
<1>5. e.synced = d.synced \/ e.synced = j.cur
  BY <1>3, <1>4, MaxSeqs
<1> HIDE DEF e
<1>6. RowFit(d, e)
  <2>1. ASSUME FromOwner PROVE RowCovers(e, db[Owner].lastSeq, signed)
    <3>1. RowCovers(d, db[Owner].lastSeq, signed) /\ SyncCovers(j, d.msgs, db[Owner].lastSeq, signed)
      BY <1>1, <1>2, <2>1 DEF RowFit, Fit, JobCovers
    <3> QED BY <1>2, <1>4, <1>5, <3>1 DEF RowCovers, SyncCovers
  <2> QED BY <1>1, <1>4, <2>1 DEF RowFit
<1>7. Fit(j, e)
  BY <1>1, <1>6, FitKept
<1>8. Fit(IdleJob, e) /\ Fit(NextPeer(s, j), e)
  BY <1>1, <1>7, IdleFit, SpareAt, NextPeerFit
<1>9. Put(s, w, IF j.cur > j.after THEN IdleJob ELSE NextPeer(s, j))
  BY DEF Finish
<1> QED BY <1>2, <1>6, <1>8, <1>9, BothMove

\* The profile of a peer.
LEMMA FetchProfileMoves ==
  ASSUME ChannelInv, NEW s \in Subs, NEW w \in Workers, FetchProfile(s, w)
  PROVE  Moves(s, w)
<1> DEFINE j == job[s][w]
           d == db[s]
<1>1. Fit(j, d) /\ Sane(d) /\ scope \in Scopes /\ j \in Jobs /\ Typed(scope, j, d) /\ Sound(scope, j, d)
  BY AtWork DEF Fit
<1>2. j.pc = "profile" /\ j.kind \in {"snapshot", "load"} /\ db' = db
  BY <1>1, StepNames, Locals DEF FetchProfile, Sound, StepsOf
<1>3. PICK p \in Peer(j) :
         Put(s, w, IF ~db[p].here THEN NextPeer(s, At(j, p))
                   ELSE IF j.kind = "load" /\ ~ProfileVerifies(db[p]) THEN IdleJob
                   ELSE [At(j, p) EXCEPT !.pc = "head",
                            !.got = IF ProfileVerifies(db[p]) THEN db[p].prof ELSE NoProfile])
  BY DEF FetchProfile
<1>4. p \in Nodes /\ p \in scope.sources /\ db[p] \in Tables
  <2>1. p \in Nodes /\ p \in scope.sources
    BY <1>1, PeerIn, <1>3 DEF Peer
  <2> QED BY <2>1 DEF ChannelInv, Sorted
<1>5. CASE ~db[p].here
  <2>1. Fit(NextPeer(s, At(j, p)), d)
    BY <1>1, <1>4, SpareAt, NextPeerFit
  <2> QED BY <1>2, <1>3, <1>5, <2>1, JobOnly
<1>6. CASE db[p].here /\ j.kind = "load" /\ ~ProfileVerifies(db[p])
  BY <1>1, <1>2, <1>3, <1>6, IdleFit, JobOnly
<1>7. CASE db[p].here /\ ~(j.kind = "load" /\ ~ProfileVerifies(db[p]))
  <2> DEFINE g == IF ProfileVerifies(db[p]) THEN db[p].prof ELSE NoProfile
             k == [[j EXCEPT !.src = p, !.left = @ \ {p}] EXCEPT !.pc = "head", !.got = g]
  <2>1. Put(s, w, k)
    BY <1>3, <1>7 DEF At
  <2>2. g \in Profiles /\ (j.kind = "load" => ~Placeholder(g))
    BY <1>4, <1>7, NothingTyped, Columns DEF ProfileVerifies
  <2> HIDE DEF g
  <2>3. /\ k \in Jobs /\ k.pc = "head" /\ k.kind = j.kind /\ k.src = p /\ k.left = j.left \ {p} /\ k.got = g
        /\ k.tries = j.tries /\ k.prof = j.prof /\ k.msgs = j.msgs
    BY <1>1, <1>4, <2>2, StepNames DEF Jobs
  <2> HIDE DEF k
  <2>4. Sound(scope, k, d)
    BY <1>1, <1>2, <1>4, <2>2, <2>3, Numbers DEF Sound, Typed, StepsOf
  <2>5. aged = {} => Carried(k, signed)
    BY <1>1, <2>3 DEF Fit, Carried
  <2>6. FromOwner => JobCovers(k, d.msgs, db[Owner].lastSeq, signed)
    BY <1>2, <2>3 DEF JobCovers, SnapshotCovers
  <2> QED BY <1>2, <2>1, <2>4, <2>5, <2>6, JobOnly DEF Fit
<1> QED BY <1>5, <1>6, <1>7

\* A page of messages holds what the peer holds; the newest page of a channel
\* that fits in one is all of it.
LEMMA MessagesOf ==
  ASSUME NEW d, Sane(d), NEW before, scope \in Scopes
  PROVE  LET ms == GetChannelMessages(d, before)
         IN  /\ ms \in [Ids -> Messages]
             /\ \A i \in Ids : ms[i] # NoMsg => ms[i] = d.msgs[i]
             /\ (before = AllIds /\ Cardinality(Ids) <= PageLimit) => ms = d.msgs
<1> DEFINE below == {i \in Held(d) : i < before}
           above(i) == {k \in below : k > i}
           ms == GetChannelMessages(d, before)
<1>1. ms = [i \in Ids |-> IF i \in below /\ Cardinality(above(i)) < PageLimit THEN d.msgs[i] ELSE NoMsg]
  BY DEF GetChannelMessages
<1>2. d.msgs \in [Ids -> Messages]
  BY Columns DEF Sane
<1>3. ASSUME before = AllIds, Cardinality(Ids) <= PageLimit, NEW i \in Held(d)
      PROVE  i \in below /\ Cardinality(above(i)) < PageLimit
  <2>1. PICK n \in Nat \ {0} : Ids = 1..n
    BY Numbers
  <2>2. i \in Ids /\ i \in Nat
    BY <2>1 DEF Held
  <2>3. Max(Ids) \in Ids /\ i <= Max(Ids)
    <3>1. Ids \in SUBSET (0..n) /\ Ids # {}
      BY <2>1, <2>2
    <3> QED BY <2>2, <3>1, MaxOf
  <2>4. i < AllIds
    BY <2>1, <2>2, <2>3 DEF AllIds
  <2>5. IsFiniteSet(Ids) /\ Cardinality(Ids) \in Nat
    BY <2>1, FS_Interval, FS_CardinalityType
  <2>6. above(i) \subseteq Ids \ {i}
    BY <2>2 DEF Held
  <2>7. IsFiniteSet(Ids \ {i}) /\ Cardinality(Ids \ {i}) = Cardinality(Ids) - 1
    BY <2>2, <2>5, FS_RemoveElement
  <2>8. Cardinality(above(i)) <= Cardinality(Ids \ {i}) /\ IsFiniteSet(above(i))
    BY <2>6, <2>7, FS_Subset
  <2>9. Cardinality(above(i)) \in Nat
    BY <2>8, FS_CardinalityType
  <2>10. PageLimit \in Nat
    BY ScopeParts DEF PageLimit
  <2> HIDE DEF above
  <2>11. Cardinality(above(i)) < PageLimit
    BY <1>3, <2>5, <2>7, <2>8, <2>9, <2>10
  <2> QED BY <1>3, <2>4, <2>11
<1> HIDE DEF above, below, ms
<1>4. ms \in [Ids -> Messages] /\ \A i \in Ids : ms[i] # NoMsg => ms[i] = d.msgs[i]
  BY <1>1, <1>2, NothingTyped
<1>5. ASSUME before = AllIds, Cardinality(Ids) <= PageLimit PROVE ms = d.msgs
  <2>1. \A i \in Ids : ms[i] = d.msgs[i]
    BY <1>1, <1>3, <1>5 DEF Held
  <2> QED BY <1>2, <1>4, <2>1
<1> QED BY <1>4, <1>5 DEF ms

\* The messages of a peer: a snapshot covers the head it fetched before.
LEMMA FetchMessagesMoves ==
  ASSUME ChannelInv, NEW s \in Subs, NEW w \in Workers, FetchMessages(s, w)
  PROVE  Moves(s, w)
<1> DEFINE j == job[s][w]
           d == db[s]
<1>1. Fit(j, d) /\ Sane(d) /\ scope \in Scopes /\ j \in Jobs /\ Typed(scope, j, d) /\ Sound(scope, j, d)
  BY AtWork DEF Fit
<1>2. j.pc = "messages" /\ j.kind \in {"snapshot", "load"} /\ db' = db
  BY <1>1, StepNames, Locals DEF FetchMessages, Sound, StepsOf
<1>3. PICK p \in Peer(j) :
        LET ms == GetChannelMessages(db[p], IF j.kind = "load" THEN j.before ELSE AllIds)
        IN  Put(s, w,
              CASE j.kind = "load" /\ ~db[p].here -> NextPeer(s, At(j, p))
                [] j.kind = "load" /\ db[p].here -> [At(j, p) EXCEPT !.pc = "applymessages", !.msgs = ms]
                [] j.kind = "snapshot" /\ (Placeholder(j.got) \/ j.hd = NoHead) -> GiveUp(s, j)
                [] OTHER -> [j EXCEPT !.pc = "applyprofile", !.msgs = ms])
  BY DEF FetchMessages
<1> DEFINE ms == GetChannelMessages(db[p], IF j.kind = "load" THEN j.before ELSE AllIds)
<1>4. p \in Nodes /\ p \in scope.sources /\ Sane(db[p])
  <2>1. p \in Nodes /\ p \in scope.sources
    BY <1>1, PeerIn, <1>3 DEF Peer
  <2> QED BY <2>1 DEF ChannelInv, Sorted
<1>5. /\ ms \in [Ids -> Messages] /\ \A i \in Ids : ms[i] # NoMsg => ms[i] = db[p].msgs[i]
      /\ (j.kind = "snapshot" /\ Cardinality(Ids) <= PageLimit) => ms = db[p].msgs
  BY <1>1, <1>4, MessagesOf
<1>6. aged = {} => Genuine(ms, signed)
  BY <1>4, <1>5 DEF ChannelInv, Books, Genuine
<1>7. CASE j.kind = "load" /\ ~db[p].here
  <2>1. Put(s, w, NextPeer(s, At(j, p)))
    BY <1>3, <1>7
  <2>2. Fit(NextPeer(s, At(j, p)), d)
    BY <1>1, <1>4, SpareAt, NextPeerFit
  <2> QED BY <1>2, <2>1, <2>2, JobOnly
<1>8. CASE j.kind = "load" /\ db[p].here
  <2> DEFINE k == [[j EXCEPT !.src = p, !.left = @ \ {p}] EXCEPT !.pc = "applymessages", !.msgs = ms]
  <2>1. Put(s, w, k)
    BY <1>3, <1>8 DEF At
  <2> HIDE DEF ms
  <2>2. /\ k \in Jobs /\ k.pc = "applymessages" /\ k.kind = j.kind /\ k.src = p /\ k.left = j.left \ {p}
        /\ k.tries = j.tries /\ k.prof = j.prof /\ k.msgs = ms
    BY <1>1, <1>4, <1>5, StepNames DEF Jobs
  <2> HIDE DEF k
  <2>3. Sound(scope, k, d)
    BY <1>1, <1>2, <1>4, <1>8, <2>2 DEF Sound, Typed, StepsOf
  <2>4. aged = {} => Carried(k, signed)
    BY <1>6, <2>2 DEF Carried
  <2>5. FromOwner => JobCovers(k, d.msgs, db[Owner].lastSeq, signed)
    BY <1>8, <2>2 DEF JobCovers
  <2> QED BY <1>2, <2>1, <2>3, <2>4, <2>5, JobOnly DEF Fit
<1>9. CASE j.kind = "snapshot" /\ (Placeholder(j.got) \/ j.hd = NoHead)
  <2>1. Put(s, w, GiveUp(s, j))
    BY <1>3, <1>9
  <2>2. Fit(GiveUp(s, j), d)
    BY <1>1, GiveUpFit
  <2> QED BY <1>2, <2>1, <2>2, JobOnly
<1>10. CASE j.kind = "snapshot" /\ ~(Placeholder(j.got) \/ j.hd = NoHead)
  <2> DEFINE k == [j EXCEPT !.pc = "applyprofile", !.msgs = ms]
  <2>1. Put(s, w, k)
    BY <1>3, <1>10
  <2> HIDE DEF ms
  <2>2. /\ k \in Jobs /\ k.pc = "applyprofile" /\ k.kind = j.kind /\ k.src = j.src /\ k.left = j.left
        /\ k.tries = j.tries /\ k.prof = j.prof /\ k.msgs = ms /\ k.got = j.got /\ k.hd = j.hd
    BY <1>1, <1>5, StepNames DEF Jobs
  <2> HIDE DEF k
  <2>3. Sound(scope, k, d)
    BY <1>1, <1>10, <2>2 DEF Sound, Typed, StepsOf
  <2>4. aged = {} => Carried(k, signed)
    BY <1>6, <2>2 DEF Carried
  <2>5. ASSUME FromOwner
        PROVE  SnapshotCovers(k, db[Owner].lastSeq, signed)
    <3>1. ms = db[Owner].msgs
      BY <1>4, <1>5, <1>10, <2>5 DEF FromOwner, Sources
    <3>2. Covers(ms, j.hd.seq, signed)
      BY <2>5, <3>1 DEF ChannelInv, Books, FromOwner, Numbered, Covers
    <3>3. j.hd.seq <= db[Owner].lastSeq
      BY <1>1, <1>2, <1>10, <2>5 DEF Fit, JobCovers, SnapshotCovers
    <3> QED BY <2>2, <3>2, <3>3 DEF SnapshotCovers
  <2> QED BY <1>2, <1>10, <2>1, <2>2, <2>3, <2>4, <2>5, JobOnly DEF Fit, JobCovers
<1> QED BY <1>2, <1>7, <1>8, <1>9, <1>10

\* The profile of a snapshot is applied.
LEMMA ApplyProfileStepMoves ==
  ASSUME ChannelInv, NEW s \in Subs, NEW w \in Workers, ApplyProfileStep(s, w)
  PROVE  Moves(s, w)
<1> DEFINE j == job[s][w]
           d == db[s]
           e1 == ApplyProfile(d, j.got)
           e == Swept(e1)
           k == [j EXCEPT !.pc = "applyhead"]
<1>1. Fit(j, d) /\ Sane(d) /\ scope \in Scopes /\ j \in Jobs /\ Typed(scope, j, d) /\ Sound(scope, j, d)
  BY AtWork DEF Fit
<1>2. j.pc = "applyprofile" /\ j.kind = "snapshot" /\ PutDb(s, e) /\ Put(s, w, k)
  BY <1>1, StepNames, Locals DEF ApplyProfileStep, Sound, StepsOf
<1>3. j.got \in Profiles /\ ~Placeholder(j.got)
  BY <1>1, <1>2, Locals DEF Sound
<1>4. Sane(e1) /\ ~Placeholder(e1.prof) /\ e1.msgs = d.msgs /\ e1.synced = d.synced
  BY <1>1, <1>3, ApplyProfileSane
<1> HIDE DEF e1
<1>5. Sane(e) /\ e.prof = e1.prof /\ e.synced = e1.synced /\ (aged = {} => e = e1)
  BY <1>4, SweptSane
<1> HIDE DEF e
<1>6. RowFit(d, e)
  BY <1>4, <1>5, SameFit
<1>7. /\ k \in Jobs /\ k.pc = "applyhead" /\ k.kind = j.kind /\ k.src = j.src /\ k.left = j.left
      /\ k.tries = j.tries /\ k.prof = j.prof /\ k.msgs = j.msgs /\ k.got = j.got /\ k.hd = j.hd
  BY <1>1, StepNames DEF Jobs
<1> HIDE DEF k
<1>8. Sound(scope, k, e)
  BY <1>1, <1>2, <1>4, <1>5, <1>7 DEF Sound, Typed, StepsOf
<1>9. aged = {} => Carried(k, signed)
  BY <1>1, <1>7 DEF Fit, Carried
<1>10. FromOwner => JobCovers(k, e.msgs, db[Owner].lastSeq, signed)
  BY <1>1, <1>2, <1>7 DEF Fit, JobCovers, SnapshotCovers
<1> QED BY <1>2, <1>6, <1>8, <1>9, <1>10, BothMove DEF Fit

\* A page of messages makes the row newer; a snapshot covers its head.
LEMMA TakenFit ==
  ASSUME ChannelInv, NEW s \in Subs, NEW w \in Workers, NEW p, NEW ms \in [Ids -> Messages],
         ~Placeholder(db[s].prof), aged = {} => Genuine(ms, signed)
  PROVE  LET e == ApplyMessages(db[s], p, ms)
         IN  /\ RowFit(db[s], e) /\ Sane(e) /\ e.prof = db[s].prof /\ e.synced = db[s].synced
             /\ \A n : (FromOwner /\ Covers(ms, n, signed)) => Covers(e.msgs, n, signed)
<1> DEFINE d == db[s]
           e == ApplyMessages(d, p, ms)
<1>1. Sane(d) /\ RowFit(d, d)
  BY AtWork
<1>2. /\ Sane(e) /\ e.prof = d.prof /\ e.synced = d.synced
      /\ \A i \in Ids : e.msgs[i] = IF ms[i] # NoMsg /\ ~IsMessageExpired(p, i) /\ ms[i].ver > d.msgs[i].ver
                                    THEN ms[i] ELSE d.msgs[i]
  BY <1>1, ApplyMessagesSane
<1> HIDE DEF e
<1>3. \A i \in Ids : d.msgs[i].ver \in Nat /\ ms[i].ver \in Nat /\ e.msgs[i].ver \in Nat
  BY <1>1, <1>2, Columns DEF Sane, Messages
<1>4. \A i \in Ids : e.msgs[i].ver >= d.msgs[i].ver
  BY <1>2, <1>3
<1>5. aged = {} => Genuine(e.msgs, signed)
  BY <1>1, <1>2 DEF RowFit, Genuine
<1>6. aged = {} => \A i \in Ids : e.msgs[i].ver >= ms[i].ver
  BY <1>2, <1>3 DEF IsMessageExpired, NoMsg
<1>7. ASSUME FromOwner PROVE RowCovers(e, db[Owner].lastSeq, signed)
  <2>1. RowCovers(d, db[Owner].lastSeq, signed) /\ signed \subseteq Versions
    BY <1>1, <1>7 DEF RowFit, ChannelInv, Books, Numbered, FromOwner
  <2>2. Covers(e.msgs, d.synced, signed)
    BY <1>3, <1>4, <2>1 DEF RowCovers, Covers, Versions
  <2> QED BY <1>2, <2>1, <2>2 DEF RowCovers
<1>8. RowFit(d, e)
  BY <1>2, <1>4, <1>5, <1>7 DEF RowFit
<1>9. ASSUME FromOwner, NEW n, Covers(ms, n, signed) PROVE Covers(e.msgs, n, signed)
  <2>1. signed \subseteq Versions /\ aged = {}
    BY <1>9 DEF ChannelInv, Books, Numbered, FromOwner
  <2> QED BY <1>3, <1>6, <1>9, <2>1 DEF Covers, Versions
<1> QED BY <1>2, <1>8, <1>9 DEF e

\* The messages of a snapshot or of a load are applied.
LEMMA ApplyMessagesStepMoves ==
  ASSUME ChannelInv, NEW s \in Subs, NEW w \in Workers, ApplyMessagesStep(s, w)
  PROVE  Moves(s, w)
<1> DEFINE j == job[s][w]
           d == db[s]
           p == IF j.kind = "load" THEN j.prof ELSE d.prof
           t == ApplyMessages(d, p, j.msgs)
           full == Cardinality({i \in Held(t) : i < j.before}) >= PageLimit
<1>1. /\ Fit(j, d) /\ Sane(d) /\ scope \in Scopes /\ j \in Jobs /\ Typed(scope, j, d) /\ Sound(scope, j, d)
      /\ j.msgs \in [Ids -> Messages]
  BY AtWork, Locals DEF Fit
<1>2. j.pc = "applymessages" /\ j.kind \in {"snapshot", "load"}
  BY <1>1, StepNames, Locals DEF ApplyMessagesStep, Sound, StepsOf
<1>3. ~Placeholder(d.prof)
  BY <1>1, <1>2 DEF Sound, Typed
<1>4. /\ RowFit(d, t) /\ Sane(t) /\ t.prof = d.prof /\ t.synced = d.synced
      /\ \A n : (FromOwner /\ Covers(j.msgs, n, signed)) => Covers(t.msgs, n, signed)
  <2>1. aged = {} => Genuine(j.msgs, signed)
    BY <1>1 DEF Fit, Carried
  <2> QED BY <1>1, <1>3, <2>1, TakenFit
<1>5. CASE db' = db /\ Put(s, w, GiveUp(s, j))
  <2>1. Fit(GiveUp(s, j), d)
    BY <1>1, GiveUpFit
  <2> QED BY <1>5, <2>1, JobOnly
<1>6. CASE j.kind = "load" /\ PutDb(s, t) /\ Put(s, w, IF full THEN IdleJob ELSE NextPeer(s, j))
  <2> HIDE DEF t
  <2>1. Fit(j, t)
    BY <1>1, <1>4, FitKept
  <2>2. Fit(IdleJob, t) /\ Fit(NextPeer(s, j), t)
    BY <1>1, <2>1, IdleFit, SpareAt, NextPeerFit
  <2> QED BY <1>4, <1>6, <2>2, BothMove
<1>7. CASE /\ j.kind = "snapshot"
           /\ PutDb(s, UpdateSyncState(t, SnapshotCursor(s, j), TRUE))
           /\ Put(s, w, IF Resume(s, j) = 0 THEN IdleJob ELSE SyncJob(Peers(s), Resume(s, j)))
  <2> DEFINE cur == SnapshotCursor(s, j)
             res == Resume(s, j)
             e == UpdateSyncState(t, cur, TRUE)
  <2> HIDE DEF t
  <2>1. j.after \in Seqs /\ j.hd.seq \in Seqs
    BY <1>1, Locals DEF Heads
  <2>2. cur \in Seqs /\ res \in Seqs /\ cur <= j.hd.seq /\ res <= j.hd.seq
    BY <2>1, Numbers DEF SnapshotCursor, Resume
  <2>3. PutDb(s, e) /\ Put(s, w, IF res = 0 THEN IdleJob ELSE SyncJob(Peers(s), res))
    BY <1>7
  <2> HIDE DEF cur, res
  <2>4. Sane(e) /\ e.prof = t.prof /\ e.msgs = t.msgs /\ e.synced = Max({t.synced, cur})
    BY <1>4, <2>2, UpdateSyncStateSane
  <2> HIDE DEF e
  <2>5. t.synced \in Seqs /\ e.synced \in {t.synced, cur}
    BY <1>4, <2>2, <2>4, Columns, MaxSeqs DEF Sane
  <2>6. ASSUME FromOwner, NEW n \in Seqs, n <= j.hd.seq
        PROVE  n <= db[Owner].lastSeq /\ Covers(e.msgs, n, signed)
    <3>1. Covers(j.msgs, j.hd.seq, signed) /\ j.hd.seq <= db[Owner].lastSeq
      BY <1>1, <1>2, <1>7, <2>6 DEF Fit, JobCovers, SnapshotCovers
    <3>2. Covers(e.msgs, j.hd.seq, signed)
      BY <1>4, <2>4, <2>6, <3>1
    <3>3. signed \subseteq Versions /\ db[Owner].lastSeq \in Seqs
      BY <2>6, Columns, Numbers DEF ChannelInv, Books, Numbered, FromOwner, Sorted
    <3>4. \A x \in signed : x.seq \in Seqs
      BY <3>3 DEF Versions
    <3> QED BY <2>1, <2>6, <3>1, <3>2, <3>3, <3>4, Numbers DEF Covers
  <2>7. RowFit(d, e)
    <3>1. ASSUME FromOwner PROVE RowCovers(e, db[Owner].lastSeq, signed)
      <4>1. RowCovers(t, db[Owner].lastSeq, signed)
        BY <1>4, <3>1 DEF RowFit
      <4>2. cur <= db[Owner].lastSeq /\ Covers(e.msgs, cur, signed)
        BY <2>2, <2>6, <3>1
      <4> QED BY <2>4, <2>5, <4>1, <4>2 DEF RowCovers
    <3> QED BY <1>4, <2>4, <3>1 DEF RowFit
  <2>8. Peers(s) \in SUBSET scope.sources
    BY DEF Peers, Sources
  <2>9. Fit(SyncJob(Peers(s), res), e)
    BY <1>1, <2>2, <2>6, <2>8, SyncJobFit
  <2>10. Fit(IdleJob, e)
    BY <1>1, IdleFit
  <2> QED BY <2>3, <2>7, <2>9, <2>10, BothMove
<1> QED BY <1>5, <1>6, <1>7 DEF ApplyMessagesStep

\* An RPC fails.
LEMMA RpcFailsMoves ==
  ASSUME ChannelInv, NEW s \in Subs, NEW w \in Workers, RpcFails(s, w)
  PROVE  Moves(s, w)
<1> DEFINE j == job[s][w]
           d == db[s]
<1>1. Fit(j, d) /\ Sane(d) /\ scope \in Scopes /\ j \in Jobs /\ Sound(scope, j, d)
  BY AtWork DEF Fit
<1>2. db' = db
  BY DEF RpcFails
<1>3. PICK p \in Peer(j) :
        Put(s, w, IF j.kind = "sync" /\ j.pc = "head" THEN EndPage(j)
                  ELSE NextPeer(s, [j EXCEPT !.left = @ \ {p}]))
  BY DEF RpcFails, Peer
<1>4. p \in Nodes
  BY <1>1, PeerIn, <1>3 DEF Peer
<1>5. CASE j.kind = "sync" /\ j.pc = "head"
  <2>1. Fit(EndPage(j), d)
    BY <1>1, <1>5, EndPageFit
  <2> QED BY <1>2, <1>3, <1>5, <2>1, JobOnly
<1>6. CASE ~(j.kind = "sync" /\ j.pc = "head")
  <2> DEFINE k == [j EXCEPT !.left = @ \ {p}]
  <2>1. Spare(k, d) /\ Put(s, w, NextPeer(s, k))
    BY <1>1, <1>3, <1>4, <1>6, SpareAt
  <2> HIDE DEF k
  <2>2. Fit(NextPeer(s, k), d)
    BY <1>1, <2>1, NextPeerFit
  <2> QED BY <1>2, <2>1, <2>2, JobOnly
<1> QED BY <1>5, <1>6

-----------------------------------------------------------------------------
(* The other steps of a subscriber                                          *)

\* Subscribing starts a snapshot.
LEMMA SubscribeMoves ==
  ASSUME ChannelInv, NEW s \in Subs, NEW l \in scope.lastSeen, SubscribeChannel(s, l)
  PROVE  Moves(s, "api")
<1> DEFINE d == db[s]
           e == EnsureSubscribedChannel(d, l)
<1>0. "api" \in Workers
  BY DEF Workers
<1>1. Sane(d) /\ scope \in Scopes
  BY <1>0, AtWork
<1>2. l \in Seqs /\ Peers(s) \in SUBSET scope.sources
  BY <1>1, ScopeParts DEF Peers, Sources
<1>3. Sane(e) /\ e.prof = d.prof /\ e.msgs = d.msgs /\ e.synced = d.synced
  BY <1>1, <1>2, EnsureSubscribedSane
<1>4. PutDb(s, e) /\ Put(s, "api", SnapshotJob(Peers(s), l, 1))
  BY DEF SubscribeChannel
<1> HIDE DEF e
<1>5. RowFit(d, e)
  BY <1>0, <1>3, SameFit
<1>6. Fit(SnapshotJob(Peers(s), l, 1), e)
  BY <1>1, <1>2, SnapshotJobFit
<1> QED BY <1>0, <1>4, <1>5, <1>6, BothMove

\* A sync starts from the cursor.
LEMMA SyncFromCursor ==
  ASSUME ChannelInv, NEW s \in Subs, NEW w \in Workers
  PROVE  Fit(SyncJob(Peers(s), db[s].synced), db[s])
<1>1. Sane(db[s]) /\ scope \in Scopes /\ RowFit(db[s], db[s])
  BY AtWork
<1>2. db[s].synced \in Seqs /\ Peers(s) \in SUBSET scope.sources
  BY <1>1, Columns DEF Sane, Peers, Sources
<1>3. FromOwner => db[s].synced <= db[Owner].lastSeq /\ Covers(db[s].msgs, db[s].synced, signed)
  BY <1>1 DEF RowFit, RowCovers
<1> QED BY <1>1, <1>2, <1>3, SyncJobFit

\* A client refreshes the channel.
LEMMA SyncChannelMoves ==
  ASSUME ChannelInv, NEW s \in Subs, SyncChannel(s)
  PROVE  Moves(s, "api")
<1>1. "api" \in Workers /\ db' = db /\ Put(s, "api", SyncJob(Peers(s), db[s].synced))
  BY DEF Workers, SyncChannel
<1> QED BY <1>1, SyncFromCursor, JobOnly

\* A note starts a sync unless the change has been seen.
LEMMA HandleNoteMoves ==
  ASSUME ChannelInv, NEW s \in Subs, NEW n, HandleNote(s, n)
  PROVE  Moves(s, "loop")
<1>1. "loop" \in Workers /\ db' = db
      /\ Put(s, "loop", IF n <= db[s].seen THEN IdleJob ELSE SyncJob(Peers(s), db[s].synced))
  BY DEF Workers, HandleNote
<1>2. Fit(IdleJob, db[s])
  BY IdleFit DEF ChannelInv, Sorted
<1> QED BY <1>1, <1>2, SyncFromCursor, JobOnly

\* The exchange with a peer.
LEMMA ExchangeMoves ==
  ASSUME ChannelInv, NEW s \in Subs, NEW p \in Nodes, ExchangeSubscriptions(s, p)
  PROVE  Moves(s, "api")
<1> DEFINE d == db[s]
           n == d.lastSeq
           base == SyncJob({p}, n)
           k == [base EXCEPT !.src = p, !.left = {}]
<1>1. "api" \in Workers /\ db' = db /\ Put(s, "api", k) /\ p \in scope.sources /\ ~FromOwner
  BY DEF Workers, ExchangeSubscriptions, Peers, Sources, FromOwner
<1>2. Sane(d) /\ scope \in Scopes
  BY <1>1, AtWork
<1>3. n \in Seqs
  BY <1>2, Columns DEF Sane
<1> HIDE DEF n
<1>4. Fit(base, d)
  BY <1>1, <1>2, <1>3, SyncJobFit
<1>5. base \in Jobs /\ Typed(scope, base, d) /\ (aged = {} => Carried(base, signed))
  BY <1>4 DEF Fit, Sound, Typed
<1>6. base.pc = "page" /\ base.kind = "sync"
  BY DEF SyncJob, IdleJob
<1> HIDE DEF base
<1>7. /\ k \in Jobs /\ k.pc = base.pc /\ k.kind = base.kind /\ k.src = p /\ k.left = {}
      /\ k.tries = base.tries /\ k.prof = base.prof /\ k.msgs = base.msgs
  BY <1>5 DEF Jobs
<1> HIDE DEF k
<1>8. Sound(scope, k, d)
  BY <1>1, <1>5, <1>6, <1>7 DEF Sound, Typed, StepsOf
<1>9. aged = {} => Carried(k, signed)
  BY <1>5, <1>6, <1>7 DEF Carried
<1> QED BY <1>1, <1>8, <1>9, JobOnly DEF Fit

\* The history is loaded.
LEMMA LoadMessagesMoves ==
  ASSUME ChannelInv, NEW s \in Subs, NEW b \in scope.ids \cup {AllIds}, LoadMessages(s, b)
  PROVE  Moves(s, "api")
<1> DEFINE d == db[s]
           q == d.prof
           peers == Peers(s)
           pc == IF Placeholder(q) THEN "profile" ELSE "messages"
           k == [IdleJob EXCEPT !.kind = "load", !.left = peers, !.before = b, !.pc = pc, !.prof = q]
           l == [IdleJob EXCEPT !.kind = "load", !.left = peers, !.before = b, !.prof = q, !.pc = pc]
<1>1. "api" \in Workers /\ db' = db /\ Put(s, "api", k)
  BY DEF Workers, LoadMessages
<1>2. Sane(d) /\ scope \in Scopes
  BY <1>1, AtWork
<1>3. q \in Profiles /\ peers \in SUBSET scope.sources
  BY <1>2, Columns DEF Sane, Peers, Sources
<1>4. b \in Nat
  <2>1. PICK n \in Nat \ {0} : Ids = 1..n
    BY Numbers
  <2>2. Ids \in SUBSET (0..n) /\ Ids # {}
    <3>1. 1 \in Ids
      BY <2>1
    <3> QED BY <2>1, <3>1
  <2>3. n \in Nat /\ Ids \subseteq Nat
    BY <2>1
  <2>4. Max(Ids) \in Ids
    BY ONLY <2>2, <2>3, MaxOf
  <2> DEFINE m == Max(Ids)
  <2>5. m \in Ids /\ AllIds = m + 1
    BY <2>4 DEF AllIds
  <2> HIDE DEF m
  <2>6. scope.ids \subseteq Ids
    BY <1>2, ScopeParts
  <2>7. AllIds \in Nat
    BY <2>3, <2>5
  <2> QED BY <2>3, <2>6, <2>7
<1>5. k = l
  <2> HIDE DEF q, peers, pc
  <2> QED BY ZenonT(40) DEF IdleJob
<1>6. Fit(l, d)
  BY <1>2, <1>3, <1>4, LoadJobFit
<1> HIDE DEF k, l
<1> QED BY <1>1, <1>5, <1>6, JobOnly

\* A client leaves the channel.
LEMMA UnsubscribeMoves ==
  ASSUME ChannelInv, NEW s \in Subs, UnsubscribeChannel(s)
  PROVE  Moves(s, "api")
<1> DEFINE d == db[s]
           e == [d EXCEPT !.sub = FALSE]
           j == job[s]["api"]
<1>1. "api" \in Workers /\ PutDb(s, e) /\ job' = job
  BY DEF Workers, UnsubscribeChannel
<1>2. Sane(d) /\ Fit(j, d) /\ d \in Tables
  BY <1>1, AtWork DEF Sane
<1>3. /\ e \in Tables /\ e.prof = d.prof /\ e.msgs = d.msgs /\ e.log = d.log /\ e.head = d.head
      /\ e.pver = d.pver /\ e.synced = d.synced
  BY <1>2 DEF Tables
<1> HIDE DEF e
<1>4. Sane(e)
  BY <1>2, <1>3 DEF Sane, Held
<1>5. RowFit(d, e)
  BY <1>1, <1>3, <1>4, SameFit
<1>6. Fit(j, e)
  BY <1>2, <1>5, FitKept
<1>7. Put(s, "api", j)
  BY <1>1 DEF Put, ChannelInv, Sorted
<1> QED BY <1>1, <1>5, <1>6, <1>7, BothMove

-----------------------------------------------------------------------------
(* From the parts to the invariant                                          *)

\* What a subscriber's step leaves alone.
SubFrame ==
    /\ UNCHANGED <<call, aged, pushes, pushing, stored, signed, scope>>
    /\ topic' \subseteq Subs /\ notes' \in [Subs -> SUBSET Seqs] /\ faults' \in 0..scope.budget

\* A step of one node keeps the invariant when its row and both its jobs fit:
\* the other nodes see no difference.
LEMMA SubKeeps ==
  ASSUME ChannelInv, NEW s \in Subs, NEW e, NEW f \in [Workers -> Jobs],
         db' = [db EXCEPT ![s] = e], job' = [job EXCEPT ![s] = f],
         RowFit(db[s], e), \A v \in Workers : Fit(f[v], e), SubFrame
  PROVE  ChannelInv'
<1>1. /\ db \in [Nodes -> Tables] /\ job \in [Subs -> [Workers -> Jobs]] /\ s \in Nodes /\ s # Owner
      /\ Owner \in Nodes
  BY Numbers DEF ChannelInv, Sorted
<1>2. /\ db'[Owner] = db[Owner] /\ db'[s] = e
      /\ \A n \in Nodes : n # s => db'[n] = db[n]
      /\ \A t \in Subs, v \in Workers : job'[t][v] = IF t = s THEN f[v] ELSE job[t][v]
  BY <1>1
<1>3. \A t \in Subs, v \in Workers : Fit(job'[t][v], db'[t])
  <2> SUFFICES ASSUME NEW t \in Subs, NEW v \in Workers PROVE Fit(job'[t][v], db'[t])
    OBVIOUS
  <2>1. Fit(job[t][v], db[t])
    BY AtWork
  <2> QED BY <1>2, <2>1, Numbers
<1>4. \A t \in Subs : RowFit(db[t], db'[t])
  <2> SUFFICES ASSUME NEW t \in Subs PROVE RowFit(db[t], db'[t])
    OBVIOUS
  <2>1. RowFit(db[t], db[t])
    BY AtWork DEF Workers
  <2> QED BY <1>2, <2>1, Numbers
<1>5. /\ scope' = scope /\ signed' = signed /\ aged' = aged /\ call' = call /\ stored' = stored
      /\ pushing' = pushing /\ pushes' = pushes
  BY DEF SubFrame
<1>6. Sorted'
  <2>1. e \in Tables
    BY DEF RowFit, Sane
  <2>2. db' \in [Nodes -> Tables] /\ job' \in [Subs -> [Workers -> Jobs]]
    BY <1>1, <2>1
  <2>3. \A n \in Nodes : Sane(db'[n])
    BY <1>2 DEF ChannelInv, Sorted, RowFit
  <2>4. \A n \in Nodes : Sane(db[n])'
    BY <2>3 DEF Sane, Held
  <2>5. \A t \in Subs, v \in Workers : Sound(scope, job'[t][v], db'[t])
    BY <1>3 DEF Fit
  <2>6. \A t \in Subs, v \in Workers : Sound(scope, job[t][v], db[t])'
    BY <1>5, <2>5 DEF Sound, Typed
  <2>7. \A c \in Callers : Rooted(call[c], db[Owner])'
    BY <1>2, <1>5 DEF ChannelInv, Sorted, Rooted
  <2> QED BY <1>2, <1>5, <2>2, <2>4, <2>6, <2>7 DEF ChannelInv, Sorted, SubFrame
<1>7. Books'
  <2> SUFFICES ASSUME aged = {} PROVE Books'
    BY <1>5 DEF Books
  <2>1. \A n \in Nodes : Genuine(db'[n].msgs, signed)
    BY <1>2 DEF ChannelInv, Books, RowFit
  <2>2. \A t \in Subs, v \in Workers : Carried(job'[t][v], signed)
    BY <1>3 DEF Fit
  <2>3. \A n \in Nodes : Genuine(db[n].msgs, signed)'
    BY <1>5, <2>1 DEF Genuine
  <2>4. \A t \in Subs, v \in Workers : Carried(job[t][v], signed)'
    BY <1>5, <2>2 DEF Carried, Genuine
  <2>5. Numbered(db[Owner], signed)'
    BY <1>2, <1>5 DEF ChannelInv, Books, Numbered
  <2>6. \A c \in Callers : (call[c].pc = "commit" => UpToDate(call[c], db[Owner]))'
    BY <1>2, <1>5 DEF ChannelInv, Books, UpToDate
  <2> QED BY <1>2, <1>5, <2>3, <2>4, <2>5, <2>6 DEF ChannelInv, Books
<1>8. Caught'
  <2>1. FromOwner' <=> FromOwner
    BY <1>5 DEF FromOwner, Ops, Sources, PageLimit
  <2> SUFFICES ASSUME FromOwner PROVE Caught'
    BY <2>1 DEF Caught
  <2>2. \A t \in Subs : RowCovers(db'[t], db[Owner].lastSeq, signed)
    BY <1>4 DEF RowFit
  <2>3. \A t \in Subs, v \in Workers : JobCovers(job'[t][v], db'[t].msgs, db[Owner].lastSeq, signed)
    BY <1>3 DEF Fit
  <2>4. \A t \in Subs : RowCovers(db[t], db[Owner].lastSeq, signed)'
    BY <1>2, <1>5, <2>2 DEF RowCovers, Covers
  <2>5. \A t \in Subs, v \in Workers : JobCovers(job[t][v], db[t].msgs, db[Owner].lastSeq, signed)'
    BY SMTT(20), <1>2, <1>5, <2>3 DEF JobCovers, SyncCovers, SnapshotCovers, Covers
  <2> QED BY <2>4, <2>5 DEF Caught
<1> QED BY <1>6, <1>7, <1>8 DEF ChannelInv

\* A step of one worker: the other worker of the node sees a row that is at
\* least as new.
LEMMA WorkerKeeps ==
  ASSUME ChannelInv, NEW s \in Subs, NEW w \in Workers, Moves(s, w), SubFrame
  PROVE  ChannelInv'
<1>1. PICK e, j : /\ db' = [db EXCEPT ![s] = e] /\ job' = [job EXCEPT ![s][w] = j]
                  /\ RowFit(db[s], e) /\ Fit(j, e)
  BY DEF Moves
<1> DEFINE f == [job[s] EXCEPT ![w] = j]
<1>2. job \in [Subs -> [Workers -> Jobs]] /\ Sane(db[s]) /\ j \in Jobs
  BY <1>1, AtWork DEF ChannelInv, Sorted, Fit, Sound, Typed
<1>3. f \in [Workers -> Jobs] /\ job' = [job EXCEPT ![s] = f]
  BY <1>1, <1>2
<1>4. \A v \in Workers : Fit(job[s][v], e)
  BY <1>1, <1>2, AtWork, FitKept
<1>5. \A v \in Workers : Fit(f[v], e)
  BY <1>1, <1>2, <1>4
<1> HIDE DEF f
<1> QED BY <1>1, <1>3, <1>5, SubKeeps

\* The owner's step: row d and history log after it.  A version it adds has a
\* sequence number nobody has seen yet.
OwnerMoves(d, log) ==
    /\ db' = [db EXCEPT ![Owner] = d] /\ signed' = log
    /\ Sane(d) /\ (db[Owner].here => d.here) /\ (d.here => ~Placeholder(d.prof))
    /\ aged = {} =>
          /\ Numbered(d, log) /\ Genuine(d.msgs, log) /\ signed \subseteq log
          /\ \A x \in log \ signed : x.seq > db[Owner].lastSeq
          /\ d.lastSeq >= db[Owner].lastSeq

\* What an owner's step leaves alone, and what its calls and pushes keep to.
OwnerFrame(d) ==
    /\ UNCHANGED <<job, aged, scope>> /\ topic' = topic
    /\ notes' \in [Subs -> SUBSET Seqs] /\ faults' \in 0..scope.budget
    /\ call' \in [Callers -> Calls] /\ \A c \in Callers : Rooted(call'[c], d)
    /\ pushes' \in SUBSET Seqs /\ pushing' \in Seqs \cup {NoPush} /\ stored' \in Seqs
    /\ aged = {} =>
          /\ \A c \in Callers : call'[c].pc = "commit" => UpToDate(call'[c], d)
          /\ stored' <= d.lastSeq
          /\ pushing' # NoPush => stored' <= pushing' /\ pushing' <= d.lastSeq

\* What a subscriber has covered stays covered: the new version comes later.
LEMMA StillCovers ==
  ASSUME NEW log, NEW old, NEW last \in Seqs, NEW next \in Seqs, log \subseteq Versions, old \subseteq log,
         \A x \in log \ old : x.seq > last, next >= last
  PROVE  /\ \A ms : \A n \in Seqs : (n <= last /\ Covers(ms, n, old)) => Covers(ms, n, log)
         /\ \A d \in Tables : RowCovers(d, last, old) => RowCovers(d, next, log)
         /\ \A j \in Jobs : \A ms :
               ((j.pc = "apply" => j.items # {}) /\ JobCovers(j, ms, last, old)) => JobCovers(j, ms, next, log)
<1>1. \A x \in log : x.seq \in Seqs
  BY DEF Versions
<1>2. ASSUME NEW ms, NEW n \in Seqs, n <= last, Covers(ms, n, old) PROVE Covers(ms, n, log)
  BY <1>1, <1>2, Numbers DEF Covers
<1>3. ASSUME NEW d \in Tables, RowCovers(d, last, old) PROVE RowCovers(d, next, log)
  <2>1. d.synced \in Seqs
    BY Columns
  <2> QED BY <1>2, <1>3, <2>1, Numbers DEF RowCovers
<1>4. ASSUME NEW j \in Jobs, NEW ms, j.pc = "apply" => j.items # {}, SyncCovers(j, ms, last, old)
      PROVE  SyncCovers(j, ms, next, log)
  <2>1. /\ j.after \in Seqs /\ j.next \in Seqs /\ j.cur \in Seqs /\ j.last \in Seqs /\ j.page \in Seqs
        /\ j.items \in SUBSET Changes
    BY Locals
  <2>2. j.after <= last /\ j.next <= last /\ j.cur <= last
    BY <1>4 DEF SyncCovers
  <2>3. j.after <= next /\ j.next <= next /\ j.cur <= next
    BY <2>1, <2>2, Numbers
  <2>4. Covers(ms, j.after, log) /\ Covers(ms, j.next, log)
    BY <1>2, <1>4, <2>1, <2>2 DEF SyncCovers
  <2>5. j.pc = "finish" => Covers(ms, j.cur, log)
    BY <1>2, <1>4, <2>1, <2>2 DEF SyncCovers
  <2>6. ASSUME j.pc \in {"item", "apply", "head"}
        PROVE  /\ j.cur <= j.last /\ j.last <= next /\ j.page <= next
               /\ j.more => j.page > j.next
               /\ \A c \in j.items : c.seq <= next
               /\ \A x \in log : x.seq <= (IF j.more THEN j.page ELSE j.last) =>
                     (ms[x.id].ver >= x.ver \/ Row(x) \in j.items)
    <3>1. /\ j.cur <= j.last /\ j.last <= last /\ j.page <= last
          /\ j.more => j.page > j.next
          /\ \A c \in j.items : c.seq <= last
          /\ \A x \in old : x.seq <= (IF j.more THEN j.page ELSE j.last) =>
                (ms[x.id].ver >= x.ver \/ Row(x) \in j.items)
      BY <1>4, <2>6 DEF SyncCovers
    <3>2. \A c \in j.items : c.seq \in Seqs
      BY <2>1 DEF Changes
    <3>3. ASSUME NEW x \in log, x.seq <= (IF j.more THEN j.page ELSE j.last)
          PROVE  ms[x.id].ver >= x.ver \/ Row(x) \in j.items
      <4>1. x \in old
        BY <1>1, <2>1, <3>1, <3>3, Numbers
      <4> QED BY <3>1, <3>3, <4>1
    <3>4. j.last <= next /\ j.page <= next /\ \A c \in j.items : c.seq <= next
      BY <2>1, <3>1, <3>2, Numbers
    <3> QED BY <3>1, <3>3, <3>4
  <2>7. ASSUME j.pc = "apply", NEW x \in log, Row(x) = Earliest(j.items) PROVE j.msg.ver >= x.ver
    <3>1. Earliest(j.items) \in j.items
      BY <1>4, <2>1, <2>7, EarliestIn
    <3>2. x.seq <= last
      BY <1>4, <2>7, <3>1 DEF SyncCovers, Row
    <3>3. x \in old
      BY <1>1, <3>2, Numbers
    <3> QED BY <1>4, <2>7, <3>3 DEF SyncCovers
  <2> QED BY <1>4, <2>3, <2>4, <2>5, <2>6, <2>7 DEF SyncCovers
<1>5. ASSUME NEW j \in Jobs, SnapshotCovers(j, last, old) PROVE SnapshotCovers(j, next, log)
  <2>1. j.hd.seq \in Seqs
    BY Locals DEF Heads
  <2> QED BY <1>2, <1>5, <2>1, Numbers DEF SnapshotCovers
<1> QED BY <1>2, <1>3, <1>4, <1>5 DEF JobCovers

\* A step of the owner keeps the invariant.
LEMMA OwnerKeeps ==
  ASSUME ChannelInv, NEW d, NEW log, OwnerMoves(d, log), OwnerFrame(d)
  PROVE  ChannelInv'
<1>1. /\ db \in [Nodes -> Tables] /\ job \in [Subs -> [Workers -> Jobs]] /\ Owner \in Nodes
      /\ \A s \in Subs : s \in Nodes /\ s # Owner /\ Sane(db[s])
      /\ db' = [db EXCEPT ![Owner] = d] /\ signed' = log /\ d \in Tables /\ Sane(d)
  BY Numbers DEF ChannelInv, Sorted, OwnerMoves, Sane
<1>2. /\ db'[Owner] = d /\ db' \in [Nodes -> Tables]
      /\ \A n \in Nodes : n # Owner => db'[n] = db[n]
      /\ \A s \in Subs : db'[s] = db[s]
  BY <1>1
<1>3. job' = job /\ aged' = aged /\ scope' = scope /\ topic' = topic
  BY DEF OwnerFrame
<1>4. \A s \in Subs, w \in Workers : job[s][w] \in Jobs /\ Sound(scope, job[s][w], db[s])
  BY <1>1 DEF ChannelInv, Sorted
<1>5. Sorted'
  <2>1. \A n \in Nodes : Sane(db'[n])
    BY <1>1, <1>2 DEF ChannelInv, Sorted
  <2>2. \A n \in Nodes : Sane(db[n])'
    BY <2>1 DEF Sane, Held
  <2>3. \A s \in Subs, w \in Workers : Sound(scope, job[s][w], db[s])'
    BY <1>2, <1>3, <1>4 DEF Sound, Typed
  <2>4. /\ topic' \subseteq Subs /\ aged' \subseteq Ids /\ job' \in [Subs -> [Workers -> Jobs]]
        /\ scope' \in Scopes
    BY <1>3 DEF ChannelInv, Sorted
  <2>5. (db[Owner].here => ~Placeholder(db[Owner].prof))'
    BY <1>2 DEF OwnerMoves, Placeholder
  <2>6. \A c \in Callers : Rooted(call[c], db[Owner])'
    BY <1>2 DEF OwnerFrame, Rooted
  <2> QED BY <1>2, <1>3, <2>2, <2>3, <2>4, <2>5, <2>6 DEF Sorted, OwnerFrame
<1>6. Books'
  <2> SUFFICES ASSUME aged = {} PROVE Books'
    BY <1>3 DEF Books
  <2>1. Numbered(d, log) /\ Genuine(d.msgs, log) /\ signed \subseteq log
    BY DEF OwnerMoves
  <2>2. \A n \in Nodes : Genuine(db'[n].msgs, log)
    BY <1>2, <2>1 DEF ChannelInv, Books, Genuine
  <2>3. \A n \in Nodes : Genuine(db[n].msgs, signed)'
    BY <1>1, <2>2 DEF Genuine
  <2>4. \A s \in Subs, w \in Workers : Carried(job[s][w], log)
    BY <2>1 DEF ChannelInv, Books, Carried, Genuine
  <2>5. \A s \in Subs, w \in Workers : Carried(job[s][w], signed)'
    BY <1>1, <1>3, <2>4 DEF Carried, Genuine
  <2>6. Numbered(db[Owner], signed)'
    BY <1>1, <1>2, <2>1 DEF Numbered
  <2>7. \A c \in Callers : (call[c].pc = "commit" => UpToDate(call[c], db[Owner]))'
    BY <1>2 DEF OwnerFrame, UpToDate
  <2> QED BY <1>2, <2>3, <2>5, <2>6, <2>7 DEF OwnerFrame, Books
<1>7. Caught'
  <2>1. FromOwner' <=> FromOwner
    BY <1>3 DEF FromOwner, Ops, Sources, PageLimit
  <2> SUFFICES ASSUME FromOwner PROVE Caught'
    BY <2>1 DEF Caught
  <2> DEFINE last == db[Owner].lastSeq
             next == d.lastSeq
  <2>2. last \in Seqs /\ next \in Seqs /\ aged = {}
    BY <1>1, Columns DEF FromOwner
  <2>3. log \subseteq Versions /\ signed \subseteq log /\ (\A x \in log \ signed : x.seq > last) /\ next >= last
    BY <2>2 DEF OwnerMoves, Numbered
  <2>4. /\ \A s \in Subs : RowCovers(db[s], last, signed) /\ db[s] \in Tables
        /\ \A s \in Subs, w \in Workers : JobCovers(job[s][w], db[s].msgs, last, signed)
    BY <1>1 DEF ChannelInv, Caught
  <2>5. next = db'[Owner].lastSeq
    BY <1>2
  <2> HIDE DEF last, next
  <2>6. \A s \in Subs : RowCovers(db[s], next, log)
    BY <2>2, <2>3, <2>4, StillCovers
  <2>7. \A s \in Subs, w \in Workers : JobCovers(job[s][w], db[s].msgs, next, log)
    <3>1. \A s \in Subs, w \in Workers : job[s][w].pc = "apply" => job[s][w].items # {}
      BY <1>4 DEF Sound
    <3> QED BY <1>4, <2>2, <2>3, <2>4, <3>1, StillCovers
  <2>8. \A s \in Subs : RowCovers(db[s], db[Owner].lastSeq, signed)'
    BY <1>1, <1>2, <2>5, <2>6 DEF RowCovers, Covers
  <2>9. \A s \in Subs, w \in Workers : JobCovers(job[s][w], db[s].msgs, db[Owner].lastSeq, signed)'
    BY <1>1, <1>2, <1>3, <2>5, <2>7 DEF JobCovers, SyncCovers, SnapshotCovers, Covers
  <2> QED BY <2>8, <2>9 DEF Caught
<1> QED BY <1>5, <1>6, <1>7 DEF ChannelInv

-----------------------------------------------------------------------------
(* The steps of the owner                                                   *)

\* The owner's tables and calls.
LEMMA OwnerAt ==
  ASSUME ChannelInv
  PROVE  /\ Owner \in Nodes /\ Sane(db[Owner]) /\ db[Owner] \in Tables
         /\ db = [db EXCEPT ![Owner] = db[Owner]] /\ db \in [Nodes -> Tables]
         /\ call \in [Callers -> Calls] /\ \A c \in Callers : Rooted(call[c], db[Owner])
         /\ db[Owner].here => ~Placeholder(db[Owner].prof)
         /\ scope \in Scopes /\ scope.budget \in Nat /\ faults \in 0..scope.budget
         /\ pushes \in SUBSET Seqs /\ pushing \in Seqs \cup {NoPush} /\ stored \in Seqs
         /\ notes \in [Subs -> SUBSET Seqs]
         /\ aged = {} =>
               /\ Numbered(db[Owner], signed) /\ Genuine(db[Owner].msgs, signed)
               /\ \A c \in Callers : call[c].pc = "commit" => UpToDate(call[c], db[Owner])
               /\ stored <= db[Owner].lastSeq
               /\ pushing # NoPush => stored <= pushing /\ pushing <= db[Owner].lastSeq
<1>1. Owner \in Nodes
  BY Numbers
<1>2. /\ db \in [Nodes -> Tables] /\ \A n \in Nodes : Sane(db[n])
      /\ call \in [Callers -> Calls] /\ \A c \in Callers : Rooted(call[c], db[Owner])
      /\ db[Owner].here => ~Placeholder(db[Owner].prof)
      /\ scope \in Scopes /\ faults \in 0..scope.budget
      /\ pushes \in SUBSET Seqs /\ pushing \in Seqs \cup {NoPush} /\ stored \in Seqs
      /\ notes \in [Subs -> SUBSET Seqs]
  BY DEF ChannelInv, Sorted
<1>3. scope.budget \in Nat
  BY <1>2, ScopeParts
<1>4. aged = {} =>
         /\ Numbered(db[Owner], signed) /\ Genuine(db[Owner].msgs, signed)
         /\ \A c \in Callers : call[c].pc = "commit" => UpToDate(call[c], db[Owner])
         /\ stored <= db[Owner].lastSeq
         /\ pushing # NoPush => stored <= pushing /\ pushing <= db[Owner].lastSeq
  BY <1>1 DEF ChannelInv, Books
<1> QED BY <1>1, <1>2, <1>3, <1>4

\* A step that writes no table of the owner.
LEMMA SameTables ==
  ASSUME ChannelInv, db' = db, signed' = signed
  PROVE  OwnerMoves(db[Owner], signed)
<1>1. db[Owner].lastSeq \in Int
  BY OwnerAt, Columns, Numbers
<1> QED BY <1>1, OwnerAt DEF OwnerMoves

\* One call moves, the tables and the pushes do not.
LEMMA OneCall ==
  ASSUME ChannelInv, NEW c \in Callers, NEW k \in Calls, call' = [call EXCEPT ![c] = k],
         UNCHANGED <<db, topic, notes, job, aged, pushes, pushing, stored, prov, signed, faults, scope>>,
         Rooted(k, db[Owner]), (aged = {} /\ k.pc = "commit") => UpToDate(k, db[Owner])
  PROVE  ChannelInv'
<1>1. OwnerMoves(db[Owner], signed)
  BY SameTables
<1>2. call' \in [Callers -> Calls] /\ \A x \in Callers : call'[x] = IF x = c THEN k ELSE call[x]
  BY OwnerAt
<1>3. OwnerFrame(db[Owner])
  BY <1>2, OwnerAt DEF OwnerFrame
<1> QED BY <1>1, <1>3, OwnerKeeps

\* The channel is created; no call is under way yet.
LEMMA CreateChannelKeeps ==
  ASSUME ChannelInv, NEW limited \in BOOLEAN, CreateChannel(limited)
  PROVE  ChannelInv'
<1> DEFINE d == db[Owner]
           p == [ver |-> 1, at |-> 0, limited |-> limited]
           h == [seq |-> 0, last |-> 0, pver |-> 1]
           e == [d EXCEPT !.here = TRUE, !.sub = TRUE, !.pver = 1, !.prof = p, !.head = h]
<1>1. 0 \in Seqs /\ 1 \in Nat
  BY Numbers
<1>2. p \in Profiles /\ h \in Heads /\ ~Placeholder(p)
  BY <1>1 DEF Profiles, Heads, Placeholder
<1>3. db' = [db EXCEPT ![Owner] = e] /\ ~d.here /\ signed' = signed
  BY DEF CreateChannel
<1> HIDE DEF p, h
<1>4. /\ e \in Tables /\ e.here /\ e.prof = p /\ e.msgs = d.msgs /\ e.log = d.log
      /\ e.lastSeq = d.lastSeq /\ e.lastMsg = d.lastMsg
  BY <1>1, <1>2, OwnerAt DEF Tables
<1> HIDE DEF e
<1>5. Sane(e)
  BY <1>2, <1>4, OwnerAt DEF Sane
<1>6. d.lastSeq \in Int
  BY OwnerAt, Columns, Numbers
<1>7. aged = {} => Numbered(e, signed) /\ Genuine(e.msgs, signed)
  BY <1>4, OwnerAt DEF Numbered
<1>8. OwnerMoves(e, signed)
  BY <1>2, <1>3, <1>4, <1>5, <1>6, <1>7 DEF OwnerMoves
<1>9. \A c \in Callers : call[c].pc = "idle"
  BY <1>3, OwnerAt DEF Rooted
<1>10. OwnerFrame(e)
  <2>1. pushes' \in SUBSET Seqs
    BY <1>1 DEF CreateChannel
  <2> QED BY <1>4, <1>9, <2>1, OwnerAt DEF OwnerFrame, CreateChannel, Rooted
<1> QED BY <1>8, <1>10, OwnerKeeps

\* A call begins.
LEMMA BeginCallKeeps ==
  ASSUME ChannelInv, NEW c \in Callers, NEW op \in {"create", "profile"} \cup Editing, NEW i \in Ids,
         NEW limited \in BOOLEAN, BeginCall(c, op, i, limited)
  PROVE  ChannelInv'
<1> DEFINE p == GetChannelProfile(db[Owner])
           id == IF op \in Editing THEN i ELSE 0
           k == [IdleCall EXCEPT !.pc = "head", !.op = op, !.limited = limited, !.id = id, !.prof = p]
<1>1. p \in Profiles
  BY OwnerAt, Columns DEF GetChannelProfile, Profiles
<1>2. id \in Ids \cup {0} /\ (op \in Editing => id \in Ids)
  OBVIOUS
<1>3. call' = [call EXCEPT ![c] = k]
  BY DEF BeginCall
<1> HIDE DEF p, id
<1>4. k \in Calls /\ k.pc = "head" /\ k.op = op /\ k.id = id
  <2>1. IdleCall \in Calls
    BY Numbers DEF IdleCall, Calls, NoProfile, NoHead, NoMsg, Profiles, Heads, Messages
  <2> QED BY <1>1, <1>2, <2>1 DEF Calls
<1> HIDE DEF k
<1>5. Rooted(k, db[Owner])
  BY <1>2, <1>4 DEF Rooted, BeginCall
<1> QED BY <1>3, <1>4, <1>5, OneCall DEF BeginCall

\* A call reads the head and the message.
LEMMA ReadHeadKeeps ==
  ASSUME ChannelInv, NEW c \in Callers, ReadHead(c)
  PROVE  ChannelInv'
<1> DEFINE d == db[Owner]
           k == call[c]
           m == d.msgs[k.id]
           h == GetChannelHead(d)
           q == IF k.op \in Editing THEN m ELSE NoMsg
           l == [k EXCEPT !.pc = "commit", !.head = h, !.msg = q]
           over == k.op \in Editing /\ (m = NoMsg \/ m.del)
<1>1. k \in Calls /\ k.pc = "head" /\ call' = [call EXCEPT ![c] = IF over THEN IdleCall ELSE l]
  BY OwnerAt DEF ReadHead
<1>2. d.here /\ (k.op \in Editing => k.id \in Ids)
  BY <1>1, OwnerAt DEF Rooted
<1>3. h \in Heads /\ h.seq = d.lastSeq /\ h.last = d.lastMsg
  BY OwnerAt, Columns DEF GetChannelHead, Heads
<1>4. q \in Messages
  <2>1. NoMsg \in Messages
    BY Numbers DEF NoMsg, Messages
  <2> QED BY <1>2, <2>1, OwnerAt, Columns
<1>5. CASE over
  <2>1. IdleCall \in Calls /\ IdleCall.pc = "idle"
    BY Numbers DEF IdleCall, Calls, NoProfile, NoHead, NoMsg, Profiles, Heads, Messages
  <2> QED BY <1>1, <1>5, <2>1, OneCall DEF ReadHead, Rooted
<1>6. CASE ~over
  <2>1. q = IF k.op \in Editing THEN m ELSE NoMsg
    OBVIOUS
  <2> HIDE DEF h, q
  <2>2. l \in Calls /\ l.pc = "commit" /\ l.op = k.op /\ l.id = k.id /\ l.head = h /\ l.msg = q
    BY <1>1, <1>3, <1>4 DEF Calls
  <2>3. call' = [call EXCEPT ![c] = l]
    BY <1>1, <1>6
  <2> HIDE DEF l
  <2>4. Rooted(l, d)
    BY <1>2, <2>2 DEF Rooted
  <2>5. d.lastSeq \in Int
    BY OwnerAt, Columns, Numbers
  <2>6. UpToDate(l, d)
    BY <1>2, <1>3, <1>6, <2>1, <2>2, <2>5 DEF UpToDate
  <2> QED BY <2>2, <2>3, <2>4, <2>6, OneCall DEF ReadHead
<1> QED BY <1>5, <1>6

\* What a call commits, in the words of Commit.
NewSeq(k) == k.head.seq + 1
NewId(k) == CASE k.op = "create" -> k.head.last + 1
              [] k.op \in Editing -> k.id
              [] OTHER -> 0
NewMsg(k) == [ver |-> k.msg.ver + 1, seq |-> k.head.seq + 1, del |-> k.op = "delete"]
NewProf(k, d) ==
    IF k.op = "profile" THEN [ver |-> k.prof.ver + 1, at |-> k.head.seq + 1, limited |-> k.limited] ELSE d.prof
NewRow(k) == [seq |-> k.head.seq + 1, kind |-> IF NewId(k) = 0 THEN "profile" ELSE "message", id |-> NewId(k)]
After(d, k) == Committed(d, k, NewId(k), NewMsg(k), NewProf(k, d), NewSeq(k))

\* The row that a commit writes.
LEMMA CommittedSane ==
  ASSUME NEW d, Sane(d), ~Placeholder(d.prof), NEW k \in Calls, NewSeq(k) <= MaxSeq, NewId(k) \in Ids \cup {0}
  PROVE  LET e == After(d, k)
         IN  /\ Sane(e) /\ e.here = d.here /\ ~Placeholder(e.prof)
             /\ e.lastSeq = NewSeq(k) /\ e.lastMsg = Max({k.head.last, NewId(k)})
             /\ e.msgs = (IF NewId(k) = 0 THEN d.msgs ELSE [d.msgs EXCEPT ![NewId(k)] = NewMsg(k)])
             /\ e.log = d.log \cup {NewRow(k)}
<1> DEFINE n == NewSeq(k)
           i == NewId(k)
           m == NewMsg(k)
           p == NewProf(k, d)
           v == IF k.op = "profile" THEN p.ver ELSE k.prof.ver
           x == Max({k.head.last, i})
           h == [seq |-> n, last |-> x, pver |-> v]
           r == [seq |-> n, kind |-> IF i = 0 THEN "profile" ELSE "message", id |-> i]
           ms == IF i = 0 THEN d.msgs ELSE [d.msgs EXCEPT ![i] = m]
           log == d.log \cup {r}
           e == [d EXCEPT !.prof = p, !.pver = v, !.lastSeq = n, !.lastMsg = x, !.head = h,
                          !.msgs = ms, !.log = log, !.seen = n, !.synced = n, !.sub = TRUE]
<1>1. d \in Tables /\ IsFiniteSet(d.log)
  BY DEF Sane
<1>2. /\ k.head \in Heads /\ k.msg \in Messages /\ k.prof \in Profiles /\ k.limited \in BOOLEAN
  BY DEF Calls
<1>3. k.head.seq \in Seqs /\ k.head.last \in Ids \cup {0} /\ k.msg.ver \in Nat /\ k.prof.ver \in Nat
  BY <1>2 DEF Heads, Messages, Profiles
<1>4. n \in Seqs /\ n = k.head.seq + 1
  BY <1>3, Numbers DEF NewSeq
<1>5. m \in Messages
  BY <1>3, <1>4 DEF Messages, NewMsg
<1>6. p \in Profiles /\ ~Placeholder(p) /\ v \in Nat
  <2>1. d.prof \in Profiles
    BY <1>1, Columns
  <2> QED BY <1>2, <1>3, <1>4, <2>1 DEF NewProf, Profiles, Placeholder
<1>7. r = NewRow(k)
  BY <1>4 DEF NewRow
<1>8. e = After(d, k)
  BY DEF After, Committed
<1>9. i \in Ids \cup {0}
  OBVIOUS
<1>10. x = Max({k.head.last, NewId(k)}) /\ n = NewSeq(k) /\ i = NewId(k) /\ m = NewMsg(k)
  OBVIOUS
<1> HIDE DEF n, i, m, p
<1>11. x \in Ids \cup {0}
  BY <1>3, <1>9, MaxIds
<1>12. h \in Heads /\ r \in Changes
  <2> HIDE DEF x, v
  <2> QED BY <1>4, <1>6, <1>9, <1>11 DEF Heads, Changes
<1>13. ms \in [Ids -> Messages] /\ log \in SUBSET Changes /\ IsFiniteSet(log)
  <2>1. d.msgs \in [Ids -> Messages] /\ d.log \in SUBSET Changes
    BY <1>1, Columns
  <2>2. IsFiniteSet(log)
    <3> HIDE DEF r
    <3> QED BY <1>1, FS_AddElement
  <2>3. log \in SUBSET Changes
    <3> HIDE DEF r
    <3> QED BY <1>12, <2>1
  <2>4. ms \in [Ids -> Messages]
    BY <1>5, <2>1
  <2> QED BY <2>2, <2>3, <2>4
<1>14. ms = (IF NewId(k) = 0 THEN d.msgs ELSE [d.msgs EXCEPT ![NewId(k)] = NewMsg(k)])
  BY <1>10
<1>15. log = d.log \cup {NewRow(k)}
  BY <1>7
<1> HIDE DEF v, x, h, r, ms, log
<1>16. /\ e \in Tables /\ e.here = d.here /\ e.prof = p /\ e.lastSeq = n /\ e.lastMsg = x
       /\ e.msgs = ms /\ e.log = log
  BY <1>1, <1>4, <1>6, <1>11, <1>12, <1>13 DEF Tables
<1> HIDE DEF e
<1>17. Sane(e)
  BY <1>6, <1>13, <1>16 DEF Sane
<1> QED BY <1>6, <1>8, <1>10, <1>14, <1>15, <1>16, <1>17

\* The history after a commit.
NewLog(k, log) ==
    IF NewId(k) = 0 THEN log
    ELSE log \cup {[id |-> NewId(k), ver |-> NewMsg(k).ver, seq |-> NewSeq(k), del |-> NewMsg(k).del]}

\* While the changes are numbered without gap, a call that read an old head
\* meets its number in the table of changes: UNIQUE(seq) refuses the commit.
LEMMA OnlyFreshCommit ==
  ASSUME NEW d, Sane(d), NEW log, Numbered(d, log), NEW k \in Calls, UpToDate(k, d), ~SeqTaken(d, NewSeq(k))
  PROVE  k.head.seq = d.lastSeq
<1>1. k.head.seq \in Nat /\ d.lastSeq \in Nat
  BY Columns, Numbers DEF Sane, Calls, Heads
<1>2. k.head.seq <= d.lastSeq
  BY DEF UpToDate
<1>3. ~(NewSeq(k) \in 1..d.lastSeq)
  BY DEF Numbered, SeqTaken
<1> QED BY <1>1, <1>2, <1>3 DEF NewSeq

\* What a call that is up to date signs: a new message, or the next version of
\* one that is not deleted.
LEMMA NextVersion ==
  ASSUME NEW d, Sane(d), NEW log, Numbered(d, log), Genuine(d.msgs, log), NEW k \in Calls, UpToDate(k, d),
         k.head.seq = d.lastSeq, NewId(k) \in Ids
  PROVE  /\ NewMsg(k).ver \in Nat \ {0} /\ NewMsg(k).seq = d.lastSeq + 1
         /\ \A x \in log : x.id = NewId(k) => x.ver < NewMsg(k).ver /\ ~x.del
         /\ d.msgs[NewId(k)] # NoMsg => NewMsg(k).ver > d.msgs[NewId(k)].ver /\ ~d.msgs[NewId(k)].del
<1> DEFINE i == NewId(k)
           old == d.msgs[i]
<1>1. /\ k.msg.ver \in Nat /\ d.lastSeq \in Nat /\ k.head.last = d.lastMsg /\ d.lastMsg \in Nat
      /\ log \subseteq Versions /\ d.msgs \in [Ids -> Messages]
  <2>1. k.msg.ver \in Nat
    BY DEF Calls, Messages
  <2>2. d.lastSeq \in Nat /\ d.lastMsg \in Nat /\ d.msgs \in [Ids -> Messages]
    BY Columns, Numbers DEF Sane
  <2> QED BY <2>1, <2>2 DEF UpToDate, Numbered
<1>2. NewMsg(k).ver = k.msg.ver + 1 /\ NewMsg(k).seq = k.head.seq + 1
  BY DEF NewMsg
<1>3. \A x \in log : x.id \in Ids /\ x.id \in Nat /\ x.ver \in Nat /\ x.id <= d.lastMsg /\ d.msgs[x.id].ver >= x.ver
  BY <1>1, Numbers DEF Numbered, Versions
<1>4. CASE k.op = "create"
  <2>1. i = d.lastMsg + 1
    BY <1>1, <1>4 DEF NewId, Editing
  <2>2. \A x \in log : x.id # i
    BY <1>1, <1>3, <2>1
  <2>3. old = NoMsg
    BY <2>2 DEF Genuine, Version
  <2> QED BY <1>1, <1>2, <2>2, <2>3
<1>5. CASE k.op \in Editing
  <2>1. i = k.id /\ k.msg = old /\ old # NoMsg /\ ~old.del
    BY <1>5 DEF NewId, Editing, UpToDate
  <2>2. Version(i, old) \in log
    BY <2>1 DEF Genuine
  <2>3. ASSUME NEW x \in log, x.id = i PROVE x.ver < NewMsg(k).ver /\ ~x.del
    <3>1. x.ver <= old.ver /\ x.ver \in Nat /\ old.ver \in Nat
      BY <1>1, <1>3, <2>1, <2>3
    <3>2. CASE x.ver = old.ver
      <4>1. x = Version(i, old)
        BY <2>2, <2>3, <3>2 DEF Numbered, Version
      <4> QED BY <1>2, <2>1, <3>1, <3>2, <4>1 DEF Version
    <3>3. CASE x.ver < old.ver
      <4>1. ~x.del
        BY <2>2, <2>3, <3>3 DEF Numbered, Version
      <4> QED BY <1>2, <2>1, <3>1, <3>3, <4>1
    <3> QED BY <3>1, <3>2, <3>3
  <2> QED BY <1>1, <1>2, <2>1, <2>3
<1>6. CASE k.op \notin Editing /\ k.op # "create"
  <2>1. i = 0
    BY <1>6 DEF NewId
  <2> QED BY <2>1, Numbers
<1> QED BY <1>4, <1>5, <1>6

\* The owner's numbers after a commit.
LEMMA CommitNumbered ==
  ASSUME NEW d, Sane(d), NEW log, Numbered(d, log), Genuine(d.msgs, log), NEW k \in Calls, UpToDate(k, d),
         k.head.seq = d.lastSeq, NewId(k) \in Ids \cup {0}, NewSeq(k) <= MaxSeq,
         NEW e, e.lastSeq = NewSeq(k), e.lastMsg = Max({k.head.last, NewId(k)}),
         e.msgs = (IF NewId(k) = 0 THEN d.msgs ELSE [d.msgs EXCEPT ![NewId(k)] = NewMsg(k)]),
         e.log = d.log \cup {NewRow(k)}
  PROVE  Numbered(e, NewLog(k, log)) /\ Genuine(e.msgs, NewLog(k, log))
<1> DEFINE n == NewSeq(k)
           i == NewId(k)
           m == NewMsg(k)
           v == [id |-> i, ver |-> m.ver, seq |-> n, del |-> m.del]
<1>1. /\ d.lastSeq \in Nat /\ d.lastMsg \in Ids \cup {0} /\ k.head.last = d.lastMsg
      /\ d.log \in SUBSET Changes /\ d.msgs \in [Ids -> Messages]
  BY Columns, Numbers DEF Sane, UpToDate
<1>2. n = d.lastSeq + 1 /\ n \in Nat /\ n \in Seqs
  BY <1>1, Numbers DEF NewSeq
<1>3. NewRow(k).seq = n /\ \A c \in d.log : c.seq \in Nat /\ c.seq <= d.lastSeq
  BY <1>1, <1>2, Numbers DEF NewRow, NewSeq, Changes, Numbered
<1>4. e.lastMsg \in Ids \cup {0} /\ e.lastMsg >= d.lastMsg /\ e.lastMsg >= i
  BY <1>1, MaxIds
<1>5. Ids \subseteq Nat /\ 0 \notin Ids
  BY Numbers
<1>6. /\ \A j \in 1..n : \E c \in e.log : c.seq = j
      /\ \A c \in e.log : c.seq <= n
  <2>1. ASSUME NEW j \in 1..n PROVE \E c \in e.log : c.seq = j
    <3>1. CASE j = n
      BY <1>3, <3>1
    <3>2. CASE j # n
      <4>1. j \in 1..d.lastSeq
        BY <1>1, <1>2, <3>2
      <4> QED BY <4>1 DEF Numbered
    <3> QED BY <3>1, <3>2
  <2>2. \A c \in e.log : c.seq <= n
    BY <1>1, <1>2, <1>3
  <2> QED BY <2>1, <2>2
<1>7. \A x \in log : /\ x \in Versions /\ x.id \in Ids /\ x.ver \in Nat /\ x.seq \in Nat
                     /\ x.seq <= d.lastSeq /\ x.id <= d.lastMsg
                     /\ d.msgs[x.id].ver >= x.ver /\ Row(x) \in d.log
  BY Numbers DEF Numbered, Versions
<1>8. \A x \in log : x.seq < n /\ x.id <= e.lastMsg
  <2>1. d.lastMsg \in Nat /\ e.lastMsg \in Nat
    <3>1. \A a \in Ids \cup {0} : a \in Nat
      BY ONLY <1>5
    <3>2. d.lastMsg \in Ids \cup {0} /\ e.lastMsg \in Ids \cup {0}
      BY <1>1, <1>4
    <3> QED BY ONLY <3>1, <3>2
  <2>2. ASSUME NEW x \in log PROVE x.seq < n /\ x.id <= e.lastMsg
    <3>1. x.id \in Nat /\ x.id <= d.lastMsg /\ x.seq \in Nat /\ x.seq <= d.lastSeq
      BY <1>5, <1>7
    <3>2. x.id <= e.lastMsg
      BY ONLY <1>4, <2>1, <3>1
    <3>3. x.seq < n
      BY ONLY <1>1, <1>2, <3>1
    <3> QED BY <3>2, <3>3
  <2> QED BY <2>2
<1>9. CASE i = 0
  <2>1. e.msgs = d.msgs /\ NewLog(k, log) = log
    BY <1>9 DEF NewLog
  <2>2. \A x \in log : x.seq <= n /\ d.msgs[x.id].ver >= x.ver /\ Row(x) \in e.log
    BY <1>2, <1>7, <1>8
  <2> QED BY <1>6, <1>7, <1>8, <2>1, <2>2 DEF Numbered
<1>10. CASE i \in Ids
  <2>1. /\ m.ver \in Nat \ {0} /\ m.seq = n
        /\ \A x \in log : x.id = i => x.ver < m.ver /\ ~x.del
    BY <1>2, <1>10, NextVersion
  <2>2. m.del \in BOOLEAN /\ m = [ver |-> m.ver, seq |-> m.seq, del |-> m.del]
    BY DEF NewMsg
  <2>3. v \in Versions /\ v.id = i /\ v.ver = m.ver /\ v.seq = n /\ v = Version(i, m)
    BY <1>2, <1>10, <2>1, <2>2 DEF Versions, Version
  <2>4. NewLog(k, log) = log \cup {v}
    BY <1>5, <1>10 DEF NewLog
  <2>5. Row(v) = NewRow(k)
    BY <1>5, <1>10, <2>3 DEF Row, NewRow, NewSeq
  <2>6. e.msgs = [d.msgs EXCEPT ![i] = m]
    BY <1>5, <1>10
  <2> HIDE DEF v, m, i, n
  <2>7. \A j \in Ids : e.msgs[j] = IF j = i THEN m ELSE d.msgs[j]
    BY <1>1, <2>6
  <2>8. \A x \in log \cup {v} :
           /\ x.seq <= n /\ x.id <= e.lastMsg /\ e.msgs[x.id].ver >= x.ver /\ Row(x) \in e.log
    <3>1. ASSUME NEW x \in log PROVE x.seq <= n /\ x.id <= e.lastMsg /\ e.msgs[x.id].ver >= x.ver /\ Row(x) \in e.log
      <4>1. x.seq <= n /\ x.id <= e.lastMsg /\ Row(x) \in e.log
        BY <1>2, <1>7, <1>8
      <4>2. x.id \in Ids /\ x.ver \in Nat /\ d.msgs[x.id].ver >= x.ver
        BY <1>7
      <4>3. x.id = i => m.ver >= x.ver
        BY <2>1, <4>2
      <4> QED BY ONLY <2>7, <4>1, <4>2, <4>3
    <3>2. v.seq <= n /\ v.id <= e.lastMsg /\ e.msgs[v.id].ver >= v.ver /\ Row(v) \in e.log
      BY <1>2, <1>4, <1>5, <1>10, <2>1, <2>3, <2>5, <2>7
    <3> QED BY <3>1, <3>2
  <2>9. \A x, y \in log \cup {v} :
           /\ (x.seq = y.seq \/ (x.id = y.id /\ x.ver = y.ver)) => x = y
           /\ (x.id = y.id /\ x.ver < y.ver) => ~x.del
    <3>1. \A x, y \in log :
             /\ (x.seq = y.seq \/ (x.id = y.id /\ x.ver = y.ver)) => x = y
             /\ (x.id = y.id /\ x.ver < y.ver) => ~x.del
      BY DEF Numbered
    <3>2. \A x \in log : /\ x.seq # v.seq /\ ~(x.id = v.id /\ x.ver = v.ver)
                         /\ x.id = v.id => ~x.del /\ ~(v.ver < x.ver)
      BY <1>2, <1>7, <1>8, <2>1, <2>3
    <3>3. ~(v.ver < v.ver)
      BY <2>1, <2>3
    <3> QED BY <3>1, <3>2, <3>3
  <2>10. Genuine(e.msgs, log \cup {v})
    BY <2>3, <2>7 DEF Genuine
  <2>11. log \cup {v} \subseteq Versions
    BY <1>7, <2>3
  <2>12. e.lastSeq = n
    BY DEF n
  <2>13. Numbered(e, log \cup {v})
    BY <1>6, <2>8, <2>9, <2>11, <2>12 DEF Numbered
  <2> QED BY <2>4, <2>10, <2>13
<1> QED BY <1>9, <1>10

\* A call commits, or is refused by UNIQUE(seq).
LEMMA CommitMoves ==
  ASSUME ChannelInv, NEW c \in Callers, Commit(c)
  PROVE  \E e, log : /\ OwnerMoves(e, log) /\ OwnerFrame(e)
                     /\ aged = {} => \A i \in Ids : db[Owner].msgs[i] # NoMsg =>
                           (e.msgs[i] = db[Owner].msgs[i]
                              \/ (e.msgs[i].ver > db[Owner].msgs[i].ver /\ ~db[Owner].msgs[i].del))
<1> DEFINE d == db[Owner]
           k == call[c]
<1>1. /\ k \in Calls /\ k.pc = "commit" /\ call' = [call EXCEPT ![c] = IdleCall]
      /\ NewSeq(k) <= MaxSeq /\ NewId(k) \in Ids \cup {0}
  BY OwnerAt DEF Commit, NewSeq, NewId
<1>2. d.here /\ Sane(d) /\ ~Placeholder(d.prof)
  BY <1>1, OwnerAt DEF Rooted
<1>3. /\ call' \in [Callers -> Calls]
      /\ \A x \in Callers : call'[x] = IF x = c THEN IdleCall ELSE call[x]
      /\ IdleCall.pc = "idle"
  <2>1. IdleCall \in Calls /\ IdleCall.pc = "idle"
    BY Numbers DEF IdleCall, Calls, NoProfile, NoHead, NoMsg, Profiles, Heads, Messages
  <2> QED BY <1>1, <2>1, OwnerAt
<1>4. /\ job' = job /\ aged' = aged /\ scope' = scope /\ topic' = topic /\ faults' = faults
      /\ pushing' = pushing /\ stored' = stored
  BY DEF Commit
<1>5. CASE UNCHANGED <<db, notes, pushes, prov, signed>>
  <2>1. OwnerMoves(d, signed)
    BY <1>5, SameTables
  <2>2. \A x \in Callers : Rooted(call'[x], d)
    BY <1>3, OwnerAt DEF Rooted
  <2>3. aged = {} => \A x \in Callers : call'[x].pc = "commit" => UpToDate(call'[x], d)
    BY <1>3, OwnerAt
  <2>4. OwnerFrame(d)
    BY <1>3, <1>4, <1>5, <2>2, <2>3, OwnerAt DEF OwnerFrame
  <2> QED BY <2>1, <2>4
<1>6. CASE /\ ~SeqTaken(d, NewSeq(k))
           /\ db' = [db EXCEPT ![Owner] = IF NewId(k) = 0 THEN Swept(After(d, k)) ELSE After(d, k)]
           /\ notes' = [s \in Subs |-> IF s \in topic /\ scope.loop THEN notes[s] \cup {NewSeq(k)} ELSE notes[s]]
           /\ pushes' = IF "push" \in Ops THEN pushes \cup {NewSeq(k)} ELSE pushes
           /\ signed' = NewLog(k, signed)
  <2> DEFINE a == After(d, k)
             e == IF NewId(k) = 0 THEN Swept(a) ELSE a
             log == NewLog(k, signed)
             n == NewSeq(k)
             last == Max({k.head.last, NewId(k)})
  <2>1. /\ Sane(a) /\ a.here /\ ~Placeholder(a.prof) /\ a.lastSeq = n /\ a.lastMsg = last
        /\ a.msgs = (IF NewId(k) = 0 THEN d.msgs ELSE [d.msgs EXCEPT ![NewId(k)] = NewMsg(k)])
        /\ a.log = d.log \cup {NewRow(k)}
    BY <1>1, <1>2, CommittedSane
  <2> HIDE DEF a, last
  <2>2. Sane(e) /\ e.here /\ ~Placeholder(e.prof) /\ (aged = {} => e = a)
    BY <2>1, SweptSane
  <2>3. n \in Seqs /\ n \in Nat /\ d.lastSeq \in Nat
    <3>1. k.head.seq \in Seqs
      BY <1>1 DEF Calls, Heads
    <3> QED BY SMTT(20), <1>1, <1>2, <3>1, Columns, Numbers DEF NewSeq, Sane
  <2>4. notes' \in [Subs -> SUBSET Seqs] /\ pushes' \in SUBSET Seqs
    <3> HIDE DEF n
    <3>1. n \in Seqs
      BY <2>3
    <3>2. notes' = [s \in Subs |-> IF s \in topic /\ scope.loop THEN notes[s] \cup {n} ELSE notes[s]]
      BY <1>6 DEF n
    <3>3. pushes' = IF "push" \in Ops THEN pushes \cup {n} ELSE pushes
      BY <1>6 DEF n
    <3> QED BY <3>1, <3>2, <3>3, OwnerAt
  <2>5. ASSUME aged = {}
        PROVE  /\ e = a /\ k.head.seq = d.lastSeq /\ n = d.lastSeq + 1
               /\ Numbered(e, log) /\ Genuine(e.msgs, log)
               /\ \A x \in log \ signed : x.seq > d.lastSeq
               /\ \A i \in Ids : d.msgs[i] # NoMsg =>
                     (e.msgs[i] = d.msgs[i] \/ (e.msgs[i].ver > d.msgs[i].ver /\ ~d.msgs[i].del))
    <3>1. Numbered(d, signed) /\ Genuine(d.msgs, signed) /\ UpToDate(k, d) /\ e = a
      BY <1>1, <2>2, <2>5, OwnerAt
    <3>2. k.head.seq = d.lastSeq
      BY <1>1, <1>2, <1>6, <3>1, OnlyFreshCommit
    <3>3. n = d.lastSeq + 1
      BY <3>2 DEF NewSeq
    <3>4. Numbered(a, log) /\ Genuine(a.msgs, log)
      BY <1>1, <1>2, <2>1, <3>1, <3>2, CommitNumbered DEF last
    <3>5. \A x \in log \ signed : x.seq > d.lastSeq
      <4>1. \A x \in log \ signed : x.seq = n
        BY DEF NewLog
      <4> QED BY <2>3, <3>3, <4>1
    <3>6. ASSUME NEW i \in Ids, d.msgs[i] # NoMsg
          PROVE  a.msgs[i] = d.msgs[i] \/ (a.msgs[i].ver > d.msgs[i].ver /\ ~d.msgs[i].del)
      <4>1. d.msgs \in [Ids -> Messages]
        BY <1>2, Columns DEF Sane
      <4>2. CASE NewId(k) = 0 \/ NewId(k) # i
        BY <2>1, <4>1, <4>2
      <4>3. CASE NewId(k) = i
        <5>1. i # 0
          BY Numbers
        <5>2. a.msgs[i] = NewMsg(k)
          BY <2>1, <4>1, <4>3, <5>1
        <5>3. NewMsg(k).ver > d.msgs[i].ver /\ ~d.msgs[i].del
          BY <1>1, <1>2, <3>1, <3>2, <3>6, <4>3, NextVersion
        <5> QED BY <5>2, <5>3
      <4> QED BY <4>2, <4>3
    <3> QED BY <3>1, <3>2, <3>3, <3>4, <3>5, <3>6
  <2>6. signed \subseteq log /\ db' = [db EXCEPT ![Owner] = e] /\ signed' = log
    BY <1>6 DEF NewLog, a
  <2> HIDE DEF e, log, n
  <2>7. aged = {} => e.lastSeq = n
    BY <2>1, <2>5
  <2>8. OwnerMoves(e, log)
    <3>1. aged = {} => e.lastSeq >= d.lastSeq
      BY <2>3, <2>5, <2>7
    <3> QED BY <2>2, <2>5, <2>6, <3>1 DEF OwnerMoves
  <2>9. OwnerFrame(e)
    <3>1. \A x \in Callers : Rooted(call'[x], e)
      BY <1>3, <2>2, OwnerAt DEF Rooted
    <3>2. ASSUME aged = {}, NEW x \in Callers, call'[x].pc = "commit" PROVE UpToDate(call'[x], e)
      <4>1. call'[x] = call[x] /\ UpToDate(call[x], d) /\ call[x] \in Calls
        BY <1>3, <3>2, OwnerAt
      <4>2. call[x].head.seq \in Nat
        BY <4>1, Numbers DEF Calls, Heads
      <4>3. e.lastSeq = d.lastSeq + 1 /\ call[x].head.seq <= d.lastSeq
        BY <2>5, <2>7, <3>2, <4>1 DEF UpToDate
      <4> QED BY <2>3, <4>1, <4>2, <4>3 DEF UpToDate
    <3>3. aged = {} => /\ stored' <= e.lastSeq
                       /\ pushing' # NoPush => stored' <= pushing' /\ pushing' <= e.lastSeq
      <4>1. stored \in Nat /\ (pushing # NoPush => pushing \in Nat)
        BY OwnerAt, Numbers
      <4> QED BY <1>4, <2>3, <2>5, <2>7, <4>1, OwnerAt
    <3>4. faults' \in 0..scope.budget /\ pushing' \in Seqs \cup {NoPush} /\ stored' \in Seqs
      BY <1>4, OwnerAt
    <3> QED BY <1>3, <1>4, <2>4, <3>1, <3>2, <3>3, <3>4 DEF OwnerFrame
  <2> QED BY <2>5, <2>8, <2>9
<1> QED BY <1>5, <1>6 DEF Commit, NewSeq, NewId, NewMsg, NewProf, After, NewLog

\* A commit keeps the invariant.
LEMMA CommitKeeps ==
  ASSUME ChannelInv, NEW c \in Callers, Commit(c)
  PROVE  ChannelInv'
  BY CommitMoves, OwnerKeeps

\* While no message has expired the owner misses none of its messages.
LEMMA RecallDisabled ==
  ASSUME ChannelInv, NEW i \in Ids, NEW s \in Subs, RecallMessage(i, s)
  PROVE  aged # {}
<1> SUFFICES ASSUME aged = {} PROVE FALSE
  OBVIOUS
<1>1. db[s].msgs[i] # NoMsg /\ db[Owner].msgs[i] = NoMsg
  BY DEF RecallMessage, Held
<1>2. Version(i, db[s].msgs[i]) \in signed /\ Numbered(db[Owner], signed)
  BY <1>1, Numbers DEF ChannelInv, Books, Genuine
<1>3. /\ Version(i, db[s].msgs[i]).id = i /\ Version(i, db[s].msgs[i]).ver \in Nat \ {0}
  BY <1>2 DEF Numbered, Versions, Version
<1>4. db[Owner].msgs[i].ver >= Version(i, db[s].msgs[i]).ver
  BY <1>2, <1>3 DEF Numbered
<1>5. db[Owner].msgs[i].ver = 0
  BY <1>1 DEF NoMsg
<1> QED BY <1>3, <1>4, <1>5

\* The owner fetches a message that has expired in its own tables.
LEMMA RecallMessageKeeps ==
  ASSUME ChannelInv, NEW i \in Ids, NEW s \in Subs, RecallMessage(i, s)
  PROVE  ChannelInv'
<1> DEFINE d == db[Owner]
           m == db[s].msgs[i]
           e == ApplyMessage(d, i, m)
<1>1. aged # {}
  BY RecallDisabled
<1>2. /\ d.here /\ db' = [db EXCEPT ![Owner] = e]
      /\ UNCHANGED <<topic, notes, call, job, aged, pushes, pushing, stored, prov, signed, faults, scope>>
  BY DEF RecallMessage
<1>3. Sane(d) /\ ~Placeholder(d.prof)
  BY <1>2, OwnerAt
<1>4. m \in Messages
  BY Numbers, OwnerAt, Columns
<1>5. Sane(e) /\ e.prof = d.prof
  BY <1>3, <1>4, ApplyMessageSane
<1>6. e.here
  <2>1. d \in Tables
    BY OwnerAt
  <2> QED BY <1>2, <2>1 DEF ApplyMessage, Tables
<1> HIDE DEF e
<1>7. OwnerMoves(e, signed)
  BY <1>1, <1>2, <1>3, <1>5, <1>6 DEF OwnerMoves
<1>8. OwnerFrame(e)
  BY <1>1, <1>2, <1>6, OwnerAt DEF OwnerFrame, Rooted
<1> QED BY <1>7, <1>8, OwnerKeeps

\* Pushes: the head is read under the mutex, so it is at least what the store has.
LEMMA PushKeeps ==
  ASSUME ChannelInv, (\E k \in Seqs : BeginPush(k)) \/ EndPush
  PROVE  ChannelInv'
<1>1. OwnerMoves(db[Owner], signed)
  BY SameTables DEF BeginPush, EndPush
<1>2. db[Owner].lastSeq \in Seqs /\ Seqs \subseteq Nat /\ NoPush \notin Seqs
  BY OwnerAt, Columns, Numbers DEF NoPush
<1>3. CASE \E k \in Seqs : BeginPush(k)
  <2>1. /\ UNCHANGED <<db, topic, notes, call, job, aged, stored, prov, signed, faults, scope>>
        /\ pushes' \in SUBSET Seqs /\ pushing' \in {NoPush, db[Owner].lastSeq}
    BY <1>3, OwnerAt DEF BeginPush
  <2>2. OwnerFrame(db[Owner])
    BY <1>2, <2>1, OwnerAt DEF OwnerFrame
  <2> QED BY <1>1, <2>2, OwnerKeeps
<1>4. CASE EndPush
  <2>1. /\ UNCHANGED <<db, topic, notes, call, job, aged, pushes, prov, signed, scope>>
        /\ pushing # NoPush /\ pushing' = NoPush /\ stored' \in {stored, pushing}
        /\ faults' \in 0..scope.budget
    BY <1>4, OwnerAt DEF EndPush
  <2>2. OwnerFrame(db[Owner])
    BY <1>2, <2>1, OwnerAt DEF OwnerFrame
  <2> QED BY <1>1, <2>2, OwnerKeeps
<1> QED BY <1>3, <1>4

\* The provide loop.
LEMMA ProvideKeeps ==
  ASSUME ChannelInv, StartDueProvides \/ RunProvideAttempt \/ ProvideTimeComes
  PROVE  ChannelInv'
<1>1. /\ UNCHANGED <<db, topic, notes, call, job, aged, pushes, pushing, stored, signed, scope>>
      /\ faults' \in 0..scope.budget
  BY OwnerAt DEF StartDueProvides, RunProvideAttempt, ProvideTimeComes
<1>2. OwnerMoves(db[Owner], signed)
  BY <1>1, SameTables
<1>3. OwnerFrame(db[Owner])
  BY <1>1, OwnerAt DEF OwnerFrame
<1> QED BY <1>2, <1>3, OwnerKeeps

-----------------------------------------------------------------------------
(* Time and crashes                                                         *)

\* Once a message has expired only the types are left to keep.
LEMMA AgeKeeps ==
  ASSUME ChannelInv, NEW i \in Ids, Age(i)
  PROVE  ChannelInv'
<1>1. aged' # {} /\ aged' \subseteq Ids
  BY DEF Age, ChannelInv, Sorted
<1>2. Books' /\ Caught'
  BY <1>1 DEF Books, Caught, FromOwner
<1>3. Sorted'
  BY <1>1 DEF ChannelInv, Sorted, Age, Sane, Held, Sound, Typed, Rooted
<1> QED BY <1>2, <1>3 DEF ChannelInv

\* A sweep removes nothing before a message has expired.
LEMMA SweepNothing ==
  ASSUME ChannelInv, NEW n \in Nodes, RetentionSweep(n)
  PROVE  aged # {}
<1>1. Sane(db[n]) /\ db \in [Nodes -> Tables]
  BY DEF ChannelInv, Sorted
<1>2. db' = [db EXCEPT ![n] = Swept(db[n])] /\ db' # db
  BY DEF RetentionSweep
<1>3. aged = {} => Swept(db[n]) = db[n]
  BY <1>1, SweptSane
<1> QED BY <1>1, <1>2, <1>3

\* A sweep keeps the types.
LEMMA SweepKeeps ==
  ASSUME ChannelInv, NEW n \in Nodes, RetentionSweep(n)
  PROVE  ChannelInv'
<1> DEFINE e == Swept(db[n])
<1>1. Sane(db[n]) /\ db \in [Nodes -> Tables] /\ Owner \in Nodes
  BY Numbers DEF ChannelInv, Sorted
<1>2. /\ db' = [db EXCEPT ![n] = e] /\ aged # {}
      /\ UNCHANGED <<topic, notes, call, job, aged, pushes, pushing, stored, prov, signed, faults, scope>>
  BY SweepNothing DEF RetentionSweep
<1>3. Sane(e) /\ e.prof = db[n].prof /\ e.here = db[n].here /\ e \in Tables
  BY <1>1, SweptSane DEF Sane
<1> HIDE DEF e
<1>4. /\ db' \in [Nodes -> Tables] /\ db'[n] = e
      /\ \A x \in Nodes : db'[x].prof = db[x].prof /\ db'[x].here = db[x].here
      /\ \A x \in Nodes : x # n => db'[x] = db[x]
  BY <1>1, <1>2, <1>3
<1>5. \A x \in Nodes : Sane(db[x])'
  <2>1. \A x \in Nodes : Sane(db'[x])
    BY <1>3, <1>4 DEF ChannelInv, Sorted
  <2> QED BY <2>1 DEF Sane, Held
<1>6. \A s \in Subs, w \in Workers : Sound(scope, job[s][w], db[s])'
  <2>1. \A s \in Subs : db'[s].prof = db[s].prof
    BY <1>4, Numbers
  <2> QED BY <1>2, <2>1 DEF ChannelInv, Sorted, Sound, Typed
<1>7. \A c \in Callers : Rooted(call[c], db[Owner])'
  BY <1>1, <1>2, <1>4 DEF ChannelInv, Sorted, Rooted
<1>8. (db[Owner].here => ~Placeholder(db[Owner].prof))'
  BY <1>1, <1>4 DEF ChannelInv, Sorted
<1>9. Sorted'
  BY <1>2, <1>4, <1>5, <1>6, <1>7, <1>8 DEF ChannelInv, Sorted
<1>10. Books' /\ Caught'
  BY <1>2 DEF Books, Caught, FromOwner
<1> QED BY <1>9, <1>10 DEF ChannelInv

\* A restart of the owner.
LEMMA OwnerRestartKeeps ==
  ASSUME ChannelInv, Restart(Owner)
  PROVE  ChannelInv'
<1>1. /\ UNCHANGED <<db, job, notes, aged, stored, signed, scope>> /\ topic' = topic \ {Owner}
      /\ call' = [c \in Callers |-> IdleCall] /\ pushes' = {} /\ pushing' = NoPush
      /\ faults' \in 0..scope.budget
  BY OwnerAt DEF Restart
<1>2. topic' = topic
  BY <1>1, Numbers DEF ChannelInv, Sorted
<1>3. IdleCall \in Calls /\ IdleCall.pc = "idle"
  BY Numbers DEF IdleCall, Calls, NoProfile, NoHead, NoMsg, Profiles, Heads, Messages
<1>4. call' \in [Callers -> Calls] /\ \A c \in Callers : call'[c] = IdleCall
  BY <1>1, <1>3
<1>5. OwnerMoves(db[Owner], signed)
  BY <1>1, SameTables
<1>6. OwnerFrame(db[Owner])
  BY <1>1, <1>2, <1>3, <1>4, OwnerAt DEF OwnerFrame, Rooted
<1> QED BY <1>5, <1>6, OwnerKeeps

\* A restart of a subscriber: its jobs are gone, its tables are kept.
LEMMA SubRestartKeeps ==
  ASSUME ChannelInv, NEW s \in Subs, Restart(s)
  PROVE  ChannelInv'
<1> DEFINE f == [w \in Workers |-> IdleJob]
<1>1. /\ UNCHANGED <<db, aged, stored, signed, scope, call, pushes, pushing, prov>>
      /\ topic' = topic \ {s} /\ faults' \in 0..scope.budget /\ notes' = [notes EXCEPT ![s] = {}]
      /\ job' = [job EXCEPT ![s] = f]
  BY Numbers, OwnerAt DEF Restart
<1>2. SubFrame
  BY <1>1, OwnerAt DEF SubFrame, ChannelInv, Sorted
<1>3. RowFit(db[s], db[s]) /\ db' = [db EXCEPT ![s] = db[s]] /\ Fit(IdleJob, db[s])
  BY <1>1, AtWork, IdleFit DEF Workers
<1>4. IdleJob \in Jobs
  BY <1>3 DEF Fit, Sound, Typed
<1>5. f \in [Workers -> Jobs] /\ \A v \in Workers : Fit(f[v], db[s])
  BY <1>3, <1>4
<1> HIDE DEF f
<1> QED BY <1>1, <1>2, <1>3, <1>5, SubKeeps

\* A note is lost.
LEMMA LoseNoteKeeps ==
  ASSUME ChannelInv, NEW s \in Subs, NEW n, LoseNote(s, n)
  PROVE  ChannelInv'
<1> DEFINE f == job[s]
<1>1. /\ UNCHANGED <<db, job, Others>> /\ faults' \in 0..scope.budget
      /\ notes' = [notes EXCEPT ![s] = @ \ {n}]
  BY OwnerAt DEF LoseNote
<1>2. SubFrame
  BY <1>1, OwnerAt DEF SubFrame, Others, ChannelInv, Sorted
<1>3. RowFit(db[s], db[s]) /\ db' = [db EXCEPT ![s] = db[s]] /\ \A v \in Workers : Fit(f[v], db[s])
  BY <1>1, AtWork DEF Workers
<1>4. f \in [Workers -> Jobs] /\ job' = [job EXCEPT ![s] = f]
  BY <1>1 DEF ChannelInv, Sorted
<1> HIDE DEF f
<1> QED BY <1>2, <1>3, <1>4, SubKeeps

\* Every other step of a subscriber is a step of one of its workers.
LEMMA WorkersMove ==
  ASSUME ChannelInv, NEW s \in Subs, SubStep(s), ~(\E n \in Seqs : LoseNote(s, n))
  PROVE  SubFrame /\ \E w \in Workers : Moves(s, w)
<1> USE DEF Workers
<1>1. /\ notes \in [Subs -> SUBSET Seqs] /\ topic \subseteq Subs /\ faults \in 0..scope.budget
      /\ scope.budget \in Nat
  BY OwnerAt DEF ChannelInv, Sorted
<1>2. CASE \E l \in scope.lastSeen : SubscribeChannel(s, l)
  <2>1. PICK l \in scope.lastSeen : SubscribeChannel(s, l)
    BY <1>2
  <2>2. SubFrame
    BY <1>1, <2>1 DEF SubscribeChannel, SubFrame
  <2> QED BY <2>1, <2>2, SubscribeMoves
<1>3. CASE UnsubscribeChannel(s)
  <2>1. SubFrame
    BY <1>1, <1>3 DEF UnsubscribeChannel, SubFrame
  <2> QED BY <1>3, <2>1, UnsubscribeMoves
<1>4. CASE SyncChannel(s)
  <2>1. SubFrame
    BY <1>1, <1>4 DEF SyncChannel, SubFrame, Others
  <2> QED BY <1>4, <2>1, SyncChannelMoves
<1>5. CASE \E n \in Seqs : HandleNote(s, n)
  <2>1. PICK n \in Seqs : HandleNote(s, n)
    BY <1>5
  <2>2. SubFrame
    BY <1>1, <2>1 DEF HandleNote, SubFrame, Others
  <2> QED BY <2>1, <2>2, HandleNoteMoves
<1>6. CASE \E p \in Nodes : ExchangeSubscriptions(s, p)
  <2>1. PICK p \in Nodes : ExchangeSubscriptions(s, p)
    BY <1>6
  <2>2. SubFrame
    BY <1>1, <2>1 DEF ExchangeSubscriptions, SubFrame, Others
  <2> QED BY <2>1, <2>2, ExchangeMoves
<1>7. CASE \E b \in scope.ids \cup {AllIds} : LoadMessages(s, b)
  <2>1. PICK b \in scope.ids \cup {AllIds} : LoadMessages(s, b)
    BY <1>7
  <2>2. SubFrame
    BY <1>1, <2>1 DEF LoadMessages, SubFrame, Others
  <2> QED BY <2>1, <2>2, LoadMessagesMoves
<1>8. CASE \E w \in Workers : JobStep(s, w)
  <2>1. PICK w \in Workers : JobStep(s, w)
    BY <1>8
  <2>2. UNCHANGED <<notes, faults, Others>>
    BY <2>1 DEF JobStep, FetchPage, FetchItem, ApplyItem, FetchAndApplyHead, FetchHead, ApplyHeadStep,
                Finish, FetchProfile, FetchMessages, ApplyProfileStep, ApplyMessagesStep
  <2>3. SubFrame
    BY <1>1, <2>2 DEF SubFrame, Others
  <2>4. Moves(s, w)
    BY <2>1, FetchPageMoves, FetchItemMoves, ApplyItemMoves, FetchAndApplyHeadMoves, FetchHeadMoves,
       ApplyHeadStepMoves, FinishMoves, FetchProfileMoves, FetchMessagesMoves, ApplyProfileStepMoves,
       ApplyMessagesStepMoves DEF JobStep
  <2> QED BY <2>3, <2>4
<1>9. CASE \E w \in Workers : RpcFails(s, w)
  <2>1. PICK w \in Workers : RpcFails(s, w)
    BY <1>9
  <2>2. SubFrame
    BY <1>1, <2>1 DEF RpcFails, SubFrame, Others
  <2> QED BY <2>1, <2>2, RpcFailsMoves
<1> QED BY <1>2, <1>3, <1>4, <1>5, <1>6, <1>7, <1>8, <1>9 DEF SubStep

\* Every step of a subscriber keeps the invariant.
LEMMA SubStepKeeps ==
  ASSUME ChannelInv, NEW s \in Subs, SubStep(s)
  PROVE  ChannelInv'
  BY LoseNoteKeeps, WorkersMove, WorkerKeeps

-----------------------------------------------------------------------------
(* The theorems                                                             *)

\* Empty tables satisfy the invariant.
LEMMA InitInv ==
  ASSUME Init
  PROVE  ChannelInv
<1>1. 0 \in Seqs /\ Owner \in Nodes
  BY Numbers
<1>2. NoChannel \in Tables
  BY <1>1 DEF NoChannel, Tables, NoProfile, NoHead, NoMsg, Profiles, Heads, Messages
<1>3. /\ NoChannel.here = FALSE /\ NoChannel.prof = NoProfile /\ NoChannel.pver = 0 /\ NoChannel.head = NoHead
      /\ NoChannel.log = {} /\ NoChannel.lastSeq = 0 /\ NoChannel.synced = 0
      /\ \A i \in Ids : NoChannel.msgs[i] = NoMsg
  BY DEF NoChannel
<1>4. Sane(NoChannel)
  BY <1>2, <1>3, FS_EmptySet DEF Sane, Held
<1>5. /\ db = [n \in Nodes |-> NoChannel] /\ \A n \in Nodes : db[n] = NoChannel
  BY DEF Init
<1>6. IdleCall \in Calls /\ IdleCall.pc = "idle"
  BY <1>1 DEF IdleCall, Calls, NoProfile, NoHead, NoMsg, Profiles, Heads, Messages
<1>7. scope \in Scopes /\ scope.budget \in Nat
  BY ScopeParts DEF Init
<1>8. \A s \in Subs, w \in Workers : job[s][w] = IdleJob
  BY DEF Init
<1>9. \A s \in Subs : Fit(IdleJob, db[s])
  BY <1>7, IdleFit
<1>10. \A s \in Subs : IdleJob \in Jobs
  BY <1>9 DEF Fit, Sound, Typed
<1>11. Sorted
  <2>1. db \in [Nodes -> Tables] /\ \A n \in Nodes : Sane(db[n])
    BY <1>2, <1>4, <1>5
  <2>2. job \in [Subs -> [Workers -> Jobs]]
    BY <1>10 DEF Init
  <2>3. \A s \in Subs, w \in Workers : Sound(scope, job[s][w], db[s])
    BY <1>8, <1>9 DEF Fit
  <2>4. call \in [Callers -> Calls] /\ \A c \in Callers : Rooted(call[c], db[Owner])
    BY <1>6 DEF Init, Rooted
  <2>5. ~db[Owner].here
    BY <1>1, <1>3, <1>5
  <2> QED BY <1>1, <1>7, <2>1, <2>2, <2>3, <2>4, <2>5 DEF Init, Sorted
<1>12. Numbered(NoChannel, {})
  BY <1>3 DEF Numbered
<1>13. Books
  <2>1. \A n \in Nodes : Genuine(db[n].msgs, signed)
    BY <1>3, <1>5 DEF Genuine
  <2>2. \A s \in Subs, w \in Workers : Carried(job[s][w], signed)
    BY <1>8 DEF Carried, Genuine, IdleJob
  <2>3. \A c \in Callers : call[c].pc # "commit"
    BY <1>6 DEF Init
  <2> QED BY <1>1, <1>3, <1>5, <1>12, <2>1, <2>2, <2>3 DEF Init, Books
<1>14. Caught
  <2>1. \A s \in Subs : RowCovers(db[s], db[Owner].lastSeq, signed)
    BY <1>1, <1>3, <1>5, Numbers DEF RowCovers, Covers, Init
  <2>2. \A s \in Subs, w \in Workers : JobCovers(job[s][w], db[s].msgs, db[Owner].lastSeq, signed)
    BY <1>8 DEF JobCovers, IdleJob
  <2> QED BY <2>1, <2>2 DEF Caught
<1> QED BY <1>11, <1>13, <1>14 DEF ChannelInv

\* Every step keeps the invariant.
LEMMA NextKeeps ==
  ASSUME ChannelInv, [Next]_vars
  PROVE  ChannelInv'
<1>1. CASE OwnerStep
  BY <1>1, CreateChannelKeeps, BeginCallKeeps, ReadHeadKeeps, CommitKeeps, RecallMessageKeeps, PushKeeps,
     ProvideKeeps DEF OwnerStep
<1>2. CASE \E s \in Subs : SubStep(s)
  BY <1>2, SubStepKeeps
<1>3. CASE \E i \in Ids : Age(i)
  BY <1>3, AgeKeeps
<1>4. CASE \E n \in Nodes : RetentionSweep(n)
  BY <1>4, SweepKeeps
<1>5. CASE \E n \in Nodes : Restart(n)
  BY <1>5, OwnerRestartKeeps, SubRestartKeeps DEF Nodes
<1>6. CASE UNCHANGED vars
  <2>1. /\ db' = db /\ topic' = topic /\ notes' = notes /\ call' = call /\ job' = job /\ aged' = aged
        /\ pushes' = pushes /\ pushing' = pushing /\ stored' = stored /\ signed' = signed
        /\ faults' = faults /\ scope' = scope
    BY <1>6 DEF vars
  <2>2. OwnerMoves(db[Owner], signed) /\ OwnerFrame(db[Owner])
    BY <2>1, SameTables, OwnerAt DEF OwnerFrame
  <2> QED BY <2>2, OwnerKeeps
<1> QED BY <1>1, <1>2, <1>3, <1>4, <1>5, <1>6 DEF Next

\* The tables, the owner's numbers and the cursors keep to the invariant in
\* every situation, for any subscribers, callers, messages and bounds.
THEOREM ChannelInvariance == Spec => []ChannelInv
<1>1. Init => ChannelInv
  BY InitInv
<1>2. ChannelInv /\ [Next]_vars => ChannelInv'
  BY NextKeeps
<1> QED BY <1>1, <1>2, PTL DEF Spec

\* Tables, calls and jobs hold what their columns and locals can hold; a
\* placeholder row has neither messages nor a head.
THEOREM ChannelTypeCorrect == Spec => []TypeOK
<1>1. ChannelInv => TypeOK
  <2> SUFFICES ASSUME ChannelInv PROVE TypeOK
    OBVIOUS
  <2>1. \A n \in Nodes : Placeholder(db[n].prof) => Held(db[n]) = {} /\ db[n].head = NoHead
    BY DEF ChannelInv, Sorted, Sane
  <2>2. \A s \in Subs, w \in Workers :
           /\ job[s][w].left \subseteq Sources /\ job[s][w].tries <= scope.attempts
           /\ job[s][w].pc \in {"item", "apply"} => job[s][w].items # {}
    BY DEF ChannelInv, Sorted, Sound, Typed, Sources
  <2> QED BY <2>1, <2>2 DEF ChannelInv, Sorted, TypeOK
<1> QED BY <1>1, ChannelInvariance, PTL

\* However owner calls overlap: a sequence number and a version of a message
\* each belong to one signed change, and the tables hold the last one.
THEOREM OwnerBooksAlways == Spec => []OwnerBooks
<1>1. ChannelInv => OwnerBooks
  BY DEF ChannelInv, Books, Numbered, OwnerBooks, Row
<1> QED BY <1>1, ChannelInvariance, PTL

\* A subscriber that syncs with the owner never moves its cursor over a change
\* it has not stored, whatever snapshots, syncs and notes overlap.
THEOREM SyncedCoversAlways == Spec => []SyncedCovers
<1>1. ChannelInv => SyncedCovers
  BY DEF ChannelInv, Caught, FromOwner, RowCovers, Covers, SyncedCovers
<1> QED BY <1>1, ChannelInvariance, PTL

\* Two copies of a message that the owner signed: the newer one keeps a deletion.
LEMMA NewerKeepsDeletion ==
  ASSUME ChannelInv, aged = {}, NEW i \in Ids, NEW m, NEW n, m # NoMsg, n # NoMsg,
         Version(i, m) \in signed, Version(i, n) \in signed, n.ver >= m.ver
  PROVE  m.del => n.del
<1>1. Numbered(db[Owner], signed)
  BY DEF ChannelInv, Books
<1>2. m.ver \in Nat /\ n.ver \in Nat
  BY <1>1 DEF Numbered, Versions, Version
<1>3. CASE m.ver = n.ver
  <2>1. Version(i, m) = Version(i, n)
    BY <1>1, <1>3 DEF Numbered, Version
  <2> QED BY <2>1 DEF Version
<1>4. CASE m.ver < n.ver
  BY <1>1, <1>4 DEF Numbered, Version
<1> QED BY <1>2, <1>3, <1>4

\* No step replaces a stored message by an older version or undoes a deletion,
\* at the owner and at every subscriber.
THEOREM MessagesMonotoneAlways == Spec => MessagesMonotone
<1> DEFINE Kept(n) == \A i \in Ids :
                         i \in Held(db[n]) /\ i \in Held(db'[n]) =>
                            /\ db'[n].msgs[i].ver >= db[n].msgs[i].ver
                            /\ db[n].msgs[i].del => db'[n].msgs[i].del
<1>1. ASSUME ChannelInv, [Next]_vars, aged = {}, NEW n \in Nodes PROVE Kept(n)
  <2>1. db[n] \in Tables /\ db \in [Nodes -> Tables] /\ Genuine(db[n].msgs, signed)
    BY <1>1 DEF ChannelInv, Sorted, Books
  <2>2. \A i \in Ids : db[n].msgs[i].ver \in Nat
    BY <2>1, Columns DEF Messages
  <2>3. CASE db'[n] = db[n]
    BY <2>2, <2>3
  <2>4. CASE \E c \in Callers : Commit(c)
    <3>1. PICK c \in Callers : Commit(c)
      BY <2>4
    <3>2. PICK e, log : /\ OwnerMoves(e, log)
                        /\ \A i \in Ids : db[Owner].msgs[i] # NoMsg =>
                              (e.msgs[i] = db[Owner].msgs[i]
                                 \/ (e.msgs[i].ver > db[Owner].msgs[i].ver /\ ~db[Owner].msgs[i].del))
      BY <1>1, <3>1, CommitMoves
    <3>3. db' = [db EXCEPT ![Owner] = e] /\ Sane(e)
      BY <3>2 DEF OwnerMoves
    <3>4. CASE n = Owner
      <4>1. db'[n] = e /\ \A i \in Ids : e.msgs[i].ver \in Nat
        BY <2>1, <3>3, <3>4, Columns DEF Sane, Messages
      <4> QED BY <2>2, <3>2, <3>4, <4>1 DEF Held
    <3>5. CASE n # Owner
      BY <2>1, <2>3, <3>3, <3>5
    <3> QED BY <3>4, <3>5
  <2>5. CASE \E s \in Subs : SubStep(s) /\ ~(\E k \in Seqs : LoseNote(s, k))
    <3>1. PICK s \in Subs : SubStep(s) /\ ~(\E k \in Seqs : LoseNote(s, k))
      BY <2>5
    <3>2. PICK w \in Workers : Moves(s, w)
      BY <1>1, <3>1, WorkersMove
    <3>3. PICK e, j : db' = [db EXCEPT ![s] = e] /\ RowFit(db[s], e)
      BY <3>2 DEF Moves
    <3>4. CASE n = s
      <4>1. db'[n] = e /\ Genuine(e.msgs, signed) /\ \A i \in Ids : e.msgs[i].ver >= db[n].msgs[i].ver
        BY <1>1, <2>1, <3>3, <3>4 DEF RowFit
      <4> QED BY <1>1, <2>1, <4>1, NewerKeepsDeletion DEF Held, Genuine
    <3>5. CASE n # s
      BY <2>1, <2>3, <3>3, <3>5
    <3> QED BY <3>4, <3>5
  <2>6. CASE OwnerStep /\ ~(\E c \in Callers : Commit(c))
    <3>1. CASE \E limited \in BOOLEAN : CreateChannel(limited)
      <4>1. PICK limited \in BOOLEAN : CreateChannel(limited)
        BY <3>1
      <4>2. db'[n].msgs = db[n].msgs
        BY <2>1, <4>1 DEF CreateChannel, Tables
      <4> QED BY <2>2, <4>2 DEF Held
    <3>2. CASE db' = db
      BY <2>3, <3>2
    <3> QED BY <1>1, <2>6, <3>1, <3>2, RecallDisabled DEF OwnerStep, BeginCall, ReadHead, BeginPush, EndPush,
              StartDueProvides, RunProvideAttempt, ProvideTimeComes
  <2>7. CASE \E s \in Subs, k \in Seqs : LoseNote(s, k)
    BY <2>3, <2>7 DEF LoseNote
  <2>8. CASE (\E i \in Ids : Age(i)) \/ (\E x \in Nodes : Restart(x)) \/ UNCHANGED vars
    BY <2>3, <2>8 DEF Age, Restart, vars
  <2>9. ~(\E x \in Nodes : RetentionSweep(x))
    BY <1>1, SweepNothing
  <2> QED BY <1>1, <2>4, <2>5, <2>6, <2>7, <2>8, <2>9 DEF Next
<1>2. ChannelInv /\ [Next]_vars =>
        [aged = {} =>
           \A n \in Nodes, i \in Ids :
              i \in Held(db[n]) /\ i \in Held(db'[n]) =>
                 /\ db'[n].msgs[i].ver >= db[n].msgs[i].ver
                 /\ db[n].msgs[i].del => db'[n].msgs[i].del]_vars
  BY <1>1
<1> QED BY <1>2, ChannelInvariance, PTL DEF Spec, MessagesMonotone

\* The store's head never goes back: every push reads the head under the mutex.
THEOREM StoredHeadMonotoneAlways == Spec => StoredHeadMonotone
<1>1. ASSUME ChannelInv, [Next]_vars PROVE [aged = {} => stored' >= stored]_stored
  <2>1. CASE EndPush
    <3>1. stored \in Nat /\ (pushing # NoPush => pushing \in Nat)
      BY <1>1, OwnerAt, Numbers
    <3> QED BY <1>1, <2>1, <3>1, OwnerAt DEF EndPush
  <2>2. CASE OwnerStep /\ ~EndPush
    BY ZenonT(40), <2>2 DEF OwnerStep, CreateChannel, BeginCall, ReadHead, Commit, RecallMessage, BeginPush, StartDueProvides,
       RunProvideAttempt, ProvideTimeComes
  <2>3. CASE \E s \in Subs : SubStep(s)
    <3>1. PICK s \in Subs : SubStep(s)
      BY <2>3
    <3>2. CASE \E k \in Seqs : LoseNote(s, k)
      BY <3>2 DEF LoseNote, Others
    <3>3. CASE ~(\E k \in Seqs : LoseNote(s, k))
      BY <1>1, <3>1, <3>3, WorkersMove DEF SubFrame
    <3> QED BY <3>2, <3>3
  <2>4. CASE \/ \E i \in Ids : Age(i)
             \/ \E n \in Nodes : RetentionSweep(n) \/ Restart(n)
             \/ UNCHANGED vars
    BY <2>4 DEF Age, RetentionSweep, Restart, vars
  <2> QED BY <1>1, <2>1, <2>2, <2>3, <2>4 DEF Next
<1>2. ChannelInv /\ [Next]_vars => [aged = {} => stored' >= stored]_stored
  BY <1>1
<1> QED BY <1>2, ChannelInvariance, PTL DEF Spec, StoredHeadMonotone
=============================================================================
