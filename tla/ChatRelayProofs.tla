--------------------------- MODULE ChatRelayProofs ---------------------------
(***************************************************************************)
(* Proofs about ChatRelay, for any relays, messages, limits and scopes.    *)
(***************************************************************************)
EXTENDS ChatRelay, FiniteSetTheorems, SequenceTheorems, WellFoundedInduction, TLAPS

USE DEF node, inbound

-----------------------------------------------------------------------------
(* Arithmetic and finite sets                                               *)

\* A nonempty set of natural numbers has a least element.
LEMMA Least ==
  ASSUME NEW T, T \subseteq Nat, T # {}
  PROVE  \E x \in T : \A y \in T : x <= y
<1>1. \E x \in T : \A y \in T : ~(<<y, x>> \in OpToRel(<, Nat))
  BY WFMin, NatLessThanWellFounded
<1>2. \A x, y \in Nat : <<y, x>> \in OpToRel(<, Nat) <=> y < x
  BY DEF OpToRel
<1>3. \E x \in T : \A y \in T : ~(y < x)
  BY <1>1, <1>2, Zenon
<1> QED BY <1>3

\* The sessions of a behaviour are finitely many.
LEMMA SidsFinite == IsFiniteSet(Sids)
  BY FS_Interval, ChatRelayAssumption DEF Sids

\* The two peers: Other is the one that is not p, and its own inverse.
LEMMA OtherPeer ==
  ASSUME NEW p \in Peers
  PROVE  /\ Other(p) \in Peers /\ Other(p) # p /\ Other(Other(p)) = p
         /\ \A q \in Peers : q # p => q = Other(p)
<1>1. PICK x, y \in Peers : x # y /\ Peers = {x, y}
  BY ChatRelayAssumption
<1>2. \A q \in Peers : Other(q) \in Peers /\ Other(q) # q
  <2>1. SUFFICES ASSUME NEW q \in Peers PROVE Other(q) \in Peers /\ Other(q) # q
    OBVIOUS
  <2>2. \E z \in Peers : z # q
    BY <1>1
  <2> QED BY <2>2 DEF Other
<1> QED BY <1>1, <1>2

-----------------------------------------------------------------------------
(* Types                                                                    *)

\* Every list of candidates is a list of relays.
LEMMA CandidatesType == \A relays \in PickRelayCandidates : relays \in Seq(Relays)
<1>1. SUFFICES ASSUME NEW s \in SetToSeqs(Relays)
               PROVE  SubSeq(s, 1, IF Len(s) < RelayAttemptLimit THEN Len(s) ELSE RelayAttemptLimit)
                        \in Seq(Relays)
  BY DEF PickRelayCandidates
<1>2. Cardinality(Relays) \in Nat
  BY FS_CardinalityType, ChatRelayAssumption
<1>3. s \in [1 .. Cardinality(Relays) -> Relays]
  BY DEF SetToSeqs
<1>4. s \in Seq(Relays)
  BY <1>2, <1>3
<1> DEFINE n == IF Len(s) < RelayAttemptLimit THEN Len(s) ELSE RelayAttemptLimit
<1>5. n \in Int /\ n <= Len(s)
  BY <1>4, ChatRelayAssumption
<1>6. \A i \in 1 .. n : s[i] \in Relays
  BY <1>4, <1>5
<1> QED BY <1>5, <1>6, SubSeqProperties

\* Putting the relay of the session first leaves a list of relays.
LEMMA WithPreferredType ==
  ASSUME NEW st, st.relay \in Relays \cup {NoRelay}, NEW relays \in Seq(Relays)
  PROVE  WithPreferred(st, relays) \in Seq(Relays)
<1> DEFINE r == st.relay
           I == {i \in 1 .. Len(relays) : relays[i] = r}
<1>1. RemoveFirst(relays, r) \in Seq(Relays)
  <2>1. CASE I = {}
    BY <2>1 DEF RemoveFirst
  <2>2. CASE I # {}
    <3>1. \E k \in I : \A j \in I : k <= j
      <4>1. I \subseteq Nat
        OBVIOUS
      <4> HIDE DEF I
      <4> QED BY <4>1, <2>2, Least
    <3>2. Min(I) \in I
      BY <3>1 DEF Min
    <3>3. SelectInSeq(relays, LAMBDA v : v = r) = Min(I)
      BY <2>2 DEF SelectInSeq
    <3>4. RemoveFirst(relays, r) = RemoveAt(relays, Min(I))
      BY <2>2, <3>3 DEF RemoveFirst
    <3> DEFINE k1 == Min(I)
    <3> HIDE DEF k1
    <3>5. k1 \in 1 .. Len(relays)
      BY <3>2 DEF k1
    <3>6. SubSeq(relays, 1, k1 - 1) \in Seq(Relays) /\ SubSeq(relays, k1 + 1, Len(relays)) \in Seq(Relays)
      BY <3>5, SubSeqProperties
    <3> QED BY <3>4, <3>6, ConcatProperties DEF RemoveAt, k1
  <2> QED BY <2>1, <2>2
<1> QED BY <1>1, ConcatProperties, ChatRelayAssumption DEF WithPreferred

-----------------------------------------------------------------------------
(* Putting frames back in order                                             *)

\* The first number from lo on that is missing in got, to which
\* relayV1BIngestRelayDataPacket advances, exists.
LEMMA FirstMissing ==
  ASSUME NEW got \in SUBSET Packets, IsFiniteSet(got), NEW lo \in Nat
  PROVE  \E n \in lo .. lo + Cardinality(got) :
            /\ \A i \in lo .. n - 1 : \E g \in got : g.seq = i
            /\ \A g \in got : g.seq # n
<1> DEFINE c == Cardinality(got)
           D == lo .. lo + c
           I == {g.seq : g \in got}
<1>1. c \in Nat
  BY FS_CardinalityType
<1>2. IsFiniteSet(I) /\ Cardinality(I) <= c
  <2> DEFINE f == [g \in got |-> g.seq]
  <2>1. f \in Surjection(got, I)
    BY DEF Surjection
  <2> QED BY <2>1, FS_Surjection
<1>3. Cardinality(D) = c + 1
  BY <1>1, FS_Interval
<1>4. ~(D \subseteq I)
  <2> SUFFICES ASSUME D \subseteq I PROVE FALSE
    OBVIOUS
  <2>1. Cardinality(D) <= Cardinality(I)
    BY <1>2, FS_Subset
  <2>2. Cardinality(I) \in Nat
    BY <1>2, FS_CardinalityType
  <2> QED BY <1>1, <1>2, <1>3, <2>1, <2>2
<1>5. D \ I # {} /\ D \ I \subseteq Nat
  BY <1>1, <1>4
<1>6. PICK n \in D \ I : \A y \in D \ I : n <= y
  BY <1>5, Least
<1>7. n \in lo .. lo + c /\ \A g \in got : g.seq # n
  BY <1>6
<1>8. ASSUME NEW i \in lo .. n - 1
      PROVE  \E g \in got : g.seq = i
  <2>1. i \in D /\ ~(n <= i)
    BY <1>1, <1>7
  <2>2. i \in I
    BY <1>6, <2>1
  <2> QED BY <2>2
<1> QED BY <1>7, <1>8

\* What relayV1BIngestRelayDataPacket does to an entry k with packets got, handing
\* on out: the messages it has under the numbers from next on, one each; next moves
\* past them, and nothing is kept that was not given.
Ingested(k, got, res) ==
    /\ res.entry \in Slots /\ res.entry.has = k.has
    /\ IsFiniteSet(res.entry.pend) /\ res.entry.pend \subseteq got
    /\ res.out \in Seq(Msgs) /\ res.entry.next = k.next + Len(res.out)
    /\ \A i \in 1 .. Len(res.out) : \E g \in got : g.seq = k.next + i - 1 /\ g.msg = res.out[i]

\* A packet whose turn it is.
LEMMA InTurnProperties ==
  ASSUME NEW k \in Slots, NEW got \in SUBSET Packets, IsFiniteSet(got), k.pend \subseteq got
  PROVE  Ingested(k, got, InTurn(k, got))
<1> DEFINE Msg(n) == (CHOOSE g \in got : g.seq = n).msg
           end == FirstGap(got, k.next)
           left == {g \in k.pend : g.seq > end}
           out == [i \in 1 .. end - k.next |-> Msg(k.next + i - 1)]
<1>1. k.next \in Nat /\ Cardinality(got) \in Nat
  BY FS_CardinalityType DEF Slots
<1>2. /\ end \in k.next .. k.next + Cardinality(got)
      /\ \A i \in k.next .. end - 1 : \E g \in got : g.seq = i
  <2> DEFINE P(n) == /\ \A i \in k.next .. n - 1 : \E g \in got : g.seq = i
                     /\ \A g \in got : g.seq # n
  <2>1. \E n \in k.next .. k.next + Cardinality(got) : P(n)
    BY <1>1, FirstMissing
  <2>2. end = CHOOSE n \in k.next .. k.next + Cardinality(got) : P(n)
    BY DEF FirstGap
  <2>3. end \in k.next .. k.next + Cardinality(got) /\ P(end)
    <3> HIDE DEF P, end
    <3> QED BY <2>1, <2>2
  <2> QED BY <2>3
<1>3. end \in Nat /\ end - k.next \in Nat
  BY <1>1, <1>2
<1> HIDE DEF end
<1>4. \A i \in 1 .. end - k.next : \E g \in got : g.seq = k.next + i - 1 /\ g.msg = Msg(k.next + i - 1)
  <2> SUFFICES ASSUME NEW i \in 1 .. end - k.next
               PROVE  \E g \in got : g.seq = k.next + i - 1 /\ g.msg = Msg(k.next + i - 1)
    OBVIOUS
  <2>1. \E g \in got : g.seq = k.next + i - 1
    BY <1>1, <1>2, <1>3
  <2> QED BY <2>1
<1>5. \A i \in 1 .. end - k.next : Msg(k.next + i - 1) \in Msgs
  BY <1>4 DEF Packets
<1>6. InTurn(k, got) = [entry |-> [k EXCEPT !.next = end, !.pend = left], out |-> out]
  BY DEF InTurn, end
<1> HIDE DEF Msg
<1>7. out \in Seq(Msgs) /\ Len(out) = end - k.next /\ \A i \in 1 .. end - k.next : out[i] = Msg(k.next + i - 1)
  BY <1>3, <1>5
<1>8. IsFiniteSet(left) /\ left \subseteq got /\ left \in SUBSET Packets
  BY FS_Subset
<1> HIDE DEF out, left
<1> DEFINE e == [k EXCEPT !.next = end, !.pend = left]
<1>9. e \in Slots /\ e.has = k.has /\ e.next = end /\ e.pend = left
  BY <1>3, <1>8 DEF Slots
<1>10. InTurn(k, got).entry = e /\ InTurn(k, got).out = out
  BY <1>6
<1> HIDE DEF e
<1>11. \A i \in 1 .. Len(out) : \E g \in got : g.seq = k.next + i - 1 /\ g.msg = out[i]
  BY <1>4, <1>7
<1>12. e.next = k.next + Len(out)
  BY <1>1, <1>3, <1>7, <1>9
<1> QED BY <1>7, <1>8, <1>9, <1>10, <1>11, <1>12 DEF Ingested

\* Every packet.
LEMMA IngestProperties ==
  ASSUME NEW k \in Slots, IsFiniteSet(k.pend), NEW pkt \in Packets
  PROVE  Ingested(k, k.pend \cup {pkt}, Ingest(k, pkt))
<1> DEFINE got == k.pend \cup {pkt}
<1>1. got \in SUBSET Packets /\ IsFiniteSet(got) /\ k.pend \subseteq got /\ k.next \in Nat
  BY FS_AddElement DEF Slots
<1>2. Ingested(k, got, InTurn(k, got))
  BY <1>1, InTurnProperties
<1>3. Ingested(k, got, [entry |-> k, out |-> <<>>])
  BY <1>1 DEF Ingested
<1>4. Ingested(k, got, Held(k, pkt))
  <2>1. [k EXCEPT !.pend = @ \cup {pkt}] = [has |-> k.has, next |-> k.next, pend |-> got]
    BY DEF Slots
  <2>2. [has |-> k.has, next |-> k.next, pend |-> got] \in Slots
    BY <1>1 DEF Slots
  <2>3. Ingested(k, got, [entry |-> [has |-> k.has, next |-> k.next, pend |-> got], out |-> <<>>])
    BY <1>1, <2>2 DEF Ingested
  <2> QED BY <1>3, <2>1, <2>3 DEF Held
<1> QED BY <1>2, <1>3, <1>4 DEF Ingest

-----------------------------------------------------------------------------
(* The tables of relay and receiver                                         *)

\* A sweep only takes registrations away.
LEMMA SweptProperties ==
  ASSUME NEW ids \in [Sids -> Nat], NEW kept \in Swept(ids)
  PROVE  kept \in [Sids -> Nat] /\ Registered(kept) \subseteq Registered(ids)
<1>1. \A t \in [Sids -> Nat] : \A out : /\ Without(t, out) \in [Sids -> Nat]
                                        /\ Registered(Without(t, out)) \subseteq Registered(t)
  BY DEF Without, Registered
<1>2. Alive(ids) \in [Sids -> Nat] /\ Registered(Alive(ids)) \subseteq Registered(ids)
  BY <1>1 DEF Alive
<1>3. kept = ids \/ kept = Alive(ids) \/ \E out : kept = Without(Alive(ids), out)
  BY DEF Swept
<1> QED BY <1>1, <1>2, <1>3

\* A registration adds one session.
LEMMA RegisterProperties ==
  ASSUME NEW ids \in [Sids -> Nat], NEW new \in Sids
  PROVE  /\ Register(ids, new) \in [Sids -> Nat]
         /\ Registered(Register(ids, new)) = Registered(ids) \cup {new}
  BY DEF Register, Registered

\* Of the elements that at most cap - 1 others follow or equal in age, counting
\* themselves, there are fewer than cap.
LEMMA LastFew ==
  ASSUME NEW own, IsFiniteSet(own), NEW t \in [own -> Nat], NEW cap \in Nat \ {0},
         NEW since \in [own -> SUBSET own], \A s, u \in own : u \in since[s] <=> t[u] <= t[s],
         NEW n \in [own -> Nat], \A s \in own : n[s] = Cardinality(since[s]),
         NEW left \in SUBSET own, \A s \in own : s \in left <=> ~(n[s] >= cap)
  PROVE  Cardinality(left) < cap
<1>1. CASE left = {}
  <2>1. Cardinality(left) = 0
    BY <1>1, FS_EmptySet
  <2> QED BY <2>1
<1>2. CASE left # {}
  <2> DEFINE T == {cap - n[s] : s \in left}
  <2>1. \A s \in own : IsFiniteSet(since[s]) /\ IsFiniteSet(left)
    BY FS_Subset
  <2>2. T \subseteq Nat /\ T # {}
    BY <1>2
  <2>3. \E x \in T : \A y \in T : x <= y
    BY <2>2, Least
  <2>4. PICK last \in left : \A s \in left : cap - n[last] <= cap - n[s]
    BY <2>3
  <2>5. \A s \in left : s \in own /\ n[s] <= n[last] /\ n[last] < cap
    BY <2>4
  <2>6. left \subseteq since[last]
    <3> SUFFICES ASSUME NEW s \in left, t[s] > t[last] PROVE FALSE
      OBVIOUS
    <3>1. since[last] \in SUBSET since[s] /\ since[last] # since[s]
      OBVIOUS
    <3>2. Cardinality(since[last]) <= Cardinality(since[s]) /\ Cardinality(since[last]) # Cardinality(since[s])
      BY <2>1, <3>1, FS_Subset
    <3> QED BY <3>2, <2>5
  <2>7. Cardinality(left) <= Cardinality(since[last])
    BY <2>1, <2>6, FS_Subset
  <2>8. Cardinality(left) \in Nat
    BY <2>1, <1>2, FS_CardinalityType
  <2> QED BY <2>5, <2>7, <2>8
<1> QED BY <1>1, <1>2

\* enforcePerSrcCapLocked leaves room for one session of src.
LEMMA CappedProperties ==
  ASSUME NEW ids \in [Sids -> Nat], NEW src, scope.perSrc \in Nat \ {0}
  PROVE  /\ Capped(ids, src) \in [Sids -> Nat]
         /\ Registered(Capped(ids, src)) \subseteq Registered(ids)
         /\ Cardinality({sid \in Registered(Capped(ids, src)) : info[sid].src = src}) < scope.perSrc
<1> DEFINE own == {sid \in Registered(ids) : info[sid].src = src}
           t == [s \in own |-> ids[s]]
           since == [s \in own |-> {u \in own : ids[u] <= ids[s]}]
           n == [s \in own |-> Cardinality(since[s])]
           out == {s \in own : Cardinality({u \in own : ids[u] <= ids[s]}) >= scope.perSrc}
           left == {sid \in Registered(Capped(ids, src)) : info[sid].src = src}
<1>1. Capped(ids, src) = Without(ids, out)
  BY DEF Capped
<1>2. IsFiniteSet(own) /\ own \subseteq Sids
  BY SidsFinite, FS_Subset DEF Registered
<1>3. Capped(ids, src) \in [Sids -> Nat] /\ Registered(Capped(ids, src)) \subseteq Registered(ids)
      /\ left = own \ out
  <2> HIDE DEF out
  <2> QED BY <1>1 DEF Without, Registered
<1>4. \A s \in own : since[s] = {u \in own : ids[u] <= ids[s]} /\ n[s] = Cardinality(since[s])
  OBVIOUS
<1>5. left \in SUBSET own /\ \A s \in own : s \in left <=> ~(n[s] >= scope.perSrc)
  <2> HIDE DEF n, since, own, left
  <2> QED BY <1>3, <1>4
<1>6. t \in [own -> Nat] /\ since \in [own -> SUBSET own] /\ \A s, u \in own : u \in since[s] <=> t[u] <= t[s]
  BY <1>2
<1>7. n \in [own -> Nat]
  <2> HIDE DEF since, own
  <2>1. \A s \in own : Cardinality(since[s]) \in Nat
    BY <1>2, <1>6, FS_Subset, FS_CardinalityType
  <2> QED BY <2>1
<1>8. Cardinality(left) < scope.perSrc
  <2> HIDE DEF t, since, n, own, left
  <2> QED BY <1>2, <1>4, <1>5, <1>6, <1>7, LastFew
<1> QED BY <1>3, <1>8

-----------------------------------------------------------------------------
(* Handing on                                                               *)

\* What a session has handed on, got, and what its streams hold, hands: no number is
\* in two places; all numbers below next are in one; all of it was sealed.
Apart(got, hands) ==
    /\ \A i, k \in DOMAIN got : got[i].seq = got[k].seq => i = k
    /\ \A j \in hands : \A i \in DOMAIN got : ~Holds(j, got[i].seq)
    /\ \A j, h \in hands : \A n \in Nat : Holds(j, n) /\ Holds(h, n) => j = h
Counted(got, hands, next) ==
    /\ \A i \in DOMAIN got : got[i].seq < next
    /\ \A j \in hands : j.next <= next
    /\ \A n \in 0 .. next - 1 :
         (\E i \in DOMAIN got : got[i].seq = n) \/ \E j \in hands : Holds(j, n)
Genuine(got, hands, by, sid, seals) ==
    /\ \A i \in DOMAIN got : [by |-> by, key |-> sid, seq |-> got[i].seq, msg |-> got[i].msg] \in seals
    /\ \A j \in hands : \A i \in 1 .. Len(j.out) :
         [by |-> by, key |-> sid, seq |-> j.next - Len(j.out) + i - 1, msg |-> j.out[i]] \in seals

\* Streams that hold something.
Holders == {j \in Hands : Len(j.out) \in 1 .. j.next}

\* The first packet of a stream and what is left of it.
LEMMA HeadOfHand ==
  ASSUME NEW j \in Holders
  PROVE  LET rest == [j EXCEPT !.out = Tail(@)]
             head == j.next - Len(j.out)
         IN
         /\ head \in Nat /\ Head(j.out) \in Msgs /\ Head(j.out) = j.out[1] /\ j.sid \in Sids
         /\ rest.sid = j.sid /\ rest.next = j.next /\ Len(rest.out) = Len(j.out) - 1
         /\ rest.out # <<>> => rest \in Holders
         /\ \A i \in 1 .. Len(rest.out) : rest.out[i] = j.out[i + 1]
         /\ Holds(j, head) /\ ~Holds(rest, head)
         /\ \A n \in Nat : Holds(j, n) => n = head \/ (Holds(rest, n) /\ rest.out # <<>>)
         /\ \A n \in Nat : Holds(rest, n) => Holds(j, n)
<1>1. j.sid \in Sids /\ j.next \in Nat /\ j.out \in Seq(Msgs) /\ Len(j.out) \in 1 .. j.next
  BY DEF Holders, Hands
<1>2. PICK tail : tail = Tail(j.out)
  OBVIOUS
<1>3. PICK len, head : len = Len(j.out) /\ head = j.next - Len(j.out)
  OBVIOUS
<1>4. len \in Nat /\ len >= 1 /\ j.next \in Nat /\ head \in Nat /\ j.next = head + len
  BY <1>1, <1>3
<1>5. Head(j.out) \in Msgs /\ Head(j.out) = j.out[1]
  BY <1>1
<1>6. /\ tail \in Seq(Msgs) /\ Len(tail) = len - 1
      /\ \A i \in 1 .. len - 1 : tail[i] = j.out[i + 1]
  BY <1>1, <1>2, <1>3
<1>7. tail = <<>> <=> Len(tail) = 0
  BY <1>6, EmptySeq
<1>8. PICK rest : rest = [j EXCEPT !.out = Tail(@)]
  OBVIOUS
<1>9. rest = [sid |-> j.sid, next |-> j.next, out |-> tail]
  BY <1>2, <1>8 DEF Holders, Hands
<1>10. rest.sid = j.sid /\ rest.next = j.next /\ rest.out = tail
  BY <1>9
<1>11. rest.out # <<>> => rest \in Holders
  <2>1. rest \in Hands
    BY <1>1, <1>6, <1>9 DEF Hands
  <2>2. Len(tail) # 0 => Len(tail) \in 1 .. j.next
    BY <1>4, <1>6
  <2> QED BY <1>7, <1>10, <2>1, <2>2 DEF Holders
<1>12. \A n : Holds(j, n) <=> j.next - len <= n /\ n < j.next
  BY <1>3 DEF Holds
<1>13. \A n : Holds(rest, n) <=> j.next - (len - 1) <= n /\ n < j.next
  BY <1>6, <1>10 DEF Holds
<1>14. Holds(j, head) /\ ~Holds(rest, head)
  BY <1>4, <1>12, <1>13
<1>15. ASSUME NEW n \in Nat
       PROVE  /\ Holds(j, n) => n = head \/ (Holds(rest, n) /\ rest.out # <<>>)
              /\ Holds(rest, n) => Holds(j, n)
  <2>1. len - 1 = 0 => (Holds(j, n) => n = head)
    BY <1>4, <1>12
  <2>2. Holds(j, n) => n = head \/ Holds(rest, n)
    BY <1>4, <1>12, <1>13
  <2>3. Holds(rest, n) => Holds(j, n)
    BY <1>4, <1>12, <1>13
  <2> QED BY <1>6, <1>7, <1>10, <2>1, <2>2, <2>3
<1> QED BY <1>1, <1>3, <1>4, <1>5, <1>6, <1>8, <1>10, <1>11, <1>14, <1>15

\* HandOn moves the first packet of a stream to what was handed on.
Moves(j, got, hands, got2, hands2) ==
    LET rest == [j EXCEPT !.out = Tail(@)] IN
    /\ got2 = Append(got, [seq |-> j.next - Len(j.out), msg |-> Head(j.out)])
    /\ hands2 = (hands \ {j}) \cup IF rest.out = <<>> THEN {} ELSE {rest}

\* After which the numbers are still apart, counted and sealed.
LEMMA HandOnProperties ==
  ASSUME NEW got \in Seq(Packets), NEW hands \in SUBSET Holders, NEW j \in hands,
         NEW got2, NEW hands2, Moves(j, got, hands, got2, hands2), Apart(got, hands)
  PROVE  /\ Apart(got2, hands2)
         /\ \A next \in Nat : Counted(got, hands, next) => Counted(got2, hands2, next)
         /\ \A by, sid, seals :
              Genuine(got, hands, by, sid, seals) => Genuine(got2, hands2, by, sid, seals)
<1> PICK rest : rest = [j EXCEPT !.out = Tail(@)]
  OBVIOUS
<1> DEFINE head == j.next - Len(j.out)
           pkt == [seq |-> head, msg |-> Head(j.out)]
<1>0. got2 = Append(got, pkt) /\ hands2 = (hands \ {j}) \cup IF rest.out = <<>> THEN {} ELSE {rest}
  BY DEF Moves
<1>1. /\ head \in Nat /\ Head(j.out) \in Msgs /\ Head(j.out) = j.out[1]
      /\ rest.next = j.next /\ Len(rest.out) = Len(j.out) - 1
      /\ \A i \in 1 .. Len(rest.out) : rest.out[i] = j.out[i + 1]
      /\ Holds(j, head) /\ ~Holds(rest, head)
      /\ \A n \in Nat : Holds(j, n) => n = head \/ (Holds(rest, n) /\ rest.out # <<>>)
      /\ \A n \in Nat : Holds(rest, n) => Holds(j, n)
  BY HeadOfHand
<1>2. pkt \in Packets /\ pkt.seq = head /\ pkt.msg = Head(j.out)
  BY <1>1 DEF Packets
<1>3. /\ got2 \in Seq(Packets) /\ Len(got2) = Len(got) + 1 /\ Len(got) \in Nat
      /\ \A i \in 1 .. Len(got) : got2[i] = got[i]
      /\ got2[Len(got) + 1] = pkt
  BY <1>0, <1>2, AppendProperties
<1>4. DOMAIN got = 1 .. Len(got) /\ DOMAIN got2 = 1 .. Len(got) + 1
  BY <1>3
<1>5. \A i \in DOMAIN got : got[i].seq \in Nat
  <2>1. \A i \in DOMAIN got : got[i] \in Packets
    BY <1>4, ElementOfSeq
  <2> QED BY <2>1 DEF Packets
<1>6. j.next \in Nat /\ Len(j.out) \in 1 .. j.next
  BY DEF Holders, Hands
<1> HIDE DEF head, pkt
<1>7. \A i \in DOMAIN got2 : (i \in DOMAIN got /\ got2[i] = got[i]) \/ (i = Len(got) + 1 /\ got2[i] = pkt)
  BY <1>3, <1>4
<1>8. \A i \in DOMAIN got2 : got2[i].seq \in Nat
  BY <1>1, <1>2, <1>5, <1>7
<1>9. \A k \in hands2 : (k \in hands /\ k # j) \/ k = rest
  BY <1>0
<1>10. Apart(got2, hands2)
  <2>1. ASSUME NEW i \in DOMAIN got2, NEW k \in DOMAIN got2, got2[i].seq = got2[k].seq
        PROVE  i = k
    <3>1. \A x \in DOMAIN got : got[x].seq # head
      BY <1>1 DEF Apart
    <3> QED BY <1>2, <1>7, <2>1, <3>1 DEF Apart
  <2>2. ASSUME NEW k \in hands2, NEW i \in DOMAIN got2
        PROVE  ~Holds(k, got2[i].seq)
    <3>1. CASE k \in hands /\ k # j
      <4>1. ~Holds(k, head)
        BY <1>1, <3>1 DEF Apart
      <4> QED BY <1>2, <1>7, <3>1, <4>1 DEF Apart
    <3>2. CASE k = rest
      <4>1. \A x \in DOMAIN got : ~Holds(rest, got[x].seq)
        BY <1>1, <1>5 DEF Apart
      <4> QED BY <1>1, <1>2, <1>7, <3>2, <4>1
    <3> QED BY <1>9, <3>1, <3>2
  <2>3. ASSUME NEW k \in hands2, NEW h \in hands2, NEW n \in Nat, Holds(k, n), Holds(h, n)
        PROVE  k = h
    <3>1. \A x \in hands : Holds(x, n) /\ Holds(j, n) => x = j
      BY DEF Apart
    <3>2. \A x, y \in hands : Holds(x, n) /\ Holds(y, n) => x = y
      BY DEF Apart
    <3> QED BY <1>1, <1>9, <2>3, <3>1, <3>2
  <2> QED BY <2>1, <2>2, <2>3 DEF Apart
<1>11. ASSUME NEW next \in Nat, Counted(got, hands, next)
       PROVE  Counted(got2, hands2, next)
  <2>1. \A i \in DOMAIN got2 : got2[i].seq < next
    <3>1. head < next
      <4>1. j.next <= next
        BY <1>11 DEF Counted
      <4> QED BY <1>6, <4>1 DEF head
    <3> QED BY <1>2, <1>7, <1>11, <3>1 DEF Counted
  <2>2. \A k \in hands2 : k.next <= next
    BY <1>1, <1>9, <1>11 DEF Counted
  <2>3. ASSUME NEW n \in 0 .. next - 1
        PROVE  (\E i \in DOMAIN got2 : got2[i].seq = n) \/ \E k \in hands2 : Holds(k, n)
    <3>1. CASE \E i \in DOMAIN got : got[i].seq = n
      BY <1>3, <1>4, <3>1
    <3>2. CASE \E k \in hands \ {j} : Holds(k, n)
      BY <1>0, <3>2
    <3>3. CASE Holds(j, n)
      <4>1. n = head => got2[Len(got) + 1].seq = n /\ Len(got) + 1 \in DOMAIN got2
        <5>1. Len(got) + 1 \in DOMAIN got2
          BY <1>3, <1>4
        <5> QED BY <1>2, <1>3, <5>1
      <4>2. n # head => Holds(rest, n) /\ rest \in hands2
        <5>1. rest.out # <<>> => rest \in hands2
          BY <1>0
        <5>2. n \in Nat
          OBVIOUS
        <5>3. n # head => Holds(rest, n) /\ rest.out # <<>>
          BY <1>1, <3>3, <5>2
        <5> QED BY <5>1, <5>3
      <4> QED BY <4>1, <4>2
    <3> QED BY <1>11, <3>1, <3>2, <3>3 DEF Counted
  <2> QED BY <2>1, <2>2, <2>3 DEF Counted
<1>12. ASSUME NEW by, NEW sid, NEW seals, Genuine(got, hands, by, sid, seals)
       PROVE  Genuine(got2, hands2, by, sid, seals)
  <2>1. [by |-> by, key |-> sid, seq |-> head, msg |-> j.out[1]] \in seals
    <3>1. j.next - Len(j.out) + 1 - 1 = head /\ 1 \in 1 .. Len(j.out)
      BY <1>6 DEF head
    <3> QED BY <1>12, <3>1 DEF Genuine
  <2>2. ASSUME NEW i \in DOMAIN got2
        PROVE  [by |-> by, key |-> sid, seq |-> got2[i].seq, msg |-> got2[i].msg] \in seals
    BY <1>1, <1>2, <1>7, <1>12, <2>1 DEF Genuine
  <2>3. ASSUME NEW k \in hands2, NEW i \in 1 .. Len(k.out)
        PROVE  [by |-> by, key |-> sid, seq |-> k.next - Len(k.out) + i - 1, msg |-> k.out[i]] \in seals
    <3>1. CASE k \in hands
      BY <1>12, <3>1 DEF Genuine
    <3>2. CASE k = rest
      <4>1. /\ i + 1 \in 1 .. Len(j.out) /\ k.out[i] = j.out[i + 1]
            /\ k.next - Len(k.out) + i - 1 = j.next - Len(j.out) + (i + 1) - 1
        <5>1. PICK l, n : l = Len(j.out) /\ n = j.next
          OBVIOUS
        <5>2. Len(rest.out) = l - 1 /\ l \in Nat /\ n \in Nat /\ k.next = n
          BY <1>1, <1>6, <3>2, <5>1
        <5>3. i \in 1 .. l - 1
          BY <3>2, <5>2
        <5>5. i + 1 \in 1 .. l /\ n - (l - 1) + i - 1 = n - l + (i + 1) - 1
          <6>1. l \in Nat /\ n \in Nat
            BY <5>2
          <6>2. i \in Int /\ 1 <= i /\ i <= l - 1
            BY <5>3, <6>1
          <6>3. n - (l - 1) + i - 1 = n - l + (i + 1) - 1
            BY <6>1, <6>2
          <6>4. i + 1 \in 1 .. l
            BY <6>1, <6>2
          <6> QED BY <6>3, <6>4
        <5>6. i \in 1 .. Len(rest.out)
          BY <3>2
        <5>7. rest.out[i] = j.out[i + 1]
          BY <1>1, <5>6
        <5>8. k.out[i] = j.out[i + 1]
          BY <3>2, <5>7
        <5> QED BY <3>2, <5>1, <5>2, <5>5, <5>8
      <4> QED BY <1>12, <4>1 DEF Genuine
    <3> QED BY <1>9, <3>1, <3>2
  <2> QED BY <2>2, <2>3 DEF Genuine
<1> QED BY <1>10, <1>11, <1>12

\* A stream that takes the numbers from next on, out of the table.
LEMMA TakeProperties ==
  ASSUME NEW got \in Seq(Packets), NEW hands \in SUBSET Holders, NEW j \in Holders,
         NEW next \in Nat, j.next = next + Len(j.out),
         Apart(got, hands), Counted(got, hands, next)
  PROVE  Apart(got, hands \cup {j}) /\ Counted(got, hands \cup {j}, j.next)
<1>1. j.next \in Nat /\ Len(j.out) \in Nat /\ Len(j.out) >= 1 /\ \A n \in Nat : Holds(j, n) <=> next <= n /\ n < j.next
  BY DEF Holders, Hands, Holds
<1>2. \A i \in DOMAIN got : got[i].seq \in Nat /\ got[i].seq < next
  <2>1. \A i \in DOMAIN got : got[i] \in Packets
    BY ElementOfSeq
  <2> QED BY <2>1 DEF Packets, Counted
<1>3. \A h \in hands : h.next \in Nat /\ h.next <= next
  BY DEF Holders, Hands, Counted
<1>4. \A h \in hands : \A n \in Nat : Holds(h, n) => ~Holds(j, n)
  BY <1>1, <1>3 DEF Holds
<1>5. Apart(got, hands \cup {j})
  <2>1. \A i \in DOMAIN got : ~Holds(j, got[i].seq)
    BY <1>1, <1>2
  <2> QED BY <1>4, <2>1 DEF Apart
<1>6. ASSUME NEW n \in 0 .. j.next - 1
      PROVE  (\E i \in DOMAIN got : got[i].seq = n) \/ \E h \in hands \cup {j} : Holds(h, n)
  <2>1. CASE n \in 0 .. next - 1
    BY <2>1 DEF Counted
  <2>2. CASE n >= next
    BY <1>1, <2>2
  <2> QED BY <1>1, <2>1, <2>2
<1>7. \A i \in DOMAIN got : got[i].seq < j.next
  BY <1>1, <1>2
<1>8. \A h \in hands \cup {j} : h.next <= j.next
  BY <1>1, <1>3
<1> QED BY <1>5, <1>6, <1>7, <1>8 DEF Counted

-----------------------------------------------------------------------------
(* The inductive invariant                                                  *)

\* What the sending side holds: one call of a peer at a time works on its session,
\* with a session that has a key when it seals.
Senders ==
    /\ \A p \in Peers :
         /\ sess[p].ok => sess[p].key # 0 /\ sess[p].sid # 0
         /\ sess[p].key # 0 => sess[p].key \in Known
    /\ \A m \in Msgs :
         /\ task[m].pc = "seal" => sess[From[m]].ok
         /\ task[m].pc = "handshake" => sess[From[m]].sid = task[m].sid
         /\ task[m].pc \in {"connect", "handshake"} =>
               task[m].sid \in Known /\ info[task[m].sid].src = From[m]
         /\ task[m].pc \in Working =>
               \A n \in Msgs : From[n] = From[m] /\ task[n].pc \in Working => n = m

\* What the tables hold: sessions that were begun, and at the receiver those of
\* the other peer; keys only for registered sessions.
Tables ==
    /\ \A r \in Relays : Registered(table[r]) \subseteq Known
    /\ \A p \in Peers :
         /\ \A sid \in Registered(conn[p]) : sid \in Known /\ info[sid].src = Other(p)
         /\ \A sid \in Sids : keys[p][sid].has => sid \in Registered(conn[p])
         /\ \A sid \in Sids : IsFiniteSet(keys[p][sid].pend)
    /\ \A a \in acts : a.sid \in Known /\ a.p = Dst(a.sid)

\* How the keys are used.  p is engaged under key k when it seals with it or has
\* done so.  The side that connected gets k with the handshake's answer, once; the
\* side that answered gets it by an activation that follows its answer, once.
Engaged(p, k) == sess[p].key = k \/ \E x \in sealed : x.by = p /\ x.key = k
Served == {"h_answer", "done", "lost"}
KeyUse ==
    /\ \A x \in sealed : x.key \in Known /\ (sess[x.by].key = x.key => x.seq < sess[x.by].seq)
    /\ \A k \in Known : Engaged(info[k].src, k) => call[k] = "done"
    /\ \A k \in Known : Engaged(Dst(k), k) => call[k] \in Served /\ [p |-> Dst(k), sid |-> k] \notin acts
    /\ \A a \in acts : call[a.sid] \in Served

\* What is on its way, waits or was handed on: only sealed frames travel, those past
\* the relay come from the peer that connected; an entry is created once, and counts
\* what its session's streams handed on or hold.
Stored == Served \cup {"h_stored"}
FramesOK ==
    \A f \in frames :
        /\ [by |-> f.src, key |-> f.key, seq |-> f.seq, msg |-> f.msg] \in sealed
        /\ f.at = "dst" => f.sid \in Known /\ info[f.sid].src = f.src
EntriesOK ==
    \A p \in Peers : \A sid \in Sids : keys[p][sid].has =>
        /\ call[sid] \in Stored
        /\ \A g \in keys[p][sid].pend :
             [by |-> Other(p), key |-> sid, seq |-> g.seq, msg |-> g.msg] \in sealed
Hand(sid) == {j \in handing : j.sid = sid}
SessionOK(sid) ==
    /\ sid \notin Known \/ call[sid] \notin Stored => arrived[sid] = <<>> /\ Hand(sid) = {}
    /\ sid \in Known => Genuine(arrived[sid], Hand(sid), info[sid].src, sid, sealed)
    /\ Apart(arrived[sid], Hand(sid))
    /\ \A p \in Peers : keys[p][sid].has => Counted(arrived[sid], Hand(sid), keys[p][sid].next)
Deliveries == FramesOK /\ EntriesOK /\ \A sid \in Sids : SessionOK(sid)

\* How many sessions the table of a receiver holds, the second half of KeysBounded.
Bounded == \A p \in Peers : Cardinality(Registered(conn[p])) <= scope.perSrc

RelayInv == TypeOK /\ Senders /\ Tables /\ Bounded /\ KeyUse /\ NonceOnce /\ Deliveries

\* What is assumed of the constants, one by one.
LEMMA Constants ==
  /\ \A m \in Msgs : From[m] \in Peers
  /\ MaxSid \in Nat \ {0}
  /\ NoRelay \notin Relays
  /\ Sids \subseteq Nat /\ 0 \notin Sids
  BY ChatRelayAssumption DEF Sids

\* What is known of a scope.
LEMMA ScopeType ==
  ASSUME TypeOK
  PROVE  /\ scope.perSrc \in Nat \ {0} /\ scope.total \in Nat \ {0} /\ scope.faults \in Nat
  BY ChatRelayAssumption DEF TypeOK

\* The ids and the peers of the sessions begun.
LEMMA SessionsBegun ==
  ASSUME NEW is \in Seq([src : Peers, relay : Relays]), Len(is) <= MaxSid
  PROVE  /\ DOMAIN is \subseteq Sids
         /\ \A sid \in DOMAIN is : /\ is[sid].src \in Peers /\ is[sid].relay \in Relays
                                   /\ Other(is[sid].src) \in Peers
                                   /\ Other(Other(is[sid].src)) = is[sid].src
<1>2. DOMAIN is \subseteq Sids
  BY Constants DEF Sids
<1> DEFINE S == [src : Peers, relay : Relays]
<1>3. \A sid \in DOMAIN is : is[sid] \in S
  <2>1. is \in Seq(S)
    OBVIOUS
  <2> HIDE DEF S
  <2>2. DOMAIN is = 1 .. Len(is)
    BY <2>1
  <2> QED BY <2>1, <2>2, ElementOfSeq
<1> QED BY <1>2, <1>3, OtherPeer

\* The same of the present state.
LEMMA KnownSids ==
  ASSUME TypeOK
  PROVE  /\ Known \subseteq Sids
         /\ \A sid \in Known : /\ info[sid].src \in Peers /\ info[sid].relay \in Relays
                               /\ Dst(sid) \in Peers /\ Other(Dst(sid)) = info[sid].src
  BY SessionsBegun DEF TypeOK, Known, Dst

\* The keys that stay after a sweep of the receiver's table.
LEMMA KeysForProperties ==
  ASSUME TypeOK, Tables, NEW p \in Peers, NEW ids \in [Sids -> Nat]
  PROVE  /\ KeysFor(keys[p], ids) \in [Sids -> Slots]
         /\ \A sid \in Sids : LET k == KeysFor(keys[p], ids)[sid] IN
              /\ IsFiniteSet(k.pend)
              /\ k.has => sid \in Registered(ids) /\ k = keys[p][sid]
              /\ k = keys[p][sid] \/ k = NoKeys
<1>1. NoKeys \in Slots /\ IsFiniteSet(NoKeys.pend) /\ ~NoKeys.has
  BY FS_EmptySet DEF NoKeys, Slots
<1>2. keys[p] \in [Sids -> Slots] /\ \A sid \in Sids : IsFiniteSet(keys[p][sid].pend)
  BY DEF TypeOK, Tables
<1> QED BY <1>1, <1>2 DEF KeysFor

\* A peer's session before and after a purge.
LEMMA PurgedProperties ==
  ASSUME TypeOK, Senders, NEW p \in Peers, NEW st \in PurgedSession(sess[p])
  PROVE  /\ st \in Sessions /\ NoSession \in Sessions
         /\ st = sess[p] \/ st = NoSession
         /\ st.ok => st = sess[p]
<1>1. NoSession \in Sessions /\ ~NoSession.ok
  BY Constants DEF NoSession, Sessions
<1>2. sess[p] \in Sessions /\ (st = sess[p] \/ st = NoSession)
  BY DEF TypeOK, PurgedSession
<1> QED BY <1>1, <1>2

\* A call that gives up a relay.
LEMMA FailoverProperties ==
  ASSUME TypeOK, NEW m \in Msgs, task[m].pc \in Working
  PROVE  /\ Failover(task[m]) \in Tasks
         /\ Failover(task[m]).pc \in {"next", "failed"}
         /\ Failover(task[m]).pc = "next" => Failover(task[m]).left # <<>>
         /\ Failover(task[m]).sid = task[m].sid
<1>1. task[m] \in Tasks /\ task[m].left # <<>>
  BY DEF TypeOK
<1> DEFINE left == task[m].left
<1>2. left \in Seq(Relays)
  BY <1>1 DEF Tasks
<1>3. Tail(left) \in Seq(Relays) /\ Len(Tail(left)) = Len(left) - 1
  BY <1>1, <1>2, HeadTailProperties
<1>4. Len(left) > 1 => Tail(left) # <<>>
  <2> DEFINE t == Tail(left)
  <2>1. Len(left) \in Nat /\ t \in Seq(Relays) /\ Len(t) = Len(left) - 1
    BY <1>2, <1>3
  <2> HIDE DEF t, left
  <2>2. Len(left) > 1 => t # <<>>
    BY <2>1
  <2> QED BY <2>2 DEF t
<1> QED BY <1>1, <1>3, <1>4 DEF Failover, Tasks

\* The relay a call is at.
LEMMA HeadIsRelay ==
  ASSUME TypeOK, NEW m \in Msgs, task[m].pc \in Working \cup {"next"}
  PROVE  Head(task[m].left) \in Relays
<1>1. task[m] \in Tasks /\ task[m].left # <<>>
  BY DEF TypeOK
<1>2. task[m].left \in Seq(Relays)
  BY <1>1 DEF Tasks
<1> QED BY <1>1, <1>2, HeadTailProperties

\* The streams that hand on hold something.
LEMMA HandingHolds ==
  ASSUME TypeOK
  PROVE  handing \subseteq Holders
BY DEF TypeOK, Holders

\* What relayV1BIngestRelayDataPacket returns, when it is not empty, is held by a stream.
LEMMA TakenHolds ==
  ASSUME NEW sid \in Sids, NEW k \in Slots, NEW e \in Slots, NEW out \in Seq(Msgs),
         e.next = k.next + Len(out), out # <<>>
  PROVE  [sid |-> sid, next |-> e.next, out |-> out] \in Holders
<1>1. k.next \in Nat /\ e.next \in Nat /\ Len(out) \in Nat
  BY DEF Slots
<1>2. Len(out) # 0
  BY EmptySeq
<1>3. Len(out) \in 1 .. e.next
  BY <1>1, <1>2
<1>4. PICK j : j = [sid |-> sid, next |-> e.next, out |-> out]
  OBVIOUS
<1>5. j \in Hands /\ j.out = out /\ j.next = e.next
  BY <1>1, <1>4 DEF Hands
<1> QED BY <1>3, <1>4, <1>5 DEF Holders

\* The type invariant is preserved by each action.
LEMMA TypeStep ==
  ASSUME TypeOK, Senders, Tables, Next
  PROVE  TypeOK'
<1>1. ASSUME NEW m \in Msgs, SendViaRelay(m)
      PROVE  TypeOK'
  <2>1. PICK st \in PurgedSession(sess[From[m]]), relays \in PickRelayCandidates :
           /\ sess' = [sess EXCEPT ![From[m]] = st]
           /\ task' = [task EXCEPT ![m].pc = IF WithPreferred(st, relays) = <<>> THEN "failed" ELSE "next",
                                   ![m].left = WithPreferred(st, relays)]
    BY <1>1 DEF SendViaRelay
  <2>2. st \in Sessions
    BY PurgedProperties, Constants
  <2> DEFINE left == WithPreferred(st, relays)
  <2>3. left \in Seq(Relays)
    BY <2>2, CandidatesType, WithPreferredType DEF Sessions
  <2> HIDE DEF left
  <2>4. task \in [Msgs -> Tasks] /\ \A n \in Msgs : task[n].pc \in Working \cup {"next"} => task[n].left # <<>>
    BY DEF TypeOK
  <2>5. task' \in [Msgs -> Tasks] /\ \A n \in Msgs : task'[n].pc \in Working \cup {"next"} => task'[n].left # <<>>
    BY ZenonT(40), <2>1, <2>3, <2>4 DEF Tasks, Working, left
  <2>6. sess' \in [Peers -> Sessions]
    BY <2>1, <2>2 DEF TypeOK
  <2> QED BY <1>1, <2>5, <2>6 DEF SendViaRelay, TypeOK
<1>2. ASSUME NEW m \in Msgs, SendViaRelayV1(m)
      PROVE  TypeOK'
  <2> DEFINE p == From[m]
             new == Len(info) + 1
  <2>1. PICK st \in PurgedSession(sess[p]) :
           /\ sess' = [sess EXCEPT ![p] = st]
           /\ \/ /\ new <= MaxSid
                 /\ info' = Append(info, [src |-> p, relay |-> Head(task[m].left)])
                 /\ call' = [call EXCEPT ![new] = "c_relay"]
                 /\ task' = [task EXCEPT ![m].pc = "connect", ![m].sid = new]
              \/ /\ task' = [task EXCEPT ![m].pc = "seal", ![m].sid = st.sid]
                 /\ UNCHANGED <<info, call>>
    BY <1>2 DEF SendViaRelayV1
  <2>2. st \in Sessions /\ p \in Peers
    BY PurgedProperties, Constants
  <2>3. task[m].pc = "next" /\ Head(task[m].left) \in Relays
    BY <1>2, HeadIsRelay DEF SendViaRelayV1
  <2>4. sess' \in [Peers -> Sessions]
    BY <2>1, <2>2 DEF TypeOK
  <2>5. info \in Seq([src : Peers, relay : Relays]) /\ Len(info) <= MaxSid /\ new \in 1 .. Len(info) + 1
    BY DEF TypeOK
  <2>6. info' \in Seq([src : Peers, relay : Relays]) /\ Len(info') <= MaxSid
    <3> DEFINE S == [src : Peers, relay : Relays]
               e == [src |-> p, relay |-> Head(task[m].left)]
    <3>1. e \in S
      BY <2>2, <2>3
    <3> HIDE DEF S, e
    <3>2. Append(info, e) \in Seq(S) /\ Len(Append(info, e)) = Len(info) + 1
      BY <2>5, <3>1, AppendProperties DEF S
    <3> QED BY <2>1, <2>5, <3>2 DEF S, e
  <2>7. task \in [Msgs -> Tasks] /\ \A n \in Msgs : task[n].pc \in Working \cup {"next"} => task[n].left # <<>>
    BY DEF TypeOK
  <2>8. st.sid \in 0 .. MaxSid /\ (new <= MaxSid => new \in 0 .. MaxSid)
    BY <2>2, <2>5, Constants DEF Sessions
  <2>9. task' \in [Msgs -> Tasks] /\ \A n \in Msgs : task'[n].pc \in Working \cup {"next"} => task'[n].left # <<>>
    <3>1. \A n \in Msgs : task[n] \in Tasks /\ task'[n] =
             IF n = m THEN [task[m] EXCEPT !.pc = task'[m].pc, !.sid = task'[m].sid] ELSE task[n]
      BY ZenonT(40), <2>1, <2>7 DEF Tasks
    <3>2. task'[m].pc \in Working /\ task'[m].sid \in 0 .. MaxSid /\ task[m].left # <<>>
      BY <2>1, <2>3, <2>7, <2>8 DEF Tasks, Working
    <3>3. \A n \in Msgs : task'[n] \in Tasks /\ task'[n].left = task[n].left
      BY <3>1, <3>2 DEF Tasks
    <3>4. DOMAIN task' = Msgs /\ task' = [n \in DOMAIN task' |-> task'[n]]
      BY <2>1, <2>7
    <3>5. task' \in [Msgs -> Tasks]
      BY <3>3, <3>4
    <3>6. \A n \in Msgs : n # m => task'[n] = task[n]
      BY <3>1
    <3> HIDE <2>1
    <3> QED BY <2>7, <3>2, <3>3, <3>5, <3>6
  <2>10. call' \in [Sids -> CallSteps]
    BY <2>1 DEF TypeOK, CallSteps
  <2> QED BY <1>2, <2>4, <2>6, <2>9, <2>10 DEF SendViaRelayV1, TypeOK
<1>3. ASSUME NEW m \in Msgs, ReceiveConnectResponse(m) \/ ReceiveHandshakeResponse(m)
      PROVE  TypeOK'
  <2>1. From[m] \in Peers /\ Head(task[m].left) \in Relays
    BY <1>3, Constants, HeadIsRelay DEF ReceiveConnectResponse, ReceiveHandshakeResponse, Working
  <2>2. task \in [Msgs -> Tasks] /\ \A n \in Msgs : task[n].pc \in Working \cup {"next"} => task[n].left # <<>>
    BY DEF TypeOK
  <2>3. task' \in [Msgs -> Tasks] /\ \A n \in Msgs : task'[n].pc \in Working \cup {"next"} => task'[n].left # <<>>
    <3>1. CASE ReceiveConnectResponse(m)
      BY <3>1, <2>2 DEF ReceiveConnectResponse, Tasks, Working
    <3>2. CASE ReceiveHandshakeResponse(m)
      BY <3>2, <2>2 DEF ReceiveHandshakeResponse, Tasks, Working
    <3> QED BY <1>3, <3>1, <3>2
  <2>4. sess \in [Peers -> Sessions] /\ task[m].sid \in 0 .. MaxSid
    BY <2>2 DEF TypeOK, Tasks
  <2>5. sess' \in [Peers -> Sessions]
    <3>1. CASE ReceiveConnectResponse(m)
      <4>1. sess' = [sess EXCEPT ![From[m]].sid = task[m].sid, ![From[m]].relay = Head(task[m].left)]
        BY <3>1 DEF ReceiveConnectResponse
      <4> QED BY <2>1, <2>4, <4>1 DEF Sessions
    <3>2. CASE ReceiveHandshakeResponse(m)
      <4>1. sess' = [sess EXCEPT ![From[m]].key = task[m].sid, ![From[m]].seq = 0, ![From[m]].ok = TRUE]
        BY <3>2 DEF ReceiveHandshakeResponse
      <4> QED BY <2>1, <2>4, <4>1 DEF Sessions
    <3> QED BY <1>3, <3>1, <3>2
  <2>6. call' \in [Sids -> CallSteps]
    <3>1. call \in [Sids -> CallSteps]
      BY DEF TypeOK
    <3>2. CASE ReceiveConnectResponse(m)
      <4>1. call' = [call EXCEPT ![task[m].sid] = "h_relay"]
        BY <3>2 DEF ReceiveConnectResponse
      <4> QED BY <3>1, <4>1 DEF CallSteps
    <3>3. CASE ReceiveHandshakeResponse(m)
      <4>1. call' = [call EXCEPT ![task[m].sid] = "done"]
        BY <3>3 DEF ReceiveHandshakeResponse
      <4> QED BY <3>1, <4>1 DEF CallSteps
    <3> QED BY <1>3, <3>2, <3>3
  <2> QED BY <1>3, <2>3, <2>5, <2>6 DEF ReceiveConnectResponse, ReceiveHandshakeResponse, TypeOK
<1>4. ASSUME NEW m \in Msgs, task[m].pc \in Working, task' = [task EXCEPT ![m] = Failover(@)]
      PROVE  task' \in [Msgs -> Tasks] /\ \A n \in Msgs : task'[n].pc \in Working \cup {"next"} => task'[n].left # <<>>
  <2>1. task \in [Msgs -> Tasks] /\ \A n \in Msgs : task[n].pc \in Working \cup {"next"} => task[n].left # <<>>
    BY DEF TypeOK
  <2> QED BY <1>4, <2>1, FailoverProperties DEF Working
<1>5. ASSUME NEW m \in Msgs, EstablishFails(m)
      PROVE  TypeOK'
  <2>1. task[m].pc \in Working /\ task' = [task EXCEPT ![m] = Failover(@)]
    BY <1>5 DEF EstablishFails, Working
  <2>2. faults' \in Nat
    BY <1>5 DEF EstablishFails, CanFail, Fault, TypeOK
  <2> QED BY <1>4, <1>5, <2>1, <2>2 DEF EstablishFails, TypeOK
<1>6. ASSUME NEW m \in Msgs, Transmit(m)
      PROVE  TypeOK'
  <2> DEFINE p == From[m]
             st == sess[p]
             f == [sid |-> st.sid, key |-> st.key, src |-> p, seq |-> st.seq, msg |-> m,
                   relay |-> Head(task[m].left), at |-> "relay"]
             x == [by |-> p, key |-> st.key, seq |-> st.seq, msg |-> m]
  <2>1. p \in Peers /\ Head(task[m].left) \in Relays /\ task[m].pc \in Working
    BY <1>6, Constants, HeadIsRelay DEF Transmit, Working
  <2>2. st \in Sessions /\ st.ok /\ st.key # 0 /\ st.sid # 0
    BY <1>6, <2>1 DEF Transmit, Senders, TypeOK
  <2>3. st.key \in Sids /\ st.sid \in Sids /\ st.seq \in Nat
    BY <2>2, Constants DEF Sessions, Sids
  <2>4. f \in Frames /\ x \in Seals
    BY <2>1, <2>3 DEF Frames, Seals
  <2>5. sess' = [sess EXCEPT ![p].seq = @ + 1] /\ sealed' = sealed \cup {x}
    BY <1>6 DEF Transmit
  <2>6. sess' \in [Peers -> Sessions]
    <3>1. sess \in [Peers -> Sessions]
      BY DEF TypeOK
    <3> QED BY <2>1, <2>5, <3>1 DEF Sessions
  <2>7. sealed' \subseteq Seals
    BY <2>4, <2>5 DEF TypeOK
  <2>8. CASE frames' = frames \cup {f} /\ task' = [task EXCEPT ![m].pc = "sent"] /\ UNCHANGED faults
    <3>1. task \in [Msgs -> Tasks] /\ \A n \in Msgs : task[n].pc \in Working \cup {"next"} => task[n].left # <<>>
      BY DEF TypeOK
    <3>2. task' \in [Msgs -> Tasks] /\ \A n \in Msgs : task'[n].pc \in Working \cup {"next"} => task'[n].left # <<>>
      BY <2>8, <3>1 DEF Tasks, Working
    <3>3. frames' \subseteq Frames
      BY <2>4, <2>8 DEF TypeOK
    <3> QED BY <1>6, <2>6, <2>7, <2>8, <3>2, <3>3 DEF Transmit, TypeOK
  <2>9. CASE CanFail("write") /\ Fault /\ task' = [task EXCEPT ![m] = Failover(@)] /\ UNCHANGED frames
    <3>1. faults' \in Nat
      BY <2>9 DEF CanFail, Fault, TypeOK
    <3> QED BY <1>4, <1>6, <2>1, <2>6, <2>7, <2>9, <3>1 DEF Transmit, TypeOK
  <2> QED BY <1>6, <2>8, <2>9 DEF Transmit
<1>7. ASSUME NEW sid \in Known, RelayStep(sid)
      PROVE  TypeOK'
  <2>1. info[sid].relay \in Relays /\ sid \in Sids
    BY KnownSids
  <2>2. \A ids \in Swept(table[info[sid].relay]) : ids \in [Sids -> Nat]
    BY <2>1, SweptProperties DEF TypeOK
  <2>3. \A ids \in [Sids -> Nat] : Register(Capped(ids, info[sid].src), sid) \in [Sids -> Nat]
    BY <2>1, ScopeType, CappedProperties, RegisterProperties
  <2>4. table \in [Relays -> [Sids -> Nat]] /\ call \in [Sids -> CallSteps]
    BY DEF TypeOK
  <2>5. table' \in [Relays -> [Sids -> Nat]]
    <3>1. UNCHANGED table \/ \E ids \in [Sids -> Nat] : table' = [table EXCEPT ![info[sid].relay] = ids]
      BY <1>7, <2>2, <2>3 DEF RelayStep, ForwardRelayConnect, RegisterSession, ForwardRelayHandshake
    <3> QED BY <2>4, <3>1
  <2>6. call' \in [Sids -> CallSteps]
    BY <1>7, <2>4 DEF RelayStep, ForwardRelayConnect, RegisterSession, ForwardRelayHandshake, CallSteps
  <2> QED BY <1>7, <2>5, <2>6 DEF RelayStep, ForwardRelayConnect, RegisterSession, ForwardRelayHandshake, TypeOK
<1>8. ASSUME NEW sid \in Known, ReceiverStep(sid)
      PROVE  TypeOK'
  <2>1. Dst(sid) \in Peers /\ sid \in Sids
    BY KnownSids
  <2>2. \A ids \in Swept(conn[Dst(sid)]) : ids \in [Sids -> Nat]
    BY <2>1, SweptProperties DEF TypeOK
  <2>3. \A ids \in [Sids -> Nat] : Register(Capped(ids, info[sid].src), sid) \in [Sids -> Nat]
    BY <2>1, ScopeType, CappedProperties, RegisterProperties
  <2>4. \A ids \in [Sids -> Nat] : KeysFor(keys[Dst(sid)], ids) \in [Sids -> Slots]
    BY <2>1, KeysForProperties
  <2>5. [NoKeys EXCEPT !.has = TRUE] \in Slots
    BY DEF NoKeys, Slots
  <2>6. conn \in [Peers -> [Sids -> Nat]] /\ keys \in [Peers -> [Sids -> Slots]] /\ call \in [Sids -> CallSteps]
    BY DEF TypeOK
  <2>7. \E ids \in [Sids -> Nat], ks \in [Sids -> Slots] :
           conn' = [conn EXCEPT ![Dst(sid)] = ids] /\ keys' = [keys EXCEPT ![Dst(sid)] = ks]
    <3>1. CASE ServeRelayConnectAsB(sid)
      <4>1. PICK ids \in Swept(conn[Dst(sid)]) :
              LET new == Register(Capped(ids, info[sid].src), sid) IN
              conn' = [conn EXCEPT ![Dst(sid)] = new] /\ keys' = [keys EXCEPT ![Dst(sid)] = KeysFor(@, new)]
        BY <3>1 DEF ServeRelayConnectAsB
      <4> DEFINE new == Register(Capped(ids, info[sid].src), sid)
      <4>2. new \in [Sids -> Nat]
        BY <2>2, <2>3
      <4> HIDE DEF new
      <4>3. KeysFor(keys[Dst(sid)], new) \in [Sids -> Slots]
        BY <2>4, <4>2
      <4>4. keys' = [keys EXCEPT ![Dst(sid)] = KeysFor(keys[Dst(sid)], new)] /\ conn' = [conn EXCEPT ![Dst(sid)] = new]
        BY <4>1, <2>1, <2>6 DEF new
      <4> QED BY <4>2, <4>3, <4>4
    <3>2. CASE ServeRelayHandshakeAsB(sid) \/ AnswerHandshake(sid)
      BY <3>2, <2>1, <2>2, <2>4, <2>6 DEF ServeRelayHandshakeAsB, AnswerHandshake
    <3>3. CASE StoreKeys(sid)
      BY <3>3, <2>1, <2>2, <2>4, <2>5 DEF StoreKeys
    <3> QED BY <1>8, <3>1, <3>2, <3>3 DEF ReceiverStep
  <2>8. conn' \in [Peers -> [Sids -> Nat]] /\ keys' \in [Peers -> [Sids -> Slots]]
    BY <2>6, <2>7
  <2>9. acts' \subseteq [p : Peers, sid : Sids]
    BY <1>8, <2>1 DEF ReceiverStep, ServeRelayConnectAsB, ServeRelayHandshakeAsB, StoreKeys, AnswerHandshake, TypeOK
  <2>10. call' \in [Sids -> CallSteps]
    BY <1>8, <2>6 DEF ReceiverStep, ServeRelayConnectAsB, ServeRelayHandshakeAsB, StoreKeys, AnswerHandshake, CallSteps
  <2>11. UNCHANGED <<scope, task, sess, info, table, frames, age, faults, sealed, handing, arrived>>
    BY <1>8 DEF ReceiverStep, ServeRelayConnectAsB, ServeRelayHandshakeAsB, StoreKeys, AnswerHandshake
  <2> QED BY <2>8, <2>9, <2>10, <2>11 DEF TypeOK
<1>9. ASSUME NEW sid \in Known, SessionAges(sid) \/ CallLost(sid)
      PROVE  TypeOK'
  <2>1. call' \in [Sids -> CallSteps]
    BY <1>9 DEF SessionAges, CallLost, TypeOK, CallSteps
  <2>2. age' \in [Sids -> {"fresh", "late", "gone"}] /\ faults' \in Nat
    <3>1. CASE SessionAges(sid)
      BY <3>1 DEF SessionAges, TypeOK
    <3>2. CASE CallLost(sid)
      BY <3>2 DEF CallLost, CanFail, Fault, TypeOK
    <3> QED BY <1>9, <3>1, <3>2
  <2> QED BY <1>9, <2>1, <2>2 DEF SessionAges, CallLost, TypeOK
<1>10. ASSUME NEW a \in acts, ActivateOutboundSession(a)
       PROVE  TypeOK'
  <2>1. a.p \in Peers /\ a.sid \in Known
    BY DEF TypeOK, Tables
  <2>2. [relay |-> info[a.sid].relay, sid |-> a.sid, key |-> a.sid, seq |-> 0, ok |-> TRUE] \in Sessions
    BY <2>1, KnownSids, Constants DEF Sessions, Sids
  <2>3. sess' \in [Peers -> Sessions]
    BY <1>10, <2>2 DEF ActivateOutboundSession, TypeOK
  <2> QED BY <1>10, <2>3 DEF ActivateOutboundSession, TypeOK
<1>11. ASSUME NEW f \in frames, ForwardRelayData(f)
       PROVE  TypeOK'
  <2>1. f \in Frames
    BY DEF TypeOK
  <2>2. f.relay \in Relays /\ [f EXCEPT !.at = "dst"] \in Frames
    BY <2>1 DEF Frames
  <2>3. \A ids \in Swept(table[f.relay]) : ids \in [Sids -> Nat]
    BY <2>2, SweptProperties DEF TypeOK
  <2>4. table' \in [Relays -> [Sids -> Nat]] /\ frames' \subseteq Frames
    BY <1>11, <2>2, <2>3 DEF ForwardRelayData, TypeOK
  <2> QED BY <1>11, <2>4 DEF ForwardRelayData, TypeOK
<1>12. ASSUME NEW f \in frames, ServeRelayDataAsB(f)
       PROVE  TypeOK'
  <2> DEFINE q == Other(f.src)
             pkt == [seq |-> f.seq, msg |-> f.msg]
  <2>1. f \in Frames
    BY DEF TypeOK
  <2>2. q \in Peers /\ f.sid \in Sids /\ pkt \in Packets
    BY <2>1, OtherPeer DEF Frames, Packets
  <2>3. PICK ids \in Swept(conn[q]) :
           LET kept == KeysFor(keys[q], ids)
               res == Ingest(kept[f.sid], pkt)
               opens == kept[f.sid].has /\ f.key = f.sid
           IN
           /\ conn' = [conn EXCEPT ![q] = ids]
           /\ keys' = [keys EXCEPT ![q] = IF opens THEN [kept EXCEPT ![f.sid] = res.entry] ELSE kept]
           /\ handing' = handing \cup
                  IF opens /\ res.out # <<>>
                  THEN {[sid |-> f.sid, next |-> res.entry.next, out |-> res.out]} ELSE {}
    BY <1>12 DEF ServeRelayDataAsB
  <2> DEFINE kept == KeysFor(keys[q], ids)
             res == Ingest(kept[f.sid], pkt)
  <2>4. ids \in [Sids -> Nat]
    BY <2>2, SweptProperties DEF TypeOK
  <2>5. kept \in [Sids -> Slots] /\ IsFiniteSet(kept[f.sid].pend)
    BY <2>2, <2>4, KeysForProperties
  <2>6. /\ res.entry \in Slots /\ res.out \in Seq(Msgs)
        /\ res.entry.next = kept[f.sid].next + Len(res.out)
    BY <2>2, <2>5, IngestProperties DEF Ingested
  <2>10. res.out # <<>> => [sid |-> f.sid, next |-> res.entry.next, out |-> res.out] \in Holders
    <3> HIDE DEF res, kept
    <3> QED BY <2>2, <2>5, <2>6, TakenHolds
  <2>11. handing \subseteq Holders
    BY HandingHolds
  <2>12. handing' \subseteq Holders
    BY <2>3, <2>10, <2>11
  <2> HIDE DEF q
  <2>7. conn' \in [Peers -> [Sids -> Nat]]
    BY <2>2, <2>3, <2>4 DEF TypeOK
  <2>8. keys' \in [Peers -> [Sids -> Slots]]
    BY <2>2, <2>3, <2>5, <2>6 DEF TypeOK
  <2>9. handing' \subseteq Hands /\ \A j \in handing' : Len(j.out) \in 1 .. j.next
    BY <2>12 DEF Holders
  <2> QED BY <1>12, <2>7, <2>8, <2>9 DEF ServeRelayDataAsB, TypeOK
<1>13. ASSUME NEW f \in frames, FrameLost(f)
       PROVE  TypeOK'
  BY <1>13 DEF FrameLost, CanFail, Fault, TypeOK
<1>14. ASSUME NEW r \in Relays, RelayRestarts(r)
       PROVE  TypeOK'
  <2>1. call' \in [Sids -> CallSteps]
    BY <1>14 DEF RelayRestarts, TypeOK, CallSteps
  <2>2. table' \in [Relays -> [Sids -> Nat]] /\ faults' \in Nat
    BY <1>14 DEF RelayRestarts, CanFail, Fault, NoneRegistered, TypeOK
  <2> QED BY <1>14, <2>1, <2>2 DEF RelayRestarts, TypeOK
<1>15. ASSUME NEW p \in Peers, PeerRestarts(p)
       PROVE  TypeOK'
  <2>1. NoneRegistered \in [Sids -> Nat]
    BY DEF NoneRegistered
  <2>2. KeysFor(keys[p], NoneRegistered) \in [Sids -> Slots]
    BY <2>1, KeysForProperties
  <2>3. keys' \in [Peers -> [Sids -> Slots]] /\ conn' \in [Peers -> [Sids -> Nat]]
    BY <1>15, <2>1, <2>2 DEF PeerRestarts, TypeOK
  <2>4. sess' \in [Peers -> Sessions]
    BY <1>15, PurgedProperties DEF PeerRestarts, TypeOK, PurgedSession
  <2>5. task \in [Msgs -> Tasks] /\ \A n \in Msgs : task[n].pc \in Working \cup {"next"} => task[n].left # <<>>
    BY DEF TypeOK
  <2>6. task' \in [Msgs -> Tasks] /\ \A n \in Msgs : task'[n].pc \in Working \cup {"next"} => task'[n].left # <<>>
    BY <1>15, <2>5 DEF PeerRestarts, Tasks, Working
  <2>7. call' \in [Sids -> CallSteps]
    BY <1>15 DEF PeerRestarts, TypeOK, CallSteps
  <2>8. acts' \subseteq [p : Peers, sid : Sids] /\ faults' \in Nat /\ handing' \subseteq handing
    BY <1>15 DEF PeerRestarts, CanFail, Fault, TypeOK
  <2> QED BY <1>15, <2>3, <2>4, <2>6, <2>7, <2>8 DEF PeerRestarts, TypeOK
<1>16. ASSUME NEW j \in handing, HandOn(j)
       PROVE  TypeOK'
  <2>1. j \in Holders /\ handing \subseteq Holders
    BY HandingHolds
  <2> DEFINE rest == [j EXCEPT !.out = Tail(@)]
             pkt == [seq |-> j.next - Len(j.out), msg |-> Head(j.out)]
  <2>2. pkt \in Packets /\ j.sid \in Sids /\ (rest.out # <<>> => rest \in Holders)
    BY <2>1, HeadOfHand DEF Packets
  <2>3. handing' = (handing \ {j}) \cup IF rest.out = <<>> THEN {} ELSE {rest}
    BY <1>16 DEF HandOn
  <2>4. arrived' = [arrived EXCEPT ![j.sid] = Append(arrived[j.sid], pkt)]
    BY <1>16 DEF HandOn
  <2> HIDE DEF rest, pkt
  <2>5. handing' \subseteq Holders
    BY <2>1, <2>2, <2>3
  <2>6. arrived' \in [Sids -> Seq(Packets)]
    <3>1. Append(arrived[j.sid], pkt) \in Seq(Packets)
      BY <2>2, AppendProperties DEF TypeOK
    <3> QED BY <2>4, <3>1 DEF TypeOK
  <2>7. handing' \subseteq Hands /\ \A h \in handing' : Len(h.out) \in 1 .. h.next
    BY <2>5 DEF Holders
  <2> QED BY <1>16, <2>6, <2>7 DEF HandOn, TypeOK
<1> QED BY <1>1, <1>2, <1>3, <1>5, <1>6, <1>7, <1>8, <1>9, <1>10, <1>11, <1>12, <1>13, <1>14, <1>15, <1>16
        DEF Next, SenderStep, FrameStep

\* The sessions begun only grow: SendViaRelayV1 appends one, no step changes one.
LEMMA InfoGrows ==
  ASSUME TypeOK, Next
  PROVE  /\ Known \subseteq Known'
         /\ \A sid \in Known : info'[sid] = info[sid] /\ Dst(sid)' = Dst(sid)
         /\ info' # info => Known' = Known \cup {Len(info) + 1} /\ Len(info) + 1 \notin Known
<1> DEFINE S == [src : Peers, relay : Relays]
<1>0. ASSUME NEW m \in Msgs, SendViaRelayV1(m)
      PROVE  UNCHANGED info \/ \E e \in S : info' = Append(info, e)
  <2>1. [src |-> From[m], relay |-> Head(task[m].left)] \in S
    BY <1>0, HeadIsRelay, Constants DEF SendViaRelayV1
  <2> HIDE DEF S
  <2> QED BY <1>0, <2>1 DEF SendViaRelayV1
<1>1. UNCHANGED info \/ \E e \in S : info' = Append(info, e)
  BY <1>0 DEF Next, SenderStep, RelayStep, ReceiverStep, FrameStep, SendViaRelay,
         ReceiveConnectResponse, ReceiveHandshakeResponse, EstablishFails, Transmit,
         ForwardRelayConnect, RegisterSession, ForwardRelayHandshake, ForwardRelayData,
         ServeRelayConnectAsB, ServeRelayHandshakeAsB, StoreKeys, AnswerHandshake,
         ActivateOutboundSession, ServeRelayDataAsB, HandOn, SessionAges, CallLost, FrameLost,
         RelayRestarts, PeerRestarts
<1>2. CASE UNCHANGED info
  BY <1>2 DEF Known, Dst
<1>3. ASSUME NEW e \in S, info' = Append(info, e)
      PROVE  /\ \A sid \in Known : sid \in Known' /\ info'[sid] = info[sid]
             /\ Known' = Known \cup {Len(info) + 1} /\ Len(info) + 1 \notin Known
  <2>1. info \in Seq(S) /\ e \in S
    BY DEF TypeOK
  <2> HIDE DEF S
  <2>2. Known = 1 .. Len(info) /\ Known' = 1 .. Len(info) + 1 /\ Len(info) \in Nat
    BY <1>3, <2>1, AppendProperties DEF Known
  <2>3. \A sid \in 1 .. Len(info) : info'[sid] = info[sid]
    BY <1>3, <2>1, AppendProperties
  <2> QED BY <2>2, <2>3
<1> QED BY <1>1, <1>2, <1>3 DEF Dst

\* Senders is preserved: the lock of a session is held from the choice of a relay
\* to the success or failure of the call.
LEMMA SendersStep ==
  ASSUME TypeOK, Senders, Tables, Next
  PROVE  Senders'
<1> USE DEF Working
<1>0. /\ \A p \in Peers : sess[p] \in Sessions /\ DOMAIN sess = Peers
      /\ \A m \in Msgs : task[m] \in Tasks /\ DOMAIN task = Msgs
  BY DEF TypeOK
<1>a. Known \subseteq Known' /\ \A sid \in Known : info'[sid] = info[sid]
  BY InfoGrows
<1>b. \A m \in Msgs : From[m] \in Peers
  BY Constants
<1>1. ASSUME NEW m \in Msgs, SendViaRelay(m)
      PROVE  Senders'
  <2>1. PICK st \in PurgedSession(sess[From[m]]) : sess' = [sess EXCEPT ![From[m]] = st]
    BY <1>1 DEF SendViaRelay
  <2>2. (st = sess[From[m]] \/ st = NoSession) /\ LockFree(From[m])
    BY <1>1, <1>b, PurgedProperties DEF SendViaRelay
  <2>3. \A n \in Msgs : task'[n].pc \in Working => task'[n] = task[n] /\ n # m
    BY <1>0, <1>1 DEF SendViaRelay, Tasks
  <2>4. UNCHANGED info
    BY <1>1 DEF SendViaRelay
  <2> QED BY <1>0, <1>b, <2>1, <2>2, <2>3, <2>4 DEF Senders, LockFree, NoSession, Known
<1>2. ASSUME NEW m \in Msgs, SendViaRelayV1(m)
      PROVE  Senders'
  <2> DEFINE p == From[m]
             new == Len(info) + 1
  <2>1. PICK st \in PurgedSession(sess[p]) :
           /\ sess' = [sess EXCEPT ![p] = st]
           /\ \/ /\ info' = Append(info, [src |-> p, relay |-> Head(task[m].left)])
                 /\ task' = [task EXCEPT ![m].pc = "connect", ![m].sid = new]
              \/ /\ ~NeedEstablish(st, Head(task[m].left))
                 /\ task' = [task EXCEPT ![m].pc = "seal", ![m].sid = st.sid]
                 /\ UNCHANGED info
    BY <1>2 DEF SendViaRelayV1
  <2>2. (st = sess[p] \/ st = NoSession) /\ LockFree(p) /\ p \in Peers
    BY <1>2, <1>b, PurgedProperties DEF SendViaRelayV1
  <2>3. \A n \in Msgs : n # m => task'[n] = task[n]
    BY <2>1, <1>0
  <2>4. \A q \in Peers : sess'[q] = IF q = p THEN st ELSE sess[q]
    BY <2>1, <1>0
  <2>5. \A n \in Msgs : n # m /\ task[n].pc \in Working => From[n] # p
    BY <2>2 DEF LockFree
  <2>6. task'[m].pc = "connect" => new \in Known' /\ info'[new].src = p /\ task'[m].sid = new
    <3> SUFFICES ASSUME task'[m].pc = "connect" PROVE new \in Known' /\ info'[new].src = p /\ task'[m].sid = new
      OBVIOUS
    <3> DEFINE S == [src : Peers, relay : Relays]
               e == [src |-> p, relay |-> Head(task[m].left)]
    <3>1. info' = Append(info, e) /\ task'[m].sid = new
      BY <1>0, <2>1 DEF Tasks
    <3>2. info \in Seq(S) /\ e \in S /\ e.src = p
      BY <1>2, <2>2, HeadIsRelay DEF TypeOK, SendViaRelayV1
    <3> HIDE DEF S, e
    <3>3. info' \in Seq(S) /\ Len(info') = new /\ info'[new] = e /\ Len(info) \in Nat
      BY <3>1, <3>2, AppendProperties
    <3> QED BY <3>1, <3>2, <3>3 DEF Known
  <2>7. task'[m].pc \in {"connect", "seal"} /\ (task'[m].pc = "seal" => st.ok)
    BY <1>0, <2>1 DEF Tasks, NeedEstablish, Usable
  <2>8. \A q \in Peers : /\ sess'[q].ok => sess'[q].key # 0 /\ sess'[q].sid # 0
                         /\ sess'[q].key # 0 => sess'[q].key \in Known'
    BY <1>a, <2>2, <2>4 DEF Senders, NoSession
  <2>9. \A n \in Msgs : /\ task'[n].pc = "seal" => sess'[From[n]].ok
                        /\ task'[n].pc = "handshake" => sess'[From[n]].sid = task'[n].sid
                        /\ task'[n].pc \in {"connect", "handshake"} =>
                              task'[n].sid \in Known' /\ info'[task'[n].sid].src = From[n]
    BY <1>a, <1>b, <2>2, <2>3, <2>4, <2>5, <2>6, <2>7 DEF Senders
  <2>10. \A n \in Msgs : task'[n].pc \in Working =>
               \A l \in Msgs : From[l] = From[n] /\ task'[l].pc \in Working => l = n
    BY <2>3, <2>5 DEF Senders
  <2> QED BY <2>8, <2>9, <2>10 DEF Senders
<1>3. ASSUME NEW m \in Msgs, ReceiveConnectResponse(m) \/ ReceiveHandshakeResponse(m)
      PROVE  Senders'
  <2>1. task[m].sid \in Known /\ info[task[m].sid].src = From[m] /\ task[m].sid # 0 /\ UNCHANGED info
    <3>1. task[m].pc \in {"connect", "handshake"} /\ UNCHANGED info
      BY <1>3 DEF ReceiveConnectResponse, ReceiveHandshakeResponse
    <3>2. task[m].sid \in Known /\ info[task[m].sid].src = From[m]
      BY <3>1 DEF Senders
    <3>3. 0 \notin Known
      BY KnownSids, Constants
    <3> QED BY <3>1, <3>2, <3>3
  <2>2. \A n \in Msgs : /\ n # m => task'[n] = task[n]
                        /\ task'[n].pc \in Working => task[n].pc \in Working
                        /\ task'[n].sid = task[n].sid
    <3>1. task[m].pc \in Working /\ \E pc : task' = [task EXCEPT ![m].pc = pc]
      BY <1>3, Zenon DEF ReceiveConnectResponse, ReceiveHandshakeResponse, Working
    <3>2. PICK pc : task' = [task EXCEPT ![m].pc = pc]
      BY <3>1
    <3>3. \A n \in Msgs : task[n] \in Tasks
      BY <1>0
    <3> QED BY <1>0, <3>1, <3>2, <3>3 DEF Tasks
  <2>3. \A q \in Peers : q # From[m] => sess'[q] = sess[q]
    BY <1>0, <1>3 DEF ReceiveConnectResponse, ReceiveHandshakeResponse
  <2>4. CASE ReceiveConnectResponse(m)
    <3>1. sess'[From[m]].ok = sess[From[m]].ok /\ sess'[From[m]].key = sess[From[m]].key /\ sess'[From[m]].sid = task[m].sid
      BY <1>0, <1>b, <2>4 DEF ReceiveConnectResponse, Sessions
    <3>2. task'[m].pc = "handshake"
      BY <1>0, <2>4 DEF ReceiveConnectResponse, Tasks
    <3> QED BY <1>b, <2>1, <2>2, <2>3, <3>1, <3>2 DEF Senders, Known
  <2>5. CASE ReceiveHandshakeResponse(m)
    <3>1. sess'[From[m]].ok /\ sess'[From[m]].key = task[m].sid /\ sess'[From[m]].sid = sess[From[m]].sid
      BY <1>0, <1>b, <2>5 DEF ReceiveHandshakeResponse, Sessions
    <3>2. task'[m].pc = "seal" /\ task[m].pc = "handshake"
      BY <1>0, <2>5 DEF ReceiveHandshakeResponse, Tasks
    <3> QED BY <1>b, <2>1, <2>2, <2>3, <3>1, <3>2 DEF Senders, Known
  <2> QED BY <1>3, <2>4, <2>5
<1>4. ASSUME NEW m \in Msgs, EstablishFails(m) \/ Transmit(m)
      PROVE  Senders'
  <2>1. task[m].pc \in Working /\ UNCHANGED info
    BY <1>4 DEF EstablishFails, Transmit
  <2>2. \A n \in Msgs : task'[n].pc \in Working => task'[n] = task[n] /\ n # m
    <3>1. \A n \in Msgs : n # m => task'[n] = task[n]
      BY <1>0, <1>4 DEF EstablishFails, Transmit
    <3>2. task'[m] = Failover(task[m]) \/ task'[m].pc = "sent"
      BY <1>0, <1>4 DEF EstablishFails, Transmit, Tasks
    <3>3. task'[m].pc \notin Working
      BY <2>1, <3>2, FailoverProperties
    <3> QED BY <3>1, <3>3
  <2>3. \A q \in Peers : sess'[q].ok = sess[q].ok /\ sess'[q].key = sess[q].key /\ sess'[q].sid = sess[q].sid
    BY <1>0, <1>4 DEF EstablishFails, Transmit, Sessions
  <2> QED BY <1>b, <2>1, <2>2, <2>3 DEF Senders, Known
<1>5. ASSUME UNCHANGED <<task, sess, info>>
      PROVE  Senders'
  BY <1>5 DEF Senders, Known
<1>6. ASSUME NEW a \in acts, ActivateOutboundSession(a)
      PROVE  Senders'
  <2>1. a.sid \in Known /\ a.sid # 0 /\ UNCHANGED <<task, info>> /\ LockFree(a.p) /\ a.p \in Peers
    BY <1>6, KnownSids, Constants DEF Tables, ActivateOutboundSession, TypeOK
  <2>2. \A q \in Peers : q # a.p => sess'[q] = sess[q]
    BY <1>0, <1>6 DEF ActivateOutboundSession
  <2>3. sess'[a.p].ok /\ sess'[a.p].key = a.sid /\ sess'[a.p].sid = a.sid
    BY <1>0, <1>6, <2>1 DEF ActivateOutboundSession
  <2> QED BY <1>b, <2>1, <2>2, <2>3 DEF Senders, Known, LockFree
<1>7. ASSUME NEW p \in Peers, PeerRestarts(p)
      PROVE  Senders'
  <2>1. \A n \in Msgs : task'[n].pc \in Working => task'[n] = task[n] /\ From[n] # p
    BY <1>0, <1>7 DEF PeerRestarts, Tasks
  <2>2. \A q \in Peers : sess'[q] = IF q = p THEN NoSession ELSE sess[q]
    BY <1>0, <1>7 DEF PeerRestarts
  <2>3. UNCHANGED info
    BY <1>7 DEF PeerRestarts
  <2> QED BY <1>b, <2>1, <2>2, <2>3 DEF Senders, Known, NoSession
<1> QED
  BY <1>1, <1>2, <1>3, <1>4, <1>5, <1>6, <1>7
     DEF Next, SenderStep, RelayStep, ReceiverStep, FrameStep, ForwardRelayConnect, RegisterSession,
         ForwardRelayHandshake, ForwardRelayData, ServeRelayConnectAsB, ServeRelayHandshakeAsB,
         StoreKeys, AnswerHandshake, ServeRelayDataAsB, HandOn, SessionAges, CallLost, FrameLost, RelayRestarts

\* What a step does to a receiver's table and keys, as far as Tables is about it.
InboundOK(p) ==
    /\ \A sid \in Registered(conn'[p]) : sid \in Known /\ info[sid].src = Other(p)
    /\ \A sid \in Sids : keys'[p][sid].has => sid \in Registered(conn'[p])
    /\ \A sid \in Sids : IsFiniteSet(keys'[p][sid].pend)
    /\ Cardinality(Registered(conn'[p])) <= scope.perSrc

\* A sweep of a receiver's table and keys.
LEMMA SweepInbound ==
  ASSUME TypeOK, Tables, Bounded, NEW p \in Peers, NEW ids \in Swept(conn[p]), conn'[p] = ids,
         \A sid \in Sids : keys'[p][sid].has => KeysFor(keys[p], ids)[sid].has \/ sid \in Registered(ids),
         \A sid \in Sids : IsFiniteSet(keys'[p][sid].pend)
  PROVE  InboundOK(p)
<1>1. conn[p] \in [Sids -> Nat]
  BY DEF TypeOK
<1>2. ids \in [Sids -> Nat] /\ Registered(ids) \subseteq Registered(conn[p])
  BY <1>1, SweptProperties
<1>3. IsFiniteSet(Registered(conn[p])) /\ IsFiniteSet(Registered(ids))
  BY <1>2, SidsFinite, FS_Subset DEF Registered
<1>4. Cardinality(Registered(ids)) <= Cardinality(Registered(conn[p]))
  BY <1>2, <1>3, FS_Subset
<1>5. Cardinality(Registered(ids)) \in Nat /\ Cardinality(Registered(conn[p])) \in Nat
  BY <1>3, FS_CardinalityType
<1>6. Cardinality(Registered(ids)) <= scope.perSrc
  BY <1>4, <1>5, ScopeType DEF Bounded
<1>7. \A sid \in Sids : keys'[p][sid].has => sid \in Registered(ids)
  BY <1>2, KeysForProperties
<1> QED BY <1>2, <1>6, <1>7 DEF InboundOK, Tables

\* A registration at a receiver, after a sweep and the cap.
LEMMA RegisterInbound ==
  ASSUME TypeOK, Tables, Bounded, NEW sid \in Known, ServeRelayConnectAsB(sid)
  PROVE  InboundOK(Dst(sid))
<1> DEFINE q == Dst(sid)
           src == info[sid].src
<1>1. q \in Peers /\ sid \in Sids /\ Other(q) = src
  BY KnownSids
<1>2. conn \in [Peers -> [Sids -> Nat]] /\ keys \in [Peers -> [Sids -> Slots]]
  BY DEF TypeOK
<1>3. PICK ids \in Swept(conn[q]) :
        /\ conn' = [conn EXCEPT ![q] = Register(Capped(ids, src), sid)]
        /\ keys' = [keys EXCEPT ![q] = KeysFor(@, Register(Capped(ids, src), sid))]
  BY DEF ServeRelayConnectAsB
<1> DEFINE cap == Capped(ids, src)
           new == Register(cap, sid)
<1>4. ids \in [Sids -> Nat] /\ Registered(ids) \subseteq Registered(conn[q])
  BY <1>1, <1>2, SweptProperties
<1>5. /\ cap \in [Sids -> Nat] /\ Registered(cap) \subseteq Registered(ids)
      /\ Cardinality({s \in Registered(cap) : info[s].src = src}) < scope.perSrc
  BY <1>4, ScopeType, CappedProperties
<1> HIDE DEF cap
<1>6. new \in [Sids -> Nat] /\ Registered(new) = Registered(cap) \cup {sid}
  BY <1>1, <1>5, RegisterProperties
<1> HIDE DEF new, q, src
<1>7. \A s \in Registered(cap) : s \in Known /\ info[s].src = src
  BY <1>1, <1>4, <1>5 DEF Tables
<1>8. {s \in Registered(cap) : info[s].src = src} = Registered(cap)
  BY <1>7
<1>9. IsFiniteSet(Registered(cap))
  BY SidsFinite, FS_Subset DEF Registered
<1>10. Cardinality(Registered(new)) <= scope.perSrc
  <2>1. Cardinality(Registered(cap)) \in Nat /\ Cardinality(Registered(cap)) < scope.perSrc
    BY <1>5, <1>8, <1>9, FS_CardinalityType
  <2>2. Cardinality(Registered(new)) = Cardinality(Registered(cap))
          \/ Cardinality(Registered(new)) = Cardinality(Registered(cap)) + 1
    BY <1>6, <1>9, FS_AddElement
  <2> QED BY <2>1, <2>2, ScopeType
<1>11. conn'[q] = new /\ keys'[q] = KeysFor(keys[q], new)
  BY <1>1, <1>2, <1>3 DEF new, cap
<1>12. \A s \in Sids : /\ KeysFor(keys[q], new)[s].has => s \in Registered(new)
                       /\ IsFiniteSet(KeysFor(keys[q], new)[s].pend)
  BY <1>1, <1>6, KeysForProperties
<1>13. \A s \in Registered(new) : s \in Known /\ info[s].src = Other(q)
  BY <1>1, <1>6, <1>7 DEF src
<1>14. InboundOK(q)
  BY <1>10, <1>11, <1>12, <1>13 DEF InboundOK
<1> QED BY <1>14 DEF q

\* A receiver whose table and keys do not change.
LEMMA SameInbound ==
  ASSUME Tables, Bounded, NEW p \in Peers, conn'[p] = conn[p], keys'[p] = keys[p]
  PROVE  InboundOK(p)
  BY DEF Tables, Bounded, InboundOK

\* Tables and the bound are preserved at every receiver.
LEMMA InboundStep ==
  ASSUME TypeOK, Tables, Bounded, Next
  PROVE  \A p \in Peers : InboundOK(p)
<1>0. conn \in [Peers -> [Sids -> Nat]] /\ keys \in [Peers -> [Sids -> Slots]]
  BY DEF TypeOK
<1>1. ASSUME UNCHANGED <<conn, keys>>
      PROVE  \A p \in Peers : InboundOK(p)
  BY <1>1, SameInbound
<1>2. ASSUME NEW sid \in Known, ServeRelayConnectAsB(sid)
      PROVE  \A p \in Peers : InboundOK(p)
  <2>1. \A p \in Peers : p # Dst(sid) => conn'[p] = conn[p] /\ keys'[p] = keys[p]
    BY <1>0, <1>2 DEF ServeRelayConnectAsB
  <2> QED BY <1>2, <2>1, SameInbound, RegisterInbound
<1>3. ASSUME NEW sid \in Known,
             ServeRelayHandshakeAsB(sid) \/ StoreKeys(sid) \/ AnswerHandshake(sid)
      PROVE  \A p \in Peers : InboundOK(p)
  <2> DEFINE q == Dst(sid)
  <2>1. q \in Peers /\ sid \in Sids
    BY KnownSids
  <2>2. PICK ids \in Swept(conn[q]) :
          /\ conn' = [conn EXCEPT ![q] = ids]
          /\ \/ keys' = [keys EXCEPT ![q] = KeysFor(keys[q], ids)]
             \/ /\ sid \in Registered(ids)
                /\ keys' = [keys EXCEPT ![q] = [KeysFor(keys[q], ids) EXCEPT ![sid] = [NoKeys EXCEPT !.has = TRUE]]]
    <3>1. CASE ServeRelayHandshakeAsB(sid) \/ AnswerHandshake(sid)
      BY <3>1, <1>0, <2>1 DEF ServeRelayHandshakeAsB, AnswerHandshake
    <3>2. CASE StoreKeys(sid)
      BY <3>2, <1>0, <2>1 DEF StoreKeys, Servable
    <3> QED BY <1>3, <3>1, <3>2
  <2>3. ids \in [Sids -> Nat]
    BY <1>0, <2>1, SweptProperties
  <2> DEFINE ks == KeysFor(keys[q], ids)
  <2>4. ks \in [Sids -> Slots] /\ \A s \in Sids : IsFiniteSet(ks[s].pend)
    BY <2>1, <2>3, KeysForProperties
  <2>5. IsFiniteSet([NoKeys EXCEPT !.has = TRUE].pend)
    BY FS_EmptySet DEF NoKeys
  <2> HIDE DEF ks, q
  <2>6. conn'[q] = ids /\ \A p \in Peers : p # q => conn'[p] = conn[p] /\ keys'[p] = keys[p]
    BY <1>0, <2>1, <2>2
  <2>7. \A s \in Sids : /\ keys'[q][s].has => ks[s].has \/ s \in Registered(ids)
                        /\ IsFiniteSet(keys'[q][s].pend)
    BY <1>0, <2>1, <2>2, <2>4, <2>5 DEF ks
  <2>8. InboundOK(q)
    BY <2>1, <2>6, <2>7, SweepInbound DEF ks
  <2> QED BY <2>6, <2>8, SameInbound
<1>4. ASSUME NEW f \in frames, ServeRelayDataAsB(f)
      PROVE  \A p \in Peers : InboundOK(p)
  <2> DEFINE q == Other(f.src)
             pkt == [seq |-> f.seq, msg |-> f.msg]
  <2>1. f \in Frames
    BY DEF TypeOK
  <2>2. q \in Peers /\ f.sid \in Sids /\ pkt \in Packets
    BY <2>1, OtherPeer DEF Frames, Packets
  <2>3. PICK ids \in Swept(conn[q]) :
           LET kept == KeysFor(keys[q], ids)
               res == Ingest(kept[f.sid], pkt)
               opens == kept[f.sid].has /\ f.key = f.sid
           IN
           /\ conn' = [conn EXCEPT ![q] = ids]
           /\ keys' = [keys EXCEPT ![q] = IF opens THEN [kept EXCEPT ![f.sid] = res.entry] ELSE kept]
    BY <1>4 DEF ServeRelayDataAsB
  <2> DEFINE kept == KeysFor(keys[q], ids)
             res == Ingest(kept[f.sid], pkt)
  <2>4. ids \in [Sids -> Nat]
    BY <1>0, <2>2, SweptProperties
  <2>5. kept \in [Sids -> Slots] /\ \A s \in Sids : IsFiniteSet(kept[s].pend)
    BY <2>2, <2>4, KeysForProperties
  <2>6. IsFiniteSet(res.entry.pend) /\ res.entry.has = kept[f.sid].has
    BY <2>2, <2>5, IngestProperties DEF Ingested
  <2> HIDE DEF q
  <2>7. conn'[q] = ids /\ \A p \in Peers : p # q => conn'[p] = conn[p] /\ keys'[p] = keys[p]
    BY <1>0, <2>2, <2>3
  <2>8. keys'[q] = kept \/ keys'[q] = [kept EXCEPT ![f.sid] = res.entry]
    BY <1>0, <2>2, <2>3
  <2> HIDE DEF kept, res
  <2>9. \A s \in Sids : /\ keys'[q][s].has => kept[s].has \/ s \in Registered(ids)
                        /\ IsFiniteSet(keys'[q][s].pend)
    BY <2>2, <2>5, <2>6, <2>8
  <2>10. InboundOK(q)
    BY <2>2, <2>7, <2>9, SweepInbound DEF kept
  <2> QED BY <2>7, <2>10, SameInbound
<1>5. ASSUME NEW p \in Peers, PeerRestarts(p)
      PROVE  \A q \in Peers : InboundOK(q)
  <2>1. NoneRegistered \in [Sids -> Nat] /\ Registered(NoneRegistered) = {}
    BY DEF NoneRegistered, Registered
  <2>2. \A q \in Peers : q # p => conn'[q] = conn[q] /\ keys'[q] = keys[q]
    BY <1>0, <1>5 DEF PeerRestarts
  <2>3. conn'[p] = NoneRegistered /\ keys'[p] = KeysFor(keys[p], NoneRegistered)
    BY <1>0, <1>5 DEF PeerRestarts
  <2>4. Cardinality(Registered(NoneRegistered)) <= scope.perSrc
    BY <2>1, FS_EmptySet, ScopeType
  <2>5. InboundOK(p)
    BY <2>1, <2>3, <2>4, KeysForProperties DEF InboundOK
  <2> QED BY <2>2, <2>5, SameInbound
<1> QED
  BY <1>1, <1>2, <1>3, <1>4, <1>5
     DEF Next, SenderStep, RelayStep, ReceiverStep, FrameStep, SendViaRelay, SendViaRelayV1,
         ReceiveConnectResponse, ReceiveHandshakeResponse, EstablishFails, Transmit,
         ForwardRelayConnect, RegisterSession, ForwardRelayHandshake, ForwardRelayData,
         ActivateOutboundSession, HandOn, SessionAges, CallLost, FrameLost, RelayRestarts

\* Tables is preserved, and with it the bound.
LEMMA TablesStep ==
  ASSUME TypeOK, Tables, Bounded, Next
  PROVE  Tables' /\ Bounded'
<1>1. \A p \in Peers : InboundOK(p)
  BY InboundStep
<1>2. Known \subseteq Known' /\ \A sid \in Known : info'[sid] = info[sid] /\ Dst(sid)' = Dst(sid)
  BY InfoGrows
<1>3. scope' = scope
  BY DEF Next, SenderStep, RelayStep, ReceiverStep, FrameStep, SendViaRelay, SendViaRelayV1,
         ReceiveConnectResponse, ReceiveHandshakeResponse, EstablishFails, Transmit,
         ForwardRelayConnect, RegisterSession, ForwardRelayHandshake, ForwardRelayData,
         ServeRelayConnectAsB, ServeRelayHandshakeAsB, StoreKeys, AnswerHandshake,
         ActivateOutboundSession, ServeRelayDataAsB, HandOn, SessionAges, CallLost, FrameLost,
         RelayRestarts, PeerRestarts
<1>4. \A r \in Relays : Registered(table'[r]) \subseteq Known
  <2>0. table \in [Relays -> [Sids -> Nat]]
    BY DEF TypeOK
  <2>1. ASSUME UNCHANGED table
        PROVE  \A r \in Relays : Registered(table'[r]) \subseteq Known
    BY <2>1 DEF Tables
  <2>2. ASSUME NEW r \in Relays, NEW ids \in Swept(table[r]), table' = [table EXCEPT ![r] = ids]
        PROVE  \A q \in Relays : Registered(table'[q]) \subseteq Known
    <3>1. Registered(ids) \subseteq Known
      BY <2>0, SweptProperties DEF Tables
    <3> QED BY <2>0, <2>2, <3>1 DEF Tables
  <2>3. ASSUME NEW sid \in Known, RelayStep(sid)
        PROVE  \A r \in Relays : Registered(table'[r]) \subseteq Known
    <3> DEFINE r == info[sid].relay
    <3>1. r \in Relays /\ sid \in Sids
      BY KnownSids
    <3>2. CASE ForwardRelayConnect(sid) \/ ForwardRelayHandshake(sid)
      BY <2>1, <2>2, <3>1, <3>2 DEF ForwardRelayConnect, ForwardRelayHandshake
    <3>3. CASE RegisterSession(sid)
      <4>1. PICK ids \in Swept(table[r]) : table' = [table EXCEPT ![r] = Register(Capped(ids, info[sid].src), sid)]
        BY <3>3 DEF RegisterSession
      <4>2. ids \in [Sids -> Nat] /\ Registered(ids) \subseteq Known
        BY <2>0, <3>1, SweptProperties DEF Tables
      <4> DEFINE cap == Capped(ids, info[sid].src)
      <4>3. cap \in [Sids -> Nat] /\ Registered(cap) \subseteq Known
        BY <4>2, CappedProperties, ScopeType
      <4> HIDE DEF cap, r
      <4>4. Registered(Register(cap, sid)) \subseteq Known
        BY <3>1, <4>3, RegisterProperties
      <4> QED BY <2>0, <4>1, <4>4 DEF Tables, cap
    <3> QED BY <2>3, <3>2, <3>3 DEF RelayStep
  <2>4. ASSUME NEW f \in frames, ForwardRelayData(f)
        PROVE  \A r \in Relays : Registered(table'[r]) \subseteq Known
    <3>1. f.relay \in Relays
      BY DEF TypeOK, Frames
    <3> QED BY <2>2, <2>4, <3>1 DEF ForwardRelayData
  <2>5. ASSUME NEW r \in Relays, RelayRestarts(r)
        PROVE  \A q \in Relays : Registered(table'[q]) \subseteq Known
    <3>1. Registered(NoneRegistered) = {}
      BY DEF Registered, NoneRegistered
    <3> QED BY <2>0, <2>5, <3>1 DEF RelayRestarts, Tables
  <2> QED
    BY <2>1, <2>3, <2>4, <2>5
       DEF Next, SenderStep, ReceiverStep, FrameStep, SendViaRelay, SendViaRelayV1,
           ReceiveConnectResponse, ReceiveHandshakeResponse, EstablishFails, Transmit,
           ServeRelayConnectAsB, ServeRelayHandshakeAsB, StoreKeys, AnswerHandshake,
           ActivateOutboundSession, ServeRelayDataAsB, HandOn, SessionAges, CallLost, FrameLost, PeerRestarts
<1>5. \A a \in acts' : a.sid \in Known /\ a.p = Dst(a.sid)
  <2>1. acts' \subseteq acts \/ \E sid \in Known : acts' \subseteq acts \cup {[p |-> Dst(sid), sid |-> sid]}
    BY DEF Next, SenderStep, RelayStep, ReceiverStep, FrameStep, SendViaRelay, SendViaRelayV1,
         ReceiveConnectResponse, ReceiveHandshakeResponse, EstablishFails, Transmit,
         ForwardRelayConnect, RegisterSession, ForwardRelayHandshake, ForwardRelayData,
         ServeRelayConnectAsB, ServeRelayHandshakeAsB, StoreKeys, AnswerHandshake,
         ActivateOutboundSession, ServeRelayDataAsB, HandOn, SessionAges, CallLost, FrameLost,
         RelayRestarts, PeerRestarts
  <2> QED BY <2>1 DEF Tables
<1>6. Tables'
  BY <1>1, <1>2, <1>4, <1>5 DEF InboundOK, Tables
<1>7. Bounded'
  BY <1>1, <1>3 DEF InboundOK, Bounded
<1> QED BY <1>6, <1>7

-----------------------------------------------------------------------------
(* Keys and numbers                                                         *)

\* The calls of a session only move forward: an answered handshake stays answered,
\* and a session whose sender has its answer stays so.
LEMMA CallMoves ==
  ASSUME TypeOK, Next, NEW k \in Known
  PROVE  /\ call[k] = "done" => call'[k] = "done"
         /\ call[k] \in Served => call'[k] \in Served
         /\ call[k] \in Stored => call'[k] \in Stored
<1> USE DEF Served, Stored
<1>0. call \in [Sids -> CallSteps] /\ Known \subseteq Sids
  BY KnownSids DEF TypeOK
<1>1. ASSUME UNCHANGED call
      PROVE  call'[k] = call[k]
  BY <1>1
<1>2. ASSUME NEW m \in Msgs, SendViaRelayV1(m)
      PROVE  call'[k] = call[k]
  <2>1. UNCHANGED call \/ (info' # info /\ call' = [call EXCEPT ![Len(info) + 1] = "c_relay"])
    <3>1. ASSUME NEW e, info' = Append(info, e)
          PROVE  info' # info
      <4>1. Len(info) \in Nat /\ Len(Append(info, e)) = Len(info) + 1
        BY DEF TypeOK
      <4> QED BY <3>1, <4>1
    <3> QED BY <1>2, <3>1 DEF SendViaRelayV1
  <2> QED BY <1>0, <2>1, InfoGrows
<1>3. ASSUME NEW m \in Msgs, ReceiveConnectResponse(m) \/ ReceiveHandshakeResponse(m)
      PROVE  call'[k] = call[k] \/ (call[k] = "c_answer" /\ call'[k] = "h_relay")
               \/ (call[k] = "h_answer" /\ call'[k] = "done")
  BY <1>0, <1>3 DEF ReceiveConnectResponse, ReceiveHandshakeResponse
<1>4. ASSUME NEW sid \in Known, RelayStep(sid)
      PROVE  call'[k] = call[k] \/ call[k] \in {"c_relay", "c_accepted", "h_relay"}
  BY <1>0, <1>4 DEF RelayStep, ForwardRelayConnect, RegisterSession, ForwardRelayHandshake
<1>5. ASSUME NEW sid \in Known, ReceiverStep(sid)
      PROVE  call'[k] = call[k] \/ call[k] \in {"c_dst", "h_dst", "h_checked"}
               \/ (call[k] = "h_stored" /\ call'[k] = "h_answer")
  BY <1>0, <1>5 DEF ReceiverStep, ServeRelayConnectAsB, ServeRelayHandshakeAsB, StoreKeys, AnswerHandshake
<1>6. ASSUME \/ \E sid \in Known : CallLost(sid)
             \/ \E r \in Relays : RelayRestarts(r)
             \/ \E p \in Peers : PeerRestarts(p)
      PROVE  call'[k] = call[k] \/ (call[k] # "done" /\ call'[k] = "lost")
  BY <1>0, <1>6 DEF CallLost, RelayRestarts, PeerRestarts
<1> QED
  BY <1>1, <1>2, <1>3, <1>4, <1>5, <1>6
     DEF Next, SenderStep, FrameStep, SendViaRelay, EstablishFails, Transmit, ForwardRelayData,
         ActivateOutboundSession, ServeRelayDataAsB, HandOn, SessionAges, FrameLost

\* KeyUse is preserved.
LEMMA KeyUseStep ==
  ASSUME TypeOK, Senders, Tables, KeyUse, Next
  PROVE  KeyUse'
<1> USE DEF Served
<1>0. /\ \A p \in Peers : sess[p] \in Sessions /\ DOMAIN sess = Peers
      /\ \A x \in sealed : x.by \in Peers
      /\ \A m \in Msgs : From[m] \in Peers
  BY Constants DEF TypeOK, Seals
<1>a. Known \subseteq Known' /\ \A k \in Known : info'[k] = info[k] /\ Dst(k)' = Dst(k)
  BY InfoGrows
<1>b. \A k \in Known : /\ call[k] = "done" => call'[k] = "done"
                       /\ call[k] \in Served => call'[k] \in Served
  BY CallMoves
<1>c. \A k \in Known : k # 0 /\ info[k].src \in Peers /\ Dst(k) \in Peers /\ Dst(k) # info[k].src
  BY KnownSids, Constants, OtherPeer DEF Dst
<1>d. \A a \in acts : a.p \in Peers /\ a = [p |-> a.p, sid |-> a.sid]
  BY DEF TypeOK
<1>e. TypeOK' /\ \A k \in Known' : k # 0 /\ info'[k].src \in Peers /\ Dst(k)' \in Peers
  <2>1. TypeOK'
    BY TypeStep
  <2>2. Known' \subseteq Sids /\ \A k \in Known' : info'[k].src \in Peers /\ Dst(k)' \in Peers
    BY <2>1, SessionsBegun DEF TypeOK, Known, Dst
  <2> QED BY <2>1, <2>2, Constants
<1>1. ASSUME UNCHANGED sealed, acts' \subseteq acts,
             \A q \in Peers : sess'[q].key = 0 \/ (sess'[q].key = sess[q].key /\ sess'[q].seq = sess[q].seq)
      PROVE  KeyUse'
  <2>1. \A q \in Peers, k \in Known' : Engaged(q, k)' => k \in Known /\ Engaged(q, k)
    BY <1>1, <1>e DEF Engaged, Senders, KeyUse
  <2>2. \A x \in sealed' : x.key \in Known' /\ (sess'[x.by].key = x.key => x.seq < sess'[x.by].seq)
    BY <1>0, <1>1, <1>a, <1>c DEF KeyUse
  <2>3. \A k \in Known' : Engaged(info[k].src, k)' => call'[k] = "done"
    BY <1>a, <1>b, <1>e, <2>1 DEF KeyUse
  <2>4. \A k \in Known' : Engaged(Dst(k), k)' => call'[k] \in Served /\ [p |-> Dst(k)', sid |-> k] \notin acts'
    BY <1>1, <1>a, <1>b, <1>e, <2>1 DEF KeyUse
  <2>5. \A a \in acts' : call'[a.sid] \in Served
    BY <1>1, <1>b DEF KeyUse, Tables
  <2> QED BY <2>2, <2>3, <2>4, <2>5 DEF KeyUse
<1>2. ASSUME NEW m \in Msgs, SendViaRelay(m) \/ SendViaRelayV1(m)
      PROVE  KeyUse'
  <2>1. \E st \in PurgedSession(sess[From[m]]) : sess' = [sess EXCEPT ![From[m]] = st]
    BY <1>2 DEF SendViaRelay, SendViaRelayV1
  <2>2. \A q \in Peers : sess'[q] = sess[q] \/ sess'[q] = NoSession
    BY <1>0, <2>1, PurgedProperties
  <2> QED BY <1>1, <1>2, <2>2 DEF SendViaRelay, SendViaRelayV1, NoSession
<1>3. ASSUME NEW m \in Msgs, ReceiveConnectResponse(m)
      PROVE  KeyUse'
  <2>1. \A q \in Peers : sess'[q].key = sess[q].key /\ sess'[q].seq = sess[q].seq
    BY <1>0, <1>3 DEF ReceiveConnectResponse, Sessions
  <2> QED BY <1>1, <1>3, <2>1 DEF ReceiveConnectResponse
<1>4. ASSUME NEW m \in Msgs, ReceiveHandshakeResponse(m)
      PROVE  KeyUse'
  <2> DEFINE p == From[m]
             sid == task[m].sid
  <2>1. sid \in Known /\ info[sid].src = p /\ call[sid] = "h_answer" /\ p \in Peers
    BY <1>0, <1>4 DEF ReceiveHandshakeResponse, Senders
  <2>2. call'[sid] = "done" /\ UNCHANGED <<sealed, acts, info>>
    BY <1>4, <2>1, KnownSids DEF ReceiveHandshakeResponse, TypeOK
  <2>3. sess'[p].key = sid /\ \A q \in Peers : q # p => sess'[q] = sess[q]
    BY <1>0, <1>4 DEF ReceiveHandshakeResponse, Sessions
  <2> HIDE DEF p, sid
  <2>4. \A q \in Peers, k \in Known : Engaged(q, k)' => Engaged(q, k) \/ (q = p /\ k = sid)
    BY <2>2, <2>3 DEF Engaged
  <2>5. ~Engaged(p, sid)
    BY <2>1 DEF KeyUse
  <2>6. \A x \in sealed : x.by = p => x.key # sid
    BY <2>5 DEF Engaged
  <2>7. Known' = Known
    BY <2>2 DEF Known
  <2>8. \A x \in sealed' : x.key \in Known' /\ (sess'[x.by].key = x.key => x.seq < sess'[x.by].seq)
    BY <1>0, <2>2, <2>3, <2>6, <2>7 DEF KeyUse
  <2>9. \A k \in Known' : Engaged(info[k].src, k)' => call'[k] = "done"
    BY <1>a, <1>b, <1>c, <2>2, <2>4, <2>7 DEF KeyUse
  <2>10. \A k \in Known' : Engaged(Dst(k), k)' => call'[k] \in Served /\ [p |-> Dst(k)', sid |-> k] \notin acts'
    BY <1>a, <1>b, <1>c, <2>1, <2>2, <2>4, <2>7 DEF KeyUse
  <2>11. \A a \in acts' : call'[a.sid] \in Served
    BY <1>b, <2>2 DEF KeyUse, Tables
  <2> QED BY <2>8, <2>9, <2>10, <2>11 DEF KeyUse
<1>5. ASSUME NEW m \in Msgs, Transmit(m)
      PROVE  KeyUse'
  <2> DEFINE p == From[m]
             x == [by |-> p, key |-> sess[p].key, seq |-> sess[p].seq, msg |-> m]
  <2>1. sess[p].key \in Known /\ p \in Peers /\ sess[p].seq \in Nat
    BY <1>0, <1>5 DEF Transmit, Senders, Sessions
  <2>2. sealed' = sealed \cup {x} /\ UNCHANGED <<acts, info, call>>
    BY <1>5 DEF Transmit
  <2>3. /\ \A q \in Peers : sess'[q].key = sess[q].key /\ sess'[q].seq \in {sess[q].seq, sess[q].seq + 1}
        /\ sess'[p].seq = sess[p].seq + 1
    BY <1>0, <1>5 DEF Transmit, Sessions
  <2>4. \A q \in Peers, k \in Known : Engaged(q, k)' => Engaged(q, k)
    BY <2>2, <2>3 DEF Engaged
  <2>5. Known' = Known
    BY <2>2 DEF Known
  <2>6. \A y \in sealed' : y.key \in Known' /\ (sess'[y.by].key = y.key => y.seq < sess'[y.by].seq)
    <3> SUFFICES ASSUME NEW y \in sealed' PROVE y.key \in Known' /\ (sess'[y.by].key = y.key => y.seq < sess'[y.by].seq)
      OBVIOUS
    <3>1. CASE y = x
      BY <2>1, <2>3, <2>5, <3>1
    <3>2. CASE y \in sealed
      <4>1. y.by \in Peers /\ y.seq \in Nat /\ sess[y.by].seq \in Nat
        BY <1>0, <3>2 DEF TypeOK, Seals, Sessions
      <4> QED BY <2>3, <2>5, <3>2, <4>1 DEF KeyUse
    <3> QED BY <2>2, <3>1, <3>2
  <2>7. \A k \in Known' : Engaged(info[k].src, k)' => call'[k] = "done"
    BY <1>a, <1>c, <2>2, <2>4, <2>5 DEF KeyUse
  <2>8. \A k \in Known' : Engaged(Dst(k), k)' => call'[k] \in Served /\ [p |-> Dst(k)', sid |-> k] \notin acts'
    BY <1>a, <1>c, <2>2, <2>4, <2>5 DEF KeyUse
  <2>9. \A a \in acts' : call'[a.sid] \in Served
    BY <2>2 DEF KeyUse
  <2> QED BY <2>6, <2>7, <2>8, <2>9 DEF KeyUse
<1>6. ASSUME NEW sid \in Known, AnswerHandshake(sid)
      PROVE  KeyUse'
  <2> DEFINE act == [p |-> Dst(sid), sid |-> sid]
  <2>1. call[sid] = "h_stored" /\ acts' \subseteq acts \cup {act} /\ UNCHANGED <<sess, sealed, info>>
    BY <1>6 DEF AnswerHandshake
  <2>2. call'[sid] \in Served
    BY <1>6, KnownSids DEF AnswerHandshake, TypeOK
  <2>3. ~Engaged(Dst(sid), sid)
    BY <2>1 DEF KeyUse
  <2>4. \A q \in Peers, k \in Known : Engaged(q, k)' <=> Engaged(q, k)
    BY <2>1 DEF Engaged
  <2>5. Known' = Known
    BY <2>1 DEF Known
  <2>6. \A x \in sealed' : x.key \in Known' /\ (sess'[x.by].key = x.key => x.seq < sess'[x.by].seq)
    BY <2>1, <2>5 DEF KeyUse
  <2>7. \A k \in Known' : Engaged(info[k].src, k)' => call'[k] = "done"
    BY <1>a, <1>b, <1>c, <2>4, <2>5 DEF KeyUse
  <2>8. \A k \in Known' : Engaged(Dst(k), k)' => call'[k] \in Served /\ [p |-> Dst(k)', sid |-> k] \notin acts'
    BY <1>a, <1>b, <1>c, <2>1, <2>3, <2>4, <2>5 DEF KeyUse
  <2>9. \A a \in acts' : call'[a.sid] \in Served
    BY <1>b, <2>1, <2>2 DEF KeyUse, Tables
  <2> QED BY <2>6, <2>7, <2>8, <2>9 DEF KeyUse
<1>7. ASSUME NEW a \in acts, ActivateOutboundSession(a)
      PROVE  KeyUse'
  <2>1. a.sid \in Known /\ a.p = Dst(a.sid) /\ a.p \in Peers /\ a = [p |-> Dst(a.sid), sid |-> a.sid]
    BY <1>d DEF Tables
  <2>2. acts' = acts \ {a} /\ UNCHANGED <<sealed, call, info>>
    BY <1>7 DEF ActivateOutboundSession
  <2>3. sess'[a.p].key = a.sid /\ \A q \in Peers : q # a.p => sess'[q] = sess[q]
    BY <1>0, <1>7, <2>1 DEF ActivateOutboundSession
  <2>4. ~Engaged(a.p, a.sid) /\ call[a.sid] \in Served
    BY <2>1 DEF KeyUse
  <2>5. \A q \in Peers, k \in Known : Engaged(q, k)' => Engaged(q, k) \/ (q = a.p /\ k = a.sid)
    BY <2>2, <2>3 DEF Engaged
  <2>6. \A x \in sealed : x.by = a.p => x.key # a.sid
    BY <2>4 DEF Engaged
  <2>7. Known' = Known
    BY <2>2 DEF Known
  <2>8. \A x \in sealed' : x.key \in Known' /\ (sess'[x.by].key = x.key => x.seq < sess'[x.by].seq)
    BY <1>0, <2>2, <2>3, <2>6, <2>7 DEF KeyUse
  <2>9. \A k \in Known' : Engaged(info[k].src, k)' => call'[k] = "done"
    BY <1>a, <1>b, <1>c, <2>1, <2>2, <2>5, <2>7 DEF KeyUse
  <2>10. \A k \in Known' : Engaged(Dst(k), k)' => call'[k] \in Served /\ [p |-> Dst(k)', sid |-> k] \notin acts'
    BY <1>a, <1>c, <2>1, <2>2, <2>4, <2>5, <2>7 DEF KeyUse
  <2>11. \A z \in acts' : call'[z.sid] \in Served
    BY <2>2 DEF KeyUse
  <2> QED BY <2>8, <2>9, <2>10, <2>11 DEF KeyUse
<1>8. ASSUME NEW p \in Peers, PeerRestarts(p)
      PROVE  KeyUse'
  <2>1. UNCHANGED sealed /\ acts' \subseteq acts
    BY <1>8 DEF PeerRestarts
  <2>2. \A q \in Peers : sess'[q] = sess[q] \/ sess'[q].key = 0
    BY <1>0, <1>8 DEF PeerRestarts, NoSession
  <2> QED BY <1>1, <2>1, <2>2
<1>9. ASSUME UNCHANGED <<sess, acts, sealed>>
      PROVE  KeyUse'
  BY <1>1, <1>9
<1> QED
  BY <1>2, <1>3, <1>4, <1>5, <1>6, <1>7, <1>8, <1>9
     DEF Next, SenderStep, RelayStep, ReceiverStep, FrameStep, EstablishFails,
         ForwardRelayConnect, RegisterSession, ForwardRelayHandshake, ForwardRelayData,
         ServeRelayConnectAsB, ServeRelayHandshakeAsB, StoreKeys, ServeRelayDataAsB, HandOn, SessionAges,
         CallLost, FrameLost, RelayRestarts

\* NonceOnce is preserved: only Transmit seals, under a number above all that its
\* peer used with this key.
LEMMA NonceStep ==
  ASSUME TypeOK, KeyUse, NonceOnce, Next
  PROVE  NonceOnce'
<1>1. ASSUME NEW m \in Msgs, Transmit(m)
      PROVE  NonceOnce'
  <2> DEFINE p == From[m]
             x == [by |-> p, key |-> sess[p].key, seq |-> sess[p].seq, msg |-> m]
  <2>1. sealed' = sealed \cup {x}
    BY <1>1 DEF Transmit
  <2>2. \A y \in sealed : y.by = p /\ y.key = sess[p].key => y.seq < sess[p].seq
    BY DEF KeyUse
  <2>3. sess[p].seq \in Nat /\ \A y \in sealed : y.seq \in Nat
    BY Constants DEF TypeOK, Seals, Sessions
  <2>4. \A y \in sealed : y.by = p /\ y.key = sess[p].key => y.seq # sess[p].seq
    BY <2>2, <2>3
  <2> QED BY <2>1, <2>4 DEF NonceOnce
<1>2. ASSUME UNCHANGED sealed
      PROVE  NonceOnce'
  BY <1>2 DEF NonceOnce
<1> QED
  BY <1>1, <1>2
     DEF Next, SenderStep, RelayStep, ReceiverStep, FrameStep, SendViaRelay, SendViaRelayV1,
         ReceiveConnectResponse, ReceiveHandshakeResponse, EstablishFails,
         ForwardRelayConnect, RegisterSession, ForwardRelayHandshake, ForwardRelayData,
         ServeRelayConnectAsB, ServeRelayHandshakeAsB, StoreKeys, AnswerHandshake,
         ActivateOutboundSession, ServeRelayDataAsB, HandOn, SessionAges, CallLost, FrameLost,
         RelayRestarts, PeerRestarts

-----------------------------------------------------------------------------
(* Deliveries                                                               *)

\* No step unseals.
LEMMA SealedGrows ==
  ASSUME Next
  PROVE  sealed \subseteq sealed'
  BY DEF Next, SenderStep, RelayStep, ReceiverStep, FrameStep, SendViaRelay, SendViaRelayV1,
         ReceiveConnectResponse, ReceiveHandshakeResponse, EstablishFails, Transmit,
         ForwardRelayConnect, RegisterSession, ForwardRelayHandshake, ForwardRelayData,
         ServeRelayConnectAsB, ServeRelayHandshakeAsB, StoreKeys, AnswerHandshake,
         ActivateOutboundSession, ServeRelayDataAsB, HandOn, SessionAges, CallLost, FrameLost,
         RelayRestarts, PeerRestarts

\* Every step keeps what is under way sealed and tied to its session.
LEMMA FramesStep ==
  ASSUME TypeOK, Tables, FramesOK, Next
  PROVE  FramesOK'
<1>0. sealed \subseteq sealed' /\ Known \subseteq Known' /\ \A k \in Known : info'[k] = info[k]
  BY SealedGrows, InfoGrows
<1>1. ASSUME NEW f, frames' \subseteq frames \cup {f},
             [by |-> f.src, key |-> f.key, seq |-> f.seq, msg |-> f.msg] \in sealed',
             f.at = "dst" => f.sid \in Known /\ info[f.sid].src = f.src
      PROVE  FramesOK'
  BY <1>0, <1>1 DEF FramesOK
<1>2. ASSUME frames' \subseteq frames
      PROVE  FramesOK'
  BY <1>0, <1>2 DEF FramesOK
<1>3. ASSUME NEW m \in Msgs, Transmit(m)
      PROVE  FramesOK'
  <2> DEFINE p == From[m]
             st == sess[p]
             f == [sid |-> st.sid, key |-> st.key, src |-> p, seq |-> st.seq, msg |-> m,
                   relay |-> Head(task[m].left), at |-> "relay"]
  <2>1. frames' \subseteq frames \cup {f}
    BY <1>3 DEF Transmit
  <2>2. [by |-> p, key |-> st.key, seq |-> st.seq, msg |-> m] \in sealed'
    BY <1>3 DEF Transmit
  <2>3. f.src = p /\ f.key = st.key /\ f.seq = st.seq /\ f.msg = m /\ f.at = "relay"
    OBVIOUS
  <2> HIDE DEF f
  <2> QED BY <1>1, <2>1, <2>2, <2>3
<1>4. ASSUME NEW f \in frames, ForwardRelayData(f)
      PROVE  FramesOK'
  <2>1. f \in Frames
    BY DEF TypeOK
  <2>2. f.relay \in Relays
    BY <2>1 DEF Frames
  <2> DEFINE g == [f EXCEPT !.at = "dst"]
  <2>3. g.src = f.src /\ g.key = f.key /\ g.seq = f.seq /\ g.msg = f.msg /\ g.sid = f.sid
    BY <2>1 DEF Frames
  <2>4. PICK ids \in Swept(table[f.relay]) :
           frames' = (frames \ {f}) \cup IF ValidSession(ids, f.sid, f.src) THEN {g} ELSE {}
    BY <1>4 DEF ForwardRelayData
  <2>5. Registered(ids) \subseteq Known
    BY <2>2, SweptProperties DEF Tables, TypeOK
  <2> HIDE DEF g
  <2>6. CASE ~ValidSession(ids, f.sid, f.src)
    BY <1>2, <2>4, <2>6
  <2>7. CASE ValidSession(ids, f.sid, f.src)
    <3>1. f.sid \in Known /\ info[f.sid].src = f.src
      BY <2>5, <2>7 DEF ValidSession
    <3>2. [by |-> g.src, key |-> g.key, seq |-> g.seq, msg |-> g.msg] \in sealed'
      BY <1>0, <2>3 DEF FramesOK
    <3>3. frames' \subseteq frames \cup {g}
      BY <2>4
    <3> QED BY <1>1, <2>3, <3>1, <3>2, <3>3
  <2> QED BY <2>6, <2>7
<1> QED
  BY <1>2, <1>3, <1>4
     DEF Next, SenderStep, RelayStep, ReceiverStep, FrameStep, SendViaRelay, SendViaRelayV1,
         ReceiveConnectResponse, ReceiveHandshakeResponse, EstablishFails,
         ForwardRelayConnect, RegisterSession, ForwardRelayHandshake,
         ServeRelayConnectAsB, ServeRelayHandshakeAsB, StoreKeys, AnswerHandshake,
         ActivateOutboundSession, ServeRelayDataAsB, HandOn, SessionAges, CallLost, FrameLost,
         RelayRestarts, PeerRestarts

\* A session whose handed on and held packets stay, or which lost its streams with the
\* keys of its receiver, stays in order.
LEMMA SessionKept ==
  ASSUME TypeOK, TypeOK', Tables, Next, NEW sid \in Sids, SessionOK(sid), UNCHANGED arrived[sid],
         \/ Hand(sid)' = Hand(sid)
         \/ Hand(sid)' \subseteq Hand(sid) /\ \A p \in Peers : ~keys'[p][sid].has,
         \A p \in Peers : keys'[p][sid].has =>
            \/ keys'[p][sid] = keys[p][sid]
            \/ /\ keys'[p][sid] = [NoKeys EXCEPT !.has = TRUE]
               /\ sid \in Known /\ call[sid] = "h_checked"
  PROVE  SessionOK(sid)'
<1>0. sealed \subseteq sealed' /\ Known \subseteq Known' /\ \A k \in Known : info'[k] = info[k]
  BY SealedGrows, InfoGrows
<1>1. \A k \in Known : call[k] \in Stored => call'[k] \in Stored
  BY CallMoves
<1>2. PICK had, hold, has : had = arrived[sid] /\ hold = Hand(sid) /\ has = Hand(sid)'
  OBVIOUS
<1>3. has \subseteq hold /\ arrived'[sid] = had
  BY <1>2
<1>4. sid \notin Known \/ call[sid] \notin Stored => had = <<>> /\ has = {}
  BY <1>2, <1>3 DEF SessionOK
<1>5. sid \notin Known' \/ call'[sid] \notin Stored => had = <<>> /\ has = {}
  BY <1>0, <1>1, <1>4
<1>6. Apart(had, has)
  BY <1>2, <1>3 DEF SessionOK, Apart
<1>7. ASSUME sid \in Known'
      PROVE  Genuine(had, has, info'[sid].src, sid, sealed')
  <2>1. CASE sid \in Known
    <3>1. Genuine(had, hold, info[sid].src, sid, sealed)
      BY <1>2, <2>1 DEF SessionOK
    <3> QED BY <1>0, <1>3, <2>1, <3>1 DEF Genuine
  <2>2. CASE sid \notin Known
    <3>1. had = <<>> /\ has = {}
      BY <1>4, <2>2
    <3> QED BY <3>1 DEF Genuine
  <2> QED BY <2>1, <2>2
<1>8. ASSUME NEW p \in Peers, keys'[p][sid].has
      PROVE  Counted(had, has, keys'[p][sid].next)
  <2>1. has = hold
    BY <1>2, <1>8
  <2>2. CASE keys'[p][sid] = keys[p][sid]
    <3>1. Counted(had, hold, keys[p][sid].next)
      BY <1>2, <1>8, <2>2 DEF SessionOK
    <3> QED BY <2>1, <2>2, <3>1
  <2>3. CASE keys'[p][sid] = [NoKeys EXCEPT !.has = TRUE] /\ sid \in Known /\ call[sid] = "h_checked"
    <3>1. had = <<>> /\ has = {}
      BY <1>4, <2>3 DEF Stored, Served
    <3>2. keys'[p][sid].next = 0
      BY <2>3 DEF NoKeys
    <3> QED BY <3>1, <3>2 DEF Counted
  <2> QED BY <1>8, <2>2, <2>3
<1> QED BY <1>2, <1>3, <1>5, <1>6, <1>7, <1>8 DEF SessionOK

\* How the entries of the receivers change, but for a frame: they are dropped, kept or,
\* by StoreKeys, new.
EntriesChange ==
    \A p \in Peers : \A sid \in Sids : keys'[p][sid].has =>
        \/ keys'[p][sid] = keys[p][sid]
        \/ /\ keys'[p][sid] = [NoKeys EXCEPT !.has = TRUE]
           /\ sid \in Known /\ call[sid] = "h_checked" /\ call'[sid] = "h_stored"

\* Under such a change what waits in the entries stays sealed.
LEMMA EntriesStep ==
  ASSUME TypeOK, Tables, EntriesOK, Next, EntriesChange
  PROVE  EntriesOK'
<1>0. sealed \subseteq sealed'
  BY SealedGrows
<1>1. \A k \in Known : call[k] \in Stored => call'[k] \in Stored
  BY CallMoves
<1>2. SUFFICES ASSUME NEW p \in Peers, NEW sid \in Sids, keys'[p][sid].has
               PROVE  /\ call'[sid] \in Stored
                      /\ \A g \in keys'[p][sid].pend :
                           [by |-> Other(p), key |-> sid, seq |-> g.seq, msg |-> g.msg] \in sealed'
  BY DEF EntriesOK
<1>3. CASE keys'[p][sid] = keys[p][sid]
  <2>1. sid \in Known
    BY <1>2, <1>3 DEF Tables
  <2> QED BY <1>0, <1>1, <1>2, <1>3, <2>1 DEF EntriesOK
<1>4. CASE keys'[p][sid] = [NoKeys EXCEPT !.has = TRUE] /\ call'[sid] = "h_stored"
  BY <1>4 DEF NoKeys, Stored
<1> QED BY <1>2, <1>3, <1>4 DEF EntriesChange

\* A frame at the receiver: its stream takes what follows, and the entry counts it.
LEMMA DeliverStep ==
  ASSUME TypeOK, TypeOK', Tables, Deliveries, Next, NEW f \in frames, ServeRelayDataAsB(f)
  PROVE  EntriesOK' /\ \A sid \in Sids : SessionOK(sid)'
<1> DEFINE q == Other(f.src)
           pkt == [seq |-> f.seq, msg |-> f.msg]
<1>1. f \in Frames
  BY DEF TypeOK
<1>2. q \in Peers /\ f.sid \in Sids /\ pkt \in Packets /\ f.src \in Peers /\ Other(q) = f.src
  BY <1>1, OtherPeer DEF Frames, Packets
<1>3. f.sid \in Known /\ info[f.sid].src = f.src
  BY DEF Deliveries, FramesOK, ServeRelayDataAsB
<1>4. [by |-> f.src, key |-> f.key, seq |-> f.seq, msg |-> f.msg] \in sealed
  BY DEF Deliveries, FramesOK
<1>5. UNCHANGED <<info, call, sealed, arrived>>
  BY DEF ServeRelayDataAsB
<1>6. PICK ids \in Swept(conn[q]) :
         LET kept == KeysFor(keys[q], ids)
             res == Ingest(kept[f.sid], pkt)
             opens == kept[f.sid].has /\ f.key = f.sid
         IN
         /\ keys' = [keys EXCEPT ![q] = IF opens THEN [kept EXCEPT ![f.sid] = res.entry] ELSE kept]
         /\ handing' = handing \cup
                IF opens /\ res.out # <<>>
                THEN {[sid |-> f.sid, next |-> res.entry.next, out |-> res.out]} ELSE {}
  BY DEF ServeRelayDataAsB
<1> DEFINE kept == KeysFor(keys[q], ids)
           k == kept[f.sid]
           res == Ingest(k, pkt)
           opens == k.has /\ f.key = f.sid
           j == [sid |-> f.sid, next |-> res.entry.next, out |-> res.out]
<1>7. conn \in [Peers -> [Sids -> Nat]] /\ keys \in [Peers -> [Sids -> Slots]] /\ arrived \in [Sids -> Seq(Packets)]
  BY DEF TypeOK
<1>8. ids \in [Sids -> Nat]
  BY <1>2, <1>7, SweptProperties
<1>9. /\ kept \in [Sids -> Slots] /\ IsFiniteSet(k.pend)
      /\ \A s \in Sids : kept[s].has => kept[s] = keys[q][s]
  BY <1>2, <1>8, KeysForProperties
<1>10. k \in Slots
  BY <1>2, <1>9
<1>11. Ingested(k, k.pend \cup {pkt}, res)
  BY <1>2, <1>9, <1>10, IngestProperties
<1> HIDE DEF res, kept
<1>12. \A p \in Peers : keys'[p] = IF p = q THEN (IF opens THEN [kept EXCEPT ![f.sid] = res.entry] ELSE kept)
                                   ELSE keys[p]
  <2> HIDE DEF q
  <2> QED BY <1>2, <1>6, <1>7 DEF kept, res
<1>13. handing' = handing \cup IF opens /\ res.out # <<>> THEN {j} ELSE {}
  BY <1>6 DEF kept, res
<1>14. EntriesOK /\ \A s \in Sids : SessionOK(s)
  BY DEF Deliveries
<1> HIDE DEF q
<1>15. ASSUME NEW s \in Sids,
              \/ s # f.sid \/ ~opens
       PROVE  SessionOK(s)'
  <2>1. Hand(s)' = Hand(s)
    BY <1>13, <1>15 DEF Hand
  <2>2. \A p \in Peers : keys'[p][s].has => keys'[p][s] = keys[p][s]
    BY <1>9, <1>12, <1>15
  <2> QED BY <1>5, <1>14, <2>1, <2>2, SessionKept
<1>16. CASE ~opens
  <2>1. \A p \in Peers : \A s \in Sids : keys'[p][s].has => keys'[p][s] = keys[p][s]
    BY <1>9, <1>12, <1>16
  <2>2. EntriesOK'
    BY <1>5, <1>14, <2>1 DEF EntriesOK
  <2> QED BY <1>15, <1>16, <2>2
<1>17. CASE opens
  <2>1. k = keys[q][f.sid] /\ k.has /\ f.key = f.sid
    BY <1>2, <1>9, <1>17
  <2>2. /\ call[f.sid] \in Stored
        /\ \A g \in k.pend \cup {pkt} : [by |-> f.src, key |-> f.sid, seq |-> g.seq, msg |-> g.msg] \in sealed
    BY <1>2, <1>4, <1>14, <2>1 DEF EntriesOK
  <2>3. /\ res.entry \in Slots /\ res.out \in Seq(Msgs) /\ res.entry.next = k.next + Len(res.out)
        /\ res.entry.pend \subseteq k.pend \cup {pkt}
        /\ \A i \in 1 .. Len(res.out) : \E g \in k.pend \cup {pkt} :
              g.seq = k.next + i - 1 /\ g.msg = res.out[i]
    BY <1>11 DEF Ingested
  <2>4. \A p \in Peers : \A s \in Sids : keys'[p][s].has =>
           \/ p = q /\ s = f.sid /\ keys'[p][s] = res.entry
           \/ (p # q \/ s # f.sid) /\ keys'[p][s] = keys[p][s]
    <3>1. keys'[q] = [kept EXCEPT ![f.sid] = res.entry]
      BY <1>2, <1>12, <1>17
    <3>2. \A s \in Sids : keys'[q][s] = IF s = f.sid THEN res.entry ELSE kept[s]
      BY <1>9, <3>1
    <3> QED BY <1>9, <1>12, <3>2
  <2>5. EntriesOK'
    <3>1. \A g \in res.entry.pend : [by |-> Other(q), key |-> f.sid, seq |-> g.seq, msg |-> g.msg] \in sealed
      BY <1>2, <2>2, <2>3
    <3> QED BY <1>5, <1>14, <2>2, <2>4, <3>1 DEF EntriesOK
  <2>6. \A p \in Peers : keys'[p][f.sid].has => p = q
    <3>1. ASSUME NEW p \in Peers, keys[p][f.sid].has
          PROVE  p = q
      <4>1. info[f.sid].src = Other(p)
        BY <1>2, <3>1 DEF Tables
      <4> QED BY <1>2, <1>3, <4>1, OtherPeer
    <3> QED BY <1>2, <2>4, <3>1
  <2> DEFINE got == arrived[f.sid]
             hands == Hand(f.sid)
  <2>7. /\ got \in Seq(Packets) /\ hands \in SUBSET Holders /\ k.next \in Nat
        /\ Apart(got, hands) /\ Counted(got, hands, k.next)
        /\ Genuine(got, hands, f.src, f.sid, sealed)
    <3>1. hands \in SUBSET Holders
      BY HandingHolds DEF Hand
    <3>2. SessionOK(f.sid)
      BY <1>2, <1>14
    <3>3. k.next \in Nat
      BY <1>10 DEF Slots
    <3> QED BY <1>2, <1>3, <1>7, <2>1, <3>1, <3>2, <3>3 DEF SessionOK
  <2>8. CASE res.out = <<>>
    <3>1. Len(res.out) = 0
      BY <2>8
    <3>2. res.entry.next = k.next
      BY <2>3, <2>7, <3>1
    <3>3. Hand(f.sid)' = hands
      BY <1>13, <2>8 DEF Hand
    <3>4. SessionOK(f.sid)'
      BY <1>2, <1>3, <1>5, <2>2, <2>4, <2>6, <2>7, <3>2, <3>3 DEF SessionOK, Known
    <3> QED BY <1>15, <2>5, <3>4
  <2>9. CASE res.out # <<>>
    <3>1. j \in Holders /\ j.sid = f.sid /\ j.next = res.entry.next /\ j.out = res.out
      BY <1>2, <1>10, <2>3, <2>9, TakenHolds
    <3> HIDE DEF j
    <3>2. Hand(f.sid)' = hands \cup {j}
      BY <1>13, <1>17, <2>9, <3>1 DEF Hand
    <3>3. j.next = k.next + Len(j.out)
      BY <2>3, <3>1
    <3>4. Apart(got, hands \cup {j}) /\ Counted(got, hands \cup {j}, j.next)
      <4> HIDE DEF got, hands, k
      <4> QED BY <2>7, <3>1, <3>3, TakeProperties
    <3>5. Genuine(got, hands \cup {j}, f.src, f.sid, sealed)
      <4>1. ASSUME NEW i \in 1 .. Len(j.out)
            PROVE  [by |-> f.src, key |-> f.sid, seq |-> j.next - Len(j.out) + i - 1, msg |-> j.out[i]] \in sealed
        <5>1. PICK g \in k.pend \cup {pkt} : g.seq = k.next + i - 1 /\ g.msg = j.out[i]
          BY <2>3, <3>1
        <5>2. j.next - Len(j.out) + i - 1 = k.next + i - 1
          <6>1. Len(j.out) \in Nat
            BY DEF Holders, Hands
          <6> HIDE DEF k
          <6> QED BY <2>7, <3>3, <6>1
        <5> QED BY <2>2, <5>1, <5>2
      <4> HIDE DEF got, hands
      <4> QED BY <2>7, <4>1 DEF Genuine
    <3>6. SessionOK(f.sid)'
      <4>1. f.sid \in Known' /\ call'[f.sid] \in Stored /\ info'[f.sid].src = f.src
        BY <1>3, <1>5, <2>2 DEF Known
      <4>2. \A p \in Peers : keys'[p][f.sid].has => keys'[p][f.sid].next = j.next
        BY <1>2, <2>4, <2>6, <3>1
      <4>3. arrived'[f.sid] = got /\ sealed' = sealed
        BY <1>5
      <4> HIDE DEF got, hands
      <4> QED BY <3>2, <3>4, <3>5, <4>1, <4>2, <4>3 DEF SessionOK
    <3> QED BY <1>15, <2>5, <3>6
  <2> QED BY <2>8, <2>9
<1> QED BY <1>16, <1>17

\* A stream hands on its first packet.
LEMMA HandOnStep ==
  ASSUME TypeOK, TypeOK', Tables, Deliveries, Next, NEW j \in handing, HandOn(j)
  PROVE  EntriesOK' /\ \A sid \in Sids : SessionOK(sid)'
<1>1. UNCHANGED <<info, call, sealed, keys>>
  BY DEF HandOn
<1>2. EntriesOK /\ \A s \in Sids : SessionOK(s)
  BY DEF Deliveries
<1>3. EntriesOK'
  BY <1>1, <1>2 DEF EntriesOK
<1> DEFINE id == j.sid
           got == arrived[id]
           hands == Hand(id)
           pkt == [seq |-> j.next - Len(j.out), msg |-> Head(j.out)]
<1>4. handing \subseteq Holders /\ j \in Holders /\ id \in Sids /\ arrived \in [Sids -> Seq(Packets)]
  BY HandingHolds DEF Holders, Hands, TypeOK
<1>5. PICK rest : rest = [j EXCEPT !.out = Tail(@)]
  OBVIOUS
<1>6. /\ arrived' = [arrived EXCEPT ![id] = Append(got, pkt)]
      /\ handing' = (handing \ {j}) \cup IF rest.out = <<>> THEN {} ELSE {rest}
  BY <1>5 DEF HandOn
<1>7. rest.sid = id
  BY <1>4, <1>5, HeadOfHand
<1>8. arrived'[id] = Append(got, pkt) /\ \A s \in Sids : s # id => arrived'[s] = arrived[s]
  <2> HIDE DEF id, got, pkt
  <2> QED BY <1>4, <1>6
<1>9. PICK got2, hands2 : got2 = arrived'[id] /\ hands2 = Hand(id)'
  OBVIOUS
<1>10. ASSUME NEW s \in Sids, s # id
       PROVE  SessionOK(s)'
  <2>1. Hand(s)' = Hand(s)
    BY <1>6, <1>7, <1>10 DEF Hand
  <2> QED BY <1>1, <1>2, <1>8, <1>10, <2>1, SessionKept
<1>11. SessionOK(id)
  BY <1>2, <1>4
<1>12. got \in Seq(Packets) /\ hands \in SUBSET Holders /\ j \in hands /\ Apart(got, hands)
  BY <1>4, <1>11 DEF Hand, SessionOK
<1>13. Moves(j, got, hands, got2, hands2)
  <2>1. Hand(id)' = (hands \ {j}) \cup IF rest.out = <<>> THEN {} ELSE {rest}
    BY <1>6, <1>7 DEF Hand
  <2> QED BY <1>5, <1>8, <1>9, <2>1 DEF Moves
<1>14. /\ Apart(got2, hands2)
       /\ \A next \in Nat : Counted(got, hands, next) => Counted(got2, hands2, next)
       /\ \A by, sid, seals :
            Genuine(got, hands, by, sid, seals) => Genuine(got2, hands2, by, sid, seals)
  <2> HIDE DEF got, hands, id
  <2> QED BY <1>12, <1>13, HandOnProperties
<1>15. SessionOK(id)'
  <2>1. id \in Known /\ call[id] \in Stored /\ Known' = Known
    BY <1>1, <1>11, <1>12 DEF SessionOK, Known
  <2>2. arrived'[id] = got2 /\ Hand(id)' = hands2
    BY <1>9
  <2>3. Genuine(got2, hands2, info[id].src, id, sealed)
    BY <1>11, <1>14, <2>1 DEF SessionOK
  <2>4. ASSUME NEW p \in Peers, keys[p][id].has
        PROVE  Counted(got2, hands2, keys[p][id].next)
    <3>1. keys[p][id].next \in Nat
      BY <1>4 DEF TypeOK, Slots
    <3>2. Counted(got, hands, keys[p][id].next)
      BY <1>11, <2>4 DEF SessionOK
    <3> HIDE DEF got, hands, id
    <3> QED BY <1>14, <3>1, <3>2
  <2> HIDE DEF id, got, hands
  <2> QED BY <1>1, <1>14, <2>1, <2>2, <2>3, <2>4 DEF SessionOK
<1> QED BY <1>3, <1>10, <1>15

\* Deliveries is preserved.
LEMMA DeliveriesStep ==
  ASSUME TypeOK, TypeOK', Tables, Deliveries, Next
  PROVE  Deliveries'
<1>0. FramesOK /\ EntriesOK /\ \A sid \in Sids : SessionOK(sid)
  BY DEF Deliveries
<1>1. FramesOK'
  BY <1>0, FramesStep
<1>2. keys \in [Peers -> [Sids -> Slots]] /\ conn \in [Peers -> [Sids -> Nat]]
  BY DEF TypeOK
<1> DEFINE Kept == \A p \in Peers : \A sid \in Sids : keys'[p][sid].has =>
                     \/ keys'[p][sid] = keys[p][sid]
                     \/ /\ keys'[p][sid] = [NoKeys EXCEPT !.has = TRUE]
                        /\ sid \in Known /\ call[sid] = "h_checked" /\ call'[sid] = "h_stored"
<1>3. ASSUME UNCHANGED keys
      PROVE  Kept
  BY <1>3
<1>4. ASSUME NEW p \in Peers, NEW ids \in [Sids -> Nat], keys' = [keys EXCEPT ![p] = KeysFor(keys[p], ids)]
      PROVE  Kept
  <2>1. \A q \in Peers : keys'[q] = IF q = p THEN KeysFor(keys[p], ids) ELSE keys[q]
    BY <1>2, <1>4
  <2>2. \A sid \in Sids : KeysFor(keys[p], ids)[sid].has => KeysFor(keys[p], ids)[sid] = keys[p][sid]
    BY KeysForProperties
  <2> QED BY <2>1, <2>2
<1>5. ASSUME NEW sid \in Known, ServeRelayConnectAsB(sid)
      PROVE  Kept
  <2>1. Dst(sid) \in Peers /\ sid \in Sids
    BY KnownSids
  <2>2. PICK ids \in Swept(conn[Dst(sid)]) :
           keys' = [keys EXCEPT ![Dst(sid)] = KeysFor(@, Register(Capped(ids, info[sid].src), sid))]
    BY <1>5 DEF ServeRelayConnectAsB
  <2> DEFINE new == Register(Capped(ids, info[sid].src), sid)
  <2>3. new \in [Sids -> Nat]
    BY <1>2, <2>1, ScopeType, SweptProperties, CappedProperties, RegisterProperties
  <2> HIDE DEF Kept, new
  <2>4. keys' = [keys EXCEPT ![Dst(sid)] = KeysFor(keys[Dst(sid)], new)]
    BY <1>2, <2>1, <2>2 DEF new
  <2> QED BY <1>4, <2>1, <2>3, <2>4
<1>6. ASSUME NEW sid \in Known, ServeRelayHandshakeAsB(sid) \/ AnswerHandshake(sid)
      PROVE  Kept
  <2>1. Dst(sid) \in Peers
    BY KnownSids
  <2>2. PICK ids \in Swept(conn[Dst(sid)]) : keys' = [keys EXCEPT ![Dst(sid)] = KeysFor(@, ids)]
    BY <1>6 DEF ServeRelayHandshakeAsB, AnswerHandshake
  <2>3. ids \in [Sids -> Nat]
    BY <1>2, <2>1, SweptProperties
  <2>4. keys' = [keys EXCEPT ![Dst(sid)] = KeysFor(keys[Dst(sid)], ids)]
    BY <1>2, <2>1, <2>2
  <2> HIDE DEF Kept
  <2> QED BY <1>4, <2>1, <2>3, <2>4
<1>7. ASSUME NEW sid \in Known, StoreKeys(sid)
      PROVE  Kept
  <2> DEFINE q == Dst(sid)
  <2>1. q \in Peers /\ sid \in Sids
    BY KnownSids
  <2>2. PICK ids \in Swept(conn[q]) :
          LET kept == KeysFor(keys[q], ids)
              ok == Servable(ids, sid)
          IN
          /\ keys' = [keys EXCEPT ![q] =
                 IF ok THEN [kept EXCEPT ![sid] = [NoKeys EXCEPT !.has = TRUE]] ELSE kept]
          /\ call' = [call EXCEPT ![sid] = IF ok THEN "h_stored" ELSE "lost"]
    BY <1>7 DEF StoreKeys
  <2>3. ids \in [Sids -> Nat]
    BY <1>2, <2>1, SweptProperties
  <2>4. CASE ~Servable(ids, sid)
    <3> HIDE DEF Kept, q
    <3> QED BY <1>4, <2>1, <2>2, <2>3, <2>4
  <2>5. CASE Servable(ids, sid)
    <3> DEFINE kept == KeysFor(keys[q], ids)
    <3>1. kept \in [Sids -> Slots] /\ \A s \in Sids : kept[s].has => kept[s] = keys[q][s]
      BY <2>1, <2>3, KeysForProperties
    <3>2. call[sid] = "h_checked" /\ call'[sid] = "h_stored"
      BY <1>7, <2>1, <2>2, <2>5 DEF StoreKeys, TypeOK
    <3>3. keys' = [keys EXCEPT ![q] = [kept EXCEPT ![sid] = [NoKeys EXCEPT !.has = TRUE]]]
      BY <2>2, <2>5
    <3> HIDE DEF kept, q
    <3>4. \A p \in Peers : p # q => keys'[p] = keys[p]
      BY <1>2, <3>3
    <3>5. keys'[q] = [kept EXCEPT ![sid] = [NoKeys EXCEPT !.has = TRUE]]
      BY <1>2, <2>1, <3>3
    <3>6. \A s \in Sids : keys'[q][s] = IF s = sid THEN [NoKeys EXCEPT !.has = TRUE] ELSE kept[s]
      BY <3>1, <3>5
    <3> DEFINE fresh == [NoKeys EXCEPT !.has = TRUE]
    <3>7. ASSUME NEW p \in Peers, NEW s \in Sids, keys'[p][s].has
          PROVE  \/ keys'[p][s] = keys[p][s]
                 \/ keys'[p][s] = fresh /\ s = sid
      <4> HIDE DEF fresh
      <4>1. CASE p # q
        BY <3>4, <4>1
      <4>2. CASE p = q /\ s = sid
        BY <3>6, <4>2 DEF fresh
      <4>3. CASE p = q /\ s # sid
        BY <3>1, <3>6, <3>7, <4>3
      <4> QED BY <4>1, <4>2, <4>3
    <3> HIDE DEF fresh
    <3>8. \A p \in Peers : \A s \in Sids : keys'[p][s].has =>
             \/ keys'[p][s] = keys[p][s]
             \/ /\ keys'[p][s] = fresh
                /\ s \in Known /\ call[s] = "h_checked" /\ call'[s] = "h_stored"
      BY <3>2, <3>7
    <3> QED BY <3>8 DEF fresh
  <2> QED BY <2>4, <2>5
<1>8. ASSUME NEW p \in Peers, PeerRestarts(p)
      PROVE  Kept
  <2>1. NoneRegistered \in [Sids -> Nat]
    BY DEF NoneRegistered
  <2>2. keys' = [keys EXCEPT ![p] = KeysFor(keys[p], NoneRegistered)]
    BY <1>2, <1>8 DEF PeerRestarts
  <2> HIDE DEF Kept
  <2> QED BY <1>4, <2>1, <2>2
<1>9. ASSUME Kept, UNCHANGED arrived,
             \A sid \in Sids : \/ Hand(sid)' = Hand(sid)
                              \/ /\ Hand(sid)' \subseteq Hand(sid)
                                 /\ \A p \in Peers : ~keys'[p][sid].has
      PROVE  EntriesOK' /\ \A sid \in Sids : SessionOK(sid)'
  <2>1. EntriesChange
    BY <1>9 DEF EntriesChange
  <2>2. EntriesOK'
    BY <1>0, <2>1, EntriesStep
  <2>3. ASSUME NEW sid \in Sids
        PROVE  SessionOK(sid)'
    <3>1. \A p \in Peers : keys'[p][sid].has =>
             \/ keys'[p][sid] = keys[p][sid]
             \/ /\ keys'[p][sid] = [NoKeys EXCEPT !.has = TRUE]
                /\ sid \in Known /\ call[sid] = "h_checked"
      BY <1>9
    <3>2. UNCHANGED arrived[sid]
      BY <1>9
    <3> HIDE DEF Kept
    <3> QED BY <1>0, <1>9, <3>1, <3>2, SessionKept
  <2> QED BY <2>2, <2>3
<1>10. ASSUME Kept, UNCHANGED <<arrived, handing>>
       PROVE  EntriesOK' /\ \A sid \in Sids : SessionOK(sid)'
  <2>1. \A sid \in Sids : Hand(sid)' = Hand(sid)
    BY <1>10 DEF Hand
  <2> HIDE DEF Kept
  <2> QED BY <1>9, <1>10, <2>1
<1>11. ASSUME NEW p \in Peers, PeerRestarts(p)
       PROVE  EntriesOK' /\ \A sid \in Sids : SessionOK(sid)'
  <2>1. UNCHANGED <<arrived, info>> /\ handing' = {j \in handing : Dst(j.sid) # p}
    BY <1>11 DEF PeerRestarts
  <2>2. \A sid \in Sids : ~keys'[p][sid].has
    <3>1. keys' = [keys EXCEPT ![p] = KeysFor(keys[p], NoneRegistered)]
      BY <1>2, <1>11 DEF PeerRestarts
    <3>2. keys'[p] = KeysFor(keys[p], NoneRegistered)
      BY <1>2, <3>1
    <3>3. \A sid \in Sids : KeysFor(keys[p], NoneRegistered)[sid] = NoKeys
      BY DEF KeysFor, Registered, NoneRegistered
    <3> QED BY <3>2, <3>3 DEF NoKeys
  <2>3. ASSUME NEW sid \in Sids
        PROVE  \/ Hand(sid)' = Hand(sid)
               \/ Hand(sid)' \subseteq Hand(sid) /\ \A q \in Peers : ~keys'[q][sid].has
    <3>1. CASE Dst(sid) # p
      BY <2>1, <3>1 DEF Hand
    <3>2. CASE Dst(sid) = p
      <4>1. Hand(sid)' = {}
        BY <2>1, <3>2 DEF Hand
      <4>2. CASE sid \notin Known \/ call[sid] \notin Stored
        <5>1. Hand(sid) = {}
          BY <1>0, <4>2 DEF SessionOK
        <5> QED BY <4>1, <5>1
      <4>3. CASE sid \in Known
        <5>1. ASSUME NEW q \in Peers, keys'[q][sid].has
              PROVE  FALSE
          <6>1. q # p
            BY <2>2, <5>1
          <6>2. keys'[q] = keys[q]
            BY <1>2, <1>11, <6>1 DEF PeerRestarts
          <6>3. info[sid].src = Other(q)
            BY <5>1, <6>2 DEF Tables
          <6>4. Dst(sid) = q
            BY <6>3, OtherPeer DEF Dst
          <6> QED BY <3>2, <6>1, <6>4
        <5> QED BY <4>1, <5>1
      <4> QED BY <4>2, <4>3
    <3> QED BY <3>1, <3>2
  <2> HIDE DEF Kept
  <2> QED BY <1>8, <1>9, <1>11, <2>1, <2>3
<1>12. \/ Kept /\ UNCHANGED <<arrived, handing>>
       \/ \E f \in frames : ServeRelayDataAsB(f)
       \/ \E j \in handing : HandOn(j)
       \/ \E p \in Peers : PeerRestarts(p)
  <2> HIDE DEF Kept
  <2> QED
  BY ZenonT(40), <1>3, <1>5, <1>6, <1>7
     DEF Next, SenderStep, RelayStep, ReceiverStep, FrameStep, SendViaRelay, SendViaRelayV1,
         ReceiveConnectResponse, ReceiveHandshakeResponse, EstablishFails, Transmit,
         ForwardRelayConnect, RegisterSession, ForwardRelayHandshake, ForwardRelayData,
         ServeRelayConnectAsB, ServeRelayHandshakeAsB, StoreKeys, AnswerHandshake,
         ActivateOutboundSession, SessionAges, CallLost, FrameLost, RelayRestarts
<1>13. EntriesOK' /\ \A sid \in Sids : SessionOK(sid)'
  <2> HIDE DEF Kept
  <2> QED BY <1>10, <1>11, <1>12, DeliverStep, HandOnStep
<1> QED BY <1>1, <1>13 DEF Deliveries

-----------------------------------------------------------------------------
(* The theorems                                                             *)

\* RelayInv holds at the start.
LEMMA RelayInit == Init => RelayInv
<1> SUFFICES ASSUME Init PROVE RelayInv
  OBVIOUS
<1> USE DEF Init
<1>1. NoSession \in Sessions /\ NoKeys \in Slots /\ NoneRegistered \in [Sids -> Nat]
      /\ Registered(NoneRegistered) = {}
  BY Constants DEF NoSession, Sessions, NoKeys, Slots, NoneRegistered, Registered
<1>2. scope.faults \in Nat /\ scope.perSrc \in Nat
  BY ChatRelayAssumption
<1>3. info \in Seq([src : Peers, relay : Relays]) /\ Len(info) <= MaxSid /\ Known = {}
  BY Constants DEF Known
<1>4. task \in [Msgs -> Tasks] /\ \A m \in Msgs : task[m].pc \notin Working \cup {"next"}
  BY Constants DEF Tasks, Working
<1>5. arrived \in [Sids -> Seq(Msgs)] /\ call \in [Sids -> CallSteps]
  BY DEF CallSteps
<1>6. TypeOK
  BY <1>1, <1>2, <1>3, <1>4, <1>5 DEF TypeOK
<1>7. Senders
  BY <1>4 DEF Senders, NoSession, Working
<1>8. Tables /\ Bounded
  <2>1. \A p \in Peers : Registered(conn[p]) = {}
    BY <1>1
  <2>2. \A r \in Relays : Registered(table[r]) = {}
    BY <1>1
  <2>3. \A p \in Peers : \A sid \in Sids : ~keys[p][sid].has /\ keys[p][sid].pend = {}
    BY DEF NoKeys
  <2>4. IsFiniteSet({}) /\ Cardinality({}) = 0
    BY FS_EmptySet
  <2>5. Tables
    BY <2>1, <2>2, <2>3, <2>4 DEF Tables
  <2>6. Bounded
    <3>1. \A p \in Peers : Cardinality(Registered(conn[p])) = 0
      BY <2>1, <2>4, Zenon
    <3> QED BY <1>2, <3>1 DEF Bounded
  <2> QED BY <2>5, <2>6
<1>9. KeyUse /\ NonceOnce
  BY <1>3 DEF KeyUse, NonceOnce
<1>10. Deliveries
  <2>1. \A sid \in Sids : arrived[sid] = <<>> /\ Hand(sid) = {} /\ sid \notin Known
    BY <1>3 DEF Hand
  <2>2. \A p \in Peers : \A sid \in Sids : ~keys[p][sid].has
    BY DEF NoKeys
  <2>3. Apart(<<>>, {})
    BY DEF Apart
  <2>4. \A sid \in Sids : SessionOK(sid)
    BY <2>1, <2>2, <2>3 DEF SessionOK
  <2>5. FramesOK /\ EntriesOK
    BY <2>2 DEF FramesOK, EntriesOK
  <2> QED BY <2>4, <2>5 DEF Deliveries
<1> QED BY <1>6, <1>7, <1>8, <1>9, <1>10 DEF RelayInv

\* RelayInv is inductive: whatever the network loses, delays or reorders, whichever
\* calls time out or overlap and whoever restarts.
THEOREM RelayInvariance == Spec => []RelayInv
<1>1. RelayInv /\ [Next]_vars => RelayInv'
  <2> SUFFICES ASSUME RelayInv, [Next]_vars PROVE RelayInv'
    OBVIOUS
  <2>1. CASE Next
    <3>1. TypeOK' /\ Senders' /\ Tables' /\ Bounded'
      BY <2>1, TypeStep, SendersStep, TablesStep DEF RelayInv
    <3>2. KeyUse' /\ NonceOnce'
      BY <2>1, KeyUseStep, NonceStep DEF RelayInv
    <3>3. Deliveries'
      BY <2>1, <3>1, DeliveriesStep DEF RelayInv
    <3> QED BY <3>1, <3>2, <3>3 DEF RelayInv
  <2>2. CASE UNCHANGED vars
    <3>1. TypeOK' /\ Senders' /\ Tables' /\ Bounded' /\ KeyUse' /\ NonceOnce'
      BY <2>2
         DEF vars, RelayInv, TypeOK, Senders, Tables, Bounded, KeyUse, NonceOnce, Known, Engaged, Dst
    <3>2. UNCHANGED <<info, call, keys, sealed, handing, arrived, frames>>
      BY <2>2 DEF vars
    <3>3. FramesOK' /\ EntriesOK'
      BY <3>2 DEF RelayInv, Deliveries, FramesOK, EntriesOK, Known
    <3>4. ASSUME NEW sid \in Sids
          PROVE  SessionOK(sid)'
      <4>1. SessionOK(sid)
        BY DEF RelayInv, Deliveries
      <4>2. Hand(sid)' = Hand(sid) /\ Known' = Known
        BY <3>2 DEF Hand, Known
      <4> QED BY <3>2, <4>1, <4>2 DEF SessionOK
    <3> QED BY <3>1, <3>3, <3>4 DEF RelayInv, Deliveries
  <2> QED BY <2>1, <2>2
<1> QED BY RelayInit, <1>1, PTL DEF Spec

\* Type correctness of the relayed sessions.
THEOREM RelayTypeCorrect == Spec => []TypeOK
<1>1. RelayInv => TypeOK
  BY DEF RelayInv
<1> QED BY RelayInvariance, <1>1, PTL

\* No key ever seals two envelopes under one number (sendViaRelayV1).
THEOREM NonceOnceAlways == Spec => []NonceOnce
<1>1. RelayInv => NonceOnce
  BY DEF RelayInv
<1> QED BY RelayInvariance, <1>1, PTL

\* A receiver's keys are those of connects it counts, and these are within the cap
\* (relayV1BTryRegisterConnect, ServeRelayHandshakeAsB).
THEOREM KeysBoundedAlways == Spec => []KeysBounded
<1>1. RelayInv => KeysBounded
  BY DEF RelayInv, Tables, Bounded, KeysBounded
<1> QED BY RelayInvariance, <1>1, PTL

\* What the streams of a session hand on is what its sender sealed, each number once,
\* and all that relayV1BIngestRelayDataPacket counted is handed on or held by a stream
\* (ServeRelayDataAsB), in whichever order streams reach processEnvelopeBytes.
THEOREM HandedOnceAlways == Spec => []HandedOnce
<1>1. RelayInv => HandedOnce
  <2> SUFFICES ASSUME RelayInv, NEW sid \in Known
               PROVE  LET got == arrived[sid]
                          k == keys[Dst(sid)][sid]
                      IN
                      /\ \A i \in DOMAIN got :
                           [by |-> info[sid].src, key |-> sid, seq |-> got[i].seq, msg |-> got[i].msg] \in sealed
                      /\ \A i, j \in DOMAIN got : got[i].seq = got[j].seq => i = j
                      /\ k.has => \A n \in 0 .. k.next - 1 :
                           HandedOn(sid, n) \/ \E j \in handing : j.sid = sid /\ Holds(j, n)
    BY DEF HandedOnce
  <2>1. sid \in Sids /\ Dst(sid) \in Peers
    BY KnownSids DEF RelayInv
  <2>2. SessionOK(sid)
    BY <2>1 DEF RelayInv, Deliveries
  <2>3. Genuine(arrived[sid], Hand(sid), info[sid].src, sid, sealed) /\ Apart(arrived[sid], Hand(sid))
    BY <2>2 DEF SessionOK
  <2>4. keys[Dst(sid)][sid].has => Counted(arrived[sid], Hand(sid), keys[Dst(sid)][sid].next)
    BY <2>1, <2>2 DEF SessionOK
  <2>5. ASSUME keys[Dst(sid)][sid].has, NEW n \in 0 .. keys[Dst(sid)][sid].next - 1
        PROVE  HandedOn(sid, n) \/ \E j \in handing : j.sid = sid /\ Holds(j, n)
    BY <2>4, <2>5 DEF Counted, HandedOn, Hand
  <2> QED BY <2>3, <2>5 DEF Genuine, Apart
<1> QED BY RelayInvariance, <1>1, PTL
=============================================================================
