-------------------------- MODULE CircuitPoolProofs --------------------------
(***************************************************************************)
(* Proofs about CircuitPool, for any number of circuits and connections,   *)
(* any limits and any MaxPerPool.  The invariants are not inductive one by *)
(* one: the books (outCount, the reservations) are exact only because no   *)
(* circuit is at two places, and that rests on a circuit under construction *)
(* being unknown to everyone else.  PoolInv is their inductive conjunction. *)
(***************************************************************************)
EXTENDS CircuitPool, FiniteSetTheorems, TLAPS

USE DEF poolVars, limitVars, connVars, maintVars, OnlyConn, OnlyMaint, OnlyHeartbeat,
        Goto, Keep, DropSnapshots

\* The pool has not heard of circuit c and no snapshot of a handler contains it.
Unseen(c) ==
    /\ c \in Circuits
    /\ c \notin idle \cup registered
    /\ streams[c] = 0
    /\ \A y \in Conns : c \notin snapInUse[y] \cup snapIdle[y]

\* The steps at which a handler works on a circuit.
Named == {"takeInUse", "register", "held", "begin", "reply", "streaming", "drained",
          "return", "returning", "fail", "close", "unregister"}

\* What the local variables of the goroutines hold.
Threads ==
    /\ \A x \in Conns : pc[x] \in Named => cid[x] \in Circuits
    /\ \A x \in Conns : pc[x] = "register" =>
          /\ Unseen(cid[x])
          /\ \A y \in Conns : cid[y] = cid[x] => y = x
          /\ mpc = "register" => building # cid[x]
    /\ mpc = "register" => Unseen(building) /\ \A y \in Conns : cid[y] # building
    /\ mpc = "build" => building \in Kinds
    /\ hb.step # "wait" => hb.circuit \in Circuits

\* The empty circuit id is no circuit.
LEMMA NoCircuitApart == NoCircuit \notin Circuits
  BY PoolAssumption

\* Threads is inductive: nobody learns of a circuit between its construction and
\* its registration.
LEMMA ThreadsStep ==
  ASSUME TypeOK, Threads, OnePlace, Next
  PROVE  Threads'
<1>1. ASSUME NEW x \in Conns,
            \/ Connect(x) \/ GetFromPool(x) \/ ProbeInUse(x) \/ ProbeIdle(x) \/ RegisterStream(x)
            \/ BeginSucceeds(x) \/ BeginFails(x) \/ ReplySent(x) \/ ReplyFails(x) \/ ClientCloses(x)
            \/ UDPTeardown(x) \/ CloseFailed(x) \/ Unregister(x)
     PROVE  Threads'
  BY <1>1, NoCircuitApart
     DEF Connect, GetFromPool, ProbeInUse, ProbeIdle, RegisterStream, BeginSucceeds,
         BeginFails, ReplySent, ReplyFails, ClientCloses, UDPTeardown, CloseFailed, Unregister,
         TypeOK, Threads, Unseen, Named, IdleOf
<1>2. ASSUME NEW x \in Conns, BuildSucceeds(x)
     PROVE  Threads'
  BY <1>2
     DEF BuildSucceeds, TypeOK, Threads, Unseen, Named, Fresh
<1>3. ASSUME NEW x \in Conns, TakeInUse(x)
     PROVE  Threads'
  BY <1>3, NoCircuitApart
     DEF TakeInUse, TypeOK, Threads, Unseen, Named, AddStream
<1>4. ASSUME NEW x \in Conns, TakeIdle(x)
     PROVE  Threads'
  <2> DEFINE stale == snapIdle[x] \cap idle
             taken == IF cid[x] \in idle \ stale THEN {cid[x]} ELSE {}
  <2>1. /\ pc[x] = "takeIdle" /\ RemoveIdle(stale \cup taken) /\ registered' = registered \ stale
        /\ IF taken # {}
             THEN Lend(cid[x]) /\ Goto(x, "held") /\ UNCHANGED cid
             ELSE Goto(x, "reserve") /\ Keep(x, NoCircuit) /\ UNCHANGED <<streams, outCount>>
        /\ DropSnapshots(x) /\ UNCHANGED <<mpc, building, hb>>
    BY <1>4 DEF TakeIdle
  <2>2. idle' \subseteq idle /\ registered' \subseteq registered
    BY <2>1 DEF RemoveIdle
  <2>3. \A y \in Conns : snapInUse'[y] \subseteq snapInUse[y] /\ snapIdle'[y] \subseteq snapIdle[y]
    BY <2>1 DEF TypeOK
  <2>4. \A y \in Conns : pc'[y] = "register" => pc[y] = "register" /\ cid'[y] = cid[y]
    BY <2>1 DEF TypeOK
  <2>5. \A c \in Circuits : c \notin idle => streams'[c] = streams[c]
    BY <2>1 DEF Lend, TypeOK
  <2>6. \A c \in Circuits : /\ c \notin idle \cup registered
                            /\ streams[c] = 0
                            /\ \A y \in Conns : c \notin snapInUse[y] \cup snapIdle[y]
                          => /\ c \notin idle' \cup registered'
                             /\ streams'[c] = 0
                             /\ \A y \in Conns : c \notin snapInUse'[y] \cup snapIdle'[y]
    BY <2>2, <2>3, <2>5
  <2>0. \/ UNCHANGED cid
        \/ cid' = [cid EXCEPT ![x] = NoCircuit] /\ pc' = [pc EXCEPT ![x] = "reserve"]
    BY <2>1
  <2>7. \A y \in Conns : \/ cid'[y] = cid[y]
                         \/ y = x /\ cid'[y] = NoCircuit /\ pc'[y] = "reserve"
    BY <2>0 DEF TypeOK
  <2>8. \A y \in Conns : pc'[y] \in Named => cid'[y] \in Circuits
    BY <2>1, <2>7 DEF Threads, TypeOK, Named
  <2>9. \A y \in Conns : pc'[y] = "register" =>
          /\ Unseen(cid[y])'
          /\ \A z \in Conns : cid'[z] = cid'[y] => z = y
          /\ mpc' = "register" => building' # cid'[y]
    BY <2>1, <2>4, <2>6, <2>7, NoCircuitApart DEF Threads, Unseen
  <2>10. mpc' = "register" => Unseen(building)' /\ \A y \in Conns : cid'[y] # building'
    BY <2>1, <2>6, <2>7, NoCircuitApart DEF Threads, Unseen
  <2> QED BY <2>1, <2>8, <2>9, <2>10 DEF Threads
<1>5. ASSUME NEW x \in Conns, TryReserveBuild(x)
     PROVE  Threads'
  BY <1>5
     DEF TryReserveBuild, TypeOK, Threads, Unseen, Named, AddReservation
<1>6. ASSUME NEW x \in Conns, BuildFails(x)
     PROVE  Threads'
  BY <1>6
     DEF BuildFails, TypeOK, Threads, Unseen, Named
<1>7. ASSUME NEW x \in Conns, RegisterCircuitInUse(x)
     PROVE  Threads'
  BY <1>7
     DEF RegisterCircuitInUse, TypeOK, Threads, Unseen, Named, Lend
<1>8. ASSUME NEW x \in Conns, ReturnToPool(x)
     PROVE  Threads'
  BY <1>8
     DEF ReturnToPool, TypeOK, Threads, Unseen, Named
<1>9. ASSUME NEW x \in Conns, ReturnFinish(x)
     PROVE  Threads'
  BY <1>9
     DEF ReturnFinish, TypeOK, Threads, Unseen, Named, AppendIdle, AliasWrite
<1>10. ASSUME NEW x \in Conns, MarkCircuitFailed(x)
     PROVE  Threads'
  BY <1>10
     DEF MarkCircuitFailed, TypeOK, Threads, Unseen, Named, PoolMarkFailed
<1>11. ASSUME NEW c \in Circuits, LinkBreaks(c) \/ HeartbeatUnhealthy(c) \/ HeartbeatHighRTT(c)
     PROVE  Threads'
  BY <1>11
     DEF LinkBreaks, HeartbeatUnhealthy, HeartbeatHighRTT, TypeOK, Threads, Unseen, Named
<1>12. ASSUME NEW c \in Circuits, NotifyCircuitClosed(c)
     PROVE  Threads'
  BY <1>12, NoCircuitApart
     DEF NotifyCircuitClosed, TypeOK, Threads, Unseen, Named
<1>13. CASE \/ HeartbeatClose \/ MaintTick \/ EvictCount \/ CloseEvicted \/ CloseTrimmed
  BY <1>13
     DEF HeartbeatClose, MaintTick, EvictCount, CloseEvicted, CloseTrimmed, TypeOK, Threads,
         Unseen, Named, NextKind
<1>14. CASE HeartbeatMark
  BY <1>14
     DEF HeartbeatMark, TypeOK, Threads, Unseen, Named, PoolMarkFailed
<1>15. CASE EvictCut
  BY <1>15
     DEF EvictCut, TypeOK, Threads, Unseen, Named, RemoveIdle
<1>16. CASE TrimExcessIdle
  BY <1>16
     DEF TrimExcessIdle, TypeOK, Threads, Unseen, Named, RemoveIdle
<1>17. CASE Replenish
  BY <1>17
     DEF Replenish, TypeOK, Threads, Unseen, Named, AllPoolKinds, Kinds, Eligible, IsTarget
<1>18. CASE ReplenishBuilt
  BY <1>18
     DEF ReplenishBuilt, TypeOK, Threads, Unseen, Named, Fresh
<1>19. CASE ReplenishFails
  BY <1>19
     DEF ReplenishFails, TypeOK, Threads, Unseen, Named
<1>20. CASE RegisterPoolCircuit
  BY <1>20
     DEF RegisterPoolCircuit, TypeOK, Threads, Unseen, Named, AppendIdle
<1>21. ASSUME NEW l \in Limits, SetTotalLimits(l)
     PROVE  Threads'
  BY <1>21
     DEF SetTotalLimits, TypeOK, Threads, Unseen, Named
<1> QED
  BY <1>1, <1>2, <1>3, <1>4, <1>5, <1>6, <1>7, <1>8, <1>9, <1>10, <1>11, <1>12, <1>13, <1>14,
         <1>15, <1>16, <1>17, <1>18, <1>19, <1>20, <1>21
     DEF Next, Handler, Acquire, Use, Release, User, Heartbeat, Maintain

\* OnePlace is inductive: a circuit moves between the idle list, the lent books and
\* the hands of a returning handler, and is at one of them at a time.
LEMMA OnePlaceStep ==
  ASSUME TypeOK, Threads, OnePlace, Next
  PROVE  OnePlace'
<1>1. ASSUME NEW x \in Conns,
            \/ Connect(x) \/ GetFromPool(x) \/ ProbeInUse(x) \/ ProbeIdle(x) \/ RegisterStream(x)
            \/ BeginSucceeds(x) \/ BeginFails(x) \/ ReplySent(x) \/ ReplyFails(x) \/ ClientCloses(x)
            \/ UDPTeardown(x) \/ CloseFailed(x) \/ Unregister(x)
     PROVE  OnePlace'
  BY <1>1
     DEF Connect, GetFromPool, ProbeInUse, ProbeIdle, RegisterStream, BeginSucceeds,
         BeginFails, ReplySent, ReplyFails, ClientCloses, UDPTeardown, CloseFailed, Unregister,
         TypeOK, OnePlace, Returning, Threads, Named
<1>2. ASSUME NEW x \in Conns, BuildSucceeds(x)
     PROVE  OnePlace'
  BY <1>2
     DEF BuildSucceeds, TypeOK, OnePlace, Returning, Threads, Named
<1>3. ASSUME NEW x \in Conns, TakeInUse(x)
     PROVE  OnePlace'
  BY <1>3
     DEF TakeInUse, TypeOK, OnePlace, Returning, Threads, Named, AddStream
<1>4. ASSUME NEW x \in Conns, TakeIdle(x)
     PROVE  OnePlace'
  BY <1>4
     DEF TakeIdle, TypeOK, OnePlace, Returning, Threads, Named, RemoveIdle, Lend
<1>5. ASSUME NEW x \in Conns, TryReserveBuild(x)
     PROVE  OnePlace'
  BY <1>5
     DEF TryReserveBuild, TypeOK, OnePlace, Returning, Threads, Named
<1>6. ASSUME NEW x \in Conns, BuildFails(x)
     PROVE  OnePlace'
  BY <1>6
     DEF BuildFails, TypeOK, OnePlace, Returning, Threads, Named
<1>7. ASSUME NEW x \in Conns, RegisterCircuitInUse(x)
     PROVE  OnePlace'
  BY <1>7
     DEF RegisterCircuitInUse, TypeOK, OnePlace, Returning, Threads, Named, Lend, Unseen
<1>8. ASSUME NEW x \in Conns, ReturnToPool(x)
     PROVE  OnePlace'
  BY <1>8
     DEF ReturnToPool, TypeOK, OnePlace, Returning, Threads, Named, LastStream
<1>9. ASSUME NEW x \in Conns, ReturnFinish(x)
     PROVE  OnePlace'
  BY <1>9
     DEF ReturnFinish, TypeOK, OnePlace, Returning, Threads, Named, AppendIdle
<1>10. ASSUME NEW x \in Conns, MarkCircuitFailed(x)
     PROVE  OnePlace'
  BY <1>10
     DEF MarkCircuitFailed, TypeOK, OnePlace, Returning, Threads, Named, PoolMarkFailed
<1>11. ASSUME NEW c \in Circuits, LinkBreaks(c) \/ HeartbeatUnhealthy(c) \/ HeartbeatHighRTT(c)
     PROVE  OnePlace'
  BY <1>11
     DEF LinkBreaks, HeartbeatUnhealthy, HeartbeatHighRTT, TypeOK, OnePlace, Returning,
         Threads, Named
<1>12. ASSUME NEW c \in Circuits, NotifyCircuitClosed(c)
     PROVE  OnePlace'
  BY <1>12
     DEF NotifyCircuitClosed, TypeOK, OnePlace, Returning, Threads, Named
<1>13. CASE \/ HeartbeatClose \/ MaintTick \/ EvictCount \/ CloseEvicted \/ CloseTrimmed
  BY <1>13
     DEF HeartbeatClose, MaintTick, EvictCount, CloseEvicted, CloseTrimmed, TypeOK, OnePlace,
         Returning, Threads, Named, NextKind
<1>14. CASE HeartbeatMark
  BY <1>14
     DEF HeartbeatMark, TypeOK, OnePlace, Returning, Threads, Named, PoolMarkFailed
<1>15. CASE EvictCut
  BY <1>15
     DEF EvictCut, TypeOK, OnePlace, Returning, Threads, Named, RemoveIdle
<1>16. CASE TrimExcessIdle
  BY <1>16
     DEF TrimExcessIdle, TypeOK, OnePlace, Returning, Threads, Named, RemoveIdle
<1>17. CASE Replenish
  BY <1>17
     DEF Replenish, TypeOK, OnePlace, Returning, Threads, Named
<1>18. CASE ReplenishBuilt
  BY <1>18
     DEF ReplenishBuilt, TypeOK, OnePlace, Returning, Threads, Named
<1>19. CASE ReplenishFails
  BY <1>19
     DEF ReplenishFails, TypeOK, OnePlace, Returning, Threads, Named
<1>20. CASE RegisterPoolCircuit
  BY <1>20
     DEF RegisterPoolCircuit, TypeOK, OnePlace, Returning, Threads, Named, AppendIdle, Unseen
<1>21. ASSUME NEW l \in Limits, SetTotalLimits(l)
     PROVE  OnePlace'
  BY <1>21
     DEF SetTotalLimits, TypeOK, OnePlace, Returning, Threads, Named
<1> QED
  BY <1>1, <1>2, <1>3, <1>4, <1>5, <1>6, <1>7, <1>8, <1>9, <1>10, <1>11, <1>12, <1>13, <1>14,
         <1>15, <1>16, <1>17, <1>18, <1>19, <1>20, <1>21
     DEF Next, Handler, Acquire, Use, Release, User, Heartbeat, Maintain

----------------------------------------------------------------------------
(* outCount.                                                               *)

\* The lent circuits of a kind are finitely many, so they can be counted.
LEMMA LentFinite == \A k \in Kinds : IsFiniteSet(LentOf(k))
  BY PoolAssumption, FS_Subset DEF LentOf

\* A step that gives no circuit its first stream and takes no last one leaves
\* outCount exact.
LEMMA LentSame ==
  ASSUME OutCountExact, UNCHANGED outCount,
         \A c \in Circuits : streams'[c] > 0 <=> streams[c] > 0
  PROVE  OutCountExact'
<1>1. \A k \in Kinds : LentOf(k)' = LentOf(k)
  BY DEF LentOf
<1> QED BY <1>1 DEF OutCountExact

\* Lending a circuit that carries no stream (Lend) leaves outCount exact.
LEMMA LentAdds ==
  ASSUME TypeOK, OutCountExact, NEW c \in Circuits, streams[c] = 0, Lend(c)
  PROVE  OutCountExact' /\ outCount' \in [Kinds -> Nat]
<1>1. KindOf[c] \in Kinds /\ outCount \in [Kinds -> Nat] /\ streams \in [Circuits -> Nat]
  BY PoolAssumption DEF TypeOK
<1>2. ASSUME NEW k \in Kinds
      PROVE  LentOf(k)' = IF k = KindOf[c] THEN LentOf(k) \cup {c} ELSE LentOf(k)
  BY <1>1 DEF LentOf, Lend
<1>3. c \notin LentOf(KindOf[c])
  BY DEF LentOf
<1>4. Cardinality(LentOf(KindOf[c]) \cup {c}) = Cardinality(LentOf(KindOf[c])) + 1
  BY <1>1, <1>3, LentFinite, FS_AddElement
<1>5. outCount' = [outCount EXCEPT ![KindOf[c]] = @ + 1]
  BY DEF Lend
<1>6. outCount' \in [Kinds -> Nat]
  BY <1>1, <1>5
<1>7. ASSUME NEW k \in Kinds PROVE outCount'[k] = Cardinality(LentOf(k)')
  <2>1. CASE k = KindOf[c]
    BY <1>1, <1>2, <1>4, <1>5, <2>1 DEF OutCountExact
  <2>2. CASE k # KindOf[c]
    BY <1>1, <1>2, <1>5, <2>2 DEF OutCountExact
  <2> QED BY <2>1, <2>2
<1> QED BY <1>6, <1>7 DEF OutCountExact

\* Taking the last streams off a lent circuit and decrementing outCount leaves
\* outCount exact, and never negative.
LEMMA LentDrops ==
  ASSUME TypeOK, OutCountExact, NEW c \in Circuits, streams[c] > 0,
         streams' = [streams EXCEPT ![c] = 0],
         outCount' = [outCount EXCEPT ![KindOf[c]] = @ - 1]
  PROVE  OutCountExact' /\ outCount' \in [Kinds -> Nat]
<1>1. KindOf[c] \in Kinds /\ outCount \in [Kinds -> Nat] /\ streams \in [Circuits -> Nat]
  BY PoolAssumption DEF TypeOK
<1>2. ASSUME NEW k \in Kinds
      PROVE  LentOf(k)' = IF k = KindOf[c] THEN LentOf(k) \ {c} ELSE LentOf(k)
  BY <1>1 DEF LentOf
<1>3. c \in LentOf(KindOf[c])
  BY DEF LentOf
<1>4. /\ Cardinality(LentOf(KindOf[c]) \ {c}) = Cardinality(LentOf(KindOf[c])) - 1
      /\ Cardinality(LentOf(KindOf[c]) \ {c}) \in Nat
  BY <1>1, <1>3, LentFinite, FS_RemoveElement, FS_CardinalityType
<1>5. outCount[KindOf[c]] - 1 \in Nat
  BY <1>1, <1>4 DEF OutCountExact
<1>6. outCount' \in [Kinds -> Nat]
  BY <1>1, <1>5
<1>7. ASSUME NEW k \in Kinds PROVE outCount'[k] = Cardinality(LentOf(k)')
  <2>1. CASE k = KindOf[c]
    BY <1>1, <1>2, <1>4, <2>1 DEF OutCountExact
  <2>2. CASE k # KindOf[c]
    BY <1>1, <1>2, <2>2 DEF OutCountExact
  <2> QED BY <2>1, <2>2
<1> QED BY <1>6, <1>7 DEF OutCountExact

\* MarkCircuitFailed leaves outCount exact whether or not the circuit is lent.
LEMMA FailedBooks ==
  ASSUME TypeOK, OutCountExact, NEW c \in Circuits, PoolMarkFailed(c)
  PROVE  OutCountExact' /\ outCount' \in [Kinds -> Nat]
<1>1. CASE c \in registered /\ streams[c] > 0
  BY <1>1, LentDrops DEF PoolMarkFailed
<1>2. CASE ~(c \in registered /\ streams[c] > 0)
  BY <1>2, LentSame DEF PoolMarkFailed, TypeOK
<1> QED BY <1>1, <1>2

\* OutCountExact is inductive: each action that gives a circuit its first stream or
\* takes its last one moves outCount with it.
LEMMA OutCountStep ==
  ASSUME TypeOK, Threads, OnePlace, OutCountExact, Next
  PROVE  OutCountExact' /\ outCount' \in [Kinds -> Nat]
<1>1. ASSUME NEW x \in Conns,
            \/ Connect(x) \/ GetFromPool(x) \/ ProbeInUse(x) \/ ProbeIdle(x) \/ RegisterStream(x)
            \/ BeginSucceeds(x) \/ BeginFails(x) \/ ReplySent(x) \/ ReplyFails(x) \/ ClientCloses(x)
            \/ UDPTeardown(x) \/ CloseFailed(x) \/ Unregister(x)
            \/ BuildSucceeds(x) \/ TryReserveBuild(x)
            \/ BuildFails(x) \/ ReturnFinish(x)
     PROVE  OutCountExact' /\ outCount' \in [Kinds -> Nat]
  BY <1>1, LentSame
     DEF Connect, GetFromPool, ProbeInUse, ProbeIdle, RegisterStream, BeginSucceeds,
         BeginFails, ReplySent, ReplyFails, ClientCloses, UDPTeardown, CloseFailed, Unregister,
         BuildSucceeds, TryReserveBuild, BuildFails, ReturnFinish, TypeOK, CancelReservedBuild
<1>2. ASSUME NEW x \in Conns, TakeInUse(x)
     PROVE  OutCountExact' /\ outCount' \in [Kinds -> Nat]
  BY <1>2, LentSame
     DEF TakeInUse, AddStream, TypeOK, Threads, Named
<1>3. ASSUME NEW x \in Conns, TakeIdle(x)
     PROVE  OutCountExact' /\ outCount' \in [Kinds -> Nat]
  <2>1. CASE cid[x] \in idle \ snapIdle[x]
    <3>1. Lend(cid[x]) /\ cid[x] \in Circuits /\ streams[cid[x]] = 0
      BY <1>3, <2>1 DEF TakeIdle, TypeOK, OnePlace
    <3> QED BY <3>1, LentAdds
  <2>2. CASE cid[x] \notin idle \ snapIdle[x]
    <3>1. UNCHANGED <<streams, outCount>>
      BY <1>3, <2>2 DEF TakeIdle
    <3> QED BY <3>1, LentSame DEF TypeOK
  <2> QED BY <2>1, <2>2
<1>4. ASSUME NEW x \in Conns, RegisterCircuitInUse(x)
     PROVE  OutCountExact' /\ outCount' \in [Kinds -> Nat]
  <2>1. Lend(cid[x]) /\ cid[x] \in Circuits /\ streams[cid[x]] = 0
    BY <1>4 DEF RegisterCircuitInUse, Threads, Unseen
  <2> QED BY <2>1, LentAdds
<1>5. ASSUME NEW x \in Conns, ReturnToPool(x)
     PROVE  OutCountExact' /\ outCount' \in [Kinds -> Nat]
  <2>1. cid[x] \in Circuits
    BY <1>5 DEF ReturnToPool, Threads, Named
  <2>2. CASE cid[x] \notin registered \/ streams[cid[x]] # 1
    BY <1>5, <2>1, <2>2, LentSame DEF ReturnToPool, LastStream, TypeOK
  <2>3. CASE cid[x] \in registered /\ streams[cid[x]] = 1
    BY <1>5, <2>1, <2>3, LentDrops DEF ReturnToPool, LastStream
  <2> QED BY <2>2, <2>3
<1>6. ASSUME NEW x \in Conns, MarkCircuitFailed(x)
     PROVE  OutCountExact' /\ outCount' \in [Kinds -> Nat]
  <2>1. PoolMarkFailed(cid[x]) /\ cid[x] \in Circuits
    BY <1>6 DEF MarkCircuitFailed, Threads, Named
  <2> QED BY <2>1, FailedBooks
<1>7. ASSUME NEW c \in Circuits, LinkBreaks(c) \/ HeartbeatUnhealthy(c) \/ HeartbeatHighRTT(c)
     PROVE  OutCountExact' /\ outCount' \in [Kinds -> Nat]
  BY <1>7, LentSame
     DEF LinkBreaks, HeartbeatUnhealthy, HeartbeatHighRTT, TypeOK
<1>8. ASSUME NEW c \in Circuits, NotifyCircuitClosed(c)
     PROVE  OutCountExact' /\ outCount' \in [Kinds -> Nat]
  <2> DEFINE returns == Cardinality({x \in Conns : stream[x] = c} \ UDPConns)
  <2>1. returns \in Nat
    BY PoolAssumption, FS_Subset, FS_CardinalityType
  <2>2. CASE c \in registered /\ streams[c] > 0 /\ returns # 0 /\ streams[c] <= returns
    BY <1>8, <2>1, <2>2, LentDrops DEF NotifyCircuitClosed, TypeOK
  <2>3. CASE c \in registered /\ streams[c] > 0 /\ returns # 0 /\ streams[c] > returns
    BY <1>8, <2>1, <2>3, LentSame DEF NotifyCircuitClosed, TypeOK
  <2>4. CASE ~(c \in registered /\ streams[c] > 0 /\ returns # 0)
    BY <1>8, <2>4, LentSame DEF NotifyCircuitClosed, TypeOK
  <2> QED BY <2>1, <2>2, <2>3, <2>4 DEF TypeOK
<1>9. CASE \/ HeartbeatClose \/ MaintTick \/ EvictCount \/ CloseEvicted \/ CloseTrimmed
          \/ EvictCut \/ TrimExcessIdle \/ Replenish \/ ReplenishBuilt \/ ReplenishFails
          \/ RegisterPoolCircuit
  BY <1>9, LentSame
     DEF HeartbeatClose, MaintTick, EvictCount, CloseEvicted, CloseTrimmed, EvictCut,
         TrimExcessIdle, Replenish, ReplenishBuilt, ReplenishFails, RegisterPoolCircuit, TypeOK
<1>10. CASE HeartbeatMark
  <2>1. PoolMarkFailed(hb.circuit) /\ hb.circuit \in Circuits
    BY <1>10 DEF HeartbeatMark, Threads
  <2> QED BY <2>1, FailedBooks
<1>11. ASSUME NEW l \in Limits, SetTotalLimits(l)
     PROVE  OutCountExact' /\ outCount' \in [Kinds -> Nat]
  BY <1>11, LentSame
     DEF SetTotalLimits, TypeOK
<1> QED
  BY <1>1, <1>2, <1>3, <1>4, <1>5, <1>6, <1>7, <1>8, <1>9, <1>10, <1>11
     DEF Next, Handler, Acquire, Use, Release, User, Heartbeat, Maintain

----------------------------------------------------------------------------
(* Reservations.                                                           *)

\* The builds in progress for a kind can be counted, before and after a step.
LEMMA BuildsType ==
  \A k \in Kinds : /\ IsFiniteSet(BuildersOf(k)) /\ IsFiniteSet(BuildersOf(k)')
                   /\ Cardinality(BuildersOf(k)) \in Nat
                   /\ Cardinality(BuildersOf(k)') \in Nat
                   /\ MaintBuilds(k) \in {0, 1} /\ MaintBuilds(k)' \in {0, 1}
<1>1. ASSUME NEW k \in Kinds
      PROVE  IsFiniteSet(BuildersOf(k)) /\ IsFiniteSet(BuildersOf(k)')
  BY PoolAssumption, FS_Subset DEF BuildersOf
<1>2. \A k \in Kinds : MaintBuilds(k) \in {0, 1} /\ MaintBuilds(k)' \in {0, 1}
  BY DEF MaintBuilds
<1> QED BY <1>1, <1>2, FS_CardinalityType

\* A step that starts and ends no build leaves the reservations exact.
LEMMA PendingSame ==
  ASSUME TypeOK, PendingExact, UNCHANGED <<pendingByKind, pendingTotal>>,
         \A x \in Conns : pc'[x] \in {"build", "register"} <=> pc[x] \in {"build", "register"},
         \A k \in Kinds : MaintBuilds(k)' = MaintBuilds(k)
  PROVE  PendingExact' /\ pendingByKind' \in [Kinds -> Nat] /\ pendingTotal' \in Nat
<1>1. \A k \in Kinds : BuildersOf(k)' = BuildersOf(k)
  BY DEF BuildersOf
<1> QED BY <1>1 DEF PendingExact, TypeOK

\* Counting one build more or one less for kind j keeps the reservations exact
\* when one more or one less is in progress.
LEMMA PendingMoves ==
  ASSUME TypeOK, PendingExact, NEW j \in Kinds, NEW d \in {-1, 1},
         pendingByKind' = [pendingByKind EXCEPT ![j] = @ + d],
         pendingTotal' = pendingTotal + d,
         \A k \in Kinds : Cardinality(BuildersOf(k)') + MaintBuilds(k)' =
             Cardinality(BuildersOf(k)) + MaintBuilds(k) + (IF k = j THEN d ELSE 0)
  PROVE  PendingExact' /\ pendingByKind' \in [Kinds -> Nat] /\ pendingTotal' \in Nat
<1>1. /\ pendingByKind \in [Kinds -> Nat]
      /\ \A k \in Kinds : pendingByKind[k] = Cardinality(BuildersOf(k)) + MaintBuilds(k)
  BY DEF TypeOK, PendingExact
<1>2. \A k \in Kinds : pendingByKind'[k] = Cardinality(BuildersOf(k)') + MaintBuilds(k)'
  BY <1>1, BuildsType
<1>3. \A k \in Kinds : pendingByKind'[k] \in Nat
  BY <1>2, BuildsType
<1>4. pendingByKind' \in [Kinds -> Nat]
  BY <1>1, <1>3
<1>5. pendingTotal' = pendingByKind'["low_latency"] + pendingByKind'["anonymous"]
                        + pendingByKind'["country"]
  BY <1>1 DEF PendingExact, Kinds
<1> QED BY <1>2, <1>4, <1>5 DEF PendingExact, Kinds

\* A handler starts a build: TryReserveBuild.
LEMMA PendingStarts ==
  ASSUME TypeOK, PendingExact, NEW x \in Conns, pc[x] \notin {"build", "register"},
         Goto(x, "build"), AddReservation(ClientKind), UNCHANGED <<mpc, building>>
  PROVE  PendingExact' /\ pendingByKind' \in [Kinds -> Nat] /\ pendingTotal' \in Nat
<1>1. BuildersOf(ClientKind)' = BuildersOf(ClientKind) \cup {x} /\ x \notin BuildersOf(ClientKind)
  BY DEF BuildersOf, TypeOK
<1>2. ClientKind \in Kinds
  BY DEF ClientKind, Kinds
<1>3. Cardinality(BuildersOf(ClientKind)') = Cardinality(BuildersOf(ClientKind)) + 1
  BY <1>1, <1>2, BuildsType, FS_AddElement
<1>4. \A k \in Kinds : /\ k # ClientKind => BuildersOf(k)' = BuildersOf(k)
                       /\ MaintBuilds(k)' = MaintBuilds(k)
  BY DEF BuildersOf, MaintBuilds
<1>5. \A k \in Kinds : Cardinality(BuildersOf(k)') + MaintBuilds(k)' =
             Cardinality(BuildersOf(k)) + MaintBuilds(k) + (IF k = ClientKind THEN 1 ELSE 0)
  BY <1>3, <1>4, BuildsType
<1> QED BY <1>2, <1>5, PendingMoves DEF AddReservation

\* A handler ends its build and the reservation goes with it, whether the
\* circuit is registered or the build is cancelled.
LEMMA PendingEnds ==
  ASSUME TypeOK, PendingExact, NEW x \in Conns, pc[x] \in {"build", "register"},
         NEW step \in {"held", "off"}, Goto(x, step),
         ConsumeReservation(ClientKind) \/ CancelReservedBuild(ClientKind),
         UNCHANGED <<mpc, building>>
  PROVE  PendingExact' /\ pendingByKind' \in [Kinds -> Nat] /\ pendingTotal' \in Nat
<1>1. BuildersOf(ClientKind)' = BuildersOf(ClientKind) \ {x} /\ x \in BuildersOf(ClientKind)
  BY DEF BuildersOf, TypeOK
<1>2. ClientKind \in Kinds
  BY DEF ClientKind, Kinds
<1>3. /\ Cardinality(BuildersOf(ClientKind)') = Cardinality(BuildersOf(ClientKind)) - 1
      /\ Cardinality(BuildersOf(ClientKind)) > 0
  <2>1. Cardinality(BuildersOf(ClientKind)') = Cardinality(BuildersOf(ClientKind)) - 1
    BY <1>1, <1>2, BuildsType, FS_RemoveElement
  <2>2. Cardinality(BuildersOf(ClientKind)') \in Nat /\ Cardinality(BuildersOf(ClientKind)) \in Nat
    BY <1>2, BuildsType
  <2> QED BY <2>1, <2>2
<1>4. \A k \in Kinds : /\ k # ClientKind => BuildersOf(k)' = BuildersOf(k)
                       /\ MaintBuilds(k)' = MaintBuilds(k)
  BY DEF BuildersOf, MaintBuilds
<1>5. \A k \in Kinds : Cardinality(BuildersOf(k)') + MaintBuilds(k)' =
             Cardinality(BuildersOf(k)) + MaintBuilds(k) + (IF k = ClientKind THEN -1 ELSE 0)
  BY <1>3, <1>4, BuildsType
<1>6. pendingByKind[ClientKind] > 0 /\ pendingTotal > 0
  <2>1. pendingByKind[ClientKind] > 0
    BY <1>2, <1>3, BuildsType DEF PendingExact
  <2> QED BY <2>1 DEF PendingExact, TypeOK, Kinds, ClientKind
<1>7. /\ pendingByKind' = [pendingByKind EXCEPT ![ClientKind] = @ + (-1)]
      /\ pendingTotal' = pendingTotal + (-1)
  <2>1. CASE ConsumeReservation(ClientKind)
    BY <1>2, <1>6, <2>1 DEF ConsumeReservation, TypeOK
  <2>2. CASE CancelReservedBuild(ClientKind)
    BY <1>2, <1>6, <2>2 DEF CancelReservedBuild, TypeOK
  <2> QED BY <2>1, <2>2
<1> QED BY <1>2, <1>5, <1>7, PendingMoves

\* The maintenance goroutine starts a build of kind j: replenishToMinimum.
LEMMA MaintStarts ==
  ASSUME TypeOK, PendingExact, NEW j \in Kinds, mpc = "replenish", AddReservation(j),
         mpc' = "build", building' = j, UNCHANGED pc
  PROVE  PendingExact' /\ pendingByKind' \in [Kinds -> Nat] /\ pendingTotal' \in Nat
<1>1. \A k \in Kinds : /\ BuildersOf(k)' = BuildersOf(k)
                       /\ MaintBuilds(k) = 0
                       /\ MaintBuilds(k)' = IF k = j THEN 1 ELSE 0
  BY DEF BuildersOf, MaintBuilds
<1>2. \A k \in Kinds : Cardinality(BuildersOf(k)') + MaintBuilds(k)' =
             Cardinality(BuildersOf(k)) + MaintBuilds(k) + (IF k = j THEN 1 ELSE 0)
  BY <1>1, BuildsType
<1> QED BY <1>2, PendingMoves DEF AddReservation

\* The maintenance goroutine ends its build of kind j.
LEMMA MaintEnds ==
  ASSUME TypeOK, PendingExact, NEW j \in Kinds,
         \A k \in Kinds : MaintBuilds(k) = IF k = j THEN 1 ELSE 0,
         ConsumeReservation(j) \/ CancelReservedBuild(j),
         mpc' \in {"rest", "replenish"}, UNCHANGED pc
  PROVE  PendingExact' /\ pendingByKind' \in [Kinds -> Nat] /\ pendingTotal' \in Nat
<1>1. \A k \in Kinds : BuildersOf(k)' = BuildersOf(k) /\ MaintBuilds(k)' = 0
  BY DEF BuildersOf, MaintBuilds
<1>2. \A k \in Kinds : Cardinality(BuildersOf(k)') + MaintBuilds(k)' =
             Cardinality(BuildersOf(k)) + MaintBuilds(k) + (IF k = j THEN -1 ELSE 0)
  BY <1>1, BuildsType
<1>3. pendingByKind[j] > 0
  BY BuildsType DEF PendingExact
<1>4. pendingTotal > 0
  <2>1. /\ pendingByKind["low_latency"] \in Nat /\ pendingByKind["anonymous"] \in Nat
        /\ pendingByKind["country"] \in Nat
    BY DEF TypeOK, Kinds
  <2>2. j = "low_latency" \/ j = "anonymous" \/ j = "country"
    BY DEF Kinds
  <2> QED BY <1>3, <2>1, <2>2 DEF PendingExact
<1>5. /\ pendingByKind' = [pendingByKind EXCEPT ![j] = @ + (-1)]
      /\ pendingTotal' = pendingTotal + (-1)
  <2>1. CASE ConsumeReservation(j)
    BY <1>3, <1>4, <2>1 DEF ConsumeReservation, TypeOK
  <2>2. CASE CancelReservedBuild(j)
    BY <1>3, <1>4, <2>2 DEF CancelReservedBuild, TypeOK
  <2> QED BY <2>1, <2>2
<1> QED BY <1>2, <1>5, PendingMoves

\* PendingExact is inductive: every reservation TryReserveBuild or
\* replenishToMinimum makes is consumed or cancelled by the build it was made for.
LEMMA PendingStep ==
  ASSUME TypeOK, Threads, PendingExact, Next
  PROVE  PendingExact' /\ pendingByKind' \in [Kinds -> Nat] /\ pendingTotal' \in Nat
<1>1. ASSUME NEW x \in Conns,
            \/ Connect(x) \/ GetFromPool(x) \/ ProbeInUse(x) \/ ProbeIdle(x) \/ RegisterStream(x)
            \/ BeginSucceeds(x) \/ BeginFails(x) \/ ReplySent(x) \/ ReplyFails(x) \/ ClientCloses(x)
            \/ UDPTeardown(x) \/ CloseFailed(x) \/ Unregister(x) \/ BuildSucceeds(x) \/ TakeInUse(x)
            \/ TakeIdle(x) \/ ReturnToPool(x) \/ ReturnFinish(x) \/ MarkCircuitFailed(x)
     PROVE  PendingExact' /\ pendingByKind' \in [Kinds -> Nat] /\ pendingTotal' \in Nat
  BY <1>1, PendingSame
     DEF Connect, GetFromPool, ProbeInUse, ProbeIdle, RegisterStream, BeginSucceeds,
         BeginFails, ReplySent, ReplyFails, ClientCloses, UDPTeardown, CloseFailed, Unregister,
         BuildSucceeds, TakeInUse, TakeIdle, ReturnToPool, ReturnFinish, MarkCircuitFailed,
         TypeOK, MaintBuilds, PoolMarkFailed
<1>2. ASSUME NEW x \in Conns, TryReserveBuild(x)
     PROVE  PendingExact' /\ pendingByKind' \in [Kinds -> Nat] /\ pendingTotal' \in Nat
  <2>1. CASE AtCapacity(ClientKind)
    BY <1>2, <2>1, PendingSame DEF TryReserveBuild, TypeOK, MaintBuilds
  <2>2. CASE ~AtCapacity(ClientKind)
    BY <1>2, <2>2, PendingStarts DEF TryReserveBuild
  <2> QED BY <2>1, <2>2
<1>3. ASSUME NEW x \in Conns, BuildFails(x)
     PROVE  PendingExact' /\ pendingByKind' \in [Kinds -> Nat] /\ pendingTotal' \in Nat
  BY <1>3, PendingEnds DEF BuildFails
<1>4. ASSUME NEW x \in Conns, RegisterCircuitInUse(x)
     PROVE  PendingExact' /\ pendingByKind' \in [Kinds -> Nat] /\ pendingTotal' \in Nat
  BY <1>4, PendingEnds DEF RegisterCircuitInUse
<1>5. ASSUME NEW c \in Circuits, LinkBreaks(c) \/ HeartbeatUnhealthy(c) \/ HeartbeatHighRTT(c)
     PROVE  PendingExact' /\ pendingByKind' \in [Kinds -> Nat] /\ pendingTotal' \in Nat
  BY <1>5, PendingSame
     DEF LinkBreaks, HeartbeatUnhealthy, HeartbeatHighRTT, TypeOK, MaintBuilds
<1>6. ASSUME NEW c \in Circuits, NotifyCircuitClosed(c)
     PROVE  PendingExact' /\ pendingByKind' \in [Kinds -> Nat] /\ pendingTotal' \in Nat
  BY <1>6, PendingSame
     DEF NotifyCircuitClosed, TypeOK, MaintBuilds
<1>7. CASE \/ HeartbeatClose \/ MaintTick \/ EvictCount \/ CloseEvicted \/ CloseTrimmed
          \/ HeartbeatMark \/ EvictCut \/ TrimExcessIdle
  BY <1>7, PendingSame
     DEF HeartbeatClose, MaintTick, EvictCount, CloseEvicted, CloseTrimmed, HeartbeatMark,
         EvictCut, TrimExcessIdle, TypeOK, MaintBuilds, NextKind, PoolMarkFailed
<1>8. CASE Replenish
  <2>1. CASE mpc' = "rest"
    BY <1>8, <2>1, PendingSame DEF Replenish, MaintBuilds
  <2>2. CASE mpc' # "rest"
    <3>1. PICK i \in 1 .. 3 : AddReservation(AllPoolKinds[i]) /\ building' = AllPoolKinds[i]
                              /\ mpc' = "build"
      BY <1>8, <2>2 DEF Replenish, AllPoolKinds
    <3>2. AllPoolKinds[i] \in Kinds
      BY DEF AllPoolKinds, Kinds
    <3> QED BY <1>8, <3>1, <3>2, MaintStarts DEF Replenish
  <2> QED BY <2>1, <2>2
<1>9. CASE ReplenishBuilt
  <2>1. \A k \in Kinds : MaintBuilds(k)' = MaintBuilds(k)
    BY <1>9 DEF ReplenishBuilt, MaintBuilds
  <2> QED BY <1>9, <2>1, PendingSame DEF ReplenishBuilt
<1>10. CASE ReplenishFails
  <2>1. building \in Kinds /\ \A k \in Kinds : MaintBuilds(k) = IF k = building THEN 1 ELSE 0
    BY <1>10 DEF ReplenishFails, MaintBuilds, Threads
  <2> QED BY <1>10, <2>1, MaintEnds DEF ReplenishFails
<1>11. CASE RegisterPoolCircuit
  <2>1. building \in Circuits /\ KindOf[building] \in Kinds
    BY <1>11, PoolAssumption DEF RegisterPoolCircuit, Threads, Unseen
  <2>2. \A k \in Kinds : MaintBuilds(k) = IF k = KindOf[building] THEN 1 ELSE 0
    BY <1>11, <2>1 DEF RegisterPoolCircuit, MaintBuilds
  <2> QED BY <1>11, <2>1, <2>2, MaintEnds DEF RegisterPoolCircuit
<1>12. ASSUME NEW l \in Limits, SetTotalLimits(l)
     PROVE  PendingExact' /\ pendingByKind' \in [Kinds -> Nat] /\ pendingTotal' \in Nat
  BY <1>12, PendingSame
     DEF SetTotalLimits, TypeOK, MaintBuilds
<1> QED
  BY <1>1, <1>2, <1>3, <1>4, <1>5, <1>6, <1>7, <1>8, <1>9, <1>10, <1>11, <1>12
     DEF Next, Handler, Acquire, Use, Release, User, Heartbeat, Maintain

----------------------------------------------------------------------------
(* Types.                                                                  *)

\* Rewriting the aliased slice keeps its flag Boolean.
LEMMA AliasType ==
  ASSUME shared \in BOOLEAN, NEW k, NEW S, NEW R, AliasWrite(k, S, R)
  PROVE  shared' \in BOOLEAN
  BY Zenon DEF AliasWrite

\* Closing a circuit keeps the state of the streams well typed.
LEMMA CloseType ==
  ASSUME TypeOK, NEW c, CloseCircuit(c)
  PROVE  link' \in [Circuits -> LinkStates]
  BY DEF CloseCircuit, TypeOK, LinkStates

\* The types are preserved; that outCount and the reservations stay natural numbers
\* comes from OutCountStep and PendingStep.
LEMMA TypeStep ==
  ASSUME TypeOK, Threads, outCount' \in [Kinds -> Nat],
         pendingByKind' \in [Kinds -> Nat], pendingTotal' \in Nat, Next
  PROVE  TypeOK'
<1>1. ASSUME NEW x \in Conns,
            \/ Connect(x) \/ GetFromPool(x) \/ ProbeInUse(x) \/ ProbeIdle(x) \/ RegisterStream(x)
            \/ BeginSucceeds(x) \/ BeginFails(x) \/ ReplySent(x) \/ ReplyFails(x) \/ ClientCloses(x)
            \/ UDPTeardown(x) \/ CloseFailed(x) \/ Unregister(x)
     PROVE  TypeOK'
  BY SMTT(20), <1>1
     DEF Connect, GetFromPool, ProbeInUse, ProbeIdle, RegisterStream, BeginSucceeds,
         BeginFails, ReplySent, ReplyFails, ClientCloses, UDPTeardown, CloseFailed, Unregister,
         TypeOK, ConnSteps, MaintSteps, LinkStates, IdleOf, CloseCircuit
<1>2. ASSUME NEW x \in Conns, BuildSucceeds(x)
     PROVE  TypeOK'
  BY <1>2
     DEF BuildSucceeds, TypeOK, ConnSteps, MaintSteps, LinkStates, CircuitCreated
<1>3. ASSUME NEW x \in Conns, TakeInUse(x)
     PROVE  TypeOK'
  BY <1>3
     DEF TakeInUse, TypeOK, ConnSteps, MaintSteps, LinkStates, AddStream, Threads, Named
<1>4. ASSUME NEW x \in Conns, TakeIdle(x)
     PROVE  TypeOK'
  <2>1. shared' \in BOOLEAN
    BY <1>4, AliasType DEF TakeIdle, TypeOK
  <2>2. idle' \subseteq idle /\ older' \subseteq older /\ registered' \subseteq registered
    BY <1>4 DEF TakeIdle, RemoveIdle
  <2>3. streams' \in [Circuits -> Nat]
    BY <1>4 DEF TakeIdle, Lend, TypeOK
  <2>4. pc' \in [Conns -> ConnSteps] /\ cid' \in [Conns -> Circuits \cup {NoCircuit}]
    BY <1>4 DEF TakeIdle, TypeOK, ConnSteps
  <2>5. snapInUse' \in [Conns -> SUBSET Circuits] /\ snapIdle' \in [Conns -> SUBSET Circuits]
    BY <1>4 DEF TakeIdle, TypeOK
  <2>6. UNCHANGED <<minTotal, maxTotal, link, hb, stream, mpc, mkind, expired, slot, building,
                    panicked>>
    BY <1>4 DEF TakeIdle
  <2> QED BY <2>1, <2>2, <2>3, <2>4, <2>5, <2>6 DEF TypeOK
<1>5. ASSUME NEW x \in Conns, TryReserveBuild(x)
     PROVE  TypeOK'
  BY <1>5
     DEF TryReserveBuild, TypeOK, ConnSteps, MaintSteps, LinkStates
<1>6. ASSUME NEW x \in Conns, BuildFails(x)
     PROVE  TypeOK'
  BY <1>6
     DEF BuildFails, TypeOK, ConnSteps, MaintSteps, LinkStates
<1>7. ASSUME NEW x \in Conns, RegisterCircuitInUse(x)
     PROVE  TypeOK'
  BY <1>7
     DEF RegisterCircuitInUse, TypeOK, ConnSteps, MaintSteps, LinkStates, Lend, Threads, Named
<1>8. ASSUME NEW x \in Conns, ReturnToPool(x)
     PROVE  TypeOK'
  <2>1. streams' \in [Circuits -> Nat]
    BY <1>8 DEF ReturnToPool, TypeOK
  <2>2. pc' \in [Conns -> ConnSteps]
    BY <1>8 DEF ReturnToPool, TypeOK, ConnSteps
  <2>3. UNCHANGED <<idle, older, registered, link, cid, snapInUse, snapIdle, stream, maintVars, limitVars, hb, panicked>>
    BY <1>8 DEF ReturnToPool
  <2> QED BY <2>1, <2>2, <2>3 DEF TypeOK
<1>9. ASSUME NEW x \in Conns, ReturnFinish(x)
     PROVE  TypeOK'
  <2>1. shared' \in BOOLEAN
    BY <1>9, AliasType DEF ReturnFinish, TypeOK
  <2>2. cid[x] \in Circuits
    BY <1>9 DEF ReturnFinish, Threads, Named
  <2>3. /\ idle' \subseteq Circuits /\ older' \subseteq Circuits \X Circuits
        /\ registered' \subseteq registered
    BY <1>9, <2>2 DEF ReturnFinish, AppendIdle, TypeOK
  <2>4. pc' \in [Conns -> ConnSteps]
    BY <1>9 DEF ReturnFinish, TypeOK, ConnSteps
  <2>5. UNCHANGED <<streams, minTotal, maxTotal, link, hb, cid, snapInUse, snapIdle, stream,
                    mpc, mkind, expired, slot, building, panicked>>
    BY <1>9 DEF ReturnFinish
  <2> QED BY <2>1, <2>3, <2>4, <2>5 DEF TypeOK
<1>10. ASSUME NEW x \in Conns, MarkCircuitFailed(x)
     PROVE  TypeOK'
  BY <1>10
     DEF MarkCircuitFailed, TypeOK, ConnSteps, MaintSteps, LinkStates, PoolMarkFailed
<1>11. ASSUME NEW c \in Circuits, LinkBreaks(c) \/ HeartbeatUnhealthy(c) \/ HeartbeatHighRTT(c)
     PROVE  TypeOK'
  BY <1>11
     DEF LinkBreaks, HeartbeatUnhealthy, HeartbeatHighRTT, TypeOK, ConnSteps, MaintSteps,
         LinkStates, CloseCircuit
<1>12. ASSUME NEW c \in Circuits, NotifyCircuitClosed(c)
     PROVE  TypeOK'
  <2> DEFINE returns == Cardinality({x \in Conns : stream[x] = c} \ UDPConns)
  <2>1. returns \in Nat
    BY PoolAssumption, FS_Subset, FS_CardinalityType
  <2>2. streams' \in [Circuits -> Nat] /\ registered' \subseteq registered
    BY <1>12, <2>1 DEF NotifyCircuitClosed, TypeOK
  <2>3. /\ link' \in [Circuits -> LinkStates]
        /\ stream' \in [Conns -> Circuits \cup {NoCircuit}]
        /\ pc' \in [Conns -> ConnSteps]
        /\ cid' \in [Conns -> Circuits \cup {NoCircuit}]
    BY <1>12 DEF NotifyCircuitClosed, TypeOK, LinkStates, ConnSteps
  <2>4. UNCHANGED <<idle, older, minTotal, maxTotal, hb, snapInUse, snapIdle,
                    mpc, mkind, expired, slot, shared, building, panicked>>
    BY <1>12 DEF NotifyCircuitClosed
  <2> QED BY <2>2, <2>3, <2>4 DEF TypeOK
<1>13. CASE \/ MaintTick
  BY <1>13
     DEF MaintTick, TypeOK, ConnSteps, MaintSteps, LinkStates
<1>14. CASE HeartbeatClose
  <2>1. link' \in [Circuits -> LinkStates]
    BY <1>14, CloseType DEF HeartbeatClose
  <2> QED BY <1>14, <2>1 DEF HeartbeatClose, TypeOK
<1>15. CASE CloseTrimmed
  <2>1. link' \in [Circuits -> LinkStates]
    BY <1>15, CloseType DEF CloseTrimmed
  <2> QED BY <1>15, <2>1 DEF CloseTrimmed, TypeOK, MaintSteps
<1>16. CASE EvictCount
  <2>1. expired' \subseteq Circuits
    BY <1>16 DEF EvictCount, IdleOf, TypeOK
  <2>2. mpc' \in MaintSteps /\ mkind' \in 1 .. 3
    BY <1>16 DEF EvictCount, NextKind, AllPoolKinds, TypeOK, MaintSteps
  <2> QED BY <1>16, <2>1, <2>2 DEF EvictCount, TypeOK
<1>17. CASE CloseEvicted
  <2>1. link' \in [Circuits -> LinkStates]
    BY <1>17, CloseType DEF CloseEvicted
  <2>2. mpc' \in MaintSteps /\ mkind' \in 1 .. 3 /\ expired' \subseteq Circuits
    BY <1>17 DEF CloseEvicted, NextKind, AllPoolKinds, TypeOK, MaintSteps
  <2>3. slot' \in Int
    BY <1>17 DEF CloseEvicted, TypeOK
  <2>4. shared' \in BOOLEAN
    BY <1>17, Zenon DEF CloseEvicted, TypeOK
  <2> QED BY <1>17, <2>1, <2>2, <2>3, <2>4 DEF CloseEvicted, TypeOK
<1>18. CASE HeartbeatMark
  BY <1>18
     DEF HeartbeatMark, TypeOK, ConnSteps, MaintSteps, LinkStates, PoolMarkFailed
<1>19. CASE EvictCut
  <2> DEFINE kept == Cardinality(IdleOf(AllPoolKinds[mkind])) - Cardinality(expired)
  <2>1. CASE kept < 0
    BY <1>19, <2>1 DEF EvictCut, TypeOK
  <2>2. CASE ~(kept < 0)
    <3>1. /\ idle' \subseteq idle /\ older' \subseteq older /\ registered' \subseteq registered
          /\ slot' = kept + 1 /\ shared' = TRUE /\ mpc' = "closeEvicted"
          /\ UNCHANGED <<streams, mkind, expired, building, panicked>>
      BY <1>19, <2>2 DEF EvictCut, RemoveIdle
    <3>2. kept \in Int
      <4>1. IsFiniteSet(expired) /\ IsFiniteSet(IdleOf(AllPoolKinds[mkind]))
        BY PoolAssumption, FS_Subset DEF TypeOK, IdleOf
      <4> QED BY <4>1, FS_CardinalityType
    <3> QED BY <1>19, <3>1, <3>2 DEF EvictCut, TypeOK, MaintSteps
  <2> QED BY <2>1, <2>2
<1>20. CASE TrimExcessIdle
  BY <1>20
     DEF TrimExcessIdle, TypeOK, ConnSteps, MaintSteps, LinkStates, RemoveIdle
<1>21. CASE Replenish
  BY <1>21
     DEF Replenish, TypeOK, ConnSteps, MaintSteps, LinkStates, AllPoolKinds, Kinds
<1>22. CASE ReplenishBuilt
  BY <1>22
     DEF ReplenishBuilt, TypeOK, ConnSteps, MaintSteps, LinkStates, CircuitCreated
<1>23. CASE ReplenishFails
  BY <1>23
     DEF ReplenishFails, TypeOK, ConnSteps, MaintSteps, LinkStates
<1>24. CASE RegisterPoolCircuit
  BY <1>24
     DEF RegisterPoolCircuit, TypeOK, ConnSteps, MaintSteps, LinkStates, AppendIdle, Threads,
         Unseen
<1>25. ASSUME NEW l \in Limits, SetTotalLimits(l)
     PROVE  TypeOK'
  BY <1>25, PoolAssumption
     DEF SetTotalLimits, TypeOK, ConnSteps, MaintSteps, LinkStates, NormalMin, NormalMax,
         AtLeastOne
<1> QED
  BY <1>1, <1>2, <1>3, <1>4, <1>5, <1>6, <1>7, <1>8, <1>9, <1>10, <1>11, <1>12, <1>13, <1>14,
         <1>15, <1>16, <1>17, <1>18, <1>19, <1>20, <1>21, <1>22, <1>23, <1>24, <1>25
     DEF Next, Handler, Acquire, Use, Release, User, Heartbeat, Maintain

----------------------------------------------------------------------------
(* Capacity.                                                               *)

\* All the lent circuits, and the number the capacity argument bounds: what the
\* counters see and what ReturnToPool has hidden from them.
OutTotal == outCount["low_latency"] + outCount["anonymous"] + outCount["country"]
Weight == Cardinality(idle) + OutTotal + pendingTotal + Cardinality(Returning)
CapInv ==
    /\ Weight <= TopTotal + Cardinality(Conns)
    /\ maxTotal <= TopTotal

\* The parts of Weight are natural numbers, and no more handlers are returning
\* a circuit than there are.
LEMMA WeightParts ==
  ASSUME TypeOK
  PROVE  /\ IsFiniteSet(idle) /\ Cardinality(idle) \in Nat
         /\ OutTotal \in Nat /\ pendingTotal \in Nat
         /\ Cardinality(Conns) \in Nat
         /\ Cardinality(Returning) \in Nat /\ Cardinality(Returning) <= Cardinality(Conns)
         /\ IsFiniteSet(Returning)
<1>1. IsFiniteSet(idle) /\ Cardinality(idle) \in Nat
  BY PoolAssumption, FS_Subset, FS_CardinalityType DEF TypeOK
<1>2. OutTotal \in Nat /\ pendingTotal \in Nat
  BY DEF TypeOK, OutTotal, Kinds
<1>3. Returning \subseteq Conns
  BY DEF Returning
<1>4. IsFiniteSet(Returning) /\ Cardinality(Returning) <= Cardinality(Conns)
  BY <1>3, PoolAssumption, FS_Subset
<1>5. Cardinality(Conns) \in Nat /\ Cardinality(Returning) \in Nat
  BY <1>4, PoolAssumption, FS_CardinalityType
<1> QED BY <1>1, <1>2, <1>4, <1>5

\* The idle lists of the three kinds partition the idle circuits, so the
\* counters of TryReserveBuild see every idle circuit once.
LEMMA IdleSum ==
  ASSUME TypeOK
  PROVE  effectiveTotalCountAll = Cardinality(idle) + OutTotal + pendingTotal
<1> DEFINE A == IdleOf("low_latency")
           B == IdleOf("anonymous")
           C == IdleOf("country")
<1>1. IsFiniteSet(A) /\ IsFiniteSet(B) /\ IsFiniteSet(C)
  BY PoolAssumption, FS_Subset DEF TypeOK, IdleOf
<1>2. idle = (A \cup B) \cup C /\ A \cap B = {} /\ (A \cup B) \cap C = {}
  BY PoolAssumption DEF TypeOK, IdleOf, Kinds
<1> HIDE DEF A, B, C
<1>3. IsFiniteSet(A \cup B) /\ Cardinality(A \cup B) = Cardinality(A) + Cardinality(B)
  <2>1. Cardinality(A \cup B) = Cardinality(A) + Cardinality(B) - Cardinality(A \cap B)
    BY <1>1, FS_Union
  <2>2. IsFiniteSet(A \cup B)
    BY <1>1, FS_Union
  <2>3. Cardinality(A \cap B) = 0
    BY <1>2, FS_EmptySet
  <2>4. Cardinality(A) \in Nat /\ Cardinality(B) \in Nat
    BY <1>1, FS_CardinalityType
  <2> QED BY <2>1, <2>2, <2>3, <2>4
<1>4. Cardinality(idle) = Cardinality(A \cup B) + Cardinality(C)
  <2>1. Cardinality(idle) = Cardinality(A \cup B) + Cardinality(C)
                              - Cardinality((A \cup B) \cap C)
    BY <1>1, <1>2, <1>3, FS_Union
  <2>2. Cardinality((A \cup B) \cap C) = 0
    BY <1>2, FS_EmptySet
  <2>3. Cardinality(A \cup B) \in Nat /\ Cardinality(C) \in Nat
    BY <1>1, <1>3, FS_CardinalityType
  <2> QED BY <2>1, <2>2, <2>3
<1>5. effectiveTotalCountAll =
        (Cardinality(A) + outCount["low_latency"]) + (Cardinality(B) + outCount["anonymous"])
          + (Cardinality(C) + outCount["country"]) + pendingTotal
  BY DEF effectiveTotalCountAll, totalCountAll, totalCount, A, B, C
<1>6. /\ Cardinality(A) \in Nat /\ Cardinality(B) \in Nat /\ Cardinality(C) \in Nat
      /\ outCount["low_latency"] \in Nat /\ outCount["anonymous"] \in Nat
      /\ outCount["country"] \in Nat /\ pendingTotal \in Nat
  BY <1>1, FS_CardinalityType DEF TypeOK, Kinds
<1> QED BY <1>3, <1>4, <1>5, <1>6 DEF OutTotal

\* One circuit more or less on the lent books moves OutTotal by one.
LEMMA OutMoves ==
  ASSUME TypeOK, NEW c \in Circuits, NEW d \in {-1, 1},
         outCount' = [outCount EXCEPT ![KindOf[c]] = @ + d]
  PROVE  OutTotal' = OutTotal + d
<1>1. KindOf[c] = "low_latency" \/ KindOf[c] = "anonymous" \/ KindOf[c] = "country"
  BY PoolAssumption DEF Kinds
<1>2. /\ outCount["low_latency"] \in Nat /\ outCount["anonymous"] \in Nat
      /\ outCount["country"] \in Nat
      /\ DOMAIN outCount = {"low_latency", "anonymous", "country"}
  BY DEF TypeOK, Kinds
<1>3. /\ outCount'["low_latency"] = outCount["low_latency"]
                                      + (IF KindOf[c] = "low_latency" THEN d ELSE 0)
      /\ outCount'["anonymous"] = outCount["anonymous"]
                                      + (IF KindOf[c] = "anonymous" THEN d ELSE 0)
      /\ outCount'["country"] = outCount["country"] + (IF KindOf[c] = "country" THEN d ELSE 0)
  BY <1>2
<1> QED BY <1>1, <1>2, <1>3 DEF OutTotal

\* A step that changes none of the parts of Weight.
LEMMA CapQuiet ==
  ASSUME CapInv, UNCHANGED <<idle, outCount, pendingTotal, maxTotal>>,
         \A x \in Conns : pc'[x] = "returning" <=> pc[x] = "returning"
  PROVE  CapInv'
<1>1. Returning' = Returning
  BY DEF Returning
<1> QED BY <1>1 DEF CapInv, Weight, OutTotal

\* A step that takes circuits off the idle lists only.
LEMMA CapRemoves ==
  ASSUME TypeOK, CapInv, UNCHANGED <<outCount, pendingTotal, maxTotal, pc>>,
         idle' \subseteq idle
  PROVE  CapInv'
<1>1. Returning' = Returning /\ OutTotal' = OutTotal
  BY DEF Returning, OutTotal
<1>2. Cardinality(idle') <= Cardinality(idle) /\ Cardinality(idle') \in Nat
  BY WeightParts, FS_Subset, FS_CardinalityType
<1>3. TopTotal \in Nat
  BY PoolAssumption
<1> QED BY <1>1, <1>2, <1>3, WeightParts DEF CapInv, Weight

\* A reservation is only made below maxTotal, so it keeps Weight within bounds
\* however many handlers are returning a circuit.
LEMMA CapReserves ==
  ASSUME TypeOK, CapInv, ~(effectiveTotalCountAll >= maxTotal),
         UNCHANGED <<idle, outCount, maxTotal>>,
         pendingTotal' = pendingTotal + 1,
         \A x \in Conns : pc'[x] = "returning" <=> pc[x] = "returning"
  PROVE  CapInv'
<1>1. Returning' = Returning /\ OutTotal' = OutTotal
  BY DEF Returning, OutTotal
<1>2. Cardinality(idle) + OutTotal + pendingTotal + 1 <= TopTotal
  BY PoolAssumption, IdleSum, WeightParts DEF CapInv, TypeOK
<1> QED BY <1>1, <1>2, WeightParts, PoolAssumption DEF CapInv, Weight

\* A step that gives a reservation up.
LEMMA CapCancels ==
  ASSUME TypeOK, CapInv, NEW k, CancelReservedBuild(k), UNCHANGED <<idle, outCount, maxTotal>>,
         \A x \in Conns : pc'[x] = "returning" <=> pc[x] = "returning"
  PROVE  CapInv'
<1>1. Returning' = Returning /\ OutTotal' = OutTotal
  BY DEF Returning, OutTotal
<1>2. pendingTotal' <= pendingTotal /\ pendingTotal' \in Int
  BY WeightParts DEF CancelReservedBuild
<1> QED BY <1>1, <1>2, WeightParts, PoolAssumption DEF CapInv, Weight

\* A step that takes one circuit off the lent books and puts it nowhere, or
\* touches no counter.
LEMMA CapFails ==
  ASSUME TypeOK, CapInv, NEW c \in Circuits, UNCHANGED <<idle, pendingTotal, maxTotal>>,
         \/ UNCHANGED outCount
         \/ outCount' = [outCount EXCEPT ![KindOf[c]] = @ - 1],
         \A x \in Conns : pc'[x] = "returning" <=> pc[x] = "returning"
  PROVE  CapInv'
<1>1. Returning' = Returning
  BY DEF Returning
<1>2. CASE UNCHANGED outCount
  BY <1>2, CapQuiet
<1>3. CASE outCount' = [outCount EXCEPT ![KindOf[c]] = @ - 1]
  <2>1. KindOf[c] \in Kinds /\ outCount \in [Kinds -> Nat]
    BY PoolAssumption DEF TypeOK
  <2>2. outCount' = [outCount EXCEPT ![KindOf[c]] = @ + (-1)]
    BY <1>3, <2>1
  <2>3. OutTotal' = OutTotal + (-1)
    BY <2>2, OutMoves
  <2> QED BY <1>1, <2>3, WeightParts, PoolAssumption DEF CapInv, Weight
<1> QED BY <1>2, <1>3

\* CapInv is inductive: the two halves of ReturnToPool move a circuit within Weight,
\* and only a reservation, made below maxTotal, adds to it.
LEMMA CapacityStep ==
  ASSUME TypeOK, Threads, OnePlace, PendingExact, CapInv, Next
  PROVE  CapInv'
<1>1. ASSUME NEW x \in Conns,
            \/ Connect(x) \/ GetFromPool(x) \/ ProbeInUse(x) \/ ProbeIdle(x) \/ RegisterStream(x)
            \/ BeginSucceeds(x) \/ BeginFails(x) \/ ReplySent(x) \/ ReplyFails(x) \/ ClientCloses(x)
            \/ UDPTeardown(x) \/ CloseFailed(x) \/ Unregister(x) \/ BuildSucceeds(x) \/ TakeInUse(x)
     PROVE  CapInv'
  BY <1>1, CapQuiet
     DEF Connect, GetFromPool, ProbeInUse, ProbeIdle, RegisterStream, BeginSucceeds,
         BeginFails, ReplySent, ReplyFails, ClientCloses, UDPTeardown, CloseFailed, Unregister,
         BuildSucceeds, TakeInUse, TypeOK
<1>2. ASSUME NEW x \in Conns, TakeIdle(x)
     PROVE  CapInv'
  <2> DEFINE stale == snapIdle[x] \cap idle
  <2>1. Returning' = Returning /\ UNCHANGED <<pendingTotal, maxTotal>>
    BY <1>2 DEF TakeIdle, Returning, TypeOK
  <2>2. CASE cid[x] \in idle \ stale
    <3>1. cid[x] \in Circuits /\ Lend(cid[x]) /\ idle' \subseteq idle \ {cid[x]}
      BY <1>2, <2>2 DEF TakeIdle, TypeOK, RemoveIdle
    <3>2. KindOf[cid[x]] \in Kinds /\ outCount \in [Kinds -> Nat]
      BY <3>1, PoolAssumption DEF TypeOK
    <3>3. OutTotal' = OutTotal + 1
      BY <3>1, <3>2, OutMoves DEF Lend
    <3>4. IsFiniteSet(idle \ {cid[x]}) /\ Cardinality(idle \ {cid[x]}) = Cardinality(idle) - 1
      BY <2>2, WeightParts, FS_RemoveElement
    <3>5. Cardinality(idle') <= Cardinality(idle) - 1 /\ Cardinality(idle') \in Nat
      BY <3>1, <3>4, FS_Subset, FS_CardinalityType
    <3> QED BY <2>1, <3>3, <3>5, WeightParts, PoolAssumption DEF CapInv, Weight
  <2>3. CASE cid[x] \notin idle \ stale
    <3>1. UNCHANGED outCount /\ idle' \subseteq idle
      BY <1>2, <2>3 DEF TakeIdle, RemoveIdle
    <3>2. Cardinality(idle') <= Cardinality(idle) /\ Cardinality(idle') \in Nat
      BY <3>1, WeightParts, FS_Subset, FS_CardinalityType
    <3> QED BY <2>1, <3>1, <3>2, WeightParts, PoolAssumption DEF CapInv, Weight, OutTotal
  <2> QED BY <2>2, <2>3
<1>3. ASSUME NEW x \in Conns, TryReserveBuild(x)
     PROVE  CapInv'
  <2>1. CASE AtCapacity(ClientKind)
    BY <1>3, <2>1, CapQuiet DEF TryReserveBuild, TypeOK
  <2>2. CASE ~AtCapacity(ClientKind)
    BY <1>3, <2>2, CapReserves DEF TryReserveBuild, AtCapacity, AddReservation, TypeOK
  <2> QED BY <2>1, <2>2
<1>4. ASSUME NEW x \in Conns, BuildFails(x)
     PROVE  CapInv'
  BY <1>4, CapCancels DEF BuildFails, TypeOK
<1>5. ASSUME NEW x \in Conns, RegisterCircuitInUse(x)
     PROVE  CapInv'
  <2>1. cid[x] \in Circuits /\ Lend(cid[x]) /\ UNCHANGED <<idle, maxTotal>>
    BY <1>5 DEF RegisterCircuitInUse, Threads, Named
  <2>2. Returning' = Returning
    BY <1>5 DEF RegisterCircuitInUse, Returning, TypeOK
  <2>3. OutTotal' = OutTotal + 1
    BY <2>1, OutMoves DEF Lend
  <2>4. x \in BuildersOf(ClientKind) /\ ClientKind \in Kinds
    BY <1>5 DEF RegisterCircuitInUse, BuildersOf, ClientKind, Kinds
  <2>5. Cardinality(BuildersOf(ClientKind)) > 0
    BY <2>4, BuildsType, FS_EmptySet
  <2>6. pendingByKind[ClientKind] > 0
    BY <2>4, <2>5, BuildsType DEF PendingExact
  <2>7. pendingTotal' = pendingTotal - 1
    BY <1>5, <2>6 DEF RegisterCircuitInUse, ConsumeReservation
  <2> QED BY <2>1, <2>2, <2>3, <2>7, WeightParts, PoolAssumption DEF CapInv, Weight
<1>6. ASSUME NEW x \in Conns, ReturnToPool(x)
     PROVE  CapInv'
  <2>1. cid[x] \in Circuits
    BY <1>6 DEF ReturnToPool, Threads, Named
  <2>2. CASE cid[x] \notin registered \/ streams[cid[x]] # 1
    BY <1>6, <2>1, <2>2, CapQuiet DEF ReturnToPool, LastStream, TypeOK
  <2>3. CASE cid[x] \in registered /\ streams[cid[x]] = 1
    <3>1. /\ outCount' = [outCount EXCEPT ![KindOf[cid[x]]] = outCount[KindOf[cid[x]]] - 1]
          /\ UNCHANGED <<idle, pendingTotal, maxTotal>>
      BY <1>6, <2>3 DEF ReturnToPool, LastStream
    <3>2. Returning' = Returning \cup {x} /\ x \notin Returning
      BY <1>6, <2>3 DEF ReturnToPool, LastStream, Returning, TypeOK
    <3>3. Cardinality(Returning') = Cardinality(Returning) + 1
      BY <3>2, WeightParts, FS_AddElement
    <3>4. KindOf[cid[x]] \in Kinds /\ outCount \in [Kinds -> Nat]
      BY <2>1, PoolAssumption DEF TypeOK
    <3>5. outCount' = [outCount EXCEPT ![KindOf[cid[x]]] = outCount[KindOf[cid[x]]] + (-1)]
      BY <3>1, <3>4
    <3>6. OutTotal' = OutTotal + (-1)
      BY <2>1, <3>5, OutMoves
    <3> QED BY <3>1, <3>3, <3>6, WeightParts, PoolAssumption DEF CapInv, Weight
  <2> QED BY <2>2, <2>3
<1>7. ASSUME NEW x \in Conns, ReturnFinish(x)
     PROVE  CapInv'
  <2>1. Returning' = Returning \ {x} /\ x \in Returning
    BY <1>7 DEF ReturnFinish, Returning, TypeOK
  <2>2. Cardinality(Returning') = Cardinality(Returning) - 1
    BY <2>1, WeightParts, FS_RemoveElement
  <2>3. UNCHANGED <<outCount, pendingTotal, maxTotal>>
    BY <1>7 DEF ReturnFinish
  <2>4. idle' = idle \/ idle' = idle \cup {cid[x]}
    BY <1>7 DEF ReturnFinish, AppendIdle
  <2>5. Cardinality(idle') <= Cardinality(idle) + 1 /\ Cardinality(idle') \in Nat
    <3>1. Cardinality(idle \cup {cid[x]}) = Cardinality(idle) + 1
      BY <2>1, WeightParts, FS_AddElement DEF OnePlace
    <3>2. Cardinality(idle) \in Nat
      BY WeightParts
    <3>3. Cardinality(idle') = Cardinality(idle) \/ Cardinality(idle') = Cardinality(idle) + 1
      BY <2>4, <3>1
    <3> QED BY <3>2, <3>3
  <2> QED BY <2>2, <2>3, <2>5, WeightParts, PoolAssumption DEF CapInv, Weight, OutTotal
<1>8. ASSUME NEW x \in Conns, MarkCircuitFailed(x)
     PROVE  CapInv'
  BY <1>8, CapFails DEF MarkCircuitFailed, PoolMarkFailed, Threads, Named, TypeOK
<1>9. ASSUME NEW c \in Circuits, LinkBreaks(c) \/ HeartbeatUnhealthy(c) \/ HeartbeatHighRTT(c)
     PROVE  CapInv'
  BY <1>9, CapQuiet
     DEF LinkBreaks, HeartbeatUnhealthy, HeartbeatHighRTT, TypeOK
<1>10. ASSUME NEW c \in Circuits, NotifyCircuitClosed(c)
     PROVE  CapInv'
  BY <1>10, CapFails DEF NotifyCircuitClosed, TypeOK
<1>11. CASE \/ HeartbeatClose \/ MaintTick \/ EvictCount \/ CloseEvicted \/ CloseTrimmed
          \/ ReplenishBuilt
  BY <1>11, CapQuiet
     DEF HeartbeatClose, MaintTick, EvictCount, CloseEvicted, CloseTrimmed, ReplenishBuilt,
         TypeOK
<1>12. CASE HeartbeatMark
  BY <1>12, CapFails DEF HeartbeatMark, PoolMarkFailed, Threads
<1>13. CASE EvictCut
  BY <1>13, CapRemoves DEF EvictCut, RemoveIdle
<1>14. CASE TrimExcessIdle
  BY <1>14, CapRemoves DEF TrimExcessIdle, RemoveIdle
<1>15. CASE Replenish
  <2>1. CASE UNCHANGED pendingTotal
    BY <1>15, <2>1, CapQuiet DEF Replenish
  <2>2. CASE ~UNCHANGED pendingTotal
    <3>1. ~(effectiveTotalCountAll >= maxTotal) /\ pendingTotal' = pendingTotal + 1
      BY <1>15, <2>2 DEF Replenish, AddReservation
    <3> QED BY <1>15, <3>1, CapReserves DEF Replenish
  <2> QED BY <2>1, <2>2
<1>16. CASE ReplenishFails
  BY <1>16, CapCancels DEF ReplenishFails
<1>17. CASE RegisterPoolCircuit
  <2>1. building \in Circuits /\ building \notin idle /\ KindOf[building] \in Kinds
    BY <1>17, PoolAssumption DEF RegisterPoolCircuit, Threads, Unseen
  <2>2. Returning' = Returning /\ UNCHANGED <<outCount,
         maxTotal>> /\ idle' = idle \cup {building}
    BY <1>17 DEF RegisterPoolCircuit, Returning, AppendIdle
  <2>3. Cardinality(idle') = Cardinality(idle) + 1
    BY <2>1, <2>2, WeightParts, FS_AddElement
  <2>4. MaintBuilds(KindOf[building]) = 1
    BY <1>17, <2>1 DEF RegisterPoolCircuit, MaintBuilds
  <2>5. pendingByKind[KindOf[building]] > 0
    BY <2>1, <2>4, BuildsType DEF PendingExact
  <2>6. pendingTotal' = pendingTotal - 1
    BY <1>17, <2>5 DEF RegisterPoolCircuit, ConsumeReservation
  <2> QED BY <2>2, <2>3, <2>6, WeightParts, PoolAssumption DEF CapInv, Weight, OutTotal
<1>18. ASSUME NEW l \in Limits, SetTotalLimits(l)
     PROVE  CapInv'
  <2>1. UNCHANGED <<idle, outCount, pendingTotal, pc>> /\ maxTotal' <= TopTotal
    BY <1>18, PoolAssumption DEF SetTotalLimits
  <2> QED BY <2>1 DEF CapInv, Weight, OutTotal, Returning
<1> QED
  BY <1>1, <1>2, <1>3, <1>4, <1>5, <1>6, <1>7, <1>8, <1>9, <1>10, <1>11, <1>12, <1>13, <1>14,
         <1>15, <1>16, <1>17, <1>18
     DEF Next, Handler, Acquire, Use, Release, User, Heartbeat, Maintain

----------------------------------------------------------------------------
(* The theorems.                                                           *)

PoolInv == TypeOK /\ Threads /\ OnePlace /\ OutCountExact /\ PendingExact /\ CapInv

\* The empty pool of NewCircuitPool satisfies the invariant.
LEMMA PoolInvInit == Init => PoolInv
<1> SUFFICES ASSUME Init PROVE PoolInv
  OBVIOUS
<1>1. TypeOK
  <2>1. minTotal \in Int /\ maxTotal \in Int
    BY PoolAssumption DEF Init, NormalMin, NormalMax, AtLeastOne
  <2>2. shared \in BOOLEAN /\ panicked \in BOOLEAN
    BY Zenon DEF Init
  <2>3. /\ idle \subseteq Circuits /\ registered \subseteq Circuits
        /\ older \subseteq Circuits \X Circuits
    BY DEF Init
  <2>4. /\ pc \in [Conns -> ConnSteps] /\ cid \in [Conns -> Circuits \cup {NoCircuit}]
        /\ snapInUse \in [Conns -> SUBSET Circuits] /\ snapIdle \in [Conns -> SUBSET Circuits]
        /\ stream \in [Conns -> Circuits \cup {NoCircuit}]
    BY DEF Init, ConnSteps
  <2>5. hb \in [circuit : Circuits \cup {NoCircuit}, step : {"wait", "mark", "close"}]
    BY DEF Init
  <2> QED BY <2>1, <2>2, <2>3, <2>4, <2>5 DEF Init, TypeOK, MaintSteps, LinkStates
<1>2. Threads /\ OnePlace
  BY DEF Init, Threads, Named, OnePlace, Returning
<1>3. OutCountExact
  <2>1. \A k \in Kinds : LentOf(k) = {}
    BY DEF Init, LentOf
  <2> QED BY <2>1, FS_EmptySet DEF Init, OutCountExact
<1>4. PendingExact
  <2>1. \A k \in Kinds : BuildersOf(k) = {} /\ MaintBuilds(k) = 0
    BY DEF Init, BuildersOf, MaintBuilds
  <2>2. \A k \in Kinds : Cardinality(BuildersOf(k)) + MaintBuilds(k) = 0
    BY <2>1, FS_EmptySet
  <2> QED BY <2>2 DEF Init, PendingExact, Kinds
<1>5. CapInv
  <2>1. Cardinality(idle) = 0 /\ Cardinality(Returning) = 0
    BY FS_EmptySet DEF Init, Returning
  <2>2. OutTotal = 0 /\ pendingTotal = 0 /\ maxTotal <= TopTotal
    BY PoolAssumption DEF Init, OutTotal, Kinds
  <2> QED BY <1>1, <2>1, <2>2, WeightParts, PoolAssumption DEF CapInv, Weight
<1> QED BY <1>1, <1>2, <1>3, <1>4, <1>5 DEF PoolInv

\* Every step of any goroutine preserves the invariant.
LEMMA PoolInvStep == PoolInv /\ [Next]_vars => PoolInv'
<1> SUFFICES ASSUME PoolInv, [Next]_vars PROVE PoolInv'
  OBVIOUS
<1>1. CASE Next
  <2>1. Threads' /\ OnePlace'
    BY <1>1, ThreadsStep, OnePlaceStep DEF PoolInv
  <2>2. OutCountExact' /\ outCount' \in [Kinds -> Nat]
    BY <1>1, OutCountStep DEF PoolInv
  <2>3. PendingExact' /\ pendingByKind' \in [Kinds -> Nat] /\ pendingTotal' \in Nat
    BY <1>1, PendingStep DEF PoolInv
  <2>4. TypeOK'
    BY <1>1, <2>2, <2>3, TypeStep DEF PoolInv
  <2>5. CapInv'
    BY <1>1, CapacityStep DEF PoolInv
  <2> QED BY <2>1, <2>2, <2>3, <2>4, <2>5 DEF PoolInv
<1>2. CASE UNCHANGED vars
  <2>1. TypeOK' /\ Threads' /\ OnePlace'
    BY <1>2 DEF PoolInv, vars, TypeOK, Threads, Unseen, OnePlace, Returning
  <2>2. OutCountExact' /\ PendingExact' /\ CapInv'
    BY <1>2 DEF PoolInv, vars, OutCountExact, LentOf, PendingExact, BuildersOf, MaintBuilds,
       CapInv, Weight, OutTotal, Returning
  <2> QED BY <2>1, <2>2 DEF PoolInv
<1> QED BY <1>1, <1>2

\* The inductive invariant holds throughout every behaviour.
THEOREM PoolInvariant == Spec => []PoolInv
  BY PoolInvInit, PoolInvStep, PTL DEF Spec

\* Type correctness; in particular no interleaving of the handlers, the
\* maintenance loop and the heartbeat makes a counter of the pool negative.
THEOREM TypeCorrect == Spec => []TypeOK
<1>1. PoolInv => TypeOK
  BY DEF PoolInv
<1> QED BY <1>1, PoolInvariant, PTL

\* A circuit is never idle while it is lent or on its way back, although
\* ReturnToPool unlocks in the middle.
THEOREM OnePlaceAlways == Spec => []OnePlace
<1>1. PoolInv => OnePlace
  BY DEF PoolInv
<1> QED BY <1>1, PoolInvariant, PTL

\* outCount always equals the number of circuits that carry a stream.
THEOREM OutCountCorrect == Spec => []OutCountExact
<1>1. PoolInv => OutCountExact
  BY DEF PoolInv
<1> QED BY <1>1, PoolInvariant, PTL

\* pendingByKind and pendingTotal always equal the number of builds in progress.
THEOREM PendingCorrect == Spec => []PendingExact
<1>1. PoolInv => PendingExact
  BY DEF PoolInv
<1> QED BY <1>1, PoolInvariant, PTL

\* The pool never commits to more circuits than maxTotal and one for each
\* connection.
THEOREM CapacityBounded == Spec => []CapacityBound
<1>1. PoolInv => CapacityBound
  <2> SUFFICES ASSUME PoolInv PROVE CapacityBound
    OBVIOUS
  <2>1. TypeOK /\ CapInv
    BY DEF PoolInv
  <2>2. /\ outCount["low_latency"] \in Nat /\ outCount["anonymous"] \in Nat
        /\ outCount["country"] \in Nat
    BY <2>1 DEF TypeOK, Kinds
  <2> QED BY <2>1, <2>2, WeightParts, PoolAssumption
          DEF CapacityBound, Committed, CapInv, Weight, OutTotal
<1> QED BY <1>1, PoolInvariant, PTL

----------------------------------------------------------------------------
(* Who holds a circuit.                                                    *)

\* The stream of c is open, whatever the heartbeat thinks of it.
Live(c) == link[c] \in {"up", "sick"}

\* The stream a handler has registered is on the circuit it holds.
Tied ==
    \A x \in Conns : pc[x] \in {"begin", "reply", "streaming", "drained"} => stream[x] \in {cid[x], NoCircuit}

\* The stream count of a circuit on the books, until its stream breaks; then
\* returns, failures and notifications may each have counted a handler.
CountsLive == \A c \in registered : Live(c) => streams[c] = Cardinality(HoldersOf(c))

\* A circuit on its way back to the idle list, on the books or not any more.
BackNotHeld == \A x \in Returning : Live(cid[x]) => HoldersOf(cid[x]) = {}

HoldInv == Tied /\ CountsLive /\ BackNotHeld /\ IdleNotHeld

\* The holders of a circuit can be counted, before and after a step.
LEMMA HoldersFinite ==
  \A c : /\ HoldersOf(c) \subseteq Conns /\ IsFiniteSet(HoldersOf(c)) /\ IsFiniteSet(HoldersOf(c)')
         /\ Cardinality(HoldersOf(c)) \in Nat
  BY PoolAssumption, FS_Subset, FS_CardinalityType DEF HoldersOf

\* Handler x changes, the others do not.
LEMMA OneHandler ==
  ASSUME TypeOK, NEW x \in Conns, NEW step, NEW d,
         pc' = [pc EXCEPT ![x] = step], cid' = [cid EXCEPT ![x] = d]
  PROVE  /\ pc'[x] = step /\ cid'[x] = d
         /\ \A y \in Conns : y # x => pc'[y] = pc[y] /\ cid'[y] = cid[y]
  BY DEF TypeOK

\* A step that gives no circuit a holder, and takes none from a circuit that
\* stays on the books with its stream open.
LEMMA HoldQuiet ==
  ASSUME HoldInv, Tied',
         \A c \in Circuits : HoldersOf(c)' \subseteq HoldersOf(c),
         \A c \in registered' : Live(c)' => /\ c \in registered /\ Live(c) /\ streams'[c] = streams[c]
                                            /\ HoldersOf(c)' = HoldersOf(c),
         \A x \in Returning' : /\ x \in Returning /\ cid'[x] = cid[x] /\ cid[x] \in Circuits
                               /\ Live(cid[x])' => Live(cid[x]),
         \A c \in idle' : c \in Circuits /\ c \in idle
  PROVE  HoldInv'
<1>1. CountsLive'
  BY DEF HoldInv, CountsLive
<1>2. BackNotHeld'
  BY DEF HoldInv, BackNotHeld
<1>3. IdleNotHeld'
  BY DEF HoldInv, IdleNotHeld
<1> QED BY <1>1, <1>2, <1>3 DEF HoldInv

\* HoldInv is inductive given PoolInv.
LEMMA HoldStep ==
  ASSUME PoolInv, HoldInv, Next
  PROVE  HoldInv'
<1> USE NoCircuitApart
<1>0. TypeOK /\ Threads /\ OnePlace
  BY DEF PoolInv
<1>1. ASSUME NEW x \in Conns,
            \/ Connect(x) \/ GetFromPool(x) \/ ProbeInUse(x) \/ ProbeIdle(x) \/ RegisterStream(x)
            \/ BeginSucceeds(x) \/ BeginFails(x) \/ ReplySent(x) \/ ReplyFails(x) \/ ClientCloses(x)
            \/ UDPTeardown(x) \/ CloseFailed(x) \/ Unregister(x)
     PROVE  HoldInv'
  <2>1. UNCHANGED poolVars /\ \A c \in Circuits : Live(c)' => Live(c)
    BY <1>0, <1>1
       DEF Connect, GetFromPool, ProbeInUse, ProbeIdle, RegisterStream, BeginSucceeds, IsCircuitOpen,
           BeginFails, ReplySent, ReplyFails, ClientCloses, UDPTeardown, CloseFailed, Unregister,
           TypeOK, Live, CloseCircuit
  <2>2. /\ \A y \in Conns : y # x => pc'[y] = pc[y] /\ cid'[y] = cid[y] /\ stream'[y] = stream[y]
        /\ Holding(x)' <=> Holding(x)
        /\ Holding(x) => cid'[x] = cid[x]
        /\ pc'[x] # "returning"
        /\ pc'[x] \in {"begin", "reply", "streaming", "drained"} => stream'[x] \in {cid'[x], NoCircuit}
    BY <1>0, <1>1
       DEF Connect, GetFromPool, ProbeInUse, ProbeIdle, RegisterStream, BeginSucceeds, HoldInv, Tied,
           BeginFails, ReplySent, ReplyFails, ClientCloses, UDPTeardown, CloseFailed, Unregister,
           TypeOK, Holding
  <2>3. Tied'
    BY <2>2 DEF HoldInv, Tied
  <2>4. \A c \in Circuits : HoldersOf(c)' = HoldersOf(c)
    BY <2>2 DEF HoldersOf, Holding
  <2>5. \A y \in Returning' : y \in Returning /\ cid'[y] = cid[y] /\ cid[y] \in Circuits
    BY <1>0, <2>2 DEF Returning, Threads, Named
  <2> QED BY <1>0, <2>1, <2>3, <2>4, <2>5, HoldQuiet DEF TypeOK
<1>2. ASSUME NEW x \in Conns, BuildSucceeds(x)
     PROVE  HoldInv'
  <2>1. PICK c \in Circuits : /\ Fresh(c) /\ link' = [link EXCEPT ![c] = "up"]
                              /\ pc[x] = "build" /\ pc' = [pc EXCEPT ![x] = "register"]
                              /\ cid' = [cid EXCEPT ![x] = c] /\ UNCHANGED <<poolVars, stream>>
    BY <1>2 DEF BuildSucceeds, CircuitCreated
  <2>2. /\ \A y \in Conns : y # x => pc'[y] = pc[y] /\ cid'[y] = cid[y]
        /\ pc'[x] = "register"
    BY <1>0, <2>1, OneHandler
  <2>3. \A d \in Circuits : d # c => (Live(d)' => Live(d))
    BY <1>0, <2>1 DEF TypeOK, Live
  <2>4. c \notin registered /\ \A y \in Conns : cid[y] # c
    BY <2>1 DEF Fresh
  <2>5. Tied'
    BY <2>1, <2>2 DEF HoldInv, Tied
  <2>6. \A d \in Circuits : HoldersOf(d)' = HoldersOf(d)
    BY <2>1, <2>2 DEF HoldersOf, Holding
  <2>7. \A y \in Returning' : y \in Returning /\ cid'[y] = cid[y] /\ cid[y] \in Circuits
    BY <1>0, <2>2 DEF Returning, Threads, Named
  <2>8. \A d \in registered' : Live(d)' => /\ d \in registered /\ Live(d) /\ streams'[d] = streams[d]
                                           /\ HoldersOf(d)' = HoldersOf(d)
    BY <1>0, <2>1, <2>3, <2>4, <2>6 DEF TypeOK, poolVars
  <2>9. \A y \in Returning' : Live(cid[y])' => Live(cid[y])
    BY <2>3, <2>4, <2>7 DEF Returning
  <2>10. \A d \in idle' : d \in Circuits /\ d \in idle
    BY <1>0, <2>1 DEF TypeOK, poolVars
  <2> QED BY <2>5, <2>6, <2>7, <2>8, <2>9, <2>10, HoldQuiet
<1>3. ASSUME NEW x \in Conns, TakeInUse(x)
     PROVE  HoldInv'
  <2> DEFINE c == cid[x]
  <2>1. /\ pc[x] = "takeInUse" /\ c \in Circuits /\ UNCHANGED <<registered, idle, link, stream>>
    BY <1>0, <1>3 DEF TakeInUse, Threads, Named
  <2>2. CASE c \in registered /\ streams[c] > 0
    <3>1. /\ streams' = [streams EXCEPT ![c] = @ + 1] /\ pc' = [pc EXCEPT ![x] = "held"] /\ cid' = cid
      BY <1>3, <2>2 DEF TakeInUse, AddStream
    <3>2. pc'[x] = "held" /\ \A y \in Conns : y # x => pc'[y] = pc[y]
      BY <1>0, <3>1 DEF TypeOK
    <3>3. \A d \in Circuits : HoldersOf(d)' = IF d = c THEN HoldersOf(d) \cup {x} ELSE HoldersOf(d)
      BY <2>1, <3>1, <3>2 DEF HoldersOf, Holding
    <3>4. x \notin HoldersOf(c)
      BY <2>1 DEF HoldersOf, Holding
    <3>5. \A d \in registered : Live(d)' => streams'[d] = Cardinality(HoldersOf(d)')
      <4>1. Cardinality(HoldersOf(c)') = Cardinality(HoldersOf(c)) + 1
        <5> DEFINE S == HoldersOf(c)
        <5>1. HoldersOf(c)' = S \cup {x}
          BY <2>1, <3>1, <3>3
        <5>2. IsFiniteSet(S) /\ x \notin S
          BY <3>4, HoldersFinite
        <5> HIDE DEF S
        <5>3. Cardinality(S \cup {x}) = Cardinality(S) + 1
          BY <5>2, FS_AddElement
        <5> QED BY <5>1, <5>3 DEF S
      <4>2. ASSUME NEW d \in registered, Live(d)' PROVE streams'[d] = Cardinality(HoldersOf(d)')
        <5>1. d \in Circuits /\ streams[d] = Cardinality(HoldersOf(d))
          BY <1>0, <2>1, <4>2 DEF HoldInv, CountsLive, TypeOK, Live
        <5>2. CASE d = c
          <6>1. streams'[d] = streams[d] + 1
            BY <1>0, <3>1, <5>1, <5>2 DEF TypeOK
          <6> QED BY <3>1, <4>1, <5>1, <5>2, <6>1
        <5>3. CASE d # c
          BY <1>0, <3>1, <3>3, <5>1, <5>3 DEF TypeOK
        <5> QED BY <5>2, <5>3
      <4> QED BY <4>2
    <3>6. \A y \in Returning' : y \in Returning /\ cid'[y] = cid[y] /\ cid[y] # c /\ cid[y] \in Circuits
      BY <1>0, <2>2, <3>1, <3>2 DEF Returning, OnePlace, Threads, Named
    <3>7. \A d \in idle : d # c
      BY <1>0, <2>2 DEF OnePlace
    <3>8. Tied'
      BY <2>1, <3>1, <3>2 DEF HoldInv, Tied
    <3>9. BackNotHeld'
      BY <2>1, <3>3, <3>6 DEF HoldInv, BackNotHeld, Live
    <3>10. IdleNotHeld'
      BY <1>0, <2>1, <3>3, <3>7 DEF HoldInv, IdleNotHeld, TypeOK
    <3> QED BY <2>1, <3>5, <3>8, <3>9, <3>10 DEF HoldInv, CountsLive
  <2>3. CASE ~(c \in registered /\ streams[c] > 0)
    <3>1. /\ UNCHANGED streams /\ pc' = [pc EXCEPT ![x] = "probeIdle"] /\ cid' = [cid EXCEPT ![x] = NoCircuit]
      BY <1>3, <2>3 DEF TakeInUse
    <3>2. /\ pc'[x] = "probeIdle"
          /\ \A y \in Conns : y # x => pc'[y] = pc[y] /\ cid'[y] = cid[y]
      BY <1>0, <3>1, OneHandler
    <3>3. \A d \in Circuits : HoldersOf(d)' = HoldersOf(d)
      BY <2>1, <3>2 DEF HoldersOf, Holding
    <3>4. \A y \in Returning' : y \in Returning /\ cid'[y] = cid[y] /\ cid[y] \in Circuits
      BY <1>0, <3>2 DEF Returning, Threads, Named
    <3>5. Tied'
      BY <2>1, <3>2 DEF HoldInv, Tied
    <3> QED BY <1>0, <2>1, <3>1, <3>3, <3>4, <3>5, HoldQuiet DEF TypeOK, Live
  <2> QED BY <2>2, <2>3
<1>4. ASSUME NEW x \in Conns, TakeIdle(x)
     PROVE  HoldInv'
  <2> DEFINE c == cid[x]
             stale == snapIdle[x] \cap idle
  <2>1. /\ pc[x] = "takeIdle" /\ registered' = registered \ stale /\ idle' \subseteq idle
        /\ UNCHANGED <<link, stream>>
    BY <1>4 DEF TakeIdle, RemoveIdle
  <2>2. CASE c \in idle \ stale
    <3>1. /\ streams' = [streams EXCEPT ![c] = 1] /\ pc' = [pc EXCEPT ![x] = "held"] /\ cid' = cid
          /\ c \notin idle' /\ c \in Circuits
      BY <1>0, <1>4, <2>2 DEF TakeIdle, Lend, RemoveIdle, TypeOK
    <3>2. pc'[x] = "held" /\ \A y \in Conns : y # x => pc'[y] = pc[y]
      BY <1>0, <3>1 DEF TypeOK
    <3>3. \A d \in Circuits : HoldersOf(d)' = IF d = c THEN {x} ELSE HoldersOf(d)
      <4>1. HoldersOf(c) = {}
        BY <2>2 DEF HoldInv, IdleNotHeld
      <4> QED BY <2>1, <3>1, <3>2, <4>1 DEF HoldersOf, Holding
    <3>4. \A d \in registered' : Live(d)' => streams'[d] = Cardinality(HoldersOf(d)')
      <4>1. Cardinality({x}) = 1
        BY FS_Singleton
      <4>2. ASSUME NEW d \in registered', Live(d)' PROVE streams'[d] = Cardinality(HoldersOf(d)')
        <5>1. d \in Circuits /\ d \in registered /\ streams[d] = Cardinality(HoldersOf(d))
          BY <1>0, <2>1, <4>2 DEF HoldInv, CountsLive, TypeOK, Live
        <5>2. CASE d = c
          <6>1. streams'[d] = 1
            BY <1>0, <3>1, <5>1, <5>2 DEF TypeOK
          <6>2. HoldersOf(d)' = {x}
            BY <3>3, <5>1, <5>2
          <6> QED BY <4>1, <6>1, <6>2
        <5>3. CASE d # c
          BY <1>0, <3>1, <3>3, <5>1, <5>3 DEF TypeOK
        <5> QED BY <5>2, <5>3
      <4> QED BY <4>2
    <3>5. \A y \in Returning' : y \in Returning /\ cid'[y] = cid[y] /\ cid[y] # c /\ cid[y] \in Circuits
      BY <1>0, <2>2, <3>1, <3>2 DEF Returning, OnePlace, Threads, Named
    <3>6. Tied'
      BY <2>1, <3>1, <3>2 DEF HoldInv, Tied
    <3>7. BackNotHeld'
      BY <2>1, <3>3, <3>5 DEF HoldInv, BackNotHeld, Live
    <3>8. IdleNotHeld'
      BY <1>0, <2>1, <3>1, <3>3 DEF HoldInv, IdleNotHeld, TypeOK
    <3> QED BY <3>4, <3>6, <3>7, <3>8 DEF HoldInv, CountsLive
  <2>3. CASE ~(c \in idle \ stale)
    <3>1. /\ UNCHANGED streams /\ pc' = [pc EXCEPT ![x] = "reserve"] /\ cid' = [cid EXCEPT ![x] = NoCircuit]
      BY <1>4, <2>3 DEF TakeIdle
    <3>2. /\ pc'[x] = "reserve"
          /\ \A y \in Conns : y # x => pc'[y] = pc[y] /\ cid'[y] = cid[y]
      BY <1>0, <3>1, OneHandler
    <3>3. \A d \in Circuits : HoldersOf(d)' = HoldersOf(d)
      BY <2>1, <3>2 DEF HoldersOf, Holding
    <3>4. \A y \in Returning' : y \in Returning /\ cid'[y] = cid[y] /\ cid[y] \in Circuits
      BY <1>0, <3>2 DEF Returning, Threads, Named
    <3>5. Tied'
      BY <2>1, <3>2 DEF HoldInv, Tied
    <3> QED BY <1>0, <2>1, <3>1, <3>3, <3>4, <3>5, HoldQuiet DEF TypeOK, Live
  <2> QED BY <2>2, <2>3
<1>5. ASSUME NEW x \in Conns, TryReserveBuild(x) \/ BuildFails(x)
     PROVE  HoldInv'
  <2>1. /\ pc[x] \in {"reserve", "build"} /\ UNCHANGED <<idle, registered, streams, link, cid, stream>>
        /\ \E step \in {"get", "off", "build"} : pc' = [pc EXCEPT ![x] = step]
    BY <1>5 DEF TryReserveBuild, BuildFails
  <2>2. pc'[x] \in {"get", "off", "build"} /\ \A y \in Conns : y # x => pc'[y] = pc[y]
    BY <1>0, <2>1 DEF TypeOK
  <2>3. \A d \in Circuits : HoldersOf(d)' = HoldersOf(d)
    BY <2>1, <2>2 DEF HoldersOf, Holding
  <2>4. \A y \in Returning' : y \in Returning /\ cid'[y] = cid[y] /\ cid[y] \in Circuits
    BY <1>0, <2>1, <2>2 DEF Returning, Threads, Named
  <2>5. Tied'
    BY <2>1, <2>2 DEF HoldInv, Tied
  <2> QED BY <1>0, <2>1, <2>3, <2>4, <2>5, HoldQuiet DEF TypeOK, Live
<1>6. ASSUME NEW x \in Conns, RegisterCircuitInUse(x)
     PROVE  HoldInv'
  <2> DEFINE c == cid[x]
  <2>1. /\ pc[x] = "register" /\ registered' = registered \cup {c} /\ UNCHANGED <<idle, link, cid, stream>>
        /\ streams' = [streams EXCEPT ![c] = 1] /\ pc' = [pc EXCEPT ![x] = "held"]
    BY <1>6 DEF RegisterCircuitInUse, Lend
  <2>2. c \in Circuits /\ c \notin idle /\ \A y \in Conns : cid[y] = c => y = x
    BY <1>0, <2>1 DEF Threads, Unseen
  <2>3. pc'[x] = "held" /\ \A y \in Conns : y # x => pc'[y] = pc[y]
    BY <1>0, <2>1 DEF TypeOK
  <2>4. \A d \in Circuits : HoldersOf(d)' = IF d = c THEN {x} ELSE HoldersOf(d)
    BY <2>1, <2>2, <2>3 DEF HoldersOf, Holding
  <2>5. \A d \in registered' : Live(d)' => streams'[d] = Cardinality(HoldersOf(d)')
    <3>1. Cardinality({x}) = 1
      BY FS_Singleton
    <3>2. ASSUME NEW d \in registered', Live(d)' PROVE streams'[d] = Cardinality(HoldersOf(d)')
      <4>1. d \in Circuits /\ Live(d)
        BY <1>0, <2>1, <2>2, <3>2 DEF TypeOK, Live
      <4>2. CASE d = c
        <5>1. streams'[d] = 1
          BY <1>0, <2>1, <4>1, <4>2 DEF TypeOK
        <5>2. HoldersOf(d)' = {x}
          BY <2>4, <4>1, <4>2
        <5> QED BY <3>1, <5>1, <5>2
      <4>3. CASE d # c
        <5>1. streams'[d] = streams[d] /\ d \in registered
          BY <1>0, <2>1, <3>2, <4>1, <4>3 DEF TypeOK
        <5>2. HoldersOf(d)' = HoldersOf(d)
          BY <2>4, <4>1, <4>3
        <5> QED BY <4>1, <5>1, <5>2 DEF HoldInv, CountsLive
      <4> QED BY <4>2, <4>3
    <3> QED BY <3>2
  <2>6. \A y \in Returning' : y \in Returning /\ cid[y] # c /\ cid[y] \in Circuits
    BY <1>0, <2>1, <2>2, <2>3 DEF Returning, Threads, Named
  <2>7. Tied'
    BY <2>1, <2>3 DEF HoldInv, Tied
  <2>8. BackNotHeld'
    BY <2>1, <2>4, <2>6 DEF HoldInv, BackNotHeld, Live
  <2>9. IdleNotHeld'
    BY <1>0, <2>1, <2>2, <2>4 DEF HoldInv, IdleNotHeld, TypeOK
  <2> QED BY <2>5, <2>7, <2>8, <2>9 DEF HoldInv, CountsLive
<1>7. ASSUME NEW x \in Conns, ReturnToPool(x)
     PROVE  HoldInv'
  <2> DEFINE c == cid[x]
  <2>1. /\ pc[x] = "return" /\ UNCHANGED <<idle, registered, link, cid, stream>> /\ c \in Circuits
    BY <1>0, <1>7 DEF ReturnToPool, Threads, Named
  <2>2. \/ /\ c \notin registered \/ streams[c] = 0
           /\ UNCHANGED streams /\ pc' = [pc EXCEPT ![x] = "unregister"]
        \/ /\ c \in registered /\ streams[c] > 1
           /\ streams' = [streams EXCEPT ![c] = @ - 1] /\ pc' = [pc EXCEPT ![x] = "unregister"]
        \/ /\ c \in registered /\ streams[c] = 1
           /\ streams' = [streams EXCEPT ![c] = @ - 1] /\ pc' = [pc EXCEPT ![x] = "returning"]
    BY <1>0, <1>7, <2>1 DEF ReturnToPool, LastStream, TypeOK
  <2>3. /\ pc'[x] \in {"unregister", "returning"} /\ \A y \in Conns : y # x => pc'[y] = pc[y]
        /\ pc'[x] = "returning" => c \in registered /\ streams[c] = 1
        /\ c \in registered => streams[c] = 0 \/ streams'[c] = streams[c] - 1
        /\ \A d \in Circuits : d # c => streams'[d] = streams[d]
    BY <1>0, <2>1, <2>2 DEF TypeOK
  <2>4. \A d \in Circuits : HoldersOf(d)' = IF d = c THEN HoldersOf(c) \ {x} ELSE HoldersOf(d)
    BY <2>1, <2>3 DEF HoldersOf, Holding
  <2>5. x \in HoldersOf(c) /\ Cardinality(HoldersOf(c) \ {x}) = Cardinality(HoldersOf(c)) - 1
    <3>1. x \in HoldersOf(c)
      BY <2>1 DEF HoldersOf, Holding
    <3> QED BY <3>1, HoldersFinite, FS_RemoveElement
  <2>6. Cardinality(HoldersOf(c)) # 0
    BY <2>5, HoldersFinite, FS_EmptySet
  <2>7. \A d \in registered' : Live(d)' => streams'[d] = Cardinality(HoldersOf(d)')
    <3>1. ASSUME NEW d \in registered', Live(d)' PROVE streams'[d] = Cardinality(HoldersOf(d)')
      <4>1. d \in Circuits /\ d \in registered /\ streams[d] = Cardinality(HoldersOf(d))
        BY <1>0, <2>1, <3>1 DEF HoldInv, CountsLive, TypeOK, Live
      <4>2. CASE d = c
        <5>1. streams'[d] = streams[d] - 1
          BY <2>3, <2>6, <4>1, <4>2
        <5>2. HoldersOf(d)' = HoldersOf(c) \ {x}
          BY <2>4, <4>1, <4>2
        <5> QED BY <2>5, <4>1, <4>2, <5>1, <5>2
      <4>3. CASE d # c
        BY <2>3, <2>4, <4>1, <4>3
      <4> QED BY <4>2, <4>3
    <3> QED BY <3>1
  <2>8. ASSUME NEW y \in Returning', Live(cid[y])' PROVE HoldersOf(cid[y])' = {}
    <3>1. CASE y = x
      <4>1. Cardinality(HoldersOf(c)') = 0
        <5>1. streams[c] = 1 /\ c \in registered /\ Live(c)
          BY <2>1, <2>3, <2>8, <3>1 DEF Returning, Live
        <5>2. Cardinality(HoldersOf(c)) = 1
          BY <5>1 DEF HoldInv, CountsLive
        <5> QED BY <2>1, <2>4, <2>5, <5>2
      <4> QED BY <2>1, <3>1, <4>1, HoldersFinite, FS_EmptySet
    <3>2. CASE y # x
      <4>1. y \in Returning /\ cid[y] \in Circuits /\ HoldersOf(cid[y]) = {}
        BY <1>0, <2>1, <2>3, <2>8, <3>2 DEF Returning, HoldInv, BackNotHeld, Live, Threads, Named
      <4> QED BY <2>1, <2>4, <4>1
    <3> QED BY <3>1, <3>2
  <2>9. Tied'
    BY <2>1, <2>3 DEF HoldInv, Tied
  <2>10. IdleNotHeld'
    BY <1>0, <2>1, <2>4 DEF HoldInv, IdleNotHeld, TypeOK
  <2> QED BY <2>7, <2>8, <2>9, <2>10 DEF HoldInv, CountsLive, BackNotHeld
<1>8. ASSUME NEW x \in Conns, ReturnFinish(x)
     PROVE  HoldInv'
  <2> DEFINE c == cid[x]
  <2>1. /\ pc[x] = "returning" /\ pc' = [pc EXCEPT ![x] = "unregister"]
        /\ UNCHANGED <<streams, link, cid, stream>> /\ registered' \subseteq registered
        /\ idle' = idle \/ (idle' = idle \cup {c} /\ link[c] = "up")
    BY <1>8 DEF ReturnFinish, IsCircuitOpen, AppendIdle
  <2>2. pc'[x] = "unregister" /\ \A y \in Conns : y # x => pc'[y] = pc[y]
    BY <1>0, <2>1 DEF TypeOK
  <2>3. \A d : HoldersOf(d)' = HoldersOf(d)
    BY <2>1, <2>2 DEF HoldersOf, Holding
  <2>4. Returning' \subseteq Returning
    BY <2>1, <2>2 DEF Returning
  <2>5. Tied'
    BY <2>1, <2>2 DEF HoldInv, Tied
  <2>6. link[c] = "up" => HoldersOf(c) = {}
    BY <2>1 DEF HoldInv, BackNotHeld, Returning, Live
  <2>7. IdleNotHeld'
    BY <2>1, <2>3, <2>6 DEF HoldInv, IdleNotHeld
  <2>8. CountsLive' /\ BackNotHeld'
    BY <2>1, <2>3, <2>4 DEF HoldInv, CountsLive, BackNotHeld, Live
  <2> QED BY <2>5, <2>7, <2>8 DEF HoldInv
<1>9. ASSUME NEW x \in Conns, MarkCircuitFailed(x)
     PROVE  HoldInv'
  <2> DEFINE c == cid[x]
  <2>1. /\ pc[x] = "fail" /\ pc' = [pc EXCEPT ![x] = "close"] /\ registered' = registered \ {c}
        /\ UNCHANGED <<idle, link, cid, stream>>
        /\ streams' = streams \/ streams' = [streams EXCEPT ![c] = 0]
    BY <1>9 DEF MarkCircuitFailed, PoolMarkFailed
  <2>2. pc'[x] = "close" /\ \A y \in Conns : y # x => pc'[y] = pc[y]
    BY <1>0, <2>1 DEF TypeOK
  <2>3. \A d \in Circuits : HoldersOf(d)' \subseteq HoldersOf(d) /\ (d # c => HoldersOf(d)' = HoldersOf(d))
    BY <2>1, <2>2 DEF HoldersOf, Holding
  <2>4. \A y \in Returning' : y \in Returning /\ cid'[y] = cid[y] /\ cid[y] \in Circuits
    BY <1>0, <2>1, <2>2 DEF Returning, Threads, Named
  <2>5. Tied'
    BY <2>1, <2>2 DEF HoldInv, Tied
  <2>6. \A d \in registered' : d \in Circuits /\ d \in registered /\ d # c /\ streams'[d] = streams[d]
    BY <1>0, <2>1 DEF TypeOK
  <2> QED BY <1>0, <2>1, <2>3, <2>4, <2>5, <2>6, HoldQuiet DEF TypeOK, Live
<1>10. ASSUME NEW c \in Circuits, NotifyCircuitClosed(c)
     PROVE  HoldInv'
  <2>1. /\ link' = [link EXCEPT ![c] = "gone"] /\ UNCHANGED idle /\ registered' \subseteq registered
        /\ \A d \in Circuits : d # c => streams'[d] = streams[d]
        /\ \A x \in Conns : stream'[x] = IF stream[x] = c THEN NoCircuit ELSE stream[x]
    BY <1>0, <1>10 DEF NotifyCircuitClosed, TypeOK
  <2>2. \A x \in Conns : \/ pc'[x] = pc[x] /\ cid'[x] = cid[x]
                         \/ /\ pc[x] \in {"streaming", "drained"} /\ stream[x] = c
                            /\ pc'[x] = "off" /\ cid'[x] = NoCircuit
    BY <1>10 DEF NotifyCircuitClosed
  <2>3. \A x \in Conns : pc'[x] # pc[x] => cid[x] = c
    BY <2>2 DEF HoldInv, Tied
  <2>4. \A d \in Circuits : HoldersOf(d)' \subseteq HoldersOf(d) /\ (d # c => HoldersOf(d)' = HoldersOf(d))
    BY <2>2, <2>3 DEF HoldersOf, Holding
  <2>5. ~Live(c)' /\ \A d \in Circuits : Live(d)' => d # c /\ Live(d)
    BY <1>0, <2>1 DEF TypeOK, Live
  <2>6. \A y \in Returning' : y \in Returning /\ cid'[y] = cid[y] /\ cid[y] \in Circuits
    BY <1>0, <2>2 DEF Returning, Threads, Named
  <2>7. Tied'
    BY <2>1, <2>2 DEF HoldInv, Tied
  <2> QED BY <1>0, <2>1, <2>4, <2>5, <2>6, <2>7, HoldQuiet DEF TypeOK
<1>11. CASE UNCHANGED connVars /\ \/ \E c \in Circuits : LinkBreaks(c) \/ HeartbeatUnhealthy(c) \/ HeartbeatHighRTT(c)
                                  \/ HeartbeatClose \/ MaintTick \/ EvictCount \/ EvictCut \/ CloseEvicted
                                  \/ TrimExcessIdle \/ CloseTrimmed \/ Replenish \/ ReplenishFails
                                  \/ \E l \in Limits : SetTotalLimits(l)
  <2>1. UNCHANGED streams /\ idle' \subseteq idle /\ registered' \subseteq registered
    BY <1>11 DEF LinkBreaks, HeartbeatUnhealthy, HeartbeatHighRTT, HeartbeatClose, MaintTick, EvictCount, EvictCut,
       CloseEvicted, TrimExcessIdle, CloseTrimmed, Replenish, ReplenishFails, SetTotalLimits, RemoveIdle
  <2>2. \A d \in Circuits : Live(d)' => Live(d)
    BY <1>0, <1>11 DEF LinkBreaks, HeartbeatUnhealthy, HeartbeatHighRTT, HeartbeatClose, MaintTick, EvictCount,
       EvictCut, CloseEvicted, TrimExcessIdle, CloseTrimmed, Replenish, ReplenishFails, SetTotalLimits,
       CloseCircuit, Live, TypeOK
  <2>3. \A d \in Circuits : HoldersOf(d)' = HoldersOf(d)
    BY <1>11 DEF HoldersOf, Holding
  <2>4. \A y \in Returning' : y \in Returning /\ cid'[y] = cid[y] /\ cid[y] \in Circuits
    BY <1>0, <1>11 DEF Returning, Threads, Named
  <2>5. Tied'
    BY <1>11 DEF HoldInv, Tied
  <2> QED BY <1>0, <2>1, <2>2, <2>3, <2>4, <2>5, HoldQuiet DEF TypeOK
<1>12. CASE HeartbeatMark
  <2>1. /\ UNCHANGED <<idle, link, connVars>> /\ registered' = registered \ {hb.circuit}
        /\ streams' = streams \/ streams' = [streams EXCEPT ![hb.circuit] = 0]
    BY <1>12 DEF HeartbeatMark, PoolMarkFailed
  <2>2. \A d \in registered' : d \in Circuits /\ d \in registered /\ streams'[d] = streams[d]
    BY <1>0, <2>1 DEF TypeOK
  <2>3. \A d \in Circuits : HoldersOf(d)' = HoldersOf(d)
    BY <2>1 DEF HoldersOf, Holding
  <2>4. \A y \in Returning' : y \in Returning /\ cid'[y] = cid[y] /\ cid[y] \in Circuits
    BY <1>0, <2>1 DEF Returning, Threads, Named
  <2>5. Tied'
    BY <2>1 DEF HoldInv, Tied
  <2> QED BY <1>0, <2>1, <2>2, <2>3, <2>4, <2>5, HoldQuiet DEF TypeOK, Live
<1>13. CASE ReplenishBuilt
  <2>1. PICK c \in Circuits : /\ Fresh(c) /\ link' = [link EXCEPT ![c] = "up"]
                              /\ UNCHANGED <<poolVars, connVars>>
    BY <1>13 DEF ReplenishBuilt, CircuitCreated
  <2>2. \A d \in Circuits : d # c => (Live(d)' => Live(d))
    BY <1>0, <2>1 DEF TypeOK, Live
  <2>3. c \notin registered /\ \A y \in Conns : cid[y] # c
    BY <2>1 DEF Fresh
  <2>4. \A d \in Circuits : HoldersOf(d)' = HoldersOf(d)
    BY <2>1 DEF HoldersOf, Holding
  <2>5. \A y \in Returning' : y \in Returning /\ cid'[y] = cid[y] /\ cid[y] \in Circuits
    BY <1>0, <2>1 DEF Returning, Threads, Named
  <2>6. Tied'
    BY <2>1 DEF HoldInv, Tied
  <2>7. \A d \in registered' : Live(d)' => /\ d \in registered /\ Live(d) /\ streams'[d] = streams[d]
                                           /\ HoldersOf(d)' = HoldersOf(d)
    BY <1>0, <2>1, <2>2, <2>3, <2>4 DEF TypeOK, poolVars
  <2>8. \A y \in Returning' : Live(cid[y])' => Live(cid[y])
    BY <2>2, <2>3, <2>5 DEF Returning
  <2>9. \A d \in idle' : d \in Circuits /\ d \in idle
    BY <1>0, <2>1 DEF TypeOK, poolVars
  <2> QED BY <2>4, <2>5, <2>6, <2>7, <2>8, <2>9, HoldQuiet
<1>14. CASE RegisterPoolCircuit
  <2> DEFINE b == building
  <2>1. /\ UNCHANGED <<streams, link, connVars>> /\ registered' = registered \cup {b} /\ idle' = idle \cup {b}
        /\ mpc = "register"
    BY <1>14 DEF RegisterPoolCircuit, AppendIdle
  <2>2. b \in Circuits /\ streams[b] = 0 /\ HoldersOf(b) = {}
    BY <1>0, <2>1 DEF Threads, Unseen, HoldersOf
  <2>3. \A d : HoldersOf(d)' = HoldersOf(d)
    BY <2>1 DEF HoldersOf, Holding
  <2>4. Tied' /\ BackNotHeld'
    BY <2>1, <2>3 DEF HoldInv, Tied, BackNotHeld, Returning, Live
  <2>5. IdleNotHeld'
    BY <2>1, <2>2, <2>3 DEF HoldInv, IdleNotHeld
  <2>6. CountsLive'
    BY <2>1, <2>2, <2>3, FS_EmptySet DEF HoldInv, CountsLive, Live
  <2> QED BY <2>4, <2>5, <2>6 DEF HoldInv
<1>15. CASE \/ \E c \in Circuits : LinkBreaks(c) \/ HeartbeatUnhealthy(c) \/ HeartbeatHighRTT(c)
            \/ HeartbeatClose \/ MaintTick \/ EvictCount \/ EvictCut \/ CloseEvicted
            \/ TrimExcessIdle \/ CloseTrimmed \/ Replenish \/ ReplenishFails
            \/ \E l \in Limits : SetTotalLimits(l)
  <2>1. UNCHANGED connVars
    BY <1>15 DEF LinkBreaks, HeartbeatUnhealthy, HeartbeatHighRTT, HeartbeatClose, MaintTick, EvictCount, EvictCut,
       CloseEvicted, TrimExcessIdle, CloseTrimmed, Replenish, ReplenishFails, SetTotalLimits
  <2> QED BY <1>11, <1>15, <2>1
<1> QED
  BY <1>1, <1>2, <1>3, <1>4, <1>5, <1>6, <1>7, <1>8, <1>9, <1>10, <1>12, <1>13, <1>14, <1>15
     DEF Next, Handler, Acquire, Use, Release, User, Heartbeat, Maintain

\* The books of holders, throughout every behaviour.
THEOREM HoldInvariant == Spec => []HoldInv
<1>1. Init => HoldInv
  <2>1. Init => \A c : HoldersOf(c) = {}
    BY DEF Init, HoldersOf, Holding
  <2> QED BY <2>1 DEF Init, HoldInv, Tied, CountsLive, BackNotHeld, IdleNotHeld, Returning
<1>2. PoolInv /\ HoldInv /\ [Next]_vars => HoldInv'
  <2> SUFFICES ASSUME PoolInv, HoldInv, [Next]_vars PROVE HoldInv'
    OBVIOUS
  <2>1. CASE UNCHANGED vars
    BY <2>1 DEF vars, HoldInv, Tied, CountsLive, BackNotHeld, IdleNotHeld, Returning, Live, HoldersOf, Holding
  <2> QED BY <2>1, HoldStep
<1> QED BY <1>1, <1>2, PoolInvariant, PTL DEF Spec

\* The stream count of a registered circuit with an open stream is the number of
\* handlers that hold it, although streams are taken and given back under
\* several critical sections.
THEOREM StreamCountCorrect == Spec => []StreamCountMatches
<1>1. HoldInv => StreamCountMatches
  BY DEF HoldInv, CountsLive, StreamCountMatches, Live
<1> QED BY <1>1, HoldInvariant, PTL

\* Maintenance never closes a circuit under a handler by taking it off an idle
\* list: no handler holds what is idle.
THEOREM IdleNeverHeld == Spec => []IdleNotHeld
<1>1. HoldInv => IdleNotHeld
  BY DEF HoldInv
<1> QED BY <1>1, HoldInvariant, PTL
=============================================================================
