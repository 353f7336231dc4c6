---------------------------- MODULE CircuitPool ----------------------------
(***************************************************************************)
(* The client's circuit pool (internal/client/pool.go) with everything     *)
(* that calls it concurrently: the SOCKS5 connection handlers, the         *)
(* maintenance goroutine, the heartbeat goroutine, the read loop of every  *)
(* circuit and the API that moves the limits.                              *)
(*                                                                         *)
(* Every critical section of CircuitPool.mu is one action.  The pool never *)
(* holds its mutex while it calls the circuit manager, so whatever the     *)
(* code reads before unlocking is kept in per-thread variables here and    *)
(* used by a later action.                                                 *)
(*                                                                         *)
(* Circuit ids are fresh UUIDs.  An id stands for a circuit of one kind    *)
(* (KindOf), and an id nothing refers to any more may name the next        *)
(* circuit that is built (Fresh).                                          *)
(***************************************************************************)
EXTENDS Integers, FiniteSets, Sequences

CONSTANTS
    Circuits,   \* circuit ids
    Conns,      \* SOCKS5 requests: TCP connections and UDP streams
    UDPConns,   \* the members of Conns that are UDP ASSOCIATE streams
    KindOf,     \* the pool kind a circuit id is built for
    MaxPerPool, \* CircuitPoolConfig.MaxPerPool; 0 means "no limit" to TryReserveBuild
    Limits,     \* the <<minTotal, maxTotal>> pairs given to NewCircuitPool or SetTotalLimits
    TopTotal,   \* an upper bound of every maxTotal in force
    Daemons,    \* the background loops that run: "heartbeat", "maintenance"
    NoCircuit   \* the empty circuit id

\* AllPoolKinds(), in the order the maintenance loop visits them.
AllPoolKinds == <<"low_latency", "anonymous", "country">>
Kinds == {"low_latency", "anonymous", "country"}

\* handleConn and handleUDPAssociate only ever ask for low latency circuits.
ClientKind == "low_latency"

\* SetTotalLimits repairs non-positive and inverted limits.
AtLeastOne(n) == IF n <= 0 THEN 1 ELSE n
NormalMin(l) == AtLeastOne(l[1])
NormalMax(l) == IF AtLeastOne(l[2]) < NormalMin(l) THEN NormalMin(l) ELSE AtLeastOne(l[2])

ASSUME PoolAssumption ==
    /\ IsFiniteSet(Circuits)
    /\ IsFiniteSet(Conns)
    /\ UDPConns \subseteq Conns
    /\ KindOf \in [Circuits -> Kinds]
    /\ MaxPerPool \in Nat
    /\ Limits \subseteq Int \X Int
    /\ Limits # {}
    /\ TopTotal \in Nat
    /\ \A l \in Limits : NormalMax(l) <= TopTotal
    /\ NoCircuit \notin Circuits

VARIABLES
    \* --- CircuitPool fields ------------------------------------------------
    idle,           \* the circuits on the idle lists of all kinds
    older,          \* <<a, b>>: both idle and a's idleSince is before b's
    registered,     \* the domain of circuitToKind
    streams,        \* inUseStreamCount, 0 where the map has no entry
    outCount,       \* lent circuits per kind
    pendingByKind,  \* circuits being built per kind
    pendingTotal,
    minTotal,
    maxTotal,
    \* --- CircuitManager ----------------------------------------------------
    link,           \* what the manager knows of a circuit's libp2p stream
    hb,             \* the heartbeat goroutine: the circuit it gives up and its step
    \* --- SOCKS5 handlers ---------------------------------------------------
    pc,             \* the step of each handler
    cid,            \* the handler's circuit, or the candidate it is about to take
    snapInUse,      \* inUseIDs of GetFromPool
    snapIdle,       \* idleEntries of GetFromPool, then staleIDs of pickBestIdle
    stream,         \* the circuit its stream is registered on in StreamManager
    \* --- the maintenance goroutine -----------------------------------------
    mpc,            \* its step
    mkind,          \* index in AllPoolKinds of the kind it evicts from
    expired,        \* the entries that had exceeded idleTimeout when it counted
    victims,        \* the slice "evicted" it still has to close, or the circuit to close
    slot,           \* position of victims[1] in the backing array of the idle list
    shared,         \* victims still aliases the backing array of the idle list
    building,       \* kind being replenished, or the built circuit
    panicked        \* the process has died of a slice bounds panic

poolVars == <<idle, older, registered, streams, outCount, pendingByKind, pendingTotal>>
limitVars == <<minTotal, maxTotal>>
connVars == <<pc, cid, snapInUse, snapIdle, stream>>
maintVars == <<mpc, mkind, expired, victims, slot, shared, building>>
vars == <<poolVars, limitVars, link, hb, connVars, maintVars, panicked>>

ConnSteps == {"off", "get", "probeInUse", "takeInUse", "probeIdle", "takeIdle",
              "reserve", "build", "register", "held", "begin", "reply",
              "streaming", "drained", "return", "returning", "fail", "close",
              "unregister"}
MaintSteps == {"rest", "count", "cut", "closeEvicted", "trim", "closeTrimmed",
               "replenish", "build", "register"}
LinkStates == {"absent", "up", "sick", "down", "gone"}

----------------------------------------------------------------------------
(* Reading the pool.                                                       *)

IdleOf(k) == {c \in idle : KindOf[c] = k}
InUse == {c \in Circuits : streams[c] > 0}

totalCount(k) == Cardinality(IdleOf(k)) + outCount[k]
totalCountAll == totalCount("low_latency") + totalCount("anonymous") + totalCount("country")
effectiveCount(k) == totalCount(k) + pendingByKind[k]
effectiveTotalCountAll == totalCountAll + pendingTotal

\* TryReserveBuild refuses: no room in total, or for the kind.
AtCapacity_Mutant(k) == FALSE
AtCapacity(k) ==
    \/ effectiveTotalCountAll >= maxTotal
    \/ MaxPerPool > 0 /\ effectiveCount(k) >= MaxPerPool

\* trimExcessIdle has something to do.
OverLimit_Mutant == totalCountAll > maxTotal + 1
OverLimit == totalCountAll > maxTotal

\* ReturnToPool gives back the last stream of c.
LastStream_Mutant(c) == streams[c] <= 2
LastStream(c) == streams[c] <= 1

\* IsCircuitOpen: the stream is active and the record reusable and alive.
IsCircuitOpen(c) == link[c] = "up"

\* Position of c on an idle list S, counted from the oldest entry.
Position(S, ord, c) == Cardinality({d \in S : <<d, c>> \in ord}) + 1

\* The i-th entry of an idle list S.
EntryAt(S, ord, i) == CHOOSE c \in S : Position(S, ord, c) = i

\* No thread and no table refers to c: a UUID that has not been drawn yet.
Fresh(c) ==
    /\ link[c] \in {"absent", "gone"}
    /\ c \notin idle \cup registered
    /\ streams[c] = 0
    /\ \A x \in Conns : /\ c # cid[x] /\ c # stream[x]
                        /\ c \notin snapInUse[x] \cup snapIdle[x]
    /\ hb.circuit # c
    /\ building # c
    /\ c \notin expired
    /\ \A i \in DOMAIN victims : victims[i] # c

----------------------------------------------------------------------------
(* Critical sections of the pool, as what they do to its fields.           *)

\* The slices of one idle list share a backing array: maintainOnce keeps
\* "evicted" as a slice of it after unlocking, so an append or an in-place
\* removal under the lock rewrites the entries it has still to close, until
\* an append beyond the slice moves the list to a new array.
AliasWrite(k, newIdle, newOlder) ==
    LET list == {c \in newIdle : KindOf[c] = k}
        len == Cardinality(list)
        aliased == shared /\ AllPoolKinds[mkind] = k
    IN  /\ victims' = IF ~aliased THEN victims ELSE
                        [i \in DOMAIN victims |->
                            IF slot + i - 1 <= len
                              THEN EntryAt(list, newOlder, slot + i - 1)
                              ELSE victims[i]]
        /\ IF aliased /\ len > slot + Len(victims) - 1
             THEN shared' \in {TRUE, FALSE}
             ELSE shared' = shared

\* Take the set S out of the idle lists.
RemoveIdle_Mutant(S) == UNCHANGED <<idle, older>>
RemoveIdle(S) ==
    /\ idle' = idle \ S
    /\ older' = {p \in older : p[1] \notin S /\ p[2] \notin S}

\* Append c to its idle list, with idleSince = now.
AppendIdle(c) ==
    /\ idle' = idle \cup {c}
    /\ older' = older \cup ((idle \ {c}) \X {c})

\* One more stream on a lent circuit.
AddStream_Mutant(c) == UNCHANGED streams
AddStream(c) == streams' = [streams EXCEPT ![c] = @ + 1]

\* Lend an idle or new circuit to its first stream.
Lend(c) ==
    /\ streams' = [streams EXCEPT ![c] = 1]
    /\ outCount' = [outCount EXCEPT ![KindOf[c]] = @ + 1]

\* MarkCircuitFailed of the pool.  It leaves the idle list alone.
PoolMarkFailed_NoOutCount(c) ==
    /\ registered' = registered \ {c}
    /\ streams' = [streams EXCEPT ![c] = 0]
    /\ UNCHANGED <<idle, older, outCount, pendingByKind, pendingTotal>>
PoolMarkFailed_Unguarded(c) ==
    /\ registered' = registered \ {c}
    /\ streams' = [streams EXCEPT ![c] = 0]
    /\ outCount' = [outCount EXCEPT ![KindOf[c]] = @ - 1]
    /\ UNCHANGED <<idle, older, pendingByKind, pendingTotal>>
PoolMarkFailed(c) ==
    /\ registered' = registered \ {c}
    /\ IF c \in registered /\ streams[c] > 0
         THEN /\ streams' = [streams EXCEPT ![c] = 0]
              /\ outCount' = [outCount EXCEPT ![KindOf[c]] = @ - 1]
         ELSE UNCHANGED <<streams, outCount>>
    /\ UNCHANGED <<idle, older, pendingByKind, pendingTotal>>

\* A reservation becomes a circuit (registerPoolCircuit, RegisterCircuitInUse).
ConsumeReservation_Mutant(k) ==
    /\ pendingByKind' = [pendingByKind EXCEPT ![k] = @ - 1]
    /\ UNCHANGED pendingTotal
ConsumeReservation(k) ==
    IF pendingByKind[k] > 0
      THEN /\ pendingByKind' = [pendingByKind EXCEPT ![k] = @ - 1]
           /\ pendingTotal' = pendingTotal - 1
      ELSE UNCHANGED <<pendingByKind, pendingTotal>>

AddReservation(k) ==
    /\ pendingByKind' = [pendingByKind EXCEPT ![k] = @ + 1]
    /\ pendingTotal' = pendingTotal + 1

CancelReservedBuild(k) ==
    /\ pendingByKind' = [pendingByKind EXCEPT ![k] = IF @ > 0 THEN @ - 1 ELSE @]
    /\ pendingTotal' = IF pendingTotal > 0 THEN pendingTotal - 1 ELSE pendingTotal

\* CloseCircuit of the manager: forget the circuit and close its stream,
\* which makes its read loop end.
CloseCircuit(c) ==
    link' = [link EXCEPT ![c] = IF @ \in {"up", "sick"} THEN "down" ELSE @]

\* createCircuitWithPlan succeeds: stream open, record alive, read loop started.
CircuitCreated(c) == link' = [link EXCEPT ![c] = "up"]

----------------------------------------------------------------------------
(* SOCKS5 handlers.                                                        *)

Goto(x, step) == pc' = [pc EXCEPT ![x] = step]
Keep(x, c) == cid' = [cid EXCEPT ![x] = c]
DropSnapshots(x) ==
    /\ snapInUse' = [snapInUse EXCEPT ![x] = {}]
    /\ snapIdle' = [snapIdle EXCEPT ![x] = {}]

\* A step of a live process that leaves the background loops alone.
OnlyConn == ~panicked /\ UNCHANGED <<maintVars, limitVars, hb, panicked>>

\* A client connects, or sends the first UDP packet to a new destination.
Connect(x) ==
    /\ pc[x] = "off"
    /\ Goto(x, "get")
    /\ UNCHANGED <<poolVars, link, cid, snapInUse, snapIdle, stream>>
    /\ OnlyConn

\* GetFromPool, first critical section: copy the lists and unlock.
GetFromPool(x) ==
    /\ pc[x] = "get"
    /\ snapInUse' = [snapInUse EXCEPT ![x] =
            {c \in registered : streams[c] > 0 /\ KindOf[c] = ClientKind}]
    /\ snapIdle' = [snapIdle EXCEPT ![x] = IdleOf(ClientKind)]
    /\ Goto(x, "probeInUse")
    /\ UNCHANGED <<poolVars, link, cid, stream>>
    /\ OnlyConn

\* pickBestInUse before it locks: the best open circuit of the copy.
ProbeInUse(x) ==
    LET open == {c \in snapInUse[x] : IsCircuitOpen(c)} IN
    /\ pc[x] = "probeInUse"
    /\ \/ /\ open = {}
          /\ Goto(x, "probeIdle")
          /\ UNCHANGED cid
       \/ \E c \in open : Goto(x, "takeInUse") /\ Keep(x, c)
    /\ snapInUse' = [snapInUse EXCEPT ![x] = {}]
    /\ UNCHANGED <<poolVars, link, snapIdle, stream>>
    /\ OnlyConn

\* pickBestInUse under the lock: the choice is taken if it is still lent.
TakeInUse(x) ==
    LET c == cid[x] IN
    /\ pc[x] = "takeInUse"
    /\ IF c \in registered /\ streams[c] > 0
         THEN /\ AddStream(c)
              /\ Goto(x, "held")
              /\ DropSnapshots(x)
              /\ UNCHANGED cid
         ELSE /\ Goto(x, "probeIdle")
              /\ Keep(x, NoCircuit)
              /\ UNCHANGED <<streams, snapInUse, snapIdle>>
    /\ UNCHANGED <<idle, older, registered, outCount, pendingByKind, pendingTotal,
                   link, stream>>
    /\ OnlyConn

\* pickBestIdle before it locks: the best open entry of the copy, and the
\* entries that are stale.
ProbeIdle(x) ==
    LET open == {c \in snapIdle[x] : IsCircuitOpen(c)} IN
    /\ pc[x] = "probeIdle"
    /\ \/ open = {} /\ Keep(x, NoCircuit)
       \/ \E c \in open : Keep(x, c)
    /\ snapIdle' = [snapIdle EXCEPT ![x] = @ \ open]
    /\ Goto(x, "takeIdle")
    /\ UNCHANGED <<poolVars, link, snapInUse, stream>>
    /\ OnlyConn

\* pickBestIdle under the lock: drop the stale entries, take the choice if
\* it is still on the idle list.
TakeIdle(x) ==
    LET c == cid[x]
        stale == snapIdle[x] \cap idle
        taken == IF c \in idle \ stale THEN {c} ELSE {}
    IN
    /\ pc[x] = "takeIdle"
    /\ RemoveIdle(stale \cup taken)
    /\ registered' = registered \ stale
    /\ IF taken # {}
         THEN Lend(c) /\ Goto(x, "held") /\ UNCHANGED cid
         ELSE Goto(x, "reserve") /\ Keep(x, NoCircuit) /\ UNCHANGED <<streams, outCount>>
    /\ DropSnapshots(x)
    /\ AliasWrite(ClientKind, idle', older')
    /\ UNCHANGED <<pendingByKind, pendingTotal, link, stream>>
    /\ ~panicked
    /\ UNCHANGED <<mpc, mkind, expired, slot, building, limitVars, hb, panicked>>

\* TryReserveBuild.  At capacity the handler sleeps and tries again, at most
\* poolAcquireRetryAttempts times, and then gives up.
TryReserveBuild(x) ==
    /\ pc[x] = "reserve"
    /\ IF AtCapacity(ClientKind)
         THEN /\ \E next \in {"get", "off"} : Goto(x, next)
              /\ UNCHANGED <<pendingByKind, pendingTotal>>
         ELSE AddReservation(ClientKind) /\ Goto(x, "build")
    /\ UNCHANGED <<idle, older, registered, streams, outCount,
                   link, cid, snapInUse, snapIdle, stream>>
    /\ OnlyConn

\* CreateForPoolExcluding returns a new circuit.
BuildSucceeds(x) ==
    /\ pc[x] = "build"
    /\ \E c \in Circuits :
        /\ Fresh(c) /\ KindOf[c] = ClientKind
        /\ CircuitCreated(c)
        /\ Keep(x, c)
    /\ Goto(x, "register")
    /\ UNCHANGED <<poolVars, snapInUse, snapIdle, stream>>
    /\ OnlyConn

\* CreateForPoolExcluding fails: the reservation is cancelled and the
\* request refused.
BuildFails(x) ==
    /\ pc[x] = "build"
    /\ CancelReservedBuild(ClientKind)
    /\ Goto(x, "off")
    /\ UNCHANGED <<idle, older, registered, streams, outCount,
                   link, cid, snapInUse, snapIdle, stream>>
    /\ OnlyConn

RegisterCircuitInUse(x) ==
    /\ pc[x] = "register"
    /\ ConsumeReservation(ClientKind)
    /\ registered' = registered \cup {cid[x]}
    /\ Lend(cid[x])
    /\ Goto(x, "held")
    /\ UNCHANGED <<idle, older, link, cid, snapInUse, snapIdle, stream>>
    /\ OnlyConn

\* RegisterStream or RegisterStreamUDP.
RegisterStream(x) ==
    /\ pc[x] = "held"
    /\ stream' = [stream EXCEPT ![x] = cid[x]]
    /\ Goto(x, "begin")
    /\ UNCHANGED <<poolVars, link, cid, snapInUse, snapIdle>>
    /\ OnlyConn

\* BEGIN is answered OK; touchCircuitActivity makes the record alive again.
BeginSucceeds(x) ==
    /\ pc[x] = "begin"
    /\ link[cid[x]] \in {"up", "sick"}
    /\ link' = [link EXCEPT ![cid[x]] = "up"]
    /\ Goto(x, IF x \in UDPConns THEN "streaming" ELSE "reply")
    /\ UNCHANGED <<poolVars, cid, snapInUse, snapIdle, stream>>
    /\ OnlyConn

\* BEGIN fails.  A refusal by the exit or a timeout keeps a reusable circuit
\* (the timeout marks the record alive again), any other error condemns it.
\* A UDP stream is removed first; a TCP stream stays registered until the
\* circuit has been released.
BeginFails(x) ==
    /\ pc[x] = "begin"
    /\ \/ /\ IsCircuitOpen(cid[x]) \/ link[cid[x]] = "sick"
          /\ link' = [link EXCEPT ![cid[x]] = "up"]
          /\ Goto(x, "return")
       \/ UNCHANGED link /\ Goto(x, "fail")
    /\ stream' = IF x \in UDPConns THEN [stream EXCEPT ![x] = NoCircuit] ELSE stream
    /\ UNCHANGED <<poolVars, cid, snapInUse, snapIdle>>
    /\ OnlyConn

\* sendSocks5Reply succeeds and the data pump starts.
ReplySent(x) ==
    /\ pc[x] = "reply"
    /\ stream[x] = cid[x]
    /\ Goto(x, "streaming")
    /\ UNCHANGED <<poolVars, link, cid, snapInUse, snapIdle, stream>>
    /\ OnlyConn

\* sendSocks5Reply fails: the circuit is condemned.
ReplyFails(x) ==
    /\ pc[x] = "reply"
    /\ Goto(x, "fail")
    /\ UNCHANGED <<poolVars, link, cid, snapInUse, snapIdle, stream>>
    /\ OnlyConn

\* The local client closes its TCP connection: the pump sends END and
\* returns.  Nothing closes the wrapped connection.
ClientCloses(x) ==
    /\ pc[x] = "streaming"
    /\ x \notin UDPConns
    /\ Goto(x, "drained")
    /\ UNCHANGED <<poolVars, link, cid, snapInUse, snapIdle, stream>>
    /\ OnlyConn

\* The TCP side of a UDP ASSOCIATE closes: Remove the stream, ReturnToPool.
UDPTeardown(x) ==
    /\ pc[x] = "streaming"
    /\ x \in UDPConns
    /\ stream' = [stream EXCEPT ![x] = NoCircuit]
    /\ Goto(x, "return")
    /\ UNCHANGED <<poolVars, link, cid, snapInUse, snapIdle>>
    /\ OnlyConn

\* ReturnToPool, first critical section.
ReturnToPool(x) ==
    LET c == cid[x] IN
    /\ pc[x] = "return"
    /\ IF c \notin registered \/ streams[c] = 0
         THEN Goto(x, "unregister") /\ UNCHANGED <<streams, outCount>>
         ELSE /\ streams' = [streams EXCEPT ![c] = @ - 1]
              /\ IF LastStream(c)
                   THEN /\ Goto(x, "returning")
                        /\ outCount' = [outCount EXCEPT ![KindOf[c]] = @ - 1]
                   ELSE Goto(x, "unregister") /\ UNCHANGED outCount
    /\ UNCHANGED <<idle, older, registered, pendingByKind, pendingTotal,
                   link, cid, snapInUse, snapIdle, stream>>
    /\ OnlyConn

\* ReturnToPool, second critical section: back to the idle list, or forgotten
\* when the circuit is no longer open.
ReturnFinish(x) ==
    LET c == cid[x] IN
    /\ pc[x] = "returning"
    /\ IF IsCircuitOpen(c)
         THEN AppendIdle(c) /\ UNCHANGED registered
         ELSE registered' = registered \ {c} /\ UNCHANGED <<idle, older>>
    /\ Goto(x, "unregister")
    /\ AliasWrite(KindOf[c], idle', older')
    /\ UNCHANGED <<streams, outCount, pendingByKind, pendingTotal,
                   link, cid, snapInUse, snapIdle, stream>>
    /\ ~panicked
    /\ UNCHANGED <<mpc, mkind, expired, slot, building, limitVars, hb, panicked>>

\* CircuitManager.MarkCircuitFailed: the pool first, then CloseCircuit.
MarkCircuitFailed(x) ==
    /\ pc[x] = "fail"
    /\ PoolMarkFailed(cid[x])
    /\ Goto(x, "close")
    /\ UNCHANGED <<link, cid, snapInUse, snapIdle, stream>>
    /\ OnlyConn

CloseFailed(x) ==
    /\ pc[x] = "close"
    /\ CloseCircuit(cid[x])
    /\ Goto(x, "unregister")
    /\ UNCHANGED <<poolVars, cid, snapInUse, snapIdle, stream>>
    /\ OnlyConn

\* Unregister (or Remove) the stream; a TCP handler may fail over to another
\* circuit, up to BeginTCPRetries times, or give up.
Unregister(x) ==
    /\ pc[x] = "unregister"
    /\ stream' = [stream EXCEPT ![x] = NoCircuit]
    /\ Keep(x, NoCircuit)
    /\ \E next \in {"get", "off"} : Goto(x, next)
    /\ UNCHANGED <<poolVars, link, snapInUse, snapIdle>>
    /\ OnlyConn

----------------------------------------------------------------------------
(* Circuits die.                                                           *)

\* The libp2p stream of c breaks: its read loop forgets the circuit.
LinkBreaks(c) ==
    /\ link[c] \in {"up", "sick"}
    /\ CloseCircuit(c)
    /\ UNCHANGED <<poolVars, connVars>>
    /\ OnlyConn

\* NotifyCircuitClosed, at the end of the read loop: every stream of c is
\* removed and its connection closed; closing a TCP connection calls
\* ReturnToPool, which for a dead circuit only takes it off the books.
NotifyCircuitClosed(c) ==
    LET hit == {x \in Conns : stream[x] = c}
        returns == Cardinality(hit \ UDPConns)
    IN
    /\ link[c] = "down"
    /\ link' = [link EXCEPT ![c] = "gone"]
    /\ stream' = [x \in Conns |-> IF x \in hit THEN NoCircuit ELSE stream[x]]
    /\ IF c \notin registered \/ streams[c] = 0 \/ returns = 0
         THEN UNCHANGED <<streams, outCount, registered>>
         ELSE IF streams[c] > returns
           THEN /\ streams' = [streams EXCEPT ![c] = @ - returns]
                /\ UNCHANGED <<outCount, registered>>
           ELSE /\ streams' = [streams EXCEPT ![c] = 0]
                /\ outCount' = [outCount EXCEPT ![KindOf[c]] = @ - 1]
                /\ registered' = registered \ {c}
    /\ pc' = [x \in Conns |->
                IF x \in hit \ UDPConns /\ pc[x] \in {"streaming", "drained"}
                  THEN "off" ELSE pc[x]]
    /\ cid' = [x \in Conns |->
                IF x \in hit \ UDPConns /\ pc[x] \in {"streaming", "drained"}
                  THEN NoCircuit ELSE cid[x]]
    /\ UNCHANGED <<idle, older, pendingByKind, pendingTotal, snapInUse, snapIdle>>
    /\ OnlyConn

OnlyHeartbeat == ~panicked /\ UNCHANGED <<connVars, maintVars, limitVars, panicked>>

\* handleHeartbeatFailure reaches the failure threshold: SetHealth(alive = false).
HeartbeatUnhealthy(c) ==
    /\ "heartbeat" \in Daemons
    /\ hb.circuit = NoCircuit
    /\ link[c] = "up"
    /\ link' = [link EXCEPT ![c] = "sick"]
    /\ hb' = [circuit |-> c, step |-> "mark"]
    /\ UNCHANGED poolVars
    /\ OnlyHeartbeat

\* handleHeartbeatSuccess with a round trip over highRTTEvictThreshold.
HeartbeatHighRTT(c) ==
    /\ "heartbeat" \in Daemons
    /\ hb.circuit = NoCircuit
    /\ link[c] = "up"
    /\ hb' = [circuit |-> c, step |-> "mark"]
    /\ UNCHANGED <<poolVars, link>>
    /\ OnlyHeartbeat

\* pool.MarkCircuitFailed in either case ...
HeartbeatMark ==
    /\ hb.step = "mark"
    /\ PoolMarkFailed(hb.circuit)
    /\ hb' = [hb EXCEPT !.step = "close"]
    /\ UNCHANGED link
    /\ OnlyHeartbeat

\* ... and then CloseCircuit.
HeartbeatClose ==
    /\ hb.step = "close"
    /\ CloseCircuit(hb.circuit)
    /\ hb' = [circuit |-> NoCircuit, step |-> "wait"]
    /\ UNCHANGED poolVars
    /\ OnlyHeartbeat

----------------------------------------------------------------------------
(* The maintenance goroutine.                                              *)

OnlyMaint == ~panicked /\ UNCHANGED <<connVars, limitVars, hb>>

\* The ticker fires.
MaintTick ==
    /\ "maintenance" \in Daemons
    /\ mpc = "rest"
    /\ mpc' = "count"
    /\ mkind' = 1
    /\ UNCHANGED <<poolVars, link, expired, victims, slot, shared, building, panicked>>
    /\ OnlyMaint

NextKind ==
    IF mkind < Len(AllPoolKinds)
      THEN mpc' = "count" /\ mkind' = mkind + 1
      ELSE mpc' = "trim" /\ UNCHANGED mkind

\* maintainOnce, first critical section: count the entries that exceeded
\* idleTimeout.  They are the oldest ones of the list; how many is up to time.
EvictCount ==
    LET k == AllPoolKinds[mkind] IN
    /\ mpc = "count"
    /\ \E n \in 0 .. Cardinality(IdleOf(k)) :
        /\ expired' = {c \in IdleOf(k) : Position(IdleOf(k), older, c) <= n}
        /\ IF n = 0 THEN NextKind ELSE mpc' = "cut" /\ UNCHANGED mkind
    /\ UNCHANGED <<poolVars, link, victims, slot, shared, building, panicked>>
    /\ OnlyMaint

\* Second critical section: cut that many entries off the END of the list.
\* A list that has become shorter than the count makes the slice expression
\* panic.
EvictCut ==
    LET k == AllPoolKinds[mkind]
        list == IdleOf(k)
        kept == Cardinality(list) - Cardinality(expired)
        cut == {c \in list : Position(list, older, c) > kept}
    IN
    /\ mpc = "cut"
    /\ IF kept < 0
         THEN /\ panicked' = TRUE
              /\ UNCHANGED <<poolVars, maintVars>>
         ELSE /\ RemoveIdle(cut)
              /\ registered' = registered \ cut
              /\ victims' = [i \in 1 .. Cardinality(expired) |-> EntryAt(list, older, kept + i)]
              /\ slot' = kept + 1
              /\ shared' = TRUE
              /\ mpc' = "closeEvicted"
              /\ UNCHANGED <<streams, outCount, pendingByKind, pendingTotal,
                             mkind, expired, building, panicked>>
    /\ UNCHANGED link
    /\ OnlyMaint

\* The loop over evicted, without the lock.
CloseEvicted ==
    /\ mpc = "closeEvicted"
    /\ CloseCircuit(Head(victims))
    /\ victims' = Tail(victims)
    /\ IF Len(victims) > 1
         THEN slot' = slot + 1 /\ UNCHANGED <<mpc, mkind, expired, shared>>
         ELSE slot' = 0 /\ shared' = FALSE /\ expired' = {} /\ NextKind
    /\ UNCHANGED <<poolVars, building, panicked>>
    /\ OnlyMaint

\* trimExcessIdle: drop the oldest idle circuit of all kinds while there are
\* more than maxTotal circuits.
TrimExcessIdle ==
    /\ mpc = "trim"
    /\ IF ~OverLimit \/ idle = {}
         THEN /\ mpc' = "replenish"
              /\ UNCHANGED <<poolVars, victims>>
         ELSE /\ \E c \in idle :
                    /\ \A d \in idle : <<d, c>> \notin older
                    /\ RemoveIdle({c})
                    /\ registered' = registered \ {c}
                    /\ victims' = <<c>>
              /\ mpc' = "closeTrimmed"
              /\ UNCHANGED <<streams, outCount, pendingByKind, pendingTotal>>
    /\ UNCHANGED <<link, mkind, expired, slot, shared, building, panicked>>
    /\ OnlyMaint

CloseTrimmed ==
    /\ mpc = "closeTrimmed"
    /\ CloseCircuit(Head(victims))
    /\ victims' = <<>>
    /\ mpc' = "trim"
    /\ UNCHANGED <<poolVars, mkind, expired, slot, shared, building, panicked>>
    /\ OnlyMaint

\* The kind replenishToMinimum fills next: the one with the fewest circuits
\* among those below MaxPerPool, the first of them in AllPoolKinds.
Eligible == {i \in 1 .. Len(AllPoolKinds) : effectiveCount(AllPoolKinds[i]) < MaxPerPool}
IsTarget(i) ==
    /\ i \in Eligible
    /\ \A j \in Eligible :
        LET a == effectiveCount(AllPoolKinds[i])
            b == effectiveCount(AllPoolKinds[j])
        IN a < b \/ (a = b /\ i <= j)

\* replenishToMinimum, the reservation.
Replenish ==
    /\ mpc = "replenish"
    /\ IF \/ effectiveTotalCountAll >= minTotal
          \/ effectiveTotalCountAll >= maxTotal
          \/ Eligible = {}
         THEN mpc' = "rest" /\ UNCHANGED <<pendingByKind, pendingTotal, building>>
         ELSE /\ \E i \in 1 .. Len(AllPoolKinds) :
                    /\ IsTarget(i)
                    /\ AddReservation(AllPoolKinds[i])
                    /\ building' = AllPoolKinds[i]
              /\ mpc' = "build"
    /\ UNCHANGED <<idle, older, registered, streams, outCount, link,
                   mkind, expired, victims, slot, shared, panicked>>
    /\ OnlyMaint

\* CreateForPool succeeds.
ReplenishBuilt ==
    /\ mpc = "build"
    /\ \E c \in Circuits :
        /\ Fresh(c) /\ KindOf[c] = building
        /\ CircuitCreated(c)
        /\ building' = c
    /\ mpc' = "register"
    /\ UNCHANGED <<poolVars, mkind, expired, victims, slot, shared, panicked>>
    /\ OnlyMaint

\* CreateForPool fails: cancel the reservation and stop until the next tick.
ReplenishFails ==
    /\ mpc = "build"
    /\ CancelReservedBuild(building)
    /\ building' = NoCircuit
    /\ mpc' = "rest"
    /\ UNCHANGED <<idle, older, registered, streams, outCount, link,
                   mkind, expired, victims, slot, shared, panicked>>
    /\ OnlyMaint

RegisterPoolCircuit ==
    /\ mpc = "register"
    /\ ConsumeReservation(KindOf[building])
    /\ AppendIdle(building)
    /\ registered' = registered \cup {building}
    /\ building' = NoCircuit
    /\ mpc' = "replenish"
    /\ UNCHANGED <<streams, outCount, link, mkind, expired, victims, slot, shared, panicked>>
    /\ OnlyMaint

\* The API changes the limits at run time.
SetTotalLimits(l) ==
    /\ minTotal' = NormalMin(l)
    /\ maxTotal' = NormalMax(l)
    /\ ~panicked
    /\ UNCHANGED <<poolVars, link, hb, connVars, maintVars, panicked>>

----------------------------------------------------------------------------
Init ==
    /\ idle = {} /\ older = {} /\ registered = {}
    /\ streams = [c \in Circuits |-> 0]
    /\ outCount = [k \in Kinds |-> 0]
    /\ pendingByKind = [k \in Kinds |-> 0]
    /\ pendingTotal = 0
    /\ \E l \in Limits : minTotal = NormalMin(l) /\ maxTotal = NormalMax(l)
    /\ link = [c \in Circuits |-> "absent"]
    /\ hb = [circuit |-> NoCircuit, step |-> "wait"]
    /\ pc = [x \in Conns |-> "off"]
    /\ cid = [x \in Conns |-> NoCircuit]
    /\ snapInUse = [x \in Conns |-> {}]
    /\ snapIdle = [x \in Conns |-> {}]
    /\ stream = [x \in Conns |-> NoCircuit]
    /\ mpc = "rest" /\ mkind = 1 /\ expired = {} /\ victims = <<>>
    /\ slot = 0 /\ shared = FALSE /\ building = NoCircuit
    /\ panicked = FALSE

Acquire(x) ==
    \/ GetFromPool(x) \/ ProbeInUse(x) \/ TakeInUse(x) \/ ProbeIdle(x) \/ TakeIdle(x)
    \/ TryReserveBuild(x) \/ BuildSucceeds(x) \/ BuildFails(x) \/ RegisterCircuitInUse(x)

Use(x) ==
    \/ RegisterStream(x) \/ BeginSucceeds(x) \/ BeginFails(x)
    \/ ReplySent(x) \/ ReplyFails(x)

Release(x) ==
    \/ ReturnToPool(x) \/ ReturnFinish(x) \/ MarkCircuitFailed(x)
    \/ CloseFailed(x) \/ Unregister(x)

Handler(x) == Acquire(x) \/ Use(x) \/ Release(x)

User(x) == Connect(x) \/ ClientCloses(x) \/ UDPTeardown(x)

Heartbeat ==
    \/ \E c \in Circuits : HeartbeatUnhealthy(c) \/ HeartbeatHighRTT(c)
    \/ HeartbeatMark
    \/ HeartbeatClose

Maintain ==
    \/ MaintTick \/ EvictCount \/ EvictCut \/ CloseEvicted
    \/ TrimExcessIdle \/ CloseTrimmed
    \/ Replenish \/ ReplenishBuilt \/ ReplenishFails \/ RegisterPoolCircuit

Next ==
    \/ \E x \in Conns : Handler(x) \/ User(x)
    \/ \E c \in Circuits : LinkBreaks(c) \/ NotifyCircuitClosed(c)
    \/ Heartbeat
    \/ Maintain
    \/ \E l \in Limits : SetTotalLimits(l)

Spec == Init /\ [][Next]_vars

\* Goroutines keep running, builds and BEGINs end (their contexts time out),
\* a broken stream ends its read loop and the maintenance ticker keeps firing.
\* Clients, the API, circuit failures and heartbeat verdicts are not obliged
\* to happen.
Fairness ==
    /\ \A x \in Conns : WF_vars(Handler(x))
    /\ \A c \in Circuits : WF_vars(NotifyCircuitClosed(c))
    /\ WF_vars(HeartbeatMark \/ HeartbeatClose)
    /\ WF_vars(Maintain)

FairSpec == Spec /\ Fairness

----------------------------------------------------------------------------
(* Properties.                                                             *)

\* Every variable keeps its type; the counters of the pool never go negative.
TypeOK ==
    /\ idle \subseteq Circuits
    /\ older \subseteq Circuits \X Circuits
    /\ registered \subseteq Circuits
    /\ streams \in [Circuits -> Nat]
    /\ outCount \in [Kinds -> Nat]
    /\ pendingByKind \in [Kinds -> Nat]
    /\ pendingTotal \in Nat
    /\ minTotal \in Int
    /\ maxTotal \in Int
    /\ link \in [Circuits -> LinkStates]
    /\ hb \in [circuit : Circuits \cup {NoCircuit}, step : {"wait", "mark", "close"}]
    /\ pc \in [Conns -> ConnSteps]
    /\ cid \in [Conns -> Circuits \cup {NoCircuit}]
    /\ snapInUse \in [Conns -> SUBSET Circuits]
    /\ snapIdle \in [Conns -> SUBSET Circuits]
    /\ stream \in [Conns -> Circuits \cup {NoCircuit}]
    /\ mpc \in MaintSteps
    /\ mkind \in 1 .. 3
    /\ expired \subseteq Circuits
    /\ slot \in Int
    /\ shared \in BOOLEAN
    /\ building \in Circuits \cup Kinds \cup {NoCircuit}
    /\ panicked \in BOOLEAN

\* The handlers between the two critical sections of ReturnToPool.
Returning == {x \in Conns : pc[x] = "returning"}

\* x has been lent its circuit and has not given it back.
Holding(x) == pc[x] \in {"held", "begin", "reply", "streaming", "drained", "return", "fail"}
HoldersOf(c) == {x \in Conns : Holding(x) /\ cid[x] = c}

\* ReturnToPool unlocks between taking a circuit off the lent books and
\* appending it to the idle list, and pickBestIdle overwrites the stream count
\* of what it takes.  For all that a circuit is never at two places: an idle
\* circuit carries no stream, and one on its way back is neither idle nor lent
\* nor on its way back twice, so no list ever holds it twice.
OnePlace ==
    /\ \A c \in idle : streams[c] = 0
    /\ \A x \in Returning : cid[x] \notin idle /\ streams[cid[x]] = 0
    /\ \A x, y \in Returning : cid[x] = cid[y] => x = y

\* outCount is kept by increments and decrements in six places, some of them
\* racing; it always equals the number of circuits with a stream count.
LentOf(k) == {c \in Circuits : KindOf[c] = k /\ streams[c] > 0}
OutCountExact == \A k \in Kinds : outCount[k] = Cardinality(LentOf(k))

\* Every reservation belongs to a build in progress: none is lost or released
\* twice, whichever of registerPoolCircuit, RegisterCircuitInUse and
\* CancelReservedBuild ends it.
BuildersOf(k) == {x \in Conns : k = ClientKind /\ pc[x] \in {"build", "register"}}
MaintBuilds(k) ==
    IF \/ mpc = "build" /\ building = k
       \/ mpc = "register" /\ building \in Circuits /\ KindOf[building] = k
      THEN 1 ELSE 0
PendingExact ==
    /\ \A k \in Kinds : pendingByKind[k] = Cardinality(BuildersOf(k)) + MaintBuilds(k)
    /\ pendingTotal = pendingByKind["low_latency"] + pendingByKind["anonymous"]
                        + pendingByKind["country"]

\* ReturnToPool hides a circuit from the counters while it is unlocked, so
\* reservations can overshoot maxTotal, but never by more than one circuit for
\* each handler that may be in that window.
Committed ==
    Cardinality(idle) + outCount["low_latency"] + outCount["anonymous"] + outCount["country"]
        + pendingTotal
CapacityBound == Committed <= TopTotal + Cardinality(Conns)

\* While a circuit is registered and open, its stream count is the number of
\* handlers that hold it, whatever returns, failures and late notifications
\* raced: it is neither freed under a live stream nor kept lent without one.
StreamCountMatches ==
    \A c \in registered : link[c] = "up" => streams[c] = Cardinality(HoldersOf(c))

\* No circuit on an idle list, which maintenance may close at any moment, is
\* held by a handler.
IdleNotHeld == \A c \in idle : HoldersOf(c) = {}

\* maintainOnce trims what SetTotalLimits or a race put above maxTotal as long
\* as there is something idle to close (unless it dies first).
TrimsToLimit ==
    (totalCountAll > maxTotal) ~> (totalCountAll <= maxTotal \/ idle = {} \/ panicked)

(***************************************************************************)
(* Statements of comments and configuration docs that the code does not    *)
(* keep.                                                                   *)
(***************************************************************************)

\* config.go: "MaxPerPool is the maximum number of circuits (idle + in use)
\* per pool kind."
WithinMaxPerPool == \A k \in Kinds : totalCount(k) <= MaxPerPool

\* pool.go: outCount counts circuits "that have at least one stream (lent)":
\* a circuit on the lent books is held by some handler.
LentHasStream == \A c \in InUse : HoldersOf(c) # {}

\* pool.go: MarkCircuitFailed "removes the circuit from pool accounting and
\* does not return it to idle": what enters the idle list is on the books.
FailedNotBackToIdle == [][\A c \in idle' \ idle : c \in registered']_vars

\* pool.go: "evicts idle circuits that exceeded timeout": what eviction takes
\* off the list is what had exceeded the timeout when it counted.
EvictsOnlyExpired == [][mpc = "cut" /\ mpc' = "closeEvicted" => idle \ idle' \subseteq expired]_vars

\* pool.go: "Evict old idle circuits (outside lock when calling
\* factory.CloseCircuit)": what the loop closes has left the pool.
ClosesOnlyEvicted ==
    mpc = "closeEvicted" => \A i \in DOMAIN victims : victims[i] \notin idle \cup registered

\* socks5.go: "Wrap conn so that when client closes we return the circuit to
\* the pool".
ClientCloseReturns == \A x \in Conns \ UDPConns : (pc[x] = "drained") ~> (pc[x] = "off")
=============================================================================
