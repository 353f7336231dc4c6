------------------------------ MODULE Circuit ------------------------------
(***************************************************************************)
(* A client's circuits, end to end: CircuitManager builds them over the    *)
(* hops PathSelector chooses (internal/client/circuit_manager.go), SOCKS5  *)
(* handlers run streams over them (internal/client/socks5.go,              *)
(* stream_manager.go), a relay peels one onion layer and forwards          *)
(* (internal/relay/service.go), and the exit checks its policy, dials and  *)
(* pumps (internal/exit/service.go).                                       *)
(*                                                                         *)
(* The pool is modelled in CircuitPool; here any usable circuit may be     *)
(* handed to a handler.  Frames travel in order on a libp2p stream until   *)
(* one end closes it.  An onion cell carries the layer index every seal    *)
(* was bound to (BuildAAD); the nonce counters of the two ends move in     *)
(* step on a stream that keeps its order, so they are left out.            *)
(***************************************************************************)
EXTENDS PathSelector, ExitPolicy

CONSTANTS
    Circuits,          \* circuit ids (UUIDs): each names at most one build
    Apps,              \* SOCKS5 requests
    TargetOf,          \* what an app asks for, see ExitPolicy
    Policies,          \* the policies the exit's operator switches between
    Selections,        \* the exit selections the client's user switches between
    FailureThreshold,  \* heartbeat.failure_threshold
    MaxTries,          \* an upper bound of the BEGINs of one request
    Scopes,            \* the instances to explore, see ScopeType
    NoCircuit

(***************************************************************************)
(* The bounds of an instance: the requests and circuit ids in play, the    *)
(* retries the configuration allows (client.build_retries,                 *)
(* begin_tcp_retries), the reads of each direction of a stream, the faults *)
(* (broken links, failed dials, closings by the pool or the remote end),   *)
(* the changes of policy and selection, the exit selections and the exit's *)
(* policies.                                                               *)
(***************************************************************************)
ScopeType ==
    [apps : SUBSET Apps, circuits : SUBSET Circuits, buildRetries : Nat, beginRetries : 0..(MaxTries - 1),
     chunks : Nat, faults : Nat, changes : Nat, selections : SUBSET Selections,
     policies : SUBSET Policies]

Attempts == 1..MaxTries
StreamIDs == Apps \X Attempts
None == <<>>

ASSUME CircuitAssumption ==
    /\ FailureThreshold \in Nat \ {0} /\ MaxTries \in Nat \ {0}
    /\ Scopes \subseteq ScopeType /\ Scopes # {}
    /\ Policies # {}
    /\ NoCircuit \notin Circuits
    /\ \A a \in Apps : LET t == TargetOf[a] IN
        /\ t.addr \in AddressClasses
        /\ t.name # <<>> => t.answers # {} /\ t.answers \subseteq Seq(AddressClasses)

VARIABLES
    \* --- the client -----------------------------------------------------------
    health,   \* PathSelector.peerHealth
    sel,      \* PathSelector.exitSelection
    bld,      \* the goroutine in CreateForPoolExcluding
    man,      \* what CircuitManager keeps of a circuit
    plan,     \* CircuitRecord.Plan
    hb,       \* the circuit whose pong the heartbeat goroutine awaits
    app,      \* the SOCKS5 handlers
    reg,      \* StreamManager.streams: the circuit a stream is registered on
    pending,  \* the keys of pendingConnected
    answer,   \* what the channel of pendingConnected holds
    \* --- the streams between the nodes -----------------------------------------
    near, far,   \* the client's end and the first hop's end of a circuit's stream
    up, down,    \* frames between them
    rel,         \* relay: the goroutine serving a circuit's stream
    nxt,         \* relay: nextHopStreams has an entry
    up2, down2,  \* frames between the relay and the exit
    \* --- the exit ----------------------------------------------------------------
    ex,       \* the goroutine serving a circuit's stream
    conn,     \* the remote connection of a stream: state and circuit, the policies in force
              \* during the check, the addresses checked and the one connected to
    policy,   \* PolicyChecker
    \* --- bytes, and the bounds -------------------------------------------------
    sent,     \* chunks read from the app, and from the remote end
    heard,    \* chunks written to the app, and to the remote end
    faults, changes,
    scope     \* the bounds of this behaviour, never changed

clientVars == <<health, sel, bld, man, plan, hb>>
appVars == <<app, reg, pending, answer>>
wireVars == <<near, far, up, down>>
relayVars == <<rel, nxt, up2, down2>>
exitVars == <<ex, conn, policy>>
dataVars == <<sent, heard>>
boundVars == <<faults, changes, scope>>
vars == <<clientVars, appVars, wireVars, relayVars, exitVars, dataVars, boundVars>>

----------------------------------------------------------------------------
(* Frames.                                                                 *)

Frame(t, s) == [type |-> t, stream |-> s, n |-> 0, ok |-> FALSE, layers |-> <<>>]
Data(s, n) == [Frame("data", s) EXCEPT !.n = n]
Connected(s, ok) == [Frame("connected", s) EXCEPT !.ok = ok]

\* Overlapping WriteFrames of two goroutines: no reader finds a frame in it.
Garbled == Frame("garbled", None)

\* WrapForward over the first n hops seals layer i - 1 for hop i; the inner
\* payload is named by type.
WrapForward(n, t, s) == [Frame(t, s) EXCEPT !.layers = [i \in 1..n |-> i - 1]]

\* UnwrapForward and UnwrapForwardFinal open a cell as layer 0.
Opens(f) == f.layers # <<>> /\ Head(f.layers) = 0
Peeled(f) == [f EXCEPT !.layers = Tail(@)]

\* The exit's goroutine serving a stream, with no BEGIN in hand.
ServeAt(pc) == [pc |-> pc, s |-> None, rule |-> 0, seen |-> {}, addrs |-> <<>>]

----------------------------------------------------------------------------
(* The client's books.                                                     *)

Direct(c) == plan[c].relay = NoNode

\* A relay+exit node registers the exit's handler last, so it serves as an exit.
ExitServes(c) == ~Direct(c) => Descriptors[plan[c].relay].exit

NoPlan == [relay |-> NoNode, exit |-> NoNode]
NoRecord == [rec |-> "none", active |-> FALSE, hops |-> 0, fails |-> 0, loop |-> "none"]

\* activeStreams, hopSessions, heartbeatDue and the record are gone.
Forgotten(m) == [m EXCEPT !.rec = "none", !.active = FALSE, !.hops = 0]

canReuseCircuit(c) == man[c].active /\ man[c].rec \in {"open", "degraded"}

CloseCircuit(c) ==
    /\ man' = [man EXCEPT ![c] = Forgotten(@)]
    /\ near' = [near EXCEPT ![c] = IF man[c].active THEN "closed" ELSE @]

\* The frames that BEGIN, DATA and END become on a circuit.
Outgoing(c, f) == IF Direct(c) \/ f.type = "end" THEN f ELSE [f EXCEPT !.layers = WrapForward(man[c].hops, f.type, f.stream).layers]

\* WriteFrame on a circuit's stream; what the far end no longer reads is lost.
Send(c, f) ==
    up' = [up EXCEPT ![c] = IF far[c] = "open" THEN Append(@, Outgoing(c, f)) ELSE @]

----------------------------------------------------------------------------
(* Building a circuit: CreateForPoolExcluding and createCircuitWithPlan.   *)

IdleBuild == [pc |-> "idle", cir |-> NoCircuit, exclude |-> {}, tries |-> 0]

\* The exits a failing over handler wants to avoid: GetPlan still knows the
\* circuit its last BEGIN failed on.
FailedExits ==
    {plan[app[a].cir].exit : a \in {x \in Apps : app[x].pc = "get" /\ app[x].try > 1 /\ man[app[x].cir].rec # "none"}}

BuildStart ==
    /\ bld.pc = "idle"
    /\ \E c \in scope.circuits : plan[c] = NoPlan
    /\ \E avoid \in {{}} \cup {{n} : n \in FailedExits} :
         bld' = [IdleBuild EXCEPT !.pc = "select", !.exclude = avoid]
    /\ UNCHANGED <<health, sel, man, plan, hb, appVars, wireVars, relayVars, exitVars, dataVars, boundVars>>

SelectPath ==
    /\ bld.pc = "select"
    /\ LET plans == SelectPathForPool(sel, health, bld.exclude)
           fresh == {c \in scope.circuits : plan[c] = NoPlan}
       IN  \/ /\ plans = {} \/ fresh = {}
              /\ bld' = IdleBuild
              /\ UNCHANGED <<man, plan>>
           \/ \E p \in plans : LET c == CHOOSE x \in fresh : TRUE IN
                /\ fresh # {}
                /\ bld' = [bld EXCEPT !.pc = "dial", !.cir = c]
                /\ plan' = [plan EXCEPT ![c] = p]
                /\ man' = [man EXCEPT ![c].rec = "creating"]
    /\ UNCHANGED <<health, sel, hb, appVars, wireVars, relayVars, exitVars, dataVars, boundVars>>

\* The attempt is over: the next one avoids this exit.
Exclude(b, e) == b.exclude \cup {e}
NextAttempt(b) ==
    IF b.tries < scope.buildRetries
    THEN [pc |-> "select", cir |-> NoCircuit, tries |-> b.tries + 1, exclude |-> Exclude(b, plan[b.cir].exit)]
    ELSE IdleBuild

Opened(m, n) == [m EXCEPT !.rec = "open", !.active = TRUE, !.hops = n, !.loop = "reading"]

\* NewStream to the first hop; a direct circuit is open at once.
BuildDial ==
    LET c == bld.cir IN
    /\ bld.pc = "dial"
    /\ near' = [near EXCEPT ![c] = "open"]
    /\ far' = [far EXCEPT ![c] = "open"]
    /\ IF ExitServes(c)
       THEN ex' = [ex EXCEPT ![c].pc = "first"] /\ UNCHANGED rel
       ELSE rel' = [rel EXCEPT ![c] = "first"] /\ UNCHANGED ex
    /\ IF Direct(c)
       THEN /\ man' = [man EXCEPT ![c] = Opened(@, 0)]
            /\ bld' = IdleBuild
            /\ health' = reportPath(health, plan[c], TRUE)
            /\ UNCHANGED up
       ELSE /\ man' = [man EXCEPT ![c].active = TRUE]
            /\ bld' = [bld EXCEPT !.pc = "key"]
            /\ up' = [up EXCEPT ![c] = <<Frame("init", None)>>]
            /\ UNCHANGED health
    /\ UNCHANGED <<sel, plan, hb, appVars, down, nxt, up2, down2, conn, policy, dataVars, boundVars>>

BuildDialFails ==
    LET c == bld.cir IN
    /\ bld.pc = "dial"
    /\ faults < scope.faults
    /\ faults' = faults + 1
    /\ man' = [man EXCEPT ![c].rec = "none"]
    /\ health' = reportPath(health, plan[c], FALSE)
    /\ bld' = NextAttempt(bld)
    /\ UNCHANGED <<sel, plan, hb, appVars, wireVars, relayVars, exitVars, dataVars, changes, scope>>

\* The first hop's key arrives; the extend cell carries the client's key for the
\* exit in a single layer.
BuildExtend ==
    LET c == bld.cir IN
    /\ bld.pc = "key"
    /\ down[c] # <<>>
    /\ Head(down[c]).type = "resp"
    /\ down' = [down EXCEPT ![c] = Tail(@)]
    /\ man' = [man EXCEPT ![c].hops = 1]
    /\ up' = [up EXCEPT ![c] = IF far[c] = "open" THEN Append(@, WrapForward(1, "extend", None)) ELSE @]
    /\ bld' = [bld EXCEPT !.pc = "extend"]
    /\ UNCHANGED <<health, sel, plan, hb, appVars, near, far, relayVars, exitVars, dataVars, boundVars>>

BuildOpen ==
    LET c == bld.cir IN
    /\ bld.pc = "extend"
    /\ down[c] # <<>>
    /\ Head(down[c]).type = "extended"
    /\ down' = [down EXCEPT ![c] = Tail(@)]
    /\ man' = [man EXCEPT ![c] = Opened(@, 2)]
    /\ health' = reportPath(health, plan[c], TRUE)
    /\ bld' = IdleBuild
    /\ UNCHANGED <<sel, plan, hb, appVars, near, far, up, relayVars, exitVars, dataVars, boundVars>>

\* No usable answer within 15 seconds.  In the extend phase every failure sets an
\* err of the inner block: the deferred report still sees nil and praises the hops.
BuildTimeout ==
    LET c == bld.cir IN
    /\ bld.pc \in {"key", "extend"}
    /\ CloseCircuit(c)
    /\ health' = reportPath(health, plan[c], bld.pc = "extend")
    /\ bld' = NextAttempt(bld)
    /\ UNCHANGED <<sel, plan, hb, appVars, far, up, down, relayVars, exitVars, dataVars, boundVars>>

Build == BuildStart \/ SelectPath \/ BuildDial \/ BuildExtend \/ BuildOpen \/ BuildTimeout

----------------------------------------------------------------------------
(* The client's read loop.                                                 *)

\* A frame from the first hop: CONNECTED goes to the BEGIN that waits for it, data
\* to the connection registered for its stream.
ReadFrame(c) ==
    LET f == Head(down[c])
        s == f.stream IN
    /\ man[c].loop = "reading"
    /\ near[c] = "open"
    /\ down[c] # <<>>
    /\ down' = [down EXCEPT ![c] = Tail(@)]
    /\ IF f.type = "connected" /\ s \in pending
       THEN /\ pending' = pending \ {s}
            /\ answer' = [answer EXCEPT ![s] = IF f.ok THEN "ok" ELSE "refused"]
       ELSE UNCHANGED <<pending, answer>>
    /\ heard' = IF f.type = "data" /\ reg[s] # NoCircuit /\ app[s[1]].open
                THEN [heard EXCEPT !.app[s] = Append(@, f.n)] ELSE heard
    /\ UNCHANGED <<clientVars, app, reg, near, far, up, relayVars, exitVars, sent, boundVars>>

\* The stream ends: the loop's deferred function forgets the circuit.
ReadLoopEnds(c) ==
    /\ man[c].loop = "reading"
    /\ near[c] = "closed" \/ (down[c] = <<>> /\ far[c] = "closed")
    /\ near' = [near EXCEPT ![c] = "closed"]
    /\ health' = IF man[c].rec # "none" THEN reportPath(health, plan[c], FALSE) ELSE health
    /\ man' = [man EXCEPT ![c] = [Forgotten(@) EXCEPT !.loop = "notify"]]
    /\ UNCHANGED <<sel, bld, plan, hb, appVars, far, up, down, relayVars, exitVars, dataVars, boundVars>>

\* Every stream registered on the circuit is removed and its connection closed.
NotifyCircuitClosed(c) ==
    /\ man[c].loop = "notify"
    /\ man' = [man EXCEPT ![c].loop = "over"]
    /\ reg' = [s \in StreamIDs |-> IF reg[s] = c THEN NoCircuit ELSE reg[s]]
    /\ app' = [a \in Apps |-> IF \E n \in Attempts : reg[<<a, n>>] = c
                              THEN [app[a] EXCEPT !.open = FALSE] ELSE app[a]]
    /\ UNCHANGED <<health, sel, bld, plan, hb, pending, answer, wireVars, relayVars, exitVars, dataVars, boundVars>>

\* handleTransientReadError keeps the loop going on a degraded circuit.
TransientRead(c) ==
    /\ man[c].loop = "reading"
    /\ man[c].rec = "open"
    /\ faults < scope.faults
    /\ faults' = faults + 1
    /\ man' = [man EXCEPT ![c].rec = "degraded"]
    /\ UNCHANGED <<health, sel, bld, plan, hb, appVars, wireVars, relayVars, exitVars, dataVars, changes, scope>>

----------------------------------------------------------------------------
(* SOCKS5 handlers: handleConn for TCP, handleUDPAssociate for UDP.        *)

UDP(a) == TargetOf[a].proto = "udp"

\* RegisterStream draws a new id for every attempt.
StreamID_Mutant(a) == <<a, 1>>
StreamID(a) == <<a, app[a].try>>

Acquire(a) ==
    /\ app[a].pc = "get"
    /\ \/ \E c \in Circuits : canReuseCircuit(c) /\ app' = [app EXCEPT ![a].pc = "register", ![a].cir = c]
       \/ /\ \A c \in Circuits : ~canReuseCircuit(c)
          /\ bld.pc = "idle"
          /\ app' = [app EXCEPT ![a].pc = "failed", ![a].open = FALSE]
    /\ UNCHANGED <<clientVars, reg, pending, answer, wireVars, relayVars, exitVars, dataVars, boundVars>>

RegisterStream(a) ==
    /\ app[a].pc = "register"
    /\ reg' = [reg EXCEPT ![StreamID(a)] = app[a].cir]
    /\ app' = [app EXCEPT ![a].pc = "begin"]
    /\ UNCHANGED <<clientVars, pending, answer, wireVars, relayVars, exitVars, dataVars, boundVars>>

\* releaseCircuitAfterBeginError and Unregister: the circuit is given back when the
\* error is not its own and it is still usable, and closed otherwise; a TCP
\* connection is kept open and retried, a UDP packet is dropped.
Unregister_Mutant(s) == reg
Unregister(s) == [reg EXCEPT ![s] = NoCircuit]
AfterBeginError(a, kind) ==
    LET c == app[a].cir IN
    /\ IF kind = "circuit" \/ ~canReuseCircuit(c)
       THEN CloseCircuit(c)
       ELSE /\ man' = [man EXCEPT ![c].rec = IF kind = "timeout" THEN "degraded" ELSE @]
            /\ UNCHANGED near
    /\ reg' = Unregister(StreamID(a))
    /\ pending' = pending \ {StreamID(a)}
    /\ app' = [app EXCEPT ![a] =
                 IF UDP(a) \/ @.try > scope.beginRetries
                 THEN [@ EXCEPT !.pc = "failed", !.open = FALSE]
                 ELSE [@ EXCEPT !.pc = "get", !.try = app[a].try + 1]]

\* BeginTCP and BeginUDP find a stream, and on a relayed circuit hop sessions.
CanBegin(c) == man[c].active /\ (Direct(c) \/ man[c].hops > 0)

BeginRefused(a) ==
    /\ app[a].pc = "begin"
    /\ ~CanBegin(app[a].cir)
    /\ AfterBeginError(a, "circuit")
    /\ UNCHANGED <<health, sel, bld, plan, hb, answer, far, up, down, relayVars, exitVars, dataVars, boundVars>>

\* What a handler is about to write on its circuit, and itself afterwards.
WritesBegin(a) == app[a].pc = "begin" /\ CanBegin(app[a].cir)
WritesData(a) ==
    /\ app[a].pc = "pump" /\ app[a].open
    /\ sent.app[StreamID(a)] < scope.chunks
    /\ near[app[a].cir] = "open"
Written(a) ==
    IF app[a].pc = "begin" THEN Frame("begin", StreamID(a)) ELSE Data(StreamID(a), sent.app[StreamID(a)] + 1)
AfterWrite(W) ==
    /\ app' = [a \in Apps |-> IF a \in W /\ app[a].pc = "begin" THEN [app[a] EXCEPT !.pc = "wait"] ELSE app[a]]
    /\ pending' = pending \cup {StreamID(a) : a \in {b \in W : app[b].pc = "begin"}}
    /\ sent' = [sent EXCEPT !.app = [s \in StreamIDs |->
                  IF \E a \in W : s = StreamID(a) /\ app[a].pc = "pump" THEN @[s] + 1 ELSE @[s]]]

Write(a) ==
    /\ WritesBegin(a) \/ WritesData(a)
    /\ Send(app[a].cir, Written(a))
    /\ AfterWrite({a})
    /\ UNCHANGED <<clientVars, reg, answer, near, far, down, relayVars, exitVars, heard, boundVars>>

\* Two handlers share a circuit and nothing serialises their WriteFrames: the
\* frames are torn, or, on a relayed circuit, sealed in one order and written in
\* the other, and the relay opens neither.  An END or a ping is written whole.
Clash(a, b) ==
    LET c == app[a].cir IN
    /\ a # b /\ app[b].cir = c
    /\ WritesBegin(a) \/ WritesData(a)
    /\ WritesBegin(b) \/ WritesData(b)
    /\ far[c] = "open"
    /\ \/ up' = [up EXCEPT ![c] = Append(@, Garbled)]
       \/ ~Direct(c) /\ UNCHANGED up
    /\ AfterWrite({a, b})
    /\ UNCHANGED <<clientVars, reg, answer, near, far, down, relayVars, exitVars, heard, boundVars>>

\* CONNECTED arrives in time: touchCircuitActivity, then the SOCKS5 reply.
BeginSucceeds(a) ==
    LET c == app[a].cir IN
    /\ app[a].pc = "wait"
    /\ answer[StreamID(a)] = "ok"
    /\ app' = [app EXCEPT ![a].pc = IF UDP(a) THEN "pump" ELSE "reply"]
    /\ man' = [man EXCEPT ![c] = IF @.rec = "none" THEN @ ELSE [@ EXCEPT !.rec = "open", !.fails = 0]]
    /\ UNCHANGED <<health, sel, bld, plan, hb, reg, pending, answer, wireVars, relayVars, exitVars, dataVars, boundVars>>

BeginFails(a) ==
    /\ app[a].pc = "wait"
    /\ answer[StreamID(a)] = "refused"
    /\ AfterBeginError(a, "remote")
    /\ UNCHANGED <<health, sel, bld, plan, hb, answer, far, up, down, relayVars, exitVars, dataVars, boundVars>>

\* The timer may win even when the answer is there.  markCircuitTimeout degrades
\* the circuit, which keeps it reusable.
BeginTimeout(a) ==
    /\ app[a].pc = "wait"
    /\ AfterBeginError(a, "timeout")
    /\ UNCHANGED <<health, sel, bld, plan, hb, answer, far, up, down, relayVars, exitVars, dataVars, boundVars>>

\* sendSocks5Reply and StartDataPump; a reply that cannot be written fails the circuit.
Reply(a) ==
    LET c == app[a].cir IN
    /\ app[a].pc = "reply"
    /\ IF app[a].open
       THEN /\ app' = [app EXCEPT ![a].pc = IF man[c].active THEN "pump" ELSE "ended"]
            /\ UNCHANGED <<man, near, reg>>
       ELSE /\ app' = [app EXCEPT ![a].pc = "ended"]
            /\ CloseCircuit(c)
            /\ reg' = [reg EXCEPT ![StreamID(a)] = NoCircuit]
    /\ UNCHANGED <<health, sel, bld, plan, hb, pending, answer, far, up, down, relayVars, exitVars, dataVars, boundVars>>

\* StartDataPump ends a stream with END, removeUDPStreams without.
SendsEnd_Mutant(a) == UDP(a)
SendsEnd(a) == ~UDP(a)

\* The local connection is gone: the TCP pump sends END and returns; the UDP
\* association removes its streams without telling the exit.
PumpEnds(a) ==
    LET c == app[a].cir IN
    /\ app[a].pc = "pump"
    /\ ~app[a].open
    /\ app' = [app EXCEPT ![a].pc = "ended"]
    /\ reg' = IF UDP(a) THEN Unregister(StreamID(a)) ELSE reg
    /\ IF SendsEnd(a) /\ near[c] = "open" THEN Send(c, Frame("end", StreamID(a))) ELSE UNCHANGED up
    /\ UNCHANGED <<clientVars, pending, answer, near, far, down, relayVars, exitVars, dataVars, boundVars>>

\* The application closes its connection.
AppLeaves(a) ==
    /\ app[a].pc \in {"wait", "reply", "pump"}
    /\ app[a].open
    /\ app' = [app EXCEPT ![a].open = FALSE]
    /\ UNCHANGED <<clientVars, reg, pending, answer, wireVars, relayVars, exitVars, dataVars, boundVars>>

Handler(a) ==
    \/ Acquire(a) \/ RegisterStream(a) \/ BeginRefused(a) \/ Write(a)
    \/ BeginSucceeds(a) \/ BeginFails(a) \/ BeginTimeout(a) \/ Reply(a) \/ PumpEnds(a)

----------------------------------------------------------------------------
(* The relay.                                                              *)

\* The first frame has to be the client's key; the relay answers with its own.
RelayHandshake(c) ==
    /\ rel[c] = "first"
    /\ up[c] # <<>>
    /\ Head(up[c]).type = "init"
    /\ up' = [up EXCEPT ![c] = Tail(@)]
    /\ down' = [down EXCEPT ![c] = IF near[c] = "open" THEN Append(@, Frame("resp", None)) ELSE @]
    /\ rel' = [rel EXCEPT ![c] = "run"]
    /\ UNCHANGED <<clientVars, appVars, near, far, nxt, up2, down2, exitVars, dataVars, boundVars>>

\* One layer off and on to the next hop, over a stream opened for the first cell
\* and again whenever the exit has closed the last one.  END and cells that do not
\* open are dropped.
RelayForward(c) ==
    LET f == Head(up[c])
        onward == IF f.type = "extend" THEN Frame("init", None) ELSE Peeled(f)
    IN
    /\ rel[c] = "run"
    /\ up[c] # <<>>
    /\ f.type # "garbled"
    /\ up' = [up EXCEPT ![c] = Tail(@)]
    /\ IF Opens(f)
       THEN /\ nxt' = [nxt EXCEPT ![c] = TRUE]
            /\ IF nxt[c] THEN UNCHANGED <<ex, down2>>
               ELSE /\ ex' = [ex EXCEPT ![c] = ServeAt("first")]
                    /\ down2' = [down2 EXCEPT ![c] = <<>>]
            /\ up2' = [up2 EXCEPT ![c] = IF ~nxt[c] THEN <<onward>>
                                         ELSE IF ex[c].pc = "done" THEN @ ELSE Append(@, onward)]
       ELSE UNCHANGED <<nxt, ex, up2, down2>>
    /\ UNCHANGED <<clientVars, appVars, near, far, down, rel, conn, policy, dataVars, boundVars>>

\* pumpNextHopToClient seals what the exit sends once more; the exit's key is all
\* it ever sends here.
RelayBackward(c) ==
    /\ nxt[c]
    /\ down2[c] # <<>>
    /\ down2' = [down2 EXCEPT ![c] = Tail(@)]
    /\ down' = [down EXCEPT ![c] = IF near[c] = "open" /\ rel[c] = "run" THEN Append(@, Frame("extended", None)) ELSE @]
    /\ UNCHANGED <<clientVars, appVars, near, far, up, rel, nxt, up2, exitVars, dataVars, boundVars>>

\* The exit closed its stream: the pump forgets it.  The client is not told.
RelayPumpEnds(c) ==
    /\ nxt[c]
    /\ down2[c] = <<>>
    /\ ex[c].pc = "done"
    /\ nxt' = [nxt EXCEPT ![c] = FALSE]
    /\ UNCHANGED <<clientVars, appVars, wireVars, rel, up2, down2, exitVars, dataVars, boundVars>>

\* The client closed the circuit, or a frame cannot be read: the relay closes its
\* end.  The stream to the exit stays open.
RelayEnds(c) ==
    /\ rel[c] \in {"first", "run"}
    /\ \/ up[c] = <<>> /\ near[c] = "closed"
       \/ up[c] # <<>> /\ Head(up[c]).type = "garbled"
    /\ rel' = [rel EXCEPT ![c] = "done"]
    /\ far' = [far EXCEPT ![c] = "closed"]
    /\ up' = [up EXCEPT ![c] = <<>>]
    /\ UNCHANGED <<clientVars, appVars, near, down, nxt, up2, down2, exitVars, dataVars, boundVars>>

Relay(c) == RelayHandshake(c) \/ RelayForward(c) \/ RelayBackward(c) \/ RelayPumpEnds(c) \/ RelayEnds(c)

----------------------------------------------------------------------------
(* The exit.                                                               *)

\* Inside checkBeginPolicy: which of its steps is next.
Checking == {"check", "remoteDNS", "lookup", "address"}

Inbox(c) == IF ExitServes(c) THEN up[c] ELSE up2[c]
Took(c) ==
    IF ExitServes(c) THEN up' = [up EXCEPT ![c] = Tail(@)] /\ UNCHANGED up2
    ELSE up2' = [up2 EXCEPT ![c] = Tail(@)] /\ UNCHANGED up

\* The peer at the other end of the exit's stream.
Peer(c) == IF ExitServes(c) THEN Local ELSE plan[c].relay

ExitReplies(c, f) ==
    IF ExitServes(c)
    THEN down' = [down EXCEPT ![c] = IF near[c] = "open" THEN Append(@, f) ELSE @] /\ UNCHANGED down2
    ELSE down2' = [down2 EXCEPT ![c] = Append(@, f)] /\ UNCHANGED down

\* serveStream: a key opens an encrypted stream, anything else a direct one.
ExitHandshake(c) ==
    /\ ex[c].pc = "first"
    /\ Inbox(c) # <<>>
    /\ IF Head(Inbox(c)).type = "init"
       THEN /\ Took(c)
            /\ ExitReplies(c, Frame("resp", None))
            /\ ex' = [ex EXCEPT ![c].pc = "enc"]
       ELSE /\ ex' = [ex EXCEPT ![c].pc = "direct"]
            /\ UNCHANGED <<up, up2, down, down2>>
    /\ UNCHANGED <<clientVars, appVars, near, far, rel, nxt, conn, policy, dataVars, boundVars>>

\* The serving goroutine returns and closes its stream; the connections it opened
\* stay with their pumps.
ExitReturns(c) ==
    /\ ex' = [ex EXCEPT ![c] = ServeAt("done")]
    /\ IF ExitServes(c)
       THEN far' = [far EXCEPT ![c] = "closed"] /\ up' = [up EXCEPT ![c] = <<>>] /\ UNCHANGED up2
       ELSE up2' = [up2 EXCEPT ![c] = <<>>] /\ UNCHANGED <<far, up>>

\* serveEncryptedStream: a cell that does not open as layer 0 ends the stream.
\* The only one that opens is the extend cell a relay+exit node gets as first hop:
\* its plaintext has no kind, and is ignored.
ExitCell(c) ==
    /\ ex[c].pc = "enc"
    /\ Inbox(c) # <<>>
    /\ IF Opens(Head(Inbox(c)))
       THEN Took(c) /\ UNCHANGED <<ex, far>>
       ELSE ExitReturns(c)
    /\ UNCHANGED <<clientVars, appVars, near, down, rel, nxt, down2, conn, policy, dataVars, boundVars>>

\* handleDirectFrame, BEGIN_TCP and BEGIN_UDP: the check begins.
ExitBegin(c) ==
    /\ ex[c].pc = "direct"
    /\ Inbox(c) # <<>>
    /\ LET f == Head(Inbox(c)) IN
       /\ f.type = "begin" /\ f.layers = <<>>
       /\ ex' = [ex EXCEPT ![c] = [ServeAt(IF Exempt(TargetOf[f.stream[1]]) THEN "dial" ELSE "check") EXCEPT
                                    !.s = f.stream, !.rule = 1, !.seen = {policy}]]
    /\ Took(c)
    /\ UNCHANGED <<clientVars, appVars, near, far, down, rel, nxt, down2, conn, policy, dataVars, boundVars>>

Target(c) == TargetOf[ex[c].s[1]]

\* The goroutine goes back to reading frames once the BEGIN is answered.
ExitAnswers(c, f) == ExitReplies(c, f) /\ ex' = [ex EXCEPT ![c] = ServeAt("direct")]
ExitRefuses(c) == ExitAnswers(c, Connected(ex[c].s, FALSE))
ExitPasses(c, e) == ex' = [ex EXCEPT ![c] = e] /\ UNCHANGED <<down, down2>>

\* One of the rules every BEGIN goes through.  A literal address has then been
\* checked, a name's addresses have not.
ExitRule(c) ==
    LET e == ex[c] IN
    /\ e.pc = "check"
    /\ IF Verdict(Rules[e.rule], policy, Peer(c), Target(c)) # "" THEN ExitRefuses(c)
       ELSE IF e.rule < Len(Rules) THEN ExitPasses(c, [e EXCEPT !.rule = e.rule + 1])
       ELSE ExitPasses(c, [e EXCEPT !.pc = IF Target(c).name = <<>> THEN "dial" ELSE "remoteDNS"])

\* GetPolicy().RemoteDNS: without it a name is left to the resolver of the dial.
ExitRemoteDNS(c) ==
    /\ ex[c].pc = "remoteDNS"
    /\ ExitPasses(c, [ex[c] EXCEPT !.pc = IF policy.remoteDNS THEN "lookup" ELSE "dial"])

\* LookupIP, which holds no lock while it waits.
ExitLookup(c) ==
    /\ ex[c].pc = "lookup"
    /\ \E found \in Resolved(Target(c)) :
         IF found = <<>> THEN ExitRefuses(c)
         ELSE ExitPasses(c, [ex[c] EXCEPT !.pc = "address", !.rule = 1, !.addrs = found])

\* The addresses one by one, each under the policy in force by then.
LastAddress_Mutant(e) == TRUE
LastAddress(e) == e.rule = Len(e.addrs)
ExitAddress(c) ==
    LET e == ex[c] IN
    /\ e.pc = "address"
    /\ IF CheckTargetIPAllowed(policy, e.addrs[e.rule]) # "" THEN ExitRefuses(c)
       ELSE IF LastAddress(e) THEN ExitPasses(c, [e EXCEPT !.pc = "dial"])
       ELSE ExitPasses(c, [e EXCEPT !.rule = e.rule + 1])

ExitCheck(c) ==
    /\ ExitRule(c) \/ ExitRemoteDNS(c) \/ ExitLookup(c) \/ ExitAddress(c)
    /\ UNCHANGED <<clientVars, appVars, near, far, up, rel, nxt, up2, conn, policy, dataVars, boundVars>>

\* The answer to a BEGIN that was admitted.
DialReply_Mutant(s, dialled) == Connected(s, TRUE)
DialReply(s, dialled) == Connected(s, dialled)

\* The target is dialled (a UDP socket is opened).  A name is looked up once more,
\* by net.Dial, ResolveUDPAddr or the upstream SOCKS5 server, and the connection
\* goes to an address of this answer; only a connection that exists is stored,
\* announced and pumped.
ExitDial(c) ==
    LET e == ex[c] IN
    /\ e.pc = "dial"
    /\ \E found \in Resolved(Target(c)) : \E i \in DOMAIN found :
         conn' = [conn EXCEPT ![e.s] = [state |-> "open", cir |-> c, under |-> e.seen,
                                        checked |-> e.addrs, to |-> found[i]]]
    /\ ExitAnswers(c, DialReply(e.s, TRUE))
    /\ UNCHANGED <<clientVars, appVars, near, far, up, rel, nxt, up2, policy, dataVars, boundVars>>

\* No address this time.
ExitDialUnresolved(c) ==
    /\ ex[c].pc = "dial"
    /\ <<>> \in Resolved(Target(c))
    /\ ExitAnswers(c, DialReply(ex[c].s, FALSE))
    /\ UNCHANGED <<clientVars, appVars, near, far, up, rel, nxt, up2, conn, policy, dataVars, boundVars>>

ExitDialFails(c) ==
    /\ ex[c].pc = "dial"
    /\ faults < scope.faults
    /\ faults' = faults + 1
    /\ ExitAnswers(c, DialReply(ex[c].s, FALSE))
    /\ UNCHANGED <<clientVars, appVars, near, far, up, rel, nxt, up2, conn, policy, dataVars, changes, scope>>

\* handleDirectFrame, DATA and END: both only concern a connection that is there.
ExitFrame(c) ==
    LET f == Head(Inbox(c)) IN
    /\ ex[c].pc = "direct"
    /\ Inbox(c) # <<>>
    /\ f.type \in {"data", "end"} /\ f.layers = <<>>
    /\ Took(c)
    /\ heard' = IF f.type = "data" /\ conn[f.stream].state = "open"
                THEN [heard EXCEPT !.remote[f.stream] = Append(@, f.n)] ELSE heard
    /\ conn' = IF f.type = "end" /\ conn[f.stream].state = "open"
               THEN [conn EXCEPT ![f.stream].state = "closed"] ELSE conn
    /\ UNCHANGED <<clientVars, appVars, near, far, down, rel, nxt, down2, ex, policy, sent, boundVars>>

\* Any other frame ends the stream, and so does its end.
Unreadable(f) == f.type = "garbled" \/ f.layers # <<>>
ExitEnds(c) ==
    /\ \/ ex[c].pc = "direct" /\ Inbox(c) # <<>> /\ Unreadable(Head(Inbox(c)))
       \/ ex[c].pc \in {"first", "direct", "enc"} /\ Inbox(c) = <<>> /\ ExitServes(c) /\ near[c] = "closed"
    /\ ExitReturns(c)
    /\ UNCHANGED <<clientVars, appVars, near, down, rel, nxt, down2, conn, policy, dataVars, boundVars>>

\* pumpRemoteToCircuitPlain: a chunk from the remote end.  When the circuit's
\* stream is closed the write fails and the pump closes the connection.
ExitPump(s) ==
    LET c == conn[s].cir IN
    /\ conn[s].state = "open"
    /\ sent.remote[s] < scope.chunks
    /\ sent' = [sent EXCEPT !.remote[s] = @ + 1]
    /\ IF far[c] = "open"
       THEN ExitReplies(c, Data(s, sent.remote[s] + 1)) /\ UNCHANGED conn
       ELSE conn' = [conn EXCEPT ![s].state = "closed"] /\ UNCHANGED <<down, down2>>
    /\ UNCHANGED <<clientVars, appVars, near, far, up, rel, nxt, up2, ex, policy, heard, boundVars>>

\* The remote end closes: the pump returns.  Nothing is sent to the client.
RemoteCloses(s) ==
    /\ conn[s].state = "open"
    /\ faults < scope.faults
    /\ faults' = faults + 1
    /\ conn' = [conn EXCEPT ![s].state = "closed"]
    /\ UNCHANGED <<clientVars, appVars, wireVars, relayVars, ex, policy, dataVars, changes, scope>>

Exit(c) == ExitHandshake(c) \/ ExitCell(c) \/ ExitBegin(c) \/ ExitCheck(c) \/ ExitDial(c)
           \/ ExitDialUnresolved(c) \/ ExitFrame(c) \/ ExitEnds(c)

\* SetPolicy and SetRuntime, between any two steps of the checks in progress.
SetPolicy ==
    /\ changes < scope.changes
    /\ changes' = changes + 1
    /\ \E p \in scope.policies \ {policy} :
        /\ policy' = p
        /\ ex' = [c \in Circuits |-> IF ex[c].pc \in Checking THEN [ex[c] EXCEPT !.seen = @ \cup {p}] ELSE ex[c]]
    /\ UNCHANGED <<clientVars, appVars, wireVars, relayVars, conn, dataVars, faults, scope>>

----------------------------------------------------------------------------
(* The heartbeat of relayed circuits.                                      *)

\* heartbeatCandidates takes degraded circuits too.
Probed_Mutant(c) == canReuseCircuit(c) /\ ~Direct(c) /\ man[c].rec = "open"
Probed(c) == canReuseCircuit(c) /\ ~Direct(c)

\* probeCircuit, sendHeartbeat.
HeartbeatPing(c) ==
    /\ hb = NoCircuit
    /\ Probed(c)
    /\ hb' = c
    /\ up' = [up EXCEPT ![c] = IF far[c] = "open" THEN Append(@, WrapForward(man[c].hops, "ping", None)) ELSE @]
    /\ UNCHANGED <<health, sel, bld, man, plan, appVars, near, far, down, relayVars, exitVars, dataVars, boundVars>>

\* No pong in time, and none ever comes: the exit opens no ping (ExitCell).
\* handleHeartbeatFailure degrades the circuit and, at the threshold, fails it.
Unhealthy(n) == n >= FailureThreshold
HeartbeatTimeout ==
    LET c == hb
        n == man[c].fails + 1 IN
    /\ hb # NoCircuit
    /\ hb' = NoCircuit
    /\ IF man[c].rec = "none" THEN UNCHANGED <<man, near, health>>
       ELSE IF Unhealthy(n)
       THEN CloseCircuit(c) /\ health' = reportPath(health, plan[c], FALSE)
       ELSE /\ man' = [man EXCEPT ![c].rec = "degraded", ![c].fails = n]
            /\ UNCHANGED <<near, health>>
    /\ UNCHANGED <<sel, bld, plan, appVars, far, up, down, relayVars, exitVars, dataVars, boundVars>>

----------------------------------------------------------------------------
(* The environment.                                                        *)

\* A connection between two nodes drops: what was in flight is lost.
LinkBreaks(c) ==
    /\ faults < scope.faults
    /\ near[c] = "open" /\ far[c] = "open"
    /\ faults' = faults + 1
    /\ far' = [far EXCEPT ![c] = "closed"]
    /\ up' = [up EXCEPT ![c] = <<>>]
    /\ down' = [down EXCEPT ![c] = <<>>]
    /\ IF ExitServes(c)
       THEN ex' = [ex EXCEPT ![c] = ServeAt("done")] /\ UNCHANGED rel
       ELSE rel' = [rel EXCEPT ![c] = "done"] /\ UNCHANGED ex
    /\ UNCHANGED <<clientVars, appVars, near, nxt, up2, down2, conn, policy, dataVars, changes, scope>>

\* The pool evicts or trims a circuit.
PoolCloses(c) ==
    /\ faults < scope.faults
    /\ canReuseCircuit(c)
    /\ faults' = faults + 1
    /\ CloseCircuit(c)
    /\ UNCHANGED <<health, sel, bld, plan, hb, appVars, far, up, down, relayVars, exitVars, dataVars, changes, scope>>

\* A cooldown runs out: as only SelectPath looks at it, just before that.
CooldownEnds(n) ==
    /\ bld.pc = "select"
    /\ health[n].cooled
    /\ health' = [health EXCEPT ![n].cooled = FALSE]
    /\ UNCHANGED <<sel, bld, man, plan, hb, appVars, wireVars, relayVars, exitVars, dataVars, boundVars>>

SetExitSelection ==
    /\ changes < scope.changes
    /\ changes' = changes + 1
    /\ \E cfg \in scope.selections \ {sel} : sel' = cfg
    /\ UNCHANGED <<health, bld, man, plan, hb, appVars, wireVars, relayVars, exitVars, dataVars, faults, scope>>

Init ==
    /\ health = [n \in Nodes |-> NewHealth]
    /\ scope \in Scopes
    /\ sel \in scope.selections
    /\ bld = IdleBuild
    /\ man = [c \in Circuits |-> NoRecord]
    /\ plan = [c \in Circuits |-> NoPlan]
    /\ hb = NoCircuit
    /\ app = [a \in Apps |-> [pc |-> IF a \in scope.apps THEN "get" ELSE "ended", cir |-> NoCircuit, try |-> 1, open |-> TRUE]]
    /\ reg = [s \in StreamIDs |-> NoCircuit]
    /\ pending = {}
    /\ answer = [s \in StreamIDs |-> "none"]
    /\ near = [c \in Circuits |-> "none"]
    /\ far = [c \in Circuits |-> "none"]
    /\ up = [c \in Circuits |-> <<>>]
    /\ down = [c \in Circuits |-> <<>>]
    /\ rel = [c \in Circuits |-> "none"]
    /\ nxt = [c \in Circuits |-> FALSE]
    /\ up2 = [c \in Circuits |-> <<>>]
    /\ down2 = [c \in Circuits |-> <<>>]
    /\ ex = [c \in Circuits |-> ServeAt("none")]
    /\ conn = [s \in StreamIDs |-> [state |-> "none", cir |-> NoCircuit, under |-> {}, checked |-> <<>>, to |-> "public"]]
    /\ policy \in scope.policies
    /\ sent = [app |-> [s \in StreamIDs |-> 0], remote |-> [s \in StreamIDs |-> 0]]
    /\ heard = [app |-> [s \in StreamIDs |-> <<>>], remote |-> [s \in StreamIDs |-> <<>>]]
    /\ faults = 0
    /\ changes = 0

System ==
    \/ Build
    \/ \E c \in Circuits : ReadFrame(c) \/ ReadLoopEnds(c) \/ NotifyCircuitClosed(c) \/ Relay(c) \/ Exit(c) \/ HeartbeatPing(c)
    \/ \E a \in Apps : Handler(a)
    \/ HeartbeatTimeout

Environment ==
    \/ BuildDialFails \/ SetPolicy \/ SetExitSelection
    \/ \E c \in Circuits : TransientRead(c) \/ LinkBreaks(c) \/ PoolCloses(c) \/ ExitDialFails(c)
    \/ \E a \in Apps : AppLeaves(a) \/ \E b \in Apps : Clash(a, b)
    \/ \E s \in StreamIDs : ExitPump(s) \/ RemoteCloses(s)
    \/ \E n \in Nodes : CooldownEnds(n)

Next == System \/ Environment

Spec == Init /\ [][Next]_vars

(***************************************************************************)
(* Fairness: every goroutine keeps running.  The timers of BuildTimeout,   *)
(* BeginTimeout and HeartbeatTimeout always fire in the end; what the      *)
(* environment does (faults, the application, the remote end, the          *)
(* operator) is never forced.                                              *)
(***************************************************************************)
FairSpec ==
    /\ Spec
    /\ WF_vars(Build)
    /\ WF_vars(HeartbeatTimeout)
    /\ \A a \in Apps : WF_vars(Handler(a))
    /\ \A c \in Circuits :
        /\ WF_vars(ReadFrame(c)) /\ WF_vars(ReadLoopEnds(c)) /\ WF_vars(NotifyCircuitClosed(c))
        /\ WF_vars(Relay(c)) /\ WF_vars(Exit(c))
        /\ SF_vars(HeartbeatPing(c))

----------------------------------------------------------------------------
(* Properties.                                                             *)

FrameTypes == {"init", "resp", "extend", "extended", "begin", "data", "end", "connected", "ping", "garbled"}
Frames ==
    {f \in [type : FrameTypes, stream : StreamIDs \cup {None}, n : Nat, ok : BOOLEAN, layers : {<<>>, <<0>>, <<1>>, <<0, 1>>}] :
        f.type = "begin" => f.stream \in StreamIDs}

Healths == [known : BOOLEAN, successes : Nat, failures : Nat, cooled : BOOLEAN]
Plans == [relay : Nodes \cup {NoNode}, exit : Nodes \cup {NoNode}]
Builds == [pc : {"idle", "select", "dial", "key", "extend"}, cir : Circuits \cup {NoCircuit},
           exclude : SUBSET Nodes, tries : Nat]
Records == [rec : {"none", "creating", "open", "degraded"}, active : BOOLEAN, hops : 0..2,
            fails : 0..FailureThreshold, loop : {"none", "reading", "notify", "over"}]
Handlers == [pc : {"get", "register", "begin", "wait", "reply", "pump", "ended", "failed"},
             cir : Circuits \cup {NoCircuit}, try : Attempts, open : BOOLEAN]
Exits ==
    {e \in [pc : {"none", "first", "enc", "direct", "dial", "done"} \cup Checking, s : StreamIDs \cup {None},
            rule : Nat, seen : SUBSET Policies, addrs : Seq(AddressClasses)] :
        /\ e.pc \in Checking \cup {"dial"} => e.s \in StreamIDs
        /\ e.pc = "check" => e.rule \in DOMAIN Rules
        /\ e.pc = "address" => e.rule \in DOMAIN e.addrs}
Connections == [state : {"none", "open", "closed"}, cir : Circuits \cup {NoCircuit}, under : SUBSET Policies,
                checked : Seq(AddressClasses), to : AddressClasses]
Ends == {"none", "open", "closed"}

\* Type correctness of the client, the relay and the exit; the counters of the
\* peer health (internal/client/path_selector.go) are naturals.
TypeOK ==
    /\ health \in [Nodes -> Healths] /\ sel \in Selections
    /\ bld \in Builds /\ man \in [Circuits -> Records] /\ plan \in [Circuits -> Plans]
    /\ hb \in Circuits \cup {NoCircuit}
    /\ app \in [Apps -> Handlers] /\ reg \in [StreamIDs -> Circuits \cup {NoCircuit}]
    /\ pending \in SUBSET StreamIDs /\ answer \in [StreamIDs -> {"none", "ok", "refused"}]
    /\ near \in [Circuits -> Ends] /\ far \in [Circuits -> Ends]
    /\ {up, down, up2, down2} \subseteq [Circuits -> Seq(Frames)]
    /\ rel \in [Circuits -> {"none", "first", "run", "done"}] /\ nxt \in [Circuits -> BOOLEAN]
    /\ ex \in [Circuits -> Exits] /\ conn \in [StreamIDs -> Connections] /\ policy \in Policies
    /\ sent \in [app : [StreamIDs -> Nat], remote : [StreamIDs -> Nat]]
    /\ heard \in [app : [StreamIDs -> Seq(Nat)], remote : [StreamIDs -> Seq(Nat)]]
    /\ scope \in Scopes /\ faults \in 0..scope.faults /\ changes \in 0..scope.changes

\* A handler that was told CONNECTED (readLoop, BeginTCP) has a connection at the
\* exit that was dialled for this very attempt over this very circuit, however many
\* BEGINs timed out and were answered late before.
ConnectedIsDialled ==
    \A a \in Apps : app[a].pc \in {"reply", "pump"} =>
        /\ conn[StreamID(a)].state # "none"
        /\ conn[StreamID(a)].cir = app[a].cir

\* What reaches the application and what reaches the remote end of a stream is a
\* prefix of what was sent to it: no hole, no repetition, no exchange, although the
\* streams of a circuit share one connection and write to it unserialised
\* (StartDataPump, pumpRemoteToCircuitPlain, handleDirectFrame).
InOrder ==
    \A s \in StreamIDs :
        /\ \A i \in DOMAIN heard.app[s] : heard.app[s][i] = i /\ i <= sent.remote[s]
        /\ \A i \in DOMAIN heard.remote[s] : heard.remote[s][i] = i /\ i <= sent.app[s]

\* The addresses of a connection that the exit answers for.
AddressesOf(k, t) == ToSet(k.checked) \cup {class \in {k.to} : \A x, y \in Resolved(t) : x = y}

\* The exit (checkBeginPolicy) never opens a connection that a clause of the
\* configuration forbade during the whole check, whatever the API changed meanwhile.
\* For a name the clause about addresses is asked of each address the check's lookup
\* gave, and of the one connected to when the name has but one answer: the dial
\* looks it up again.
AdmittedByPolicy ==
    \A s \in StreamIDs :
        LET k == conn[s]
            t == TargetOf[s[1]] IN
        k.state # "none" /\ ~Exempt(t) =>
            /\ \A clause \in Clauses : \E p \in k.under : clause \notin Forbids(p, Peer(k.cir), t)
            /\ \A class \in AddressesOf(k, t) : \E p \in k.under : ~ForbidsAddress(p, class, t)

\* Two stronger statements that the code does not keep (README, section 10).

\* After the check of the resolved addresses (checkBeginPolicy, "remote_dns") the
\* connection goes to one of them.
DialsChecked ==
    \A s \in StreamIDs :
        conn[s].state # "none" /\ conn[s].checked # <<>> => conn[s].to \in ToSet(conn[s].checked)

\* A single policy admitted all the addresses that checkBeginPolicy looked at.
OnePolicyAdmits ==
    \A s \in StreamIDs :
        conn[s].state # "none" =>
            \E p \in conn[s].under : \A class \in ToSet(conn[s].checked) : ~ForbidsAddress(p, class, TargetOf[s[1]])

\* When the application closes its connection the exit closes the remote one, as
\* long as their direct circuit lives: the END frame (StartDataPump) gets through.
EndCloses ==
    \A a \in Apps : \A c \in Circuits :
        (~UDP(a) /\ app[a].pc = "pump" /\ ~app[a].open /\ app[a].cir = c)
            ~> (conn[StreamID(a)].state = "closed" \/ far[c] = "closed" \/ near[c] = "closed")

\* A relayed circuit whose exit has gone does not stay in use: the heartbeats
\* (handleHeartbeatFailure) fail it, although the relay never tells the client.
DeadCircuitFailed ==
    \A c \in Circuits : (man[c].active /\ man[c].rec # "creating" /\ ~Direct(c) /\ ex[c].pc = "done") ~> ~man[c].active

\* No stream stays registered on a circuit that is gone (NotifyCircuitClosed and the
\* error paths of handleConn), however registration and the circuit's end interleave.
NoOrphanStream ==
    \A s \in StreamIDs : \A c \in Circuits : (reg[s] = c /\ ~man[c].active) ~> reg[s] # c

=============================================================================
