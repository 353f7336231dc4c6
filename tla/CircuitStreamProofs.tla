------------------------- MODULE CircuitStreamProofs -------------------------
(***************************************************************************)
(* Proofs about the streams of Circuit: a handler that was told CONNECTED  *)
(* has the connection it asked for, and data is delivered in order, for    *)
(* any circuits, requests, targets, policies, selections and scopes.       *)
(***************************************************************************)
EXTENDS CircuitProofs

-----------------------------------------------------------------------------
(* The handlers                                                             *)

\* A handler that holds a circuit, and one whose attempt has sent no BEGIN yet.
Acquired == {"register", "begin", "wait", "reply", "pump"}
Early == {"get", "register", "begin"}

\* How a step takes a handler from h to g; ok says that its BEGIN was answered, U
\* are the circuits that can be reused.
Goes(h, g, ok, U) ==
    /\ g.open => h.open
    /\ g.pc \in Acquired => (h.pc \in Acquired /\ g.cir = h.cir) \/ g.cir \in U
    /\ \/ /\ g.try = h.try
          /\ g.pc \in Early => h.pc \in Early
          /\ g.cir = h.cir \/ h.pc = "get"
          /\ g.pc \in {"reply", "pump"} => h.pc \in {"reply", "pump"} \/ (h.pc = "wait" /\ ok)
       \/ g.try = h.try + 1 /\ g.pc = "get"

Reusable == {c \in Circuits : canReuseCircuit(c)}

\* The edits that the actions make to a handler.
LEMMA HandlerEdits ==
  ASSUME NEW h \in Handlers, NEW ok, NEW U
  PROVE  /\ Goes(h, h, ok, U)
         /\ Goes(h, [h EXCEPT !.open = FALSE], ok, U)
         /\ \A c \in U : h.pc = "get" => Goes(h, [h EXCEPT !.pc = "register", !.cir = c], ok, U)
         /\ Goes(h, [h EXCEPT !.pc = "failed", !.open = FALSE], ok, U)
         /\ Goes(h, [h EXCEPT !.pc = "get", !.try = h.try + 1], ok, U)
         /\ h.pc = "register" => Goes(h, [h EXCEPT !.pc = "begin"], ok, U)
         /\ h.pc = "begin" => Goes(h, [h EXCEPT !.pc = "wait"], ok, U)
         /\ Goes(h, [h EXCEPT !.pc = "ended"], ok, U)
         /\ h.pc = "wait" /\ ok => Goes(h, [h EXCEPT !.pc = "reply"], ok, U) /\ Goes(h, [h EXCEPT !.pc = "pump"], ok, U)
         /\ h.pc = "reply" => Goes(h, [h EXCEPT !.pc = "pump"], ok, U)
<1>1. ASSUME NEW p, NEW g, g = [h EXCEPT !.pc = p]
      PROVE  g.pc = p /\ g.try = h.try /\ g.cir = h.cir /\ g.open = h.open
  BY <1>1 DEF Handlers
<1>2. [h EXCEPT !.open = FALSE].pc = h.pc /\ [h EXCEPT !.open = FALSE].try = h.try
      /\ [h EXCEPT !.open = FALSE].cir = h.cir /\ [h EXCEPT !.open = FALSE].open = FALSE
  BY DEF Handlers
<1>3. ASSUME NEW g, g = [h EXCEPT !.pc = "failed", !.open = FALSE]
      PROVE  g.pc = "failed" /\ g.try = h.try /\ g.cir = h.cir /\ g.open = FALSE
  BY <1>3 DEF Handlers
<1>4. ASSUME NEW g, g = [h EXCEPT !.pc = "get", !.try = h.try + 1]
      PROVE  g.pc = "get" /\ g.try = h.try + 1 /\ g.open = h.open
  BY <1>4 DEF Handlers
<1>5. Goes(h, h, ok, U)
  BY DEF Goes
<1>6. Goes(h, [h EXCEPT !.open = FALSE], ok, U)
  BY <1>2 DEF Goes
<1>7. \A c \in U : h.pc = "get" => Goes(h, [h EXCEPT !.pc = "register", !.cir = c], ok, U)
  <2> SUFFICES ASSUME NEW c \in U, h.pc = "get" PROVE Goes(h, [h EXCEPT !.pc = "register", !.cir = c], ok, U)
    OBVIOUS
  <2>1. PICK g : g = [h EXCEPT !.pc = "register", !.cir = c]
    OBVIOUS
  <2>2. g.pc = "register" /\ g.try = h.try /\ g.cir = c /\ g.open = h.open
    BY <2>1 DEF Handlers
  <2>3. Goes(h, g, ok, U)
    BY <2>2 DEF Goes, Early, Acquired
  <2> QED BY <2>1, <2>3
<1>8. Goes(h, [h EXCEPT !.pc = "failed", !.open = FALSE], ok, U)
  BY <1>3 DEF Goes, Early, Acquired
<1>9. Goes(h, [h EXCEPT !.pc = "get", !.try = h.try + 1], ok, U)
  BY <1>4 DEF Goes, Acquired
<1>10. /\ h.pc = "register" => Goes(h, [h EXCEPT !.pc = "begin"], ok, U)
       /\ h.pc = "begin" => Goes(h, [h EXCEPT !.pc = "wait"], ok, U)
       /\ Goes(h, [h EXCEPT !.pc = "ended"], ok, U)
       /\ h.pc = "wait" /\ ok => Goes(h, [h EXCEPT !.pc = "reply"], ok, U) /\ Goes(h, [h EXCEPT !.pc = "pump"], ok, U)
       /\ h.pc = "reply" => Goes(h, [h EXCEPT !.pc = "pump"], ok, U)
  BY <1>1 DEF Goes, Early, Acquired
<1> QED BY <1>5, <1>6, <1>7, <1>8, <1>9, <1>10

\* Every step takes every handler on, or leaves it.
LEMMA HandlerSteps ==
  ASSUME Safe, Next \/ UNCHANGED vars
  PROVE  \A a \in Apps : Goes(app[a], app'[a], answer[StreamID(a)] = "ok", Reusable)
<1> DEFINE Moves == \A a \in Apps : Goes(app[a], app'[a], answer[StreamID(a)] = "ok", Reusable)
<1>1. app \in [Apps -> Handlers] /\ AppOK /\ DataOK
  BY TypeParts DEF Safe, AppOK
<1>2. \A a \in Apps : app[a] \in Handlers
  BY <1>1
<1>3. UNCHANGED app => Moves
  BY <1>2, HandlerEdits
<1>4. ASSUME NEW a \in Apps, NEW g, app' = [app EXCEPT ![a] = g], Goes(app[a], g, answer[StreamID(a)] = "ok", Reusable)
      PROVE  Moves
  <2>1. app'[a] = g /\ \A b \in Apps : b # a => app'[b] = app[b]
    BY <1>1, <1>4
  <2> QED BY <1>2, <1>4, <2>1, HandlerEdits
<1>5. ASSUME NEW W \in SUBSET Apps, AfterWrite(W) PROVE Moves
  <2> SUFFICES ASSUME NEW a \in Apps PROVE Goes(app[a], app'[a], answer[StreamID(a)] = "ok", Reusable)
    OBVIOUS
  <2> DEFINE ok == answer[StreamID(a)] = "ok"
  <2>1. (app[a].pc = "begin" /\ app'[a] = [app[a] EXCEPT !.pc = "wait"]) \/ app'[a] = app[a]
    BY <1>5 DEF AfterWrite
  <2>2. /\ Goes(app[a], app[a], ok, Reusable)
        /\ app[a].pc = "begin" => Goes(app[a], [app[a] EXCEPT !.pc = "wait"], ok, Reusable)
    BY <1>2, HandlerEdits
  <2> QED BY <2>1, <2>2
<1>6. ASSUME NEW a \in Apps, NEW kind, AfterBeginError(a, kind) PROVE Moves
  <2>1. \/ app' = [app EXCEPT ![a] = [app[a] EXCEPT !.pc = "failed", !.open = FALSE]]
        \/ app' = [app EXCEPT ![a] = [app[a] EXCEPT !.pc = "get", !.try = app[a].try + 1]]
    BY <1>6 DEF AfterBeginError
  <2> QED BY <1>2, <1>4, <2>1, HandlerEdits
<1> SUFFICES Moves
  OBVIOUS
<1> HIDE DEF Moves
<1>7. ASSUME NEW a \in Apps, Handler(a) PROVE Moves
  <2>1. CASE Acquire(a)
    <3>1. \/ \E c \in Reusable : app' = [app EXCEPT ![a] = [app[a] EXCEPT !.pc = "register", !.cir = c]]
          \/ app' = [app EXCEPT ![a] = [app[a] EXCEPT !.pc = "failed", !.open = FALSE]]
      BY <1>1, <2>1 DEF Acquire, Reusable
    <3>2. app[a].pc = "get"
      BY <2>1 DEF Acquire
    <3> QED BY <1>2, <1>4, <3>1, <3>2, HandlerEdits
  <2>2. CASE RegisterStream(a)
    <3>1. app' = [app EXCEPT ![a] = [app[a] EXCEPT !.pc = "begin"]] /\ app[a].pc = "register"
      BY <2>2 DEF RegisterStream
    <3> QED BY <1>2, <1>4, <3>1, HandlerEdits
  <2>3. CASE BeginRefused(a) \/ BeginFails(a) \/ BeginTimeout(a)
    BY <1>6, <2>3 DEF BeginRefused, BeginFails, BeginTimeout
  <2>4. CASE Write(a)
    BY <1>5, <2>4 DEF Write
  <2>5. CASE BeginSucceeds(a)
    <3>1. /\ \/ app' = [app EXCEPT ![a] = [app[a] EXCEPT !.pc = "pump"]]
             \/ app' = [app EXCEPT ![a] = [app[a] EXCEPT !.pc = "reply"]]
          /\ app[a].pc = "wait" /\ answer[StreamID(a)] = "ok"
      BY <2>5 DEF BeginSucceeds
    <3> QED BY <1>2, <1>4, <3>1, HandlerEdits
  <2>6. CASE Reply(a)
    <3>1. /\ \/ app' = [app EXCEPT ![a] = [app[a] EXCEPT !.pc = "pump"]]
             \/ app' = [app EXCEPT ![a] = [app[a] EXCEPT !.pc = "ended"]]
          /\ app[a].pc = "reply"
      BY <2>6 DEF Reply
    <3> QED BY <1>2, <1>4, <3>1, HandlerEdits
  <2>7. CASE PumpEnds(a)
    <3>1. app' = [app EXCEPT ![a] = [app[a] EXCEPT !.pc = "ended"]]
      BY <2>7 DEF PumpEnds
    <3> QED BY <1>2, <1>4, <3>1, HandlerEdits
  <2> QED BY <1>7, <2>1, <2>2, <2>3, <2>4, <2>5, <2>6, <2>7 DEF Handler
<1>8. CASE Serving
  <2>1. ASSUME NEW a \in Apps, AppLeaves(a) PROVE Moves
    <3>1. app' = [app EXCEPT ![a] = [app[a] EXCEPT !.open = FALSE]]
      BY <2>1 DEF AppLeaves
    <3> QED BY <1>2, <1>4, <3>1, HandlerEdits
  <2>2. ASSUME NEW a \in Apps, NEW b \in Apps, Clash(a, b) PROVE Moves
    BY <1>5, <2>2 DEF Clash
  <2> QED BY <1>7, <1>8, <2>1, <2>2 DEF Serving
<1>9. CASE Upkeep
  <2>1. ASSUME NEW c \in Circuits, NotifyCircuitClosed(c) PROVE Moves
    <3> SUFFICES ASSUME NEW a \in Apps PROVE Goes(app[a], app'[a], answer[StreamID(a)] = "ok", Reusable)
      BY DEF Moves
    <3> DEFINE ok == answer[StreamID(a)] = "ok"
    <3>1. app'[a] = [app[a] EXCEPT !.open = FALSE] \/ app'[a] = app[a]
      BY <2>1 DEF NotifyCircuitClosed
    <3>2. Goes(app[a], app[a], ok, Reusable) /\ Goes(app[a], [app[a] EXCEPT !.open = FALSE], ok, Reusable)
      BY <1>2, HandlerEdits
    <3> QED BY <3>1, <3>2
  <2>2. UNCHANGED app \/ \E c \in Circuits : NotifyCircuitClosed(c)
    BY <1>9 DEF Upkeep, ReadFrame, ReadLoopEnds, TransientRead, HeartbeatPing, HeartbeatTimeout, PoolCloses, CooldownEnds,
       SetExitSelection, appVars
  <2> QED BY <1>3, <2>1, <2>2
<1>10. CASE Build \/ BuildDialFails \/ Outside \/ UNCHANGED vars
  <2>1. Build \/ BuildDialFails => UNCHANGED app
    BY DEF Build, BuildStart, SelectPath, BuildDial, BuildExtend, BuildOpen, BuildTimeout, BuildDialFails, appVars
  <2>2. Outside => UNCHANGED app
    BY DEF Outside, ExitPump, RemoteCloses, SetPolicy, LinkBreaks, appVars
  <2>3. UNCHANGED vars => UNCHANGED app
    BY DEF vars, appVars
  <2> QED BY <1>3, <1>10, <2>1, <2>2, <2>3
<1>11. ASSUME NEW c \in Circuits, Relay(c) \/ Exit(c) \/ ExitDialFails(c) PROVE Moves
  BY <1>3, <1>11 DEF Relay, RelayHandshake, RelayForward, RelayBackward, RelayPumpEnds, RelayEnds, Exit, ExitHandshake, ExitCell,
     ExitBegin, ExitCheck, ExitDial, ExitDialUnresolved, ExitFrame, ExitEnds, ExitDialFails, appVars
<1> QED BY <1>8, <1>9, <1>10, <1>11, Groups DEF Moves

-----------------------------------------------------------------------------
(* The circuits that are in use                                             *)

\* A circuit that is being built is known to nobody but its builder; nothing is
\* known of one that has no plan.
Held ==
    /\ \A c \in Circuits :
         /\ man[c].hops = 1 => man[c].rec = "creating"
         /\ man[c].rec = "creating" => hb # c /\ man[c].loop = "none"
         /\ plan[c] = NoPlan => man[c].rec = "none" /\ man[c].loop = "none" /\ hb # c /\ near[c] = "none"
    /\ bld.pc \in Waiting => man[bld.cir].rec = "creating"
    /\ bld.pc = "dial" => near[bld.cir] = "none" /\ far[bld.cir] = "none" /\ man[bld.cir].hops # 1
    /\ \A a \in Apps : app[a].pc \in Acquired => man[app[a].cir].rec # "creating"

\* What a step may do to a circuit that is not being built.
Ages(c) ==
    \/ man'[c] = man[c] /\ near'[c] = near[c]
    \/ /\ plan[c] # NoPlan /\ man[c].rec # "creating"
       /\ man'[c].rec # "creating" /\ man'[c].hops # 1 /\ near'[c] \in {near[c], "closed"}

\* One circuit ages.
LEMMA OneAges ==
  ASSUME ClientOK, NEW c \in Circuits, NEW m, man' = [man EXCEPT ![c] = m],
         near'[c] \in {near[c], "closed"}, \A d \in Circuits : d # c => near'[d] = near[d],
         plan[c] # NoPlan, man[c].rec # "creating", m.rec # "creating", m.hops # 1
  PROVE  \A d \in Circuits : Ages(d)
<1>1. man'[c] = m
  BY DEF ClientOK
<1>2. \A d \in Circuits : d # c => man'[d] = man[d]
  BY DEF ClientOK
<1> QED BY <1>1, <1>2 DEF Ages

\* The records that the client's actions leave.
LEMMA RecordShapes ==
  ASSUME NEW m \in Records
  PROVE  /\ Forgotten(m).rec = "none" /\ Forgotten(m).hops = 0
         /\ [Forgotten(m) EXCEPT !.loop = "notify"].rec = "none" /\ [Forgotten(m) EXCEPT !.loop = "notify"].hops = 0
         /\ \A v : [m EXCEPT !.loop = v].rec = m.rec /\ [m EXCEPT !.loop = v].hops = m.hops
         /\ \A v : [m EXCEPT !.rec = v].rec = v /\ [m EXCEPT !.rec = v].hops = m.hops /\ [m EXCEPT !.rec = v].loop = m.loop
         /\ \A v, n : [m EXCEPT !.rec = v, !.fails = n].rec = v /\ [m EXCEPT !.rec = v, !.fails = n].hops = m.hops
  BY DEF Records, Forgotten

\* Upkeep and the handlers only touch circuits that are built.
LEMMA InUse ==
  ASSUME Safe, Held, Upkeep \/ Serving
  PROVE  /\ UNCHANGED <<bld, plan, far, rel, ex>>
         /\ \A c \in Circuits : Ages(c)
         /\ hb' \in {hb, NoCircuit} \/ \E c \in Circuits : canReuseCircuit(c) /\ hb' = c
<1>1. ClientOK /\ AppOK /\ WireOK /\ BoundOK /\ Planned
  BY TypeParts DEF Safe
<1>2. \A c \in Circuits : man[c] \in Records /\ (man[c].rec # "creating" => man[c].hops # 1)
  BY <1>1 DEF ClientOK, Held
<1>3. ASSUME NEW c \in Circuits, canReuseCircuit(c) PROVE plan[c] # NoPlan /\ man[c].rec # "creating"
  BY <1>1, <1>3 DEF canReuseCircuit, Planned
<1>4. UNCHANGED <<man, near>> => \A c \in Circuits : Ages(c)
  BY DEF Ages
<1>5. ASSUME NEW c \in Circuits, plan[c] # NoPlan, man[c].rec # "creating", CloseCircuit(c)
      PROVE  \A d \in Circuits : Ages(d)
  <2>1. /\ man' = [man EXCEPT ![c] = Forgotten(man[c])]
        /\ near' = [near EXCEPT ![c] = IF man[c].active THEN "closed" ELSE near[c]]
    BY <1>5 DEF CloseCircuit
  <2> DEFINE m == Forgotten(man[c])
  <2>2. m.rec = "none" /\ m.rec # "creating" /\ m.hops = 0 /\ m.hops # 1
    BY <1>2, RecordShapes
  <2>3. man' = [man EXCEPT ![c] = m]
    BY <2>1
  <2>4. near'[c] \in {near[c], "closed"} /\ \A d \in Circuits : d # c => near'[d] = near[d]
    BY <1>1, <2>1 DEF WireOK
  <2> HIDE DEF m
  <2> QED BY <1>1, <1>5, <2>2, <2>3, <2>4, OneAges
<1>6. ASSUME NEW c \in Circuits, plan[c] # NoPlan, man[c].rec # "creating", NEW v, v # "creating",
             man' = [man EXCEPT ![c] = [man[c] EXCEPT !.rec = v]], UNCHANGED near
      PROVE  \A d \in Circuits : Ages(d)
  <2>1. [man[c] EXCEPT !.rec = v].rec = v /\ [man[c] EXCEPT !.rec = v].hops = man[c].hops
    BY <1>2, RecordShapes
  <2> QED BY <1>1, <1>2, <1>6, <2>1, OneAges
<1>7. ASSUME NEW a \in Apps, app[a].pc \in Acquired
      PROVE  app[a].cir \in Circuits /\ plan[app[a].cir] # NoPlan /\ man[app[a].cir].rec # "creating"
  BY <1>1, <1>7 DEF Planned, Held, Acquired
<1>8. ASSUME NEW a \in Apps, app[a].pc \in Acquired, NEW kind, AfterBeginError(a, kind)
      PROVE  \A d \in Circuits : Ages(d)
  <2> DEFINE c == app[a].cir
  <2>1. \/ CloseCircuit(c)
        \/ man' = [man EXCEPT ![c] = [man[c] EXCEPT !.rec = IF kind = "timeout" THEN "degraded" ELSE man[c].rec]] /\ UNCHANGED near
    BY <1>1, <1>7, <1>8 DEF AfterBeginError, ClientOK
  <2> QED BY <1>5, <1>6, <1>7, <1>8, <2>1
<1>9. CASE Upkeep
  <2>1. UNCHANGED <<bld, plan, far, rel, ex>>
    BY <1>9 DEF Upkeep, ReadFrame, ReadLoopEnds, NotifyCircuitClosed, TransientRead, HeartbeatPing, PoolCloses, HeartbeatTimeout,
       SetExitSelection, CooldownEnds, clientVars, wireVars, relayVars, exitVars
  <2>2. hb' \in {hb, NoCircuit} \/ \E c \in Circuits : canReuseCircuit(c) /\ hb' = c
    BY <1>9 DEF Upkeep, ReadFrame, ReadLoopEnds, NotifyCircuitClosed, TransientRead, HeartbeatPing, PoolCloses, HeartbeatTimeout,
       SetExitSelection, CooldownEnds, clientVars, Probed
  <2>3. ASSUME NEW c \in Circuits, ReadLoopEnds(c) PROVE \A d \in Circuits : Ages(d)
    <3>1. /\ near' = [near EXCEPT ![c] = "closed"] /\ man[c].loop = "reading"
          /\ man' = [man EXCEPT ![c] = [Forgotten(man[c]) EXCEPT !.loop = "notify"]]
      BY <2>3 DEF ReadLoopEnds
    <3>2. plan[c] # NoPlan /\ man[c].rec # "creating"
      BY <3>1 DEF Held
    <3> DEFINE m == [Forgotten(man[c]) EXCEPT !.loop = "notify"]
    <3>3. m.rec = "none" /\ m.rec # "creating" /\ m.hops = 0 /\ m.hops # 1
      BY <1>2, RecordShapes
    <3>4. man' = [man EXCEPT ![c] = m]
      BY <3>1
    <3>5. near'[c] \in {near[c], "closed"} /\ \A d \in Circuits : d # c => near'[d] = near[d]
      BY <1>1, <3>1 DEF WireOK
    <3> HIDE DEF m
    <3> QED BY <1>1, <3>2, <3>3, <3>4, <3>5, OneAges
  <2>4. ASSUME NEW c \in Circuits, NotifyCircuitClosed(c) PROVE \A d \in Circuits : Ages(d)
    <3>1. /\ UNCHANGED near /\ man[c].loop = "notify"
          /\ man' = [man EXCEPT ![c] = [man[c] EXCEPT !.loop = "over"]]
      BY <2>4 DEF NotifyCircuitClosed, wireVars
    <3>2. plan[c] # NoPlan /\ man[c].rec # "creating"
      BY <3>1 DEF Held
    <3>3. [man[c] EXCEPT !.loop = "over"].rec = man[c].rec /\ [man[c] EXCEPT !.loop = "over"].hops = man[c].hops
      BY <1>2, RecordShapes
    <3> QED BY <1>1, <1>2, <3>1, <3>2, <3>3, OneAges
  <2>5. ASSUME NEW c \in Circuits, TransientRead(c) PROVE \A d \in Circuits : Ages(d)
    <3>1. man' = [man EXCEPT ![c] = [man[c] EXCEPT !.rec = "degraded"]] /\ man[c].rec = "open" /\ UNCHANGED near
      BY <2>5 DEF TransientRead, wireVars
    <3>2. plan[c] # NoPlan
      BY <1>1, <3>1 DEF Planned
    <3> QED BY <1>6, <3>1, <3>2
  <2>6. ASSUME NEW c \in Circuits, PoolCloses(c) PROVE \A d \in Circuits : Ages(d)
    BY <1>3, <1>5, <2>6 DEF PoolCloses
  <2>7. ASSUME HeartbeatTimeout PROVE \A d \in Circuits : Ages(d)
    <3> DEFINE c == hb
    <3>1. c \in Circuits /\ plan[c] # NoPlan /\ man[c].rec # "creating"
      BY <1>1, <2>7 DEF HeartbeatTimeout, ClientOK, Held
    <3>2. \/ UNCHANGED <<man, near>>
          \/ CloseCircuit(c)
          \/ man' = [man EXCEPT ![c] = [man[c] EXCEPT !.rec = "degraded", !.fails = man[c].fails + 1]] /\ UNCHANGED near
      BY <1>1, <2>7 DEF HeartbeatTimeout, ClientOK
    <3>3. /\ [man[c] EXCEPT !.rec = "degraded", !.fails = man[c].fails + 1].rec = "degraded"
          /\ [man[c] EXCEPT !.rec = "degraded", !.fails = man[c].fails + 1].hops = man[c].hops
      BY <1>2, <3>1, RecordShapes
    <3> HIDE DEF c
    <3> QED BY <1>1, <1>2, <1>4, <1>5, <3>1, <3>2, <3>3, OneAges
  <2>8. \/ UNCHANGED <<man, near>> \/ HeartbeatTimeout
        \/ \E c \in Circuits : ReadLoopEnds(c) \/ NotifyCircuitClosed(c) \/ TransientRead(c) \/ PoolCloses(c)
    BY <1>9 DEF Upkeep, ReadFrame, HeartbeatPing, SetExitSelection, CooldownEnds, clientVars, wireVars
  <2> QED BY <1>4, <2>1, <2>2, <2>3, <2>4, <2>5, <2>6, <2>7, <2>8
<1>10. CASE Serving
  <2>1. UNCHANGED <<bld, plan, hb, far, rel, ex>>
    BY <1>10 DEF Serving, Handler, Acquire, RegisterStream, BeginRefused, Write, BeginSucceeds, BeginFails, BeginTimeout, Reply, PumpEnds,
       AppLeaves, Clash, clientVars, wireVars, relayVars, exitVars
  <2>2. ASSUME NEW a \in Apps, BeginRefused(a) \/ BeginFails(a) \/ BeginTimeout(a) PROVE \A d \in Circuits : Ages(d)
    BY <1>8, <2>2 DEF BeginRefused, BeginFails, BeginTimeout, Acquired
  <2>3. ASSUME NEW a \in Apps, BeginSucceeds(a) PROVE \A d \in Circuits : Ages(d)
    <3> DEFINE c == app[a].cir
    <3>1. app[a].pc \in Acquired /\ UNCHANGED near
      BY <2>3 DEF BeginSucceeds, Acquired, wireVars
    <3>2. c \in Circuits /\ plan[c] # NoPlan /\ man[c].rec # "creating"
      BY <1>7, <3>1
    <3>3. \/ UNCHANGED man
          \/ man' = [man EXCEPT ![c] = [man[c] EXCEPT !.rec = "open", !.fails = 0]]
      BY <1>1, <2>3, <3>2 DEF BeginSucceeds, ClientOK
    <3>4. [man[c] EXCEPT !.rec = "open", !.fails = 0].rec = "open" /\ [man[c] EXCEPT !.rec = "open", !.fails = 0].hops = man[c].hops
      BY <1>2, <3>2, RecordShapes
    <3> QED BY <1>1, <1>2, <1>4, <3>1, <3>2, <3>3, <3>4, OneAges
  <2>4. ASSUME NEW a \in Apps, Reply(a) PROVE \A d \in Circuits : Ages(d)
    <3>1. app[a].pc \in Acquired /\ (UNCHANGED <<man, near>> \/ CloseCircuit(app[a].cir))
      BY <2>4 DEF Reply, Acquired
    <3> QED BY <1>4, <1>5, <1>7, <3>1
  <2>5. \/ UNCHANGED <<man, near>>
        \/ \E a \in Apps : BeginRefused(a) \/ BeginFails(a) \/ BeginTimeout(a) \/ BeginSucceeds(a) \/ Reply(a)
    BY <1>10 DEF Serving, Handler, Acquire, RegisterStream, Write, PumpEnds, AppLeaves, Clash, clientVars, wireVars
  <2> QED BY <1>4, <2>1, <2>2, <2>3, <2>4, <2>5
<1> QED BY <1>9, <1>10

\* The first hop's end of a circuit's stream is there once somebody serves it; a relay
\* serves what the exit does not; what a closed end would have read is lost.
Touched ==
    \A c \in Circuits :
        /\ rel[c] # "none" \/ ex[c].pc # "none" => far[c] # "none"
        /\ rel[c] # "none" => ~ExitServes(c)
        /\ far[c] # "open" => up[c] = <<>>

\* Every step keeps what is known of the circuits in use.
LEMMA HeldStep ==
  ASSUME SafeInv, Held, Touched, Next \/ UNCHANGED vars
  PROVE  Held'
<1>1. ClientOK /\ AppOK /\ WireOK /\ BoundOK /\ Planned /\ Safe /\ Linked
  BY TypeParts DEF Safe, SafeInv
<1>2. \A c \in Circuits : man[c] \in Records
  BY <1>1 DEF ClientOK
<1>3. \A a \in Apps : app[a].pc \in Acquired => app[a].cir \in Circuits /\ plan[app[a].cir] # NoPlan
  BY <1>1 DEF Planned, Acquired
<1>4. ASSUME UNCHANGED <<bld, plan, far>>, \A c \in Circuits : Ages(c),
             hb' \in {hb, NoCircuit} \/ \E c \in Circuits : canReuseCircuit(c) /\ hb' = c,
             \A a \in Apps : app'[a].pc \in Acquired =>
                \/ app[a].pc \in Acquired /\ app'[a].cir = app[a].cir
                \/ \E c \in Circuits : canReuseCircuit(c) /\ app'[a].cir = c
      PROVE  Held'
  <2>1. \A c \in Circuits : canReuseCircuit(c) => man[c].rec # "creating" /\ plan[c] # NoPlan
    BY <1>1 DEF canReuseCircuit, Planned
  <2>2. NoCircuit \notin Circuits
    BY CircuitAssumption
  <2>3. \A c \in Circuits :
          /\ man'[c].hops = 1 => man'[c].rec = "creating"
          /\ man'[c].rec = "creating" => man[c].rec = "creating" /\ man'[c] = man[c]
          /\ plan[c] = NoPlan => man'[c] = man[c] /\ near'[c] = near[c]
          /\ man[c].rec = "creating" => man'[c] = man[c] /\ near'[c] = near[c]
          /\ man[c].rec # "creating" => man'[c].rec # "creating"
    BY <1>4 DEF Ages, Held
  <2>4. \A c \in Circuits : man[c].rec = "creating" \/ plan[c] = NoPlan => hb' # c
    BY <1>4, <2>1, <2>2 DEF Held
  <2>5. \A a \in Apps : app'[a].pc \in Acquired => man'[app'[a].cir].rec # "creating"
    BY <1>3, <1>4, <2>1, <2>3 DEF Held
  <2>6. bld.pc \in Waiting => bld.cir \in Circuits /\ man[bld.cir].rec = "creating"
    BY <1>1 DEF Planned, Held
  <2>7. bld.pc = "dial" => bld.pc \in Waiting
    BY DEF Waiting
  <2> QED BY <1>4, <2>3, <2>4, <2>5, <2>6, <2>7 DEF Held
<1>5. \A a \in Apps : app'[a].pc \in Acquired =>
                \/ app[a].pc \in Acquired /\ app'[a].cir = app[a].cir
                \/ \E c \in Circuits : canReuseCircuit(c) /\ app'[a].cir = c
  BY <1>1, HandlerSteps DEF Goes, Reusable
<1>6. ASSUME UNCHANGED <<bld, plan, man, near, hb>>, \A c \in Circuits : far[c] = "none" => far'[c] = "none"
      PROVE  Held'
  <2>1. \A c \in Circuits : canReuseCircuit(c) => man[c].rec # "creating"
    BY DEF canReuseCircuit
  <2>2. bld.pc = "dial" => bld.cir \in Circuits
    BY <1>1 DEF Planned, Waiting
  <2> QED BY <1>5, <1>6, <2>1, <2>2 DEF Held
<1>7. CASE Upkeep \/ Serving
  BY <1>1, <1>4, <1>5, <1>7, InUse
<1>8. CASE Outside \/ UNCHANGED vars
  <2>1. UNCHANGED <<bld, plan, man, near, hb>>
    BY <1>8 DEF Outside, ExitPump, RemoteCloses, SetPolicy, LinkBreaks, clientVars, wireVars, vars
  <2>2. \A c \in Circuits : far[c] = "none" => far'[c] = "none"
    BY <1>1, <1>8 DEF Outside, ExitPump, RemoteCloses, SetPolicy, LinkBreaks, clientVars, wireVars, vars, WireOK
  <2> QED BY <1>6, <2>1, <2>2
<1>9. ASSUME NEW c \in Circuits, Relay(c) \/ Exit(c) \/ ExitDialFails(c)
      PROVE  Held'
  <2>1. UNCHANGED <<bld, plan, man, near, hb>>
    BY <1>9 DEF Relay, RelayHandshake, RelayForward, RelayBackward, RelayPumpEnds, RelayEnds, Exit, ExitHandshake, ExitCell,
       ExitBegin, ExitCheck, ExitDial, ExitDialUnresolved, ExitFrame, ExitEnds, ExitDialFails, clientVars, wireVars
  <2>2. UNCHANGED far \/ (far' = [far EXCEPT ![c] = "closed"] /\ (rel[c] # "none" \/ ex[c].pc # "none"))
    <3>1. CASE Relay(c)
      BY <3>1 DEF Relay, RelayHandshake, RelayForward, RelayBackward, RelayPumpEnds, RelayEnds, wireVars
    <3>2. CASE Exit(c) \/ ExitDialFails(c)
      BY <3>2 DEF Exit, ExitHandshake, ExitCell, ExitBegin, ExitCheck, ExitDial, ExitDialUnresolved, ExitFrame, ExitEnds, ExitDialFails, ExitReturns,
         wireVars
    <3> QED BY <1>9, <3>1, <3>2
  <2>3. \A d \in Circuits : far[d] = "none" => far'[d] = "none"
    BY <1>1, <2>2 DEF WireOK, Touched
  <2> QED BY <1>6, <2>1, <2>3
<1>10. ASSUME NEW c \in Circuits, NEW m, man' = [man EXCEPT ![c] = m], UNCHANGED <<hb, app>>,
              plan'[c] # NoPlan, \A d \in Circuits : d # c => plan'[d] = plan[d] /\ near'[d] = near[d],
              plan[c] = NoPlan \/ man[c].rec = "creating",
              m.hops = 1 => m.rec = "creating", m.rec = "creating" => m.loop = "none",
              bld'.pc \in Waiting => bld'.cir = c /\ m.rec = "creating",
              bld'.pc = "dial" => near'[c] = "none" /\ far'[c] = "none" /\ m.hops # 1
       PROVE  Held'
  <2>1. man'[c] = m /\ \A d \in Circuits : d # c => man'[d] = man[d]
    BY <1>1, <1>10 DEF ClientOK
  <2>2. hb # c
    BY <1>10 DEF Held
  <2>3. \A a \in Apps : app[a].pc \in Acquired => app[a].cir \in Circuits \ {c}
    BY <1>3, <1>10 DEF Held
  <2>4. bld'.pc = "dial" => bld'.pc \in Waiting
    BY DEF Waiting
  <2>5. \A d \in Circuits :
         /\ man'[d].hops = 1 => man'[d].rec = "creating"
         /\ man'[d].rec = "creating" => hb' # d /\ man'[d].loop = "none"
         /\ plan'[d] = NoPlan => man'[d].rec = "none" /\ man'[d].loop = "none" /\ hb' # d /\ near'[d] = "none"
    BY <1>10, <2>1, <2>2 DEF Held
  <2>6. \A a \in Apps : app'[a].pc \in Acquired => man'[app'[a].cir].rec # "creating"
    BY <1>10, <2>1, <2>3 DEF Held
  <2>7. bld'.pc \in Waiting => man'[bld'.cir].rec = "creating"
    BY <1>10, <2>1
  <2>8. bld'.pc = "dial" => near'[bld'.cir] = "none" /\ far'[bld'.cir] = "none" /\ man'[bld'.cir].hops # 1
    BY <1>10, <2>1, <2>4
  <2> QED BY <2>5, <2>6, <2>7, <2>8 DEF Held
<1>11. CASE Build \/ BuildDialFails
  <2> DEFINE c == bld.cir
  <2>1. bld.pc \in Waiting => c \in Circuits /\ plan[c] # NoPlan /\ man[c].rec = "creating" /\ man[c].loop = "none" /\ man[c] \in Records
    BY <1>1, <1>2 DEF Planned, Held
  <2>2. CASE BuildStart
    <3>1. UNCHANGED <<man, near, far, plan, hb, app>> /\ bld'.pc = "select"
      BY <2>2 DEF BuildStart, appVars, wireVars, IdleBuild
    <3> QED BY <3>1 DEF Held, Waiting
  <2>3. CASE SelectPath
    <3>1. CASE bld' = IdleBuild /\ UNCHANGED <<man, plan>>
      <4>1. UNCHANGED <<near, far, hb, app>> /\ bld'.pc = "idle"
        BY <2>3, <3>1 DEF SelectPath, appVars, wireVars, IdleBuild
      <4> QED BY <3>1, <4>1 DEF Held, Waiting
    <3>2. CASE ~(bld' = IdleBuild /\ UNCHANGED <<man, plan>>)
      <4> DEFINE fresh == {x \in scope.circuits : plan[x] = NoPlan}
                 d == CHOOSE x \in fresh : TRUE
      <4>1. PICK p \in SelectPathForPool(sel, health, bld.exclude) :
               /\ fresh # {} /\ bld' = [bld EXCEPT !.pc = "dial", !.cir = d]
               /\ plan' = [plan EXCEPT ![d] = p] /\ man' = [man EXCEPT ![d] = [man[d] EXCEPT !.rec = "creating"]]
        BY <1>1, <2>3, <3>2 DEF SelectPath
      <4>2. d \in fresh
        BY <4>1
      <4>3. d \in Circuits /\ plan[d] = NoPlan
        BY <1>1, <4>2, ScopeFacts DEF BoundOK
      <4> HIDE DEF fresh, d
      <4>4. p # NoPlan /\ bld'.pc = "dial" /\ bld'.cir = d
        BY <1>1, <4>1, SelectedPlans DEF ClientOK, Builds
      <4>5. UNCHANGED <<near, far, hb, app>>
        BY <2>3 DEF SelectPath, appVars, wireVars
      <4> DEFINE m == [man[d] EXCEPT !.rec = "creating"]
      <4>6. m.rec = "creating" /\ m.hops = man[d].hops /\ m.loop = man[d].loop
        BY <1>2, <4>3, RecordShapes
      <4>7. man' = [man EXCEPT ![d] = m]
        BY <4>1
      <4>8. man[d].hops # 1 /\ man[d].loop = "none" /\ near[d] = "none" /\ far[d] = "none"
        BY <1>1, <4>3 DEF Held, Linked
      <4>9. plan'[d] # NoPlan /\ \A e \in Circuits : e # d => plan'[e] = plan[e]
        BY <1>1, <4>1, <4>3, <4>4 DEF ClientOK
      <4> HIDE DEF m
      <4> QED BY <1>10, <4>3, <4>4, <4>5, <4>6, <4>7, <4>8, <4>9
    <3> QED BY <3>1, <3>2
  <2>4. CASE BuildDial
    <3>1. /\ bld.pc = "dial" /\ UNCHANGED <<plan, hb, app>> /\ near' = [near EXCEPT ![c] = "open"]
          /\ \/ bld' = IdleBuild /\ man' = [man EXCEPT ![c] = Opened(man[c], 0)]
             \/ bld' = [bld EXCEPT !.pc = "key"] /\ man' = [man EXCEPT ![c] = [man[c] EXCEPT !.active = TRUE]]
      BY <1>1, <2>4 DEF BuildDial, appVars, ClientOK
    <3>2. bld.pc \in Waiting
      BY <3>1 DEF Waiting
    <3>3. \A d \in Circuits : d # c => near'[d] = near[d]
      BY <1>1, <3>1 DEF WireOK
    <3>4. CASE bld' = IdleBuild /\ man' = [man EXCEPT ![c] = Opened(man[c], 0)]
      <4> DEFINE m == Opened(man[c], 0)
      <4>1. m.rec = "open" /\ m.hops = 0 /\ m.hops # 1
        BY <2>1, <3>2 DEF Opened, Records
      <4>2. bld'.pc \notin Waiting /\ bld'.pc # "dial"
        BY <3>4 DEF IdleBuild, Waiting
      <4>3. man' = [man EXCEPT ![c] = m]
        BY <3>4
      <4> HIDE DEF m
      <4> QED BY <1>10, <2>1, <3>1, <3>2, <3>3, <4>1, <4>2, <4>3
    <3>5. CASE bld' = [bld EXCEPT !.pc = "key"] /\ man' = [man EXCEPT ![c] = [man[c] EXCEPT !.active = TRUE]]
      <4> DEFINE m == [man[c] EXCEPT !.active = TRUE]
      <4>1. m.rec = man[c].rec /\ m.loop = man[c].loop
        BY <2>1, <3>2 DEF Records
      <4>2. bld'.cir = c /\ bld'.pc # "dial"
        BY <1>1, <3>5 DEF ClientOK, Builds
      <4>3. man' = [man EXCEPT ![c] = m]
        BY <3>5
      <4> HIDE DEF m
      <4> QED BY <1>10, <2>1, <3>1, <3>2, <3>3, <4>1, <4>2, <4>3
    <3> QED BY <3>1, <3>4, <3>5
  <2>5. CASE BuildDialFails
    <3> DEFINE m == [man[c] EXCEPT !.rec = "none"]
    <3>1. /\ bld.pc = "dial" /\ UNCHANGED <<plan, hb, app, near>> /\ bld' = NextAttempt(bld)
          /\ man' = [man EXCEPT ![c] = m]
      BY <1>1, <2>5 DEF BuildDialFails, appVars, wireVars, ClientOK
    <3>2. bld.pc \in Waiting /\ man[c].hops # 1
      BY <3>1 DEF Waiting, Held
    <3>3. m.rec = "none" /\ m.rec # "creating" /\ m.hops = man[c].hops
      BY <2>1, <3>2, RecordShapes
    <3>4. bld'.pc \notin Waiting /\ bld'.pc # "dial"
      BY <3>1 DEF NextAttempt, IdleBuild, Waiting
    <3> HIDE DEF m
    <3> QED BY <1>10, <2>1, <3>1, <3>2, <3>3, <3>4
  <2>6. CASE BuildExtend
    <3> DEFINE m == [man[c] EXCEPT !.hops = 1]
    <3>1. /\ bld.pc = "key" /\ UNCHANGED <<plan, hb, app, near>> /\ bld' = [bld EXCEPT !.pc = "extend"]
          /\ man' = [man EXCEPT ![c] = m]
      BY <1>1, <2>6 DEF BuildExtend, appVars, ClientOK
    <3>2. bld.pc \in Waiting
      BY <3>1 DEF Waiting
    <3>3. m.rec = man[c].rec /\ m.loop = man[c].loop
      BY <2>1, <3>2 DEF Records
    <3>4. bld'.cir = c /\ bld'.pc # "dial"
      BY <1>1, <3>1 DEF ClientOK, Builds
    <3> HIDE DEF m
    <3> QED BY <1>10, <2>1, <3>1, <3>2, <3>3, <3>4
  <2>7. CASE BuildOpen
    <3> DEFINE m == Opened(man[c], 2)
    <3>1. /\ bld.pc = "extend" /\ UNCHANGED <<plan, hb, app, near>> /\ bld' = IdleBuild
          /\ man' = [man EXCEPT ![c] = m]
      BY <1>1, <2>7 DEF BuildOpen, appVars, ClientOK
    <3>2. bld.pc \in Waiting
      BY <3>1 DEF Waiting
    <3>3. m.rec = "open" /\ m.rec # "creating" /\ m.hops = 2 /\ m.hops # 1
      BY <2>1, <3>2 DEF Opened, Records
    <3>4. bld'.pc \notin Waiting /\ bld'.pc # "dial"
      BY <3>1 DEF IdleBuild, Waiting
    <3> HIDE DEF m
    <3> QED BY <1>10, <2>1, <3>1, <3>2, <3>3, <3>4
  <2>8. CASE BuildTimeout
    <3> DEFINE m == Forgotten(man[c])
    <3>1. /\ bld.pc \in {"key", "extend"} /\ UNCHANGED <<plan, hb, app>> /\ bld' = NextAttempt(bld)
          /\ man' = [man EXCEPT ![c] = m]
          /\ near' = [near EXCEPT ![c] = IF man[c].active THEN "closed" ELSE near[c]]
      BY <1>1, <2>8 DEF BuildTimeout, CloseCircuit, appVars, ClientOK
    <3>2. bld.pc \in Waiting
      BY <3>1 DEF Waiting
    <3>3. m.rec = "none" /\ m.rec # "creating" /\ m.hops = 0 /\ m.hops # 1
      BY <2>1, <3>2, RecordShapes
    <3>4. bld'.pc \notin Waiting /\ bld'.pc # "dial"
      BY <3>1 DEF NextAttempt, IdleBuild, Waiting
    <3>5. \A d \in Circuits : d # c => near'[d] = near[d]
      BY <1>1, <3>1 DEF WireOK
    <3> HIDE DEF m
    <3> QED BY <1>10, <2>1, <3>1, <3>2, <3>3, <3>4, <3>5
  <2> QED BY <1>11, <2>2, <2>3, <2>4, <2>5, <2>6, <2>7, <2>8 DEF Build
<1> QED BY <1>7, <1>8, <1>9, <1>11, Groups

\* A circuit keeps the kind of its first hop.
LEMMA KindStays ==
  ASSUME Safe, Next \/ UNCHANGED vars
  PROVE  \A c \in Circuits : plan[c] # NoPlan => /\ plan'[c] = plan[c]
                                                /\ (ExitServes(c))' = ExitServes(c) /\ (Direct(c))' = Direct(c)
<1>1. \A c \in Circuits : plan[c] # NoPlan => plan'[c] = plan[c]
  BY PlanStays
<1> QED BY <1>1 DEF ExitServes, Direct

\* Every step keeps what is known of the ends of the streams.
LEMMA TouchedStep ==
  ASSUME SafeInv, Held, Touched, Next \/ UNCHANGED vars
  PROVE  Touched'
<1>1. ClientOK /\ AppOK /\ WireOK /\ RelayOK /\ ExitOK /\ BoundOK /\ Planned /\ Safe /\ Linked
  BY TypeParts DEF Safe, SafeInv
<1>2. \A c \in Circuits : plan[c] # NoPlan => (ExitServes(c))' = ExitServes(c)
  BY <1>1, KindStays
<1>3. \A c \in Circuits : rel[c] # "none" => plan[c] # NoPlan
  BY <1>1 DEF Planned
<1>4. ASSUME UNCHANGED <<far, rel, ex>>, \A c \in Circuits : far[c] # "open" => up'[c] = up[c]
      PROVE  Touched'
  BY <1>2, <1>3, <1>4 DEF Touched
<1>5. UNCHANGED <<far, rel, ex, up>> => Touched'
  BY <1>4
<1>6. ASSUME NEW c \in Circuits, UNCHANGED <<far, rel, ex>>, far[c] = "open", NEW q, up' = [up EXCEPT ![c] = q]
      PROVE  Touched'
  BY <1>1, <1>4, <1>6 DEF WireOK
<1>7. ASSUME NEW c \in Circuits, NEW f, Send(c, f), UNCHANGED <<far, rel, ex>> PROVE Touched'
  <2>1. \A d \in Circuits : far[d] # "open" => up'[d] = up[d]
    BY <1>1, <1>7 DEF Send, WireOK
  <2> QED BY <1>4, <1>7, <2>1
<1>8. CASE Upkeep \/ Serving
  <2>1. UNCHANGED <<far, rel, ex>>
    BY <1>1, <1>8, InUse
  <2>2. ASSUME NEW c \in Circuits, HeartbeatPing(c) PROVE Touched'
    <3>1. \A d \in Circuits : far[d] # "open" => up'[d] = up[d]
      BY <1>1, <2>2 DEF HeartbeatPing, WireOK
    <3> QED BY <1>4, <2>1, <3>1
  <2>3. ASSUME NEW a \in Apps, Write(a) \/ PumpEnds(a) PROVE Touched'
    <3>1. app[a].cir \in Circuits
      BY <1>1, <2>3 DEF Write, PumpEnds, WritesBegin, WritesData, Planned
    <3>2. UNCHANGED up \/ \E f : Send(app[a].cir, f)
      BY <2>3 DEF Write, PumpEnds
    <3> QED BY <1>5, <1>7, <2>1, <3>1, <3>2
  <2>4. ASSUME NEW a \in Apps, NEW b \in Apps, Clash(a, b) PROVE Touched'
    <3>1. app[a].cir \in Circuits
      BY <1>1, <2>4 DEF Clash, WritesBegin, WritesData, Planned
    <3>2. /\ far[app[a].cir] = "open"
          /\ UNCHANGED up \/ up' = [up EXCEPT ![app[a].cir] = Append(up[app[a].cir], Garbled)]
      BY <1>1, <2>4, <3>1 DEF Clash, WireOK
    <3> QED BY <1>5, <1>6, <2>1, <3>1, <3>2
  <2>5. \/ UNCHANGED up \/ \E c \in Circuits : HeartbeatPing(c)
        \/ \E a \in Apps : Write(a) \/ PumpEnds(a) \/ \E b \in Apps : Clash(a, b)
    BY <1>8 DEF Upkeep, ReadFrame, ReadLoopEnds, NotifyCircuitClosed, TransientRead, PoolCloses, HeartbeatTimeout,
       SetExitSelection, CooldownEnds, wireVars, Serving, Handler, Acquire, RegisterStream, BeginRefused, BeginSucceeds, BeginFails,
       BeginTimeout, Reply, AppLeaves
  <2> QED BY <1>5, <2>1, <2>2, <2>3, <2>4, <2>5
<1>9. CASE Build \/ BuildDialFails
  <2>1. CASE BuildDial
    <3> DEFINE c == bld.cir
    <3>1. c \in Circuits /\ plan[c] # NoPlan
      BY <1>1, <2>1 DEF BuildDial, Planned, Waiting
    <3>2. /\ far' = [far EXCEPT ![c] = "open"]
          /\ \/ ExitServes(c) /\ ex' = [ex EXCEPT ![c] = [ex[c] EXCEPT !.pc = "first"]] /\ UNCHANGED rel
             \/ ~ExitServes(c) /\ rel' = [rel EXCEPT ![c] = "first"] /\ UNCHANGED ex
          /\ UNCHANGED up \/ \E q : up' = [up EXCEPT ![c] = q]
      BY <1>1, <2>1 DEF BuildDial, ExitOK
    <3>3. far'[c] = "open" /\ \A d \in Circuits : d # c => far'[d] = far[d] /\ ex'[d] = ex[d] /\ rel'[d] = rel[d] /\ up'[d] = up[d]
      BY <1>1, <3>1, <3>2 DEF WireOK, ExitOK, RelayOK
    <3>4. rel'[c] # "none" => ~ExitServes(c)
      BY <1>1, <3>1, <3>2 DEF RelayOK, Touched
    <3> HIDE DEF c
    <3> QED BY <1>2, <1>3, <3>1, <3>3, <3>4 DEF Touched
  <2>2. CASE BuildExtend
    <3>1. bld.cir \in Circuits
      BY <1>1, <2>2 DEF BuildExtend, Planned, Waiting
    <3>2. UNCHANGED <<far, rel, ex>> /\ \A d \in Circuits : far[d] # "open" => up'[d] = up[d]
      BY <1>1, <2>2, <3>1 DEF BuildExtend, WireOK, relayVars, exitVars
    <3> QED BY <1>4, <3>2
  <2> QED BY <1>5, <1>9, <2>1, <2>2 DEF Build, BuildStart, SelectPath, BuildOpen, BuildTimeout, BuildDialFails, wireVars, relayVars, exitVars
<1>10. ASSUME NEW c \in Circuits, UNCHANGED rel \/ (rel' = [rel EXCEPT ![c] = "run"] /\ rel[c] # "none")
                                  \/ (rel' = [rel EXCEPT ![c] = "done"] /\ rel[c] # "none"),
              UNCHANGED ex \/ ((rel[c] # "none" \/ ex[c].pc # "none") /\ \E e : ex' = [ex EXCEPT ![c] = e]),
              \/ UNCHANGED far /\ (UNCHANGED up \/ \E q : up' = [up EXCEPT ![c] = q] /\ up[c] # <<>>)
              \/ far' = [far EXCEPT ![c] = "closed"] /\ up' = [up EXCEPT ![c] = <<>>]
       PROVE  Touched'
  <2>1. \A d \in Circuits : d # c => far'[d] = far[d] /\ ex'[d] = ex[d] /\ rel'[d] = rel[d] /\ up'[d] = up[d]
    BY <1>1, <1>10 DEF WireOK, ExitOK, RelayOK
  <2>2. rel'[c] # "none" => rel[c] # "none"
    BY <1>1, <1>10 DEF RelayOK
  <2>3. rel'[c] # "none" \/ ex'[c].pc # "none" => far[c] # "none"
    BY <1>10, <2>2 DEF Touched
  <2>4. far'[c] = far[c] \/ far'[c] = "closed"
    BY <1>1, <1>10 DEF WireOK
  <2>5. far'[c] # "open" => up'[c] = <<>>
    BY <1>1, <1>10 DEF WireOK, Touched
  <2> QED BY <1>2, <1>3, <2>1, <2>2, <2>3, <2>4, <2>5 DEF Touched
<1>11. ASSUME NEW c \in Circuits, Relay(c) PROVE Touched'
  <2>1. CASE RelayHandshake(c)
    BY <1>10, <2>1 DEF RelayHandshake, exitVars
  <2>2. CASE RelayForward(c)
    BY <1>10, <2>2 DEF RelayForward
  <2>3. CASE RelayEnds(c)
    BY <1>10, <2>3 DEF RelayEnds, exitVars
  <2>4. CASE RelayBackward(c) \/ RelayPumpEnds(c)
    BY <1>5, <2>4 DEF RelayBackward, RelayPumpEnds, wireVars, exitVars
  <2> QED BY <1>11, <2>1, <2>2, <2>3, <2>4 DEF Relay
<1>12. ASSUME NEW c \in Circuits, Exit(c) \/ ExitDialFails(c) PROVE Touched'
  <2>1. Took(c) /\ Inbox(c) # <<>> => UNCHANGED up \/ \E q : up' = [up EXCEPT ![c] = q] /\ up[c] # <<>>
    BY DEF Took, Inbox
  <2>2. ExitReturns(c) => \/ UNCHANGED <<far, up>>
                          \/ far' = [far EXCEPT ![c] = "closed"] /\ up' = [up EXCEPT ![c] = <<>>]
    BY DEF ExitReturns
  <2>3. ExitReturns(c) => \E e : ex' = [ex EXCEPT ![c] = e]
    BY DEF ExitReturns
  <2>4. CASE ExitHandshake(c)
    <3>1. /\ ex[c].pc # "none" /\ UNCHANGED <<far, rel>> /\ Inbox(c) # <<>>
          /\ \E e : ex' = [ex EXCEPT ![c] = e]
          /\ Took(c) \/ UNCHANGED up
      BY <2>4 DEF ExitHandshake
    <3> QED BY <1>10, <2>1, <3>1
  <2>5. CASE ExitCell(c)
    <3>1. /\ ex[c].pc # "none" /\ UNCHANGED rel /\ Inbox(c) # <<>>
          /\ (Took(c) /\ UNCHANGED <<ex, far>>) \/ ExitReturns(c)
      BY <2>5 DEF ExitCell
    <3> QED BY <1>10, <2>1, <2>2, <2>3, <3>1
  <2>6. CASE ExitBegin(c)
    <3>1. /\ ex[c].pc # "none" /\ UNCHANGED <<far, rel>> /\ Inbox(c) # <<>> /\ Took(c)
          /\ \E e : ex' = [ex EXCEPT ![c] = e]
      BY <2>6 DEF ExitBegin
    <3> QED BY <1>10, <2>1, <3>1
  <2>7. CASE ExitFrame(c)
    <3>1. UNCHANGED <<far, rel, ex>> /\ Inbox(c) # <<>> /\ Took(c)
      BY <2>7 DEF ExitFrame
    <3> QED BY <1>10, <2>1, <3>1
  <2>8. CASE ExitEnds(c)
    <3>1. ex[c].pc # "none" /\ UNCHANGED rel /\ ExitReturns(c)
      BY <2>8 DEF ExitEnds
    <3> QED BY <1>10, <2>2, <2>3, <3>1
  <2>9. CASE ExitDial(c) \/ ExitDialUnresolved(c) \/ ExitDialFails(c)
    <3>1. ex[c].pc # "none" /\ UNCHANGED <<rel, far, up>> /\ \E e : ex' = [ex EXCEPT ![c] = e]
      BY <2>9 DEF ExitDial, ExitDialUnresolved, ExitDialFails, ExitAnswers, wireVars, relayVars
    <3> QED BY <1>10, <3>1
  <2>10. CASE ExitCheck(c)
    <3>1. ex[c].pc \in Checking /\ \E e : ex' = [ex EXCEPT ![c] = e]
      BY <1>1, <2>10, CheckGoes DEF ExitOK, Refuses, Passes
    <3>2. ex[c].pc # "none" /\ UNCHANGED <<rel, far, up>>
      BY <2>10, <3>1 DEF ExitCheck, Checking
    <3> QED BY <1>10, <3>1, <3>2
  <2> QED BY <1>12, <2>4, <2>5, <2>6, <2>7, <2>8, <2>9, <2>10 DEF Exit
<1>13. CASE Outside
  <2>1. ASSUME NEW c \in Circuits, LinkBreaks(c) PROVE Touched'
    <3>1. /\ far' = [far EXCEPT ![c] = "closed"] /\ up' = [up EXCEPT ![c] = <<>>]
          /\ \/ ExitServes(c) /\ UNCHANGED rel /\ \E e : ex' = [ex EXCEPT ![c] = e]
             \/ ~ExitServes(c) /\ rel' = [rel EXCEPT ![c] = "done"] /\ UNCHANGED ex
      BY <2>1 DEF LinkBreaks
    <3>2. plan[c] # NoPlan
      BY <1>1, <2>1 DEF LinkBreaks, Linked
    <3>3. /\ far'[c] = "closed" /\ up'[c] = <<>>
          /\ \A d \in Circuits : d # c => far'[d] = far[d] /\ ex'[d] = ex[d] /\ rel'[d] = rel[d] /\ up'[d] = up[d]
      BY <1>1, <3>1 DEF WireOK, ExitOK, RelayOK
    <3>4. rel'[c] # "none" => ~ExitServes(c)
      BY <1>1, <3>1 DEF RelayOK, Touched
    <3> QED BY <1>2, <1>3, <3>2, <3>3, <3>4 DEF Touched
  <2>2. CASE SetPolicy
    <3>1. UNCHANGED <<far, rel, up>>
      BY <2>2 DEF SetPolicy, wireVars, relayVars
    <3>2. \A c \in Circuits : ex'[c].pc # "none" => ex[c].pc # "none"
      <4>1. \A c \in Circuits : ex[c].pc \in Checking \/ ex'[c] = ex[c]
        BY <2>2 DEF SetPolicy
      <4> QED BY <4>1 DEF Checking
    <3> QED BY <1>2, <1>3, <3>1, <3>2 DEF Touched
  <2>3. ASSUME NEW s \in StreamIDs, ExitPump(s) \/ RemoteCloses(s) PROVE Touched'
    BY <1>5, <2>3 DEF ExitPump, RemoteCloses, wireVars, relayVars
  <2> QED BY <1>13, <2>1, <2>2, <2>3 DEF Outside
<1>14. CASE UNCHANGED vars
  BY <1>5, <1>14 DEF vars, wireVars, relayVars, exitVars
<1> QED BY <1>8, <1>9, <1>11, <1>12, <1>13, <1>14, Groups

-----------------------------------------------------------------------------
(* The frames in flight                                                     *)

\* The frames of a queue.
In(q) == {q[i] : i \in 1..Len(q)}

\* What Head, Tail and Append make of the frames of a queue.
LEMMA InFacts ==
  ASSUME NEW q \in Seq(Frames)
  PROVE  /\ In(q) \subseteq Frames /\ In(<<>>) = {}
         /\ q # <<>> => Head(q) \in In(q) /\ In(Tail(q)) \subseteq In(q)
         /\ \A f \in Frames : In(Append(q, f)) = In(q) \cup {f}
<1>1. In(q) \subseteq Frames /\ In(<<>>) = {}
  BY DEF In
<1>2. ASSUME q # <<>> PROVE Head(q) \in In(q) /\ In(Tail(q)) \subseteq In(q)
  <2>1. 1 \in 1..Len(q) /\ Head(q) = q[1]
    BY <1>2, QueueFacts
  <2>2. \A i \in 1..Len(Tail(q)) : i + 1 \in 1..Len(q) /\ Tail(q)[i] = q[i + 1]
    BY <1>2, QueueFacts
  <2> QED BY <2>1, <2>2 DEF In
<1>3. ASSUME NEW f \in Frames PROVE In(Append(q, f)) = In(q) \cup {f}
  <2> DEFINE p == Append(q, f)
  <2>1. Len(p) = Len(q) + 1 /\ p[Len(q) + 1] = f /\ \A i \in 1..Len(q) : p[i] = q[i]
    BY QueueFacts
  <2>2. Len(q) \in Nat
    BY QueueFacts
  <2> HIDE DEF p
  <2>3. In(p) \subseteq In(q) \cup {f}
    <3> SUFFICES ASSUME NEW i \in 1..Len(p) PROVE p[i] \in In(q) \cup {f}
      BY DEF In
    <3>1. i \in 1..Len(q) \/ i = Len(q) + 1
      BY <2>1, <2>2
    <3> QED BY <2>1, <3>1 DEF In
  <2>4. f \in In(p)
    <3>1. Len(q) + 1 \in 1..Len(p)
      BY <2>1, <2>2
    <3> QED BY <2>1, <3>1 DEF In
  <2>5. In(q) \subseteq In(p)
    <3> SUFFICES ASSUME NEW i \in 1..Len(q) PROVE q[i] \in In(p)
      BY DEF In
    <3>1. i \in 1..Len(p)
      BY <2>1, <2>2
    <3> QED BY <2>1, <3>1 DEF In
  <2> QED BY <2>3, <2>4, <2>5 DEF p
<1> QED BY <1>1, <1>2, <1>3

\* Frames that are no plain BEGIN, no plain data and no torn bytes: those of some other
\* type, and the sealed ones.
Control == {f \in Frames : f.type \notin {"begin", "data", "garbled"}}
Inert == {f \in Frames : f.type \notin {"begin", "data", "garbled"} \/ f.layers # <<>>}

\* Frames that carry no data to the client, no torn bytes and no confirmation.
Silent == {f \in Frames : f.type \notin {"data", "garbled"} /\ ~(f.type = "connected" /\ f.ok)}

\* A queue is left, read, written, or emptied by the end of its reader.
Idle(q, p, shut, H, A) ==
    \/ p = q
    \/ shut /\ p = <<>>
    \/ q # <<>> /\ Head(q) \in H /\ p = Tail(q)
    \/ \E f \in A : p = Append(q, f)
UpIdle == \A c \in Circuits : Idle(up[c], up'[c], far'[c] # "open", Inert, Control)
DownIdle == \A c \in Circuits : Idle(down[c], down'[c], far'[c] # "open", Silent, Silent)

\* BEGIN and data leave the client in two layers or, on a direct circuit, in none;
\* what a relay passes on is still sealed; the exit answers a client in the clear, one
\* frame at a time.
Sealed ==
    \A c \in Circuits :
        /\ \A f \in In(up[c]) : f.type \in {"begin", "data"} => f.layers # <<0>> /\ (f.layers = <<>> => Direct(c))
        /\ \A f \in In(up2[c]) : f.type \in {"begin", "data"} => f.layers # <<>>
        /\ \A f \in In(down[c]) : f.type # "garbled" /\ (f.type = "data" => f.layers = <<>>)

\* The control frames the nodes write.
LEMMA ControlFrames ==
  /\ \A t \in {"init", "resp", "extend", "extended", "end", "ping"} : \A s \in StreamIDs \cup {None} :
        Frame(t, s) \in Control /\ Frame(t, s) \in Silent
  /\ \A s \in StreamIDs \cup {None} : Connected(s, FALSE) \in Silent
  /\ \A n \in 0..2 : \A t \in {"extend", "ping"} : WrapForward(n, t, None) \in Control
  /\ Control \subseteq Inert
<1>1. ASSUME NEW t \in {"init", "resp", "extend", "extended", "end", "ping"}, NEW s \in StreamIDs \cup {None}
      PROVE  Frame(t, s) \in Control /\ Frame(t, s) \in Silent
  <2>1. Frame(t, s) \in Frames
    BY FramesTyped DEF FrameTypes
  <2>2. Frame(t, s).type = t
    BY DEF Frame
  <2> QED BY <2>1, <2>2 DEF Control, Silent
<1>2. ASSUME NEW s \in StreamIDs \cup {None} PROVE Connected(s, FALSE) \in Silent
  <2>1. Connected(s, FALSE) \in Frames
    BY FramesTyped
  <2>2. Connected(s, FALSE).type = "connected" /\ Connected(s, FALSE).ok = FALSE
    BY DEF Frame, Connected
  <2> QED BY <2>1, <2>2 DEF Silent
<1>3. ASSUME NEW n \in 0..2, NEW t \in {"extend", "ping"} PROVE WrapForward(n, t, None) \in Control
  <2>1. WrapForward(n, t, None) \in Frames
    BY FramesTyped DEF FrameTypes
  <2>2. WrapForward(n, t, None).type = t
    BY DEF Frame, WrapForward
  <2> QED BY <2>1, <2>2 DEF Control
<1> QED BY <1>1, <1>2, <1>3 DEF Control, Inert

\* A frame that opens is no plain one.
LEMMA OpensInert == \A f \in Frames : Opens(f) => f \in Inert
  BY DEF Opens, Inert

\* What the exit takes off its stream.
LEMMA TookIdle ==
  ASSUME WireOK, RelayOK, NEW c \in Circuits, Took(c), Inbox(c) # <<>>, Head(Inbox(c)) \in Inert
  PROVE  UpIdle
<1>1. CASE ExitServes(c)
  <2>1. up' = [up EXCEPT ![c] = Tail(up[c])] /\ Head(up[c]) \in Inert /\ up[c] # <<>>
    BY <1>1 DEF Took, Inbox
  <2>2. up'[c] = Tail(up[c]) /\ \A d \in Circuits : d # c => up'[d] = up[d]
    BY <2>1 DEF WireOK
  <2> QED BY <2>1, <2>2 DEF UpIdle, Idle
<1>2. CASE ~ExitServes(c)
  BY <1>2 DEF Took, UpIdle, Idle
<1> QED BY <1>1, <1>2

\* Plain BEGINs, data and torn frames enter and leave a client's stream in these steps
\* only.
LEMMA UpSteps ==
  ASSUME Safe, Held, Touched, Sealed, Next \/ UNCHANGED vars
  PROVE  \/ UpIdle
         \/ \E a \in Apps : Write(a) \/ \E b \in Apps : Clash(a, b)
         \/ \E c \in Circuits : ExitBegin(c) \/ ExitFrame(c)
<1>1. ClientOK /\ AppOK /\ WireOK /\ RelayOK /\ ExitOK /\ BoundOK /\ Planned
  BY TypeParts DEF Safe
<1>2. UNCHANGED up => UpIdle
  BY DEF UpIdle, Idle
<1>3. ASSUME NEW c \in Circuits, NEW p, up' = [up EXCEPT ![c] = p], Idle(up[c], p, far'[c] # "open", Inert, Control)
      PROVE  UpIdle
  <2>1. up'[c] = p /\ \A d \in Circuits : d # c => up'[d] = up[d]
    BY <1>1, <1>3 DEF WireOK
  <2> QED BY <1>3, <2>1 DEF UpIdle, Idle
<1>4. ASSUME NEW c \in Circuits, NEW f \in Control, up' = [up EXCEPT ![c] = IF far[c] = "open" THEN Append(up[c], f) ELSE up[c]]
      PROVE  UpIdle
  <2> DEFINE p == IF far[c] = "open" THEN Append(up[c], f) ELSE up[c]
  <2>1. Idle(up[c], p, far'[c] # "open", Inert, Control)
    BY DEF Idle
  <2>2. up' = [up EXCEPT ![c] = p]
    BY <1>4
  <2> HIDE DEF p
  <2> QED BY <1>3, <2>1, <2>2
<1>5. ASSUME NEW c \in Circuits, up' = [up EXCEPT ![c] = <<>>], far' = [far EXCEPT ![c] = "closed"] PROVE UpIdle
  <2>1. far'[c] = "closed"
    BY <1>1, <1>5 DEF WireOK
  <2> QED BY <1>3, <1>5, <2>1 DEF Idle
<1>6. ASSUME NEW c \in Circuits, up' = [up EXCEPT ![c] = Tail(up[c])], up[c] # <<>>, Head(up[c]) \in Inert PROVE UpIdle
  BY <1>3, <1>6 DEF Idle
<1>7. \A c \in Circuits : up[c] # <<>> => Head(up[c]) \in In(up[c]) /\ Head(up[c]) \in Frames
  BY <1>1, InFacts DEF WireOK
<1>8. CASE Build \/ BuildDialFails
  <2>1. CASE BuildDial
    <3> DEFINE c == bld.cir
    <3>1. c \in Circuits /\ far[c] = "none"
      BY <1>1, <2>1 DEF BuildDial, Planned, Waiting, Held
    <3>2. up[c] = <<>>
      BY <3>1 DEF Touched
    <3>3. UNCHANGED up \/ up' = [up EXCEPT ![c] = <<Frame("init", None)>>]
      BY <2>1 DEF BuildDial
    <3>4. <<Frame("init", None)>> = Append(up[c], Frame("init", None)) /\ Frame("init", None) \in Control
      BY <3>2, ControlFrames
    <3> QED BY <1>2, <1>3, <3>1, <3>3, <3>4 DEF Idle
  <2>2. CASE BuildExtend
    <3> DEFINE c == bld.cir
    <3>1. c \in Circuits
      BY <1>1, <2>2 DEF BuildExtend, Planned, Waiting
    <3> DEFINE g == WrapForward(1, "extend", None)
    <3>2. g \in Control
      BY ControlFrames
    <3>3. up' = [up EXCEPT ![c] = IF far[c] = "open" THEN Append(up[c], g) ELSE up[c]]
      BY <2>2 DEF BuildExtend
    <3> HIDE DEF g
    <3> QED BY <1>4, <3>1, <3>2, <3>3
  <2> QED BY <1>2, <1>8, <2>1, <2>2 DEF Build, BuildStart, SelectPath, BuildOpen, BuildTimeout, BuildDialFails, wireVars
<1>9. CASE Upkeep
  <2>1. ASSUME NEW c \in Circuits, HeartbeatPing(c) PROVE UpIdle
    <3> DEFINE g == WrapForward(man[c].hops, "ping", None)
    <3>1. g \in Control
      BY <1>1, ControlFrames DEF ClientOK, Records
    <3>2. up' = [up EXCEPT ![c] = IF far[c] = "open" THEN Append(up[c], g) ELSE up[c]]
      BY <2>1 DEF HeartbeatPing
    <3> HIDE DEF g
    <3> QED BY <1>4, <3>1, <3>2
  <2>2. UNCHANGED up \/ \E c \in Circuits : HeartbeatPing(c)
    BY <1>9 DEF Upkeep, ReadFrame, ReadLoopEnds, NotifyCircuitClosed, TransientRead, PoolCloses, HeartbeatTimeout,
       SetExitSelection, CooldownEnds, wireVars
  <2> QED BY <1>2, <2>1, <2>2
<1>10. CASE Serving
  <2>1. ASSUME NEW a \in Apps, PumpEnds(a) PROVE UpIdle
    <3> DEFINE c == app[a].cir
               g == Frame("end", StreamID(a))
    <3>1. c \in Circuits /\ g \in Control
      BY <1>1, <2>1, StreamIDType, ControlFrames DEF PumpEnds, Planned
    <3>2. Outgoing(c, g) = g
      BY DEF Outgoing, Frame
    <3>3. UNCHANGED up \/ up' = [up EXCEPT ![c] = IF far[c] = "open" THEN Append(up[c], g) ELSE up[c]]
      BY <2>1, <3>2 DEF PumpEnds, Send
    <3> HIDE DEF g
    <3> QED BY <1>2, <1>4, <3>1, <3>3
  <2>2. UNCHANGED up \/ \E a \in Apps : PumpEnds(a) \/ Write(a) \/ \E b \in Apps : Clash(a, b)
    BY <1>10 DEF Serving, Handler, Acquire, RegisterStream, BeginRefused, BeginSucceeds, BeginFails,
       BeginTimeout, Reply, AppLeaves, wireVars
  <2> QED BY <1>2, <2>1, <2>2
<1>11. ASSUME NEW c \in Circuits, Relay(c) PROVE UpIdle
  <2>1. CASE RelayHandshake(c)
    <3>1. up' = [up EXCEPT ![c] = Tail(up[c])] /\ up[c] # <<>> /\ Head(up[c]).type = "init"
      BY <2>1 DEF RelayHandshake
    <3> QED BY <1>6, <1>7, <3>1 DEF Inert
  <2>2. CASE RelayForward(c)
    <3>1. up' = [up EXCEPT ![c] = Tail(up[c])] /\ up[c] # <<>> /\ Head(up[c]).type # "garbled" /\ rel[c] # "none"
      BY <2>2 DEF RelayForward
    <3>2. ~Direct(c)
      BY <3>1 DEF Touched, ExitServes
    <3>3. Head(up[c]).type \in {"begin", "data"} => Head(up[c]).layers # <<>>
      BY <1>7, <3>1, <3>2 DEF Sealed
    <3> QED BY <1>6, <1>7, <3>1, <3>3 DEF Inert
  <2>3. CASE RelayEnds(c)
    BY <1>5, <2>3 DEF RelayEnds
  <2>4. CASE RelayBackward(c) \/ RelayPumpEnds(c)
    BY <1>2, <2>4 DEF RelayBackward, RelayPumpEnds, wireVars
  <2> QED BY <1>11, <2>1, <2>2, <2>3, <2>4 DEF Relay
<1>12. ASSUME NEW c \in Circuits, Exit(c) \/ ExitDialFails(c) PROVE UpIdle \/ ExitBegin(c) \/ ExitFrame(c)
  <2>1. ExitReturns(c) => UpIdle
    BY <1>2, <1>5 DEF ExitReturns
  <2>2. Inbox(c) # <<>> => Head(Inbox(c)) \in Frames
    BY <1>1, TookType
  <2>3. CASE ExitHandshake(c)
    <3>1. UNCHANGED up \/ (Took(c) /\ Head(Inbox(c)).type = "init" /\ Inbox(c) # <<>>)
      BY <2>3 DEF ExitHandshake
    <3>2. Head(Inbox(c)).type = "init" /\ Inbox(c) # <<>> => Head(Inbox(c)) \in Inert
      BY <2>2 DEF Inert
    <3> QED BY <1>1, <1>2, <3>1, <3>2, TookIdle
  <2>4. CASE ExitCell(c)
    <3>1. ExitReturns(c) \/ (Took(c) /\ Opens(Head(Inbox(c))) /\ Inbox(c) # <<>>)
      BY <2>4 DEF ExitCell
    <3> QED BY <1>1, <2>1, <2>2, <3>1, TookIdle, OpensInert
  <2>5. CASE ExitEnds(c)
    BY <2>1, <2>5 DEF ExitEnds
  <2>6. CASE ExitCheck(c) \/ ExitDial(c) \/ ExitDialUnresolved(c) \/ ExitDialFails(c)
    BY <1>2, <2>6 DEF ExitCheck, ExitDial, ExitDialUnresolved, ExitDialFails
  <2> QED BY <1>12, <2>3, <2>4, <2>5, <2>6 DEF Exit
<1>13. CASE Outside
  <2>1. ASSUME NEW c \in Circuits, LinkBreaks(c) PROVE UpIdle
    BY <1>5, <2>1 DEF LinkBreaks
  <2> QED BY <1>2, <1>13, <2>1 DEF Outside, ExitPump, RemoteCloses, SetPolicy, wireVars
<1>14. CASE UNCHANGED vars
  BY <1>2, <1>14 DEF vars, wireVars
<1> QED BY <1>8, <1>9, <1>10, <1>11, <1>12, <1>13, <1>14, Groups

\* What the exit says without data and without a confirmation.
LEMMA RepliesIdle ==
  ASSUME WireOK, NEW c \in Circuits, NEW f \in Silent, ExitReplies(c, f)
  PROVE  DownIdle
<1>1. UNCHANGED down \/ down' = [down EXCEPT ![c] = IF near[c] = "open" THEN Append(down[c], f) ELSE down[c]]
  BY DEF ExitReplies
<1>2. \/ UNCHANGED down
      \/ down'[c] \in {down[c], Append(down[c], f)} /\ \A d \in Circuits : d # c => down'[d] = down[d]
  BY <1>1 DEF WireOK
<1> QED BY <1>2 DEF DownIdle, Idle

\* Data and confirmations enter and leave a client's stream in these steps only.
LEMMA DownSteps ==
  ASSUME Safe, Next \/ UNCHANGED vars
  PROVE  \/ DownIdle
         \/ \E c \in Circuits : ReadFrame(c) \/ ExitDial(c)
         \/ \E s \in StreamIDs : ExitPump(s)
<1>1. ClientOK /\ AppOK /\ WireOK /\ RelayOK /\ ExitOK /\ BoundOK /\ Planned
  BY TypeParts DEF Safe
<1>2. UNCHANGED down => DownIdle
  BY DEF DownIdle, Idle
<1>3. ASSUME NEW c \in Circuits, NEW p, down' = [down EXCEPT ![c] = p], Idle(down[c], p, far'[c] # "open", Silent, Silent)
      PROVE  DownIdle
  <2>1. down'[c] = p /\ \A d \in Circuits : d # c => down'[d] = down[d]
    BY <1>1, <1>3 DEF WireOK
  <2> QED BY <1>3, <2>1 DEF DownIdle, Idle
<1>4. ASSUME NEW c \in Circuits, NEW f \in Silent, NEW on, down' = [down EXCEPT ![c] = IF on THEN Append(down[c], f) ELSE down[c]]
      PROVE  DownIdle
  <2> DEFINE p == IF on THEN Append(down[c], f) ELSE down[c]
  <2>1. Idle(down[c], p, far'[c] # "open", Silent, Silent)
    BY DEF Idle
  <2>2. down' = [down EXCEPT ![c] = p]
    BY <1>4
  <2> HIDE DEF p
  <2> QED BY <1>3, <2>1, <2>2
<1>5. ASSUME NEW c \in Circuits, down' = [down EXCEPT ![c] = Tail(down[c])], down[c] # <<>>,
             Head(down[c]).type \in {"resp", "extended"}
      PROVE  DownIdle
  <2>1. Head(down[c]) \in Frames
    BY <1>1, <1>5, QueueFacts DEF WireOK
  <2>2. Head(down[c]) \in Silent
    BY <1>5, <2>1 DEF Silent
  <2> QED BY <1>3, <1>5, <2>2 DEF Idle
<1>6. CASE Build \/ BuildDialFails
  <2>1. CASE BuildExtend \/ BuildOpen
    <3> DEFINE c == bld.cir
    <3>1. c \in Circuits
      BY <1>1, <2>1 DEF BuildExtend, BuildOpen, Planned, Waiting
    <3>2. down' = [down EXCEPT ![c] = Tail(down[c])] /\ down[c] # <<>> /\ Head(down[c]).type \in {"resp", "extended"}
      BY <2>1 DEF BuildExtend, BuildOpen
    <3> HIDE DEF c
    <3> QED BY <1>5, <3>1, <3>2
  <2> QED BY <1>2, <1>6, <2>1 DEF Build, BuildStart, SelectPath, BuildDial, BuildTimeout, BuildDialFails, wireVars
<1>7. CASE Upkeep
  BY <1>2, <1>7 DEF Upkeep, ReadLoopEnds, NotifyCircuitClosed, TransientRead, PoolCloses, HeartbeatTimeout, HeartbeatPing,
     SetExitSelection, CooldownEnds, wireVars
<1>8. CASE Serving
  BY <1>2, <1>8 DEF Serving, Handler, Acquire, RegisterStream, BeginRefused, Write, BeginSucceeds, BeginFails,
     BeginTimeout, Reply, PumpEnds, AppLeaves, Clash, wireVars
<1>9. ASSUME NEW c \in Circuits, Relay(c) PROVE DownIdle
  <2>1. \A t \in {"resp", "extended"} : Frame(t, None) \in Silent
    BY ControlFrames
  <2>2. CASE RelayHandshake(c)
    BY <1>4, <2>1, <2>2 DEF RelayHandshake
  <2>3. CASE RelayBackward(c)
    <3> DEFINE on == near[c] = "open" /\ rel[c] = "run"
    <3>1. down' = [down EXCEPT ![c] = IF on THEN Append(down[c], Frame("extended", None)) ELSE down[c]]
      BY <2>3 DEF RelayBackward
    <3> HIDE DEF on
    <3> QED BY <1>4, <2>1, <3>1
  <2> QED BY <1>2, <1>9, <2>2, <2>3 DEF Relay, RelayForward, RelayPumpEnds, RelayEnds, wireVars
<1>10. ASSUME NEW c \in Circuits, Exit(c) \/ ExitDialFails(c) PROVE DownIdle \/ ExitDial(c)
  <2>1. ex[c].s \in StreamIDs \cup {None}
    BY <1>1 DEF ExitOK, Exits
  <2>2. CASE ExitHandshake(c)
    <3>1. UNCHANGED down \/ ExitReplies(c, Frame("resp", None))
      BY <2>2 DEF ExitHandshake
    <3>2. Frame("resp", None) \in Silent
      BY ControlFrames
    <3> QED BY <1>1, <1>2, <3>1, <3>2, RepliesIdle
  <2>3. CASE ExitCheck(c) \/ ExitDialUnresolved(c) \/ ExitDialFails(c)
    <3>1. UNCHANGED down \/ ExitReplies(c, Connected(ex[c].s, FALSE))
      <4>1. CASE ExitCheck(c)
        BY <1>1, <4>1, CheckGoes DEF ExitOK, Refuses, Passes
      <4>2. CASE ExitDialUnresolved(c) \/ ExitDialFails(c)
        BY <4>2 DEF ExitDialUnresolved, ExitDialFails, ExitAnswers, DialReply
      <4> QED BY <2>3, <4>1, <4>2
    <3>2. Connected(ex[c].s, FALSE) \in Silent
      BY <2>1, ControlFrames
    <3> QED BY <1>1, <1>2, <3>1, <3>2, RepliesIdle
  <2> QED BY <1>2, <1>10, <2>2, <2>3 DEF Exit, ExitCell, ExitBegin, ExitFrame, ExitEnds
<1>11. CASE Outside
  <2>1. ASSUME NEW c \in Circuits, LinkBreaks(c) PROVE DownIdle
    <3>1. down' = [down EXCEPT ![c] = <<>>] /\ far' = [far EXCEPT ![c] = "closed"]
      BY <2>1 DEF LinkBreaks
    <3>2. far'[c] = "closed"
      BY <1>1, <3>1 DEF WireOK
    <3> QED BY <1>3, <3>1, <3>2 DEF Idle
  <2> QED BY <1>2, <1>11, <2>1 DEF Outside, RemoteCloses, SetPolicy, wireVars
<1>12. CASE UNCHANGED vars
  BY <1>2, <1>12 DEF vars, wireVars
<1> QED BY <1>6, <1>7, <1>8, <1>9, <1>10, <1>11, <1>12, Groups

-----------------------------------------------------------------------------
(* BEGIN and its answer                                                     *)

\* A handler has sent the BEGIN of its attempt n, over circuit c if it still awaits
\* the answer or had it.
AskedBy(h, n, c) ==
    /\ n < h.try \/ (n = h.try /\ h.pc \notin Early)
    /\ n = h.try => h.cir = c
Asked(s, c) == AskedBy(app[s[1]], s[2], c)

\* The exit has, or has had, a connection for a stream.
Made(s) == conn[s].state # "none"

\* A plain BEGIN for a stream, in flight or in the hands of the exit.
Begins(f, s) == f.type = "begin" /\ f.stream = s /\ f.layers = <<>>
Begging(c, s) == \E f \in In(up[c]) : Begins(f, s)
Opening(c, s) == ex[c].pc \in Active /\ ex[c].s = s
Once(q, s) == \A i, j \in 1..Len(q) : Begins(q[i], s) /\ Begins(q[j], s) => i = j

\* The BEGIN of a stream is nowhere, in flight once, with the exit once, or has made
\* the connection: only its own attempt sent it, over the circuit it names.
BegunAt(s) ==
    /\ \A c \in Circuits :
         /\ Begging(c, s) \/ Opening(c, s) =>
              /\ Asked(s, c) /\ Direct(c) /\ ~Made(s) /\ plan[c] # NoPlan
              /\ \A d \in Circuits : Begging(d, s) \/ Opening(d, s) => d = c
         /\ ~(Begging(c, s) /\ Opening(c, s))
         /\ Once(up[c], s)
    /\ Made(s) => Asked(s, conn[s].cir) /\ Direct(conn[s].cir) /\ far[conn[s].cir] # "none"
Begun == \A s \in StreamIDs : BegunAt(s)

\* Nobody is told CONNECTED before the connection is made.
Confirms(f, s) == f.type = "connected" /\ f.stream = s /\ f.ok
Answered ==
    /\ \A s \in StreamIDs : answer[s] = "ok" => Made(s)
    /\ \A s \in StreamIDs : \A c \in Circuits : (\E f \in In(down[c]) : Confirms(f, s)) => Made(s)
    /\ \A a \in Apps : app[a].pc \in {"reply", "pump"} => Made(StreamID(a))

Sound == SafeInv /\ Held /\ Touched /\ Sealed /\ Begun /\ Answered

\* A handler that pumps has its connection, over its own, direct circuit.
LEMMA Pumping ==
  ASSUME Sound, NEW a \in Apps, app[a].pc \in {"reply", "pump"}
  PROVE  /\ Made(StreamID(a)) /\ conn[StreamID(a)].cir = app[a].cir
         /\ app[a].cir \in Circuits /\ Direct(app[a].cir) /\ plan[app[a].cir] # NoPlan
<1>1. AppOK /\ Planned
  BY TypeParts DEF Sound, SafeInv, Safe
<1>2. StreamID(a) \in StreamIDs /\ StreamID(a) = <<a, app[a].try>>
  BY <1>1, StreamIDType
<1>3. Made(StreamID(a))
  BY DEF Sound, Answered
<1>4. Asked(StreamID(a), conn[StreamID(a)].cir) /\ Direct(conn[StreamID(a)].cir)
  BY <1>2, <1>3 DEF Sound, Begun, BegunAt
<1>5. conn[StreamID(a)].cir = app[a].cir
  BY <1>2, <1>4 DEF Asked, AskedBy
<1>6. app[a].cir \in Circuits /\ plan[app[a].cir] # NoPlan
  BY <1>1 DEF Planned
<1> QED BY <1>3, <1>4, <1>5, <1>6

\* What a write puts on the stream: a BEGIN, in the clear on a direct circuit and in
\* two layers otherwise, or a chunk in the clear.
LEMMA Writes ==
  ASSUME Sound, NEW a \in Apps, WritesBegin(a) \/ WritesData(a)
  PROVE  /\ app[a].cir \in Circuits /\ plan[app[a].cir] # NoPlan
         /\ Outgoing(app[a].cir, Written(a)) \in Frames
         /\ app[a].pc = "begin" =>
              /\ Outgoing(app[a].cir, Written(a)).type = "begin" /\ Outgoing(app[a].cir, Written(a)).stream = StreamID(a)
              /\ Outgoing(app[a].cir, Written(a)).layers = IF Direct(app[a].cir) THEN <<>> ELSE <<0, 1>>
         /\ app[a].pc = "pump" =>
              /\ Direct(app[a].cir)
              /\ Outgoing(app[a].cir, Written(a)) = Data(StreamID(a), sent.app[StreamID(a)] + 1)
<1>1. ClientOK /\ AppOK /\ DataOK /\ Planned
  BY TypeParts DEF Sound, SafeInv, Safe
<1> DEFINE c == app[a].cir
           f == Written(a)
           s == StreamID(a)
<1>2. s \in StreamIDs
  BY <1>1, StreamIDType
<1>3. app[a].pc = "begin" \/ app[a].pc = "pump"
  BY DEF WritesBegin, WritesData
<1>4. c \in Circuits /\ plan[c] # NoPlan
  BY <1>1, <1>3 DEF Planned
<1>5. f \in Frames
  <2>1. sent.app[s] + 1 \in Nat
    BY <1>1, <1>2 DEF DataOK
  <2>2. Data(s, sent.app[s] + 1) \in Frames /\ Frame("begin", s) \in Frames
    BY <1>2, <2>1, FramesTyped DEF FrameTypes
  <2> QED BY <2>2 DEF Written
<1>6. Outgoing(c, f) \in Frames
  BY <1>1, <1>4, <1>5, OutgoingType
<1>7. ASSUME app[a].pc = "begin"
      PROVE  /\ Outgoing(c, f).type = "begin" /\ Outgoing(c, f).stream = s
             /\ Outgoing(c, f).layers = IF Direct(c) THEN <<>> ELSE <<0, 1>>
  <2>1. f = Frame("begin", s)
    BY <1>7 DEF Written
  <2>2. f.type = "begin" /\ f.stream = s /\ f.layers = <<>>
    BY <2>1 DEF Frame
  <2>3. CASE Direct(c)
    <3>1. Outgoing(c, f) = f
      BY <2>3 DEF Outgoing
    <3> QED BY <2>2, <2>3, <3>1
  <2>4. CASE ~Direct(c)
    <3>1. man[c].rec # "creating" /\ man[c].hops # 1
      BY <1>4, <1>7 DEF Sound, Held, Acquired
    <3>2. man[c].hops > 0 /\ man[c].hops \in 0..2
      BY <1>1, <1>4, <1>7, <2>4 DEF WritesBegin, WritesData, CanBegin, ClientOK, Records
    <3>3. man[c].hops = 2
      BY <3>1, <3>2
    <3> DEFINE l == WrapForward(man[c].hops, f.type, f.stream).layers
    <3>4. l = [i \in 1..2 |-> i - 1]
      BY <3>3 DEF WrapForward, Frame
    <3>5. [i \in 1..2 |-> i - 1] = <<0, 1>>
      OBVIOUS
    <3>6. Outgoing(c, f) = [f EXCEPT !.layers = l]
      BY <2>2, <2>4 DEF Outgoing
    <3>7. l = <<0, 1>>
      BY <3>4, <3>5
    <3> HIDE DEF l, f
    <3> QED BY <1>5, <2>2, <2>4, <3>6, <3>7 DEF Frames
  <2> QED BY <2>3, <2>4
<1>8. ASSUME app[a].pc = "pump" PROVE Direct(c) /\ Outgoing(c, f) = Data(s, sent.app[s] + 1)
  <2>1. Direct(c)
    BY <1>8, Pumping
  <2> QED BY <1>8, <2>1 DEF Outgoing, Written
<1> QED BY <1>4, <1>6, <1>7, <1>8

\* An idle queue has the frames it had, and the inert ones that joined it.
LEMMA IdleFacts ==
  ASSUME NEW q \in Seq(Frames), NEW H, NEW A \in SUBSET Frames, NEW shut, NEW p, Idle(q, p, shut, H, A)
  PROVE  p \in Seq(Frames) /\ In(p) \subseteq In(q) \cup A
<1>1. CASE p = q
  BY <1>1
<1>2. CASE p = <<>>
  BY <1>2, InFacts
<1>3. CASE q # <<>> /\ p = Tail(q)
  BY <1>3, InFacts, QueueFacts
<1>4. ASSUME NEW f \in A, p = Append(q, f) PROVE p \in Seq(Frames) /\ In(p) \subseteq In(q) \cup A
  <2>1. f \in Frames
    OBVIOUS
  <2> QED BY <1>4, <2>1, InFacts, QueueFacts
<1> QED BY <1>1, <1>2, <1>3, <1>4 DEF Idle

\* A plain BEGIN or a plain chunk reaches an exit over a direct circuit only.
LEMMA ReadsDirect ==
  ASSUME Sound, NEW c \in Circuits, Inbox(c) # <<>>, Head(Inbox(c)).type \in {"begin", "data"}, Head(Inbox(c)).layers = <<>>
  PROVE  /\ ExitServes(c) /\ Inbox(c) = up[c] /\ Direct(c) /\ plan[c] # NoPlan /\ far[c] = "open"
         /\ Head(up[c]) \in In(up[c])
<1>1. up[c] \in Seq(Frames) /\ up2[c] \in Seq(Frames)
  BY TypeParts DEF Sound, SafeInv, Safe, WireOK, RelayOK
<1>2. ExitServes(c)
  <2> SUFFICES ASSUME ~ExitServes(c) PROVE FALSE
    OBVIOUS
  <2>1. Inbox(c) = up2[c]
    BY DEF Inbox
  <2>2. Head(up2[c]) \in In(up2[c])
    BY <1>1, <2>1, InFacts
  <2> QED BY <2>1, <2>2 DEF Sound, Sealed
<1>3. Inbox(c) = up[c] /\ Head(up[c]) \in In(up[c])
  BY <1>1, <1>2, InFacts DEF Inbox
<1>4. far[c] = "open" /\ Direct(c)
  BY <1>3 DEF Sound, Sealed, Touched
<1>5. plan[c] # NoPlan
  BY <1>4 DEF Sound, SafeInv, Linked
<1> QED BY <1>2, <1>3, <1>4, <1>5

\* The frames that are new on their way to the exit.
LEMMA UpFrames ==
  ASSUME Sound, Next \/ UNCHANGED vars, NEW c \in Circuits, NEW f \in In(up'[c])
  PROVE  \/ f \in In(up[c]) \/ f \in Control \/ f = Garbled
         \/ \E a \in Apps : Write(a) /\ c = app[a].cir /\ f = Outgoing(c, Written(a))
<1>1. Safe /\ WireOK /\ RelayOK /\ Planned
  BY TypeParts DEF Sound, SafeInv, Safe
<1>2. up[c] \in Seq(Frames)
  BY <1>1 DEF WireOK
<1>3. CASE UpIdle
  <2>1. Idle(up[c], up'[c], far'[c] # "open", Inert, Control)
    BY <1>3 DEF UpIdle
  <2>2. Control \in SUBSET Frames
    BY DEF Control
  <2>3. In(up'[c]) \subseteq In(up[c]) \cup Control
    BY <1>2, <2>1, <2>2, IdleFacts
  <2> QED BY <2>3
<1>4. ASSUME NEW a \in Apps, Write(a)
      PROVE  f \in In(up[c]) \/ (c = app[a].cir /\ f = Outgoing(c, Written(a)))
  <2> DEFINE g == Outgoing(app[a].cir, Written(a))
  <2>1. g \in Frames /\ app[a].cir \in Circuits
    BY <1>4, Writes DEF Write
  <2>2. \/ up'[c] = up[c] \/ (c = app[a].cir /\ up'[c] = Append(up[c], g))
    BY <1>1, <1>4, <2>1 DEF Write, Send, WireOK
  <2> HIDE DEF g
  <2>3. In(Append(up[c], g)) = In(up[c]) \cup {g}
    BY <1>2, <2>1, InFacts
  <2> QED BY <2>2, <2>3 DEF g
<1>5. ASSUME NEW a \in Apps, NEW b \in Apps, Clash(a, b) PROVE f \in In(up[c]) \/ f = Garbled
  <2>1. up'[c] = up[c] \/ up'[c] = Append(up[c], Garbled)
    BY <1>1, <1>5 DEF Clash, WireOK
  <2>2. In(Append(up[c], Garbled)) = In(up[c]) \cup {Garbled}
    BY <1>2, FramesTyped, InFacts
  <2> QED BY <2>1, <2>2
<1>6. ASSUME NEW d \in Circuits, ExitBegin(d) \/ ExitFrame(d) PROVE f \in In(up[c])
  <2>1. Took(d) /\ Inbox(d) # <<>>
    BY <1>6 DEF ExitBegin, ExitFrame
  <2>2. up'[c] = up[c] \/ (up[c] # <<>> /\ up'[c] = Tail(up[c]))
    BY <1>1, <2>1 DEF Took, Inbox, WireOK
  <2> QED BY <1>2, <2>2, InFacts
<1> QED BY <1>1, <1>3, <1>4, <1>5, <1>6, UpSteps DEF Sound

\* The frames that are new on their way back.
LEMMA DownFrames ==
  ASSUME Sound, Next \/ UNCHANGED vars, NEW c \in Circuits, NEW f \in In(down'[c])
  PROVE  \/ f \in In(down[c]) \/ f \in Silent
         \/ ExitDial(c) /\ f = Connected(ex[c].s, TRUE)
         \/ \E s \in StreamIDs : ExitPump(s) /\ c = conn[s].cir /\ f = Data(s, sent.remote[s] + 1)
<1>1. Safe /\ WireOK /\ DataOK /\ ExitOK /\ Planned
  BY TypeParts DEF Sound, SafeInv, Safe
<1>2. down[c] \in Seq(Frames)
  BY <1>1 DEF WireOK
<1>3. CASE DownIdle
  <2>1. Idle(down[c], down'[c], far'[c] # "open", Silent, Silent)
    BY <1>3 DEF DownIdle
  <2>2. Silent \in SUBSET Frames
    BY DEF Silent
  <2>3. In(down'[c]) \subseteq In(down[c]) \cup Silent
    BY <1>2, <2>1, <2>2, IdleFacts
  <2> QED BY <2>3
<1>4. ASSUME NEW d \in Circuits, NEW g \in Frames, ExitReplies(d, g)
      PROVE  f \in In(down[c]) \/ (c = d /\ f = g)
  <2>1. down'[c] = down[c] \/ (c = d /\ down'[c] = Append(down[c], g))
    BY <1>1, <1>4 DEF ExitReplies, WireOK
  <2>2. In(Append(down[c], g)) = In(down[c]) \cup {g}
    BY <1>2, InFacts
  <2> QED BY <2>1, <2>2
<1>5. ASSUME NEW d \in Circuits, ReadFrame(d) PROVE f \in In(down[c])
  <2>1. down'[c] = down[c] \/ (down[c] # <<>> /\ down'[c] = Tail(down[c]))
    BY <1>1, <1>5 DEF ReadFrame, WireOK
  <2> QED BY <1>2, <2>1, InFacts
<1>6. ASSUME NEW d \in Circuits, ExitDial(d) PROVE f \in In(down[c]) \/ (c = d /\ f = Connected(ex[d].s, TRUE))
  <2>1. ExitReplies(d, Connected(ex[d].s, TRUE))
    BY <1>6 DEF ExitDial, ExitAnswers, DialReply
  <2>2. Connected(ex[d].s, TRUE) \in Frames
    BY <1>1, FramesTyped DEF ExitOK, Exits
  <2> QED BY <1>4, <2>1, <2>2
<1>7. ASSUME NEW s \in StreamIDs, ExitPump(s)
      PROVE  f \in In(down[c]) \/ (c = conn[s].cir /\ f = Data(s, sent.remote[s] + 1))
  <2>1. conn[s].cir \in Circuits
    BY <1>1, <1>7 DEF ExitPump, Planned
  <2>2. sent.remote[s] + 1 \in Nat
    BY <1>1 DEF DataOK
  <2>3. Data(s, sent.remote[s] + 1) \in Frames
    BY <2>2, FramesTyped
  <2>4. UNCHANGED down \/ ExitReplies(conn[s].cir, Data(s, sent.remote[s] + 1))
    BY <1>7 DEF ExitPump
  <2> QED BY <1>4, <2>1, <2>3, <2>4
<1> QED BY <1>1, <1>3, <1>5, <1>6, <1>7, DownSteps

\* What a relay passes on stays sealed.
LEMMA OnwardSealed ==
  ASSUME Sound, Next \/ UNCHANGED vars, NEW c \in Circuits, NEW f \in In(up2'[c])
  PROVE  f \in In(up2[c]) \/ f.type \notin {"begin", "data"} \/ f.layers # <<>>
<1>1. WireOK /\ RelayOK /\ ExitOK
  BY TypeParts DEF Sound, SafeInv, Safe
<1>2. up2[c] \in Seq(Frames) /\ up[c] \in Seq(Frames)
  BY <1>1 DEF RelayOK, WireOK
<1>3. up2'[c] = up2[c] \/ up2'[c] = <<>> \/ (up2[c] # <<>> /\ up2'[c] = Tail(up2[c])) => f \in In(up2[c])
  BY <1>2, InFacts
<1>4. CASE RelayForward(c)
  <2> DEFINE h == Head(up[c])
             g == IF h.type = "extend" THEN Frame("init", None) ELSE Peeled(h)
  <2>1. \/ up2' = up2
        \/ Opens(h) /\ up[c] # <<>> /\ (up2'[c] = <<g>> \/ up2'[c] = up2[c] \/ up2'[c] = Append(up2[c], g))
    BY <1>1, <1>4 DEF RelayForward, RelayOK
  <2>2. ASSUME Opens(h), up[c] # <<>> PROVE g \in Frames /\ (g.type \notin {"begin", "data"} \/ g.layers # <<>>)
    <3>1. h \in Frames /\ h \in In(up[c])
      BY <1>2, <2>2, InFacts, QueueFacts
    <3>2. Frame("init", None) \in Frames /\ Frame("init", None).type = "init"
      BY FramesTyped DEF FrameTypes, Frame
    <3>3. Peeled(h) \in Frames
      BY <2>2, <3>1, FramesTyped
    <3>4. h.type \in {"begin", "data"} => Peeled(h).layers # <<>>
      <4>1. SUFFICES ASSUME h.type \in {"begin", "data"} PROVE Peeled(h).layers # <<>>
        OBVIOUS
      <4>2. h.layers # <<0>> /\ h.layers # <<>> /\ h.layers # <<1>>
        BY <2>2, <3>1, <4>1 DEF Sound, Sealed, Opens
      <4>3. h.layers \in {<<>>, <<0>>, <<1>>, <<0, 1>>}
        BY <3>1 DEF Frames
      <4>4. h.layers = <<0, 1>>
        BY <4>2, <4>3
      <4>5. Tail(<<0, 1>>) # <<>>
        OBVIOUS
      <4> DEFINE l == Tail(h.layers)
      <4>6. Peeled(h) = [h EXCEPT !.layers = l] /\ l # <<>>
        BY <4>4, <4>5 DEF Peeled
      <4> HIDE DEF l, h
      <4> QED BY <3>1, <4>6 DEF Frames
    <3>5. Peeled(h).type = h.type
      BY <3>1 DEF Peeled, Frames
    <3> QED BY <3>2, <3>3, <3>4, <3>5
  <2> HIDE DEF g, h
  <2>3. g \in Frames => In(Append(up2[c], g)) = In(up2[c]) \cup {g} /\ In(<<g>>) = {g}
    <3>1. <<>> \in Seq(Frames) /\ <<g>> = Append(<<>>, g)
      OBVIOUS
    <3>2. g \in Frames => In(Append(up2[c], g)) = In(up2[c]) \cup {g}
      BY <1>2, InFacts
    <3>3. g \in Frames => In(Append(<<>>, g)) = In(<<>>) \cup {g} /\ In(<<>>) = {}
      BY <3>1, InFacts
    <3> QED BY <3>1, <3>2, <3>3
  <2> QED BY <1>3, <2>1, <2>2, <2>3
<1>5. ASSUME NEW d \in Circuits, Relay(d), ~(d = c /\ RelayForward(c)) PROVE up2'[c] = up2[c]
  BY <1>1, <1>5 DEF Relay, RelayHandshake, RelayForward, RelayBackward, RelayPumpEnds, RelayEnds, RelayOK
<1>6. ASSUME NEW d \in Circuits, Exit(d) \/ ExitDialFails(d)
      PROVE  up2'[c] = up2[c] \/ up2'[c] = <<>> \/ (up2[c] # <<>> /\ up2'[c] = Tail(up2[c]))
  <2>1. Took(d) /\ Inbox(d) # <<>> => up2'[c] = up2[c] \/ (up2[c] # <<>> /\ up2'[c] = Tail(up2[c]))
    BY <1>1 DEF Took, Inbox, RelayOK
  <2>2. ExitReturns(d) => up2'[c] = up2[c] \/ up2'[c] = <<>>
    BY <1>1 DEF ExitReturns, RelayOK
  <2>3. UNCHANGED up2 \/ ExitReturns(d) \/ (Took(d) /\ Inbox(d) # <<>>)
    BY <1>6 DEF Exit, ExitHandshake, ExitCell, ExitBegin, ExitCheck, ExitDial, ExitDialUnresolved, ExitDialFails, ExitFrame, ExitEnds
  <2> QED BY <2>1, <2>2, <2>3
<1>7. CASE Build \/ BuildDialFails \/ Outside \/ UNCHANGED vars
  <2>1. UNCHANGED up2
    BY <1>7 DEF Build, BuildStart, SelectPath, BuildDial, BuildExtend, BuildOpen, BuildTimeout, BuildDialFails, Outside, ExitPump,
       RemoteCloses, SetPolicy, LinkBreaks, vars, relayVars
  <2> QED BY <1>3, <2>1
<1>8. CASE Upkeep \/ Serving
  <2>1. UNCHANGED up2
    BY <1>8 DEF Upkeep, ReadFrame, ReadLoopEnds, NotifyCircuitClosed, TransientRead, PoolCloses, HeartbeatTimeout, HeartbeatPing,
       SetExitSelection, CooldownEnds, Serving, Handler, Acquire, RegisterStream, BeginRefused, Write, BeginSucceeds, BeginFails,
       BeginTimeout, Reply, PumpEnds, AppLeaves, Clash, relayVars
  <2> QED BY <1>3, <2>1
<1> QED BY <1>3, <1>4, <1>5, <1>6, <1>7, <1>8, Groups

\* Every step keeps the frames sealed as they should be.
LEMMA SealedStep ==
  ASSUME Sound, Next \/ UNCHANGED vars
  PROVE  Sealed'
<1>1. Safe /\ WireOK /\ Linked
  BY TypeParts DEF Sound, SafeInv, Safe
<1>2. \A c \in Circuits : plan[c] # NoPlan => (Direct(c))' = Direct(c)
  BY <1>1, KindStays
<1>3. \A c \in Circuits : In(up[c]) # {} => plan[c] # NoPlan
  <2>1. \A c \in Circuits : In(up[c]) # {} => far[c] = "open"
    BY DEF Sound, Touched, In
  <2> QED BY <1>1, <2>1 DEF Linked
<1>4. ASSUME NEW c \in Circuits, NEW f \in In(up'[c]), f.type \in {"begin", "data"}
      PROVE  f.layers # <<0>> /\ (f.layers = <<>> => (Direct(c))')
  <2>1. CASE f \in In(up[c])
    BY <1>2, <1>3, <1>4, <2>1 DEF Sound, Sealed
  <2>2. CASE f \in Control \/ f = Garbled
    BY <1>4, <2>2 DEF Control, Garbled, Frame
  <2>3. ASSUME NEW a \in Apps, Write(a), c = app[a].cir, f = Outgoing(c, Written(a))
        PROVE  f.layers # <<0>> /\ (f.layers = <<>> => (Direct(c))')
    <3>1. (app[a].pc = "begin" \/ app[a].pc = "pump") /\ (WritesBegin(a) \/ WritesData(a))
      BY <2>3 DEF Write, WritesBegin, WritesData
    <3>2. plan[c] # NoPlan /\ (app[a].pc = "begin" => f.layers = IF Direct(c) THEN <<>> ELSE <<0, 1>>)
          /\ (app[a].pc = "pump" => Direct(c) /\ f = Data(StreamID(a), sent.app[StreamID(a)] + 1))
      BY <2>3, <3>1, Writes
    <3>3. \A s, n : Data(s, n).layers = <<>>
      BY DEF Data, Frame
    <3>4. <<0, 1>> # <<0>> /\ <<>> # <<0>> /\ <<0, 1>> # <<>>
      OBVIOUS
    <3> QED BY <1>2, <3>1, <3>2, <3>3, <3>4
  <2> QED BY <2>1, <2>2, <2>3, UpFrames
<1>5. ASSUME NEW c \in Circuits, NEW f \in In(up2'[c]), f.type \in {"begin", "data"} PROVE f.layers # <<>>
  BY <1>5, OnwardSealed DEF Sound, Sealed
<1>6. ASSUME NEW c \in Circuits, NEW f \in In(down'[c]) PROVE f.type # "garbled" /\ (f.type = "data" => f.layers = <<>>)
  <2>1. \A s, n : Data(s, n).layers = <<>> /\ Data(s, n).type = "data"
    BY DEF Data, Frame
  <2>2. \A s : Connected(s, TRUE).type = "connected"
    BY DEF Connected, Frame
  <2>3. \/ f \in In(down[c]) \/ f \in Silent
        \/ f = Connected(ex[c].s, TRUE) \/ \E s \in StreamIDs : f = Data(s, sent.remote[s] + 1)
    BY DownFrames
  <2>4. f \in In(down[c]) => f.type # "garbled" /\ (f.type = "data" => f.layers = <<>>)
    BY DEF Sound, Sealed
  <2>5. f \in Silent => f.type # "garbled" /\ f.type # "data"
    BY DEF Silent
  <2> QED BY <2>1, <2>2, <2>3, <2>4, <2>5
<1> QED BY <1>4, <1>5, <1>6 DEF Sealed

\* The ends of a stream that was opened only close.
LEMMA EndsStay ==
  ASSUME Safe, Held, Next \/ UNCHANGED vars
  PROVE  \A c \in Circuits : far[c] # "none" =>
            /\ far'[c] # "none" /\ (far'[c] = "open" => far[c] = "open") /\ (near'[c] = "open" => near[c] = "open")
<1> DEFINE Stays == \A c \in Circuits : far[c] # "none" =>
                       /\ far'[c] # "none" /\ (far'[c] = "open" => far[c] = "open") /\ (near'[c] = "open" => near[c] = "open")
<1>1. WireOK /\ Planned
  BY TypeParts DEF Safe
<1>2. UNCHANGED <<near, far>> => Stays
  OBVIOUS
<1>3. ASSUME NEW c \in Circuits, UNCHANGED near, far' = [far EXCEPT ![c] = "closed"] PROVE Stays
  BY <1>1, <1>3 DEF WireOK
<1>4. CASE Upkeep \/ Serving
  <2>1. UNCHANGED far /\ \A c \in Circuits : near'[c] \in {near[c], "closed"}
    BY <1>4, InUse DEF Ages
  <2> QED BY <2>1
<1>5. CASE Build \/ BuildDialFails
  <2>1. CASE BuildDial
    <3>1. bld.cir \in Circuits /\ far[bld.cir] = "none"
      BY <1>1, <2>1 DEF BuildDial, Planned, Waiting, Held
    <3>2. near' = [near EXCEPT ![bld.cir] = "open"] /\ far' = [far EXCEPT ![bld.cir] = "open"]
      BY <2>1 DEF BuildDial
    <3> QED BY <1>1, <3>1, <3>2 DEF WireOK
  <2>2. CASE BuildTimeout
    <3>1. near' = [near EXCEPT ![bld.cir] = IF man[bld.cir].active THEN "closed" ELSE near[bld.cir]] /\ UNCHANGED far
      BY <2>2 DEF BuildTimeout, CloseCircuit
    <3> QED BY <1>1, <3>1 DEF WireOK
  <2> QED BY <1>2, <1>5, <2>1, <2>2 DEF Build, BuildStart, SelectPath, BuildExtend, BuildOpen, BuildDialFails, wireVars
<1>6. ASSUME NEW c \in Circuits, Relay(c) PROVE Stays
  BY <1>2, <1>3, <1>6 DEF Relay, RelayHandshake, RelayForward, RelayBackward, RelayPumpEnds, RelayEnds, wireVars
<1>7. ASSUME NEW c \in Circuits, Exit(c) \/ ExitDialFails(c) PROVE Stays
  <2>1. UNCHANGED near /\ (UNCHANGED far \/ ExitReturns(c))
    BY <1>7 DEF Exit, ExitHandshake, ExitCell, ExitBegin, ExitCheck, ExitDial, ExitDialUnresolved, ExitDialFails, ExitFrame, ExitEnds
  <2>2. ExitReturns(c) => UNCHANGED far \/ far' = [far EXCEPT ![c] = "closed"]
    BY DEF ExitReturns
  <2> QED BY <1>2, <1>3, <2>1, <2>2
<1>8. CASE Outside
  <2>1. ASSUME NEW c \in Circuits, LinkBreaks(c) PROVE Stays
    BY <1>3, <2>1 DEF LinkBreaks
  <2> QED BY <1>2, <1>8, <2>1 DEF Outside, ExitPump, RemoteCloses, SetPolicy, wireVars
<1>9. CASE UNCHANGED vars
  BY <1>2, <1>9 DEF vars, wireVars
<1> QED BY <1>4, <1>5, <1>6, <1>7, <1>8, <1>9, Groups

\* What an attempt has asked for stays asked for.
LEMMA AskedOn ==
  ASSUME NEW h \in Handlers, NEW g \in Handlers, NEW n \in Attempts, NEW c, NEW ok, NEW U, Goes(h, g, ok, U), AskedBy(h, n, c)
  PROVE  AskedBy(g, n, c)
<1>1. h.try \in Nat /\ n \in Nat /\ g.try \in Nat
  BY DEF Handlers, Attempts
<1> QED BY <1>1 DEF Goes, AskedBy, Early

\* The same, for the handlers.
LEMMA AskedStays ==
  ASSUME Sound, Next \/ UNCHANGED vars, NEW s \in StreamIDs, NEW c, Asked(s, c)
  PROVE  Asked(s, c)'
<1>1. Safe /\ app \in [Apps -> Handlers]
  BY TypeParts DEF Sound, SafeInv, Safe, AppOK
<1>2. app' \in [Apps -> Handlers]
  <2>1. SafeInv'
    BY SafeNext DEF Sound
  <2> QED BY <2>1 DEF SafeInv, Safe, TypeOK
<1>3. s[1] \in Apps /\ s[2] \in Attempts
  BY DEF StreamIDs
<1>4. Goes(app[s[1]], app'[s[1]], answer[StreamID(s[1])] = "ok", Reusable)
  BY <1>1, <1>3, HandlerSteps
<1> DEFINE ok == answer[StreamID(s[1])] = "ok"
           h == app[s[1]]
           g == app'[s[1]]
<1>5. Goes(h, g, ok, Reusable) /\ h \in Handlers /\ g \in Handlers /\ AskedBy(h, s[2], c)
  BY <1>1, <1>2, <1>3, <1>4 DEF Asked
<1> HIDE DEF ok, h, g
<1>6. AskedBy(g, s[2], c)
  BY <1>3, <1>5, AskedOn
<1> QED BY <1>6 DEF Asked, g

\* A dial stores an open connection of its circuit, and no more.
LEMMA DialMakes ==
  ASSUME NEW c \in Circuits, ExitDial(c)
  PROVE  \E k : /\ ex[c].pc = "dial" /\ k.state = "open" /\ k.cir = c
                /\ conn' = [conn EXCEPT ![ex[c].s] = k]
<1>1. PICK to : /\ ex[c].pc = "dial"
                /\ conn' = [conn EXCEPT ![ex[c].s] = [state |-> "open", cir |-> c, under |-> ex[c].seen,
                                                      checked |-> ex[c].addrs, to |-> to]]
  BY DEF ExitDial
<1>2. PICK k : k = [state |-> "open", cir |-> c, under |-> ex[c].seen, checked |-> ex[c].addrs, to |-> to]
  OBVIOUS
<1>3. k.state = "open" /\ k.cir = c
  BY <1>2
<1> QED BY <1>1, <1>2, <1>3

\* A stream gets its connection once, when the exit has checked its BEGIN and dialled;
\* the connection stays with its circuit, and once closed stays closed.
LEMMA ConnSteps ==
  ASSUME Sound, Next \/ UNCHANGED vars, NEW s \in StreamIDs
  PROVE  /\ Made(s) => /\ conn'[s].state # "none" /\ conn'[s].cir = conn[s].cir
                       /\ conn'[s].state = "open" => conn[s].state = "open"
         /\ ~Made(s) => \/ conn'[s].state = "none"
                        \/ \E c \in Circuits : ExitDial(c) /\ Opening(c, s) /\ conn'[s].cir = c /\ conn'[s].state = "open"
<1> DEFINE Stays == conn'[s].state = conn[s].state \/ (conn[s].state = "open" /\ conn'[s].state = "closed")
<1>1. Safe /\ conn \in [StreamIDs -> Connections] /\ ex \in [Circuits -> Exits]
  BY TypeParts DEF Sound, SafeInv, Safe, ExitOK
<1>2. CASE conn'[s].cir = conn[s].cir /\ Stays
  BY <1>2 DEF Made
<1>3. UNCHANGED conn => conn'[s].cir = conn[s].cir /\ Stays
  OBVIOUS
<1>4. ASSUME NEW r, conn[r].state = "open", conn' = [conn EXCEPT ![r].state = "closed"]
      PROVE  conn'[s].cir = conn[s].cir /\ Stays
  <2>1. /\ r # s => conn'[s] = conn[s]
        /\ r = s => conn'[s].state = "closed" /\ conn'[s].cir = conn[s].cir
    BY <1>1, <1>4, Shut DEF Alike
  <2> QED BY <1>4, <2>1
<1>5. ASSUME NEW c \in Circuits, ExitDial(c)
      PROVE  \/ conn'[s].cir = conn[s].cir /\ Stays
             \/ Opening(c, s) /\ conn'[s].cir = c /\ conn'[s].state = "open"
  <2>1. PICK k : /\ ex[c].pc = "dial" /\ k.state = "open" /\ k.cir = c
                 /\ conn' = [conn EXCEPT ![ex[c].s] = k]
    BY <1>5, DialMakes
  <2>2. CASE ex[c].s = s
    <3>1. conn'[s] = k
      BY <1>1, <2>1, <2>2
    <3> QED BY <2>1, <2>2, <3>1 DEF Opening, Active
  <2>3. CASE ex[c].s # s
    <3>1. conn'[s] = conn[s]
      BY <1>1, <2>1, <2>3
    <3> QED BY <3>1
  <2> QED BY <2>2, <2>3
<1>6. ASSUME NEW c \in Circuits, Opening(c, s) PROVE ~Made(s)
  BY <1>6 DEF Sound, Begun, BegunAt
<1>7. CASE Build \/ BuildDialFails \/ Upkeep \/ Serving \/ UNCHANGED vars
  <2>1. Build \/ BuildDialFails \/ UNCHANGED vars => UNCHANGED conn
    BY DEF Build, BuildStart, SelectPath, BuildDial, BuildExtend, BuildOpen, BuildTimeout, BuildDialFails, vars, exitVars
  <2>2. Upkeep => UNCHANGED conn
    BY DEF Upkeep, ReadFrame, ReadLoopEnds, NotifyCircuitClosed, TransientRead, PoolCloses, HeartbeatTimeout, HeartbeatPing,
       SetExitSelection, CooldownEnds, exitVars
  <2>3. Serving => UNCHANGED conn
    BY DEF Serving, Handler, Acquire, RegisterStream, BeginRefused, Write, BeginSucceeds, BeginFails,
       BeginTimeout, Reply, PumpEnds, AppLeaves, Clash, exitVars
  <2> QED BY <1>2, <1>3, <1>7, <2>1, <2>2, <2>3
<1>8. CASE Outside
  <2>1. \/ UNCHANGED conn
        \/ \E r \in StreamIDs : conn[r].state = "open" /\ conn' = [conn EXCEPT ![r].state = "closed"]
    BY <1>8 DEF Outside, ExitPump, RemoteCloses, SetPolicy, LinkBreaks
  <2> QED BY <1>2, <1>3, <1>4, <2>1
<1>9. ASSUME NEW c \in Circuits, Relay(c) PROVE UNCHANGED conn
  BY <1>9 DEF Relay, RelayHandshake, RelayForward, RelayBackward, RelayPumpEnds, RelayEnds, exitVars
<1>10. ASSUME NEW c \in Circuits, Exit(c) \/ ExitDialFails(c)
       PROVE  UNCHANGED conn \/ ExitDial(c) \/ \E r : conn[r].state = "open" /\ conn' = [conn EXCEPT ![r].state = "closed"]
  BY <1>10 DEF Exit, ExitHandshake, ExitCell, ExitBegin, ExitCheck, ExitDialUnresolved, ExitDialFails, ExitFrame, ExitEnds
<1>11. CASE \E c \in Circuits : Exit(c) \/ ExitDialFails(c)
  <2>1. PICK c \in Circuits : Exit(c) \/ ExitDialFails(c)
    BY <1>11
  <2>2. CASE ExitDial(c)
    BY <1>2, <1>5, <1>6, <2>2
  <2> QED BY <1>2, <1>3, <1>4, <1>10, <2>1, <2>2
<1> HIDE DEF Stays
<1> QED BY <1>2, <1>3, <1>7, <1>8, <1>9, <1>11, Groups

\* A check begins with the plain BEGIN of its stream, and ends with a connection.
LEMMA CheckSteps ==
  ASSUME Sound, Next \/ UNCHANGED vars, NEW c \in Circuits, NEW s
  PROVE  /\ Opening(c, s)' => Opening(c, s) \/ (ExitBegin(c) /\ Begins(Head(up[c]), s) /\ Inbox(c) = up[c])
         /\ ExitDial(c) => ~Opening(c, s)'
<1>1. Safe /\ ex \in [Circuits -> Exits]
  BY TypeParts DEF Sound, SafeInv, Safe, ExitOK
<1>2. ASSUME Quiet PROVE Opening(c, s)' => Opening(c, s)
  BY <1>2 DEF Quiet, Opening
<1>3. ASSUME SetPolicy PROVE Opening(c, s)' => Opening(c, s)
  <2>1. PICK p : ex'[c] = ex[c] \/ ex'[c] = [ex[c] EXCEPT !.seen = ex[c].seen \cup {p}]
    BY <1>3 DEF SetPolicy
  <2> DEFINE S == ex[c].seen \cup {p}
  <2>2. [ex[c] EXCEPT !.seen = S].pc = ex[c].pc /\ [ex[c] EXCEPT !.seen = S].s = ex[c].s
    BY <1>1 DEF Exits
  <2> HIDE DEF S
  <2> QED BY <2>1, <2>2 DEF Opening, S
<1>4. ASSUME NEW d \in Circuits, ExitBegin(d)
      PROVE  Opening(c, s)' => Opening(c, s) \/ (ExitBegin(c) /\ Begins(Head(up[c]), s) /\ Inbox(c) = up[c])
  <2> DEFINE f == Head(Inbox(d))
  <2>1. PICK pc : /\ Inbox(d) # <<>> /\ f.type = "begin" /\ f.layers = <<>>
                  /\ ex' = [ex EXCEPT ![d] = [ServeAt(pc) EXCEPT !.s = f.stream, !.rule = 1, !.seen = {policy}]]
    BY <1>4 DEF ExitBegin
  <2>2. Inbox(d) = up[d]
    BY <2>1, ReadsDirect
  <2>3. d # c => ex'[c] = ex[c]
    BY <1>1, <2>1
  <2>4. ex'[d].s = f.stream
    <3>1. PICK g : g = [ServeAt(pc) EXCEPT !.s = f.stream, !.rule = 1, !.seen = {policy}]
      OBVIOUS
    <3>2. g.s = f.stream
      BY <3>1 DEF ServeAt
    <3>3. ex'[d] = g
      BY <1>1, <2>1, <3>1
    <3> QED BY <3>2, <3>3
  <2> QED BY <1>4, <2>1, <2>2, <2>3, <2>4 DEF Opening, Begins
<1>5. ASSUME NEW d \in Circuits, ExitDial(d) PROVE (Opening(c, s)' => Opening(c, s)) /\ (d = c => ~Opening(c, s)')
  <2>1. ex' = [ex EXCEPT ![d] = ServeAt("direct")]
    BY <1>5 DEF ExitDial, ExitAnswers
  <2>2. ex'[d] = ServeAt("direct") /\ (d # c => ex'[c] = ex[c])
    BY <1>1, <2>1
  <2> QED BY <2>2 DEF Opening, Active, Checking, ServeAt
<1>7. ASSUME NEW d \in Circuits, ExitCheck(d) PROVE Opening(c, s)' => Opening(c, s)
  <2>1. ex[d].pc \in Checking /\ \E e : ex' = [ex EXCEPT ![d] = e] /\ (e = ServeAt("direct") \/ e.s = ex[d].s)
    BY <1>1, <1>7, CheckGoes DEF Refuses, Passes
  <2>2. d # c => ex'[c] = ex[c]
    BY <1>1, <2>1
  <2>3. ex'[d] = ServeAt("direct") \/ ex'[d].s = ex[d].s
    BY <1>1, <2>1
  <2> QED BY <2>1, <2>2, <2>3 DEF Opening, Active, Checking, ServeAt
<1>6. ExitDial(c) => ~Opening(c, s)'
  BY <1>5
<1> QED BY <1>1, <1>2, <1>3, <1>4, <1>5, <1>6, <1>7, QuietSteps

\* A queue that holds a BEGIN once does so on.
LEMMA OnceKept ==
  ASSUME NEW q \in Seq(Frames), NEW s, Once(q, s)
  PROVE  /\ Once(<<>>, s)
         /\ q # <<>> => Once(Tail(q), s)
         /\ q # <<>> /\ Begins(Head(q), s) => \A f \in In(Tail(q)) : ~Begins(f, s)
         /\ \A f \in Frames : ~Begins(f, s) \/ (\A g \in In(q) : ~Begins(g, s)) => Once(Append(q, f), s)
<1>1. Once(<<>>, s)
  BY DEF Once
<1>2. ASSUME q # <<>> PROVE Once(Tail(q), s) /\ (Begins(Head(q), s) => \A f \in In(Tail(q)) : ~Begins(f, s))
  <2> DEFINE p == Tail(q)
  <2>1. /\ \A i \in 1..Len(p) : i + 1 \in 1..Len(q) /\ p[i] = q[i + 1]
        /\ Head(q) = q[1] /\ Len(q) >= 1 /\ Len(q) \in Nat /\ Len(p) \in Nat
    BY <1>2, QueueFacts
  <2> HIDE DEF p
  <2>2. ASSUME NEW i \in 1..Len(p), NEW j \in 1..Len(p), Begins(p[i], s), Begins(p[j], s) PROVE i = j
    <3>1. i + 1 = j + 1
      BY <2>1, <2>2 DEF Once
    <3> QED BY <3>1
  <2>3. ASSUME Begins(Head(q), s), NEW i \in 1..Len(p), Begins(p[i], s) PROVE FALSE
    <3>1. 1 \in 1..Len(q)
      BY <2>1
    <3>2. i + 1 = 1
      BY <2>1, <2>3, <3>1 DEF Once
    <3> QED BY <3>2
  <2>4. Once(p, s) /\ (Begins(Head(q), s) => \A f \in In(p) : ~Begins(f, s))
    BY <2>2, <2>3 DEF Once, In
  <2> QED BY <2>4 DEF p
<1>3. ASSUME NEW f \in Frames, ~Begins(f, s) \/ (\A g \in In(q) : ~Begins(g, s)) PROVE Once(Append(q, f), s)
  <2> DEFINE p == Append(q, f)
  <2>1. Len(p) = Len(q) + 1 /\ p[Len(q) + 1] = f /\ (\A i \in 1..Len(q) : p[i] = q[i]) /\ Len(q) \in Nat
    BY QueueFacts
  <2> HIDE DEF p
  <2>2. ASSUME NEW i \in 1..Len(p), NEW j \in 1..Len(p), Begins(p[i], s), Begins(p[j], s) PROVE i = j
    <3>1. (i \in 1..Len(q) \/ i = Len(q) + 1) /\ (j \in 1..Len(q) \/ j = Len(q) + 1)
      BY <2>1
    <3>2. CASE i \in 1..Len(q) /\ j \in 1..Len(q)
      BY <2>1, <2>2, <3>2 DEF Once
    <3>3. CASE i \in 1..Len(q) /\ j = Len(q) + 1
      <4>1. q[i] \in In(q)
        BY <3>3 DEF In
      <4> QED BY <1>3, <2>1, <2>2, <3>3, <4>1
    <3>4. CASE j \in 1..Len(q) /\ i = Len(q) + 1
      <4>1. q[j] \in In(q)
        BY <3>4 DEF In
      <4> QED BY <1>3, <2>1, <2>2, <3>4, <4>1
    <3> QED BY <3>1, <3>2, <3>3, <3>4
  <2>3. Once(p, s)
    BY <2>2 DEF Once
  <2> QED BY <2>3 DEF p
<1> QED BY <1>1, <1>2, <1>3

\* The handler writes the BEGIN of its attempt in the clear.
Asks(a, s, c) == Write(a) /\ app[a].pc = "begin" /\ s = StreamID(a) /\ c = app[a].cir /\ Direct(c)

\* A plain BEGIN that is new in flight was written by its own handler.
LEMMA BegSteps ==
  ASSUME Sound, Next \/ UNCHANGED vars, NEW s \in StreamIDs, NEW c \in Circuits, Begging(c, s)'
  PROVE  Begging(c, s) \/ \E a \in Apps : Asks(a, s, c)
<1>1. PICK f \in In(up'[c]) : Begins(f, s)
  BY DEF Begging
<1>2. CASE f \in In(up[c])
  BY <1>1, <1>2 DEF Begging
<1>3. CASE f \in Control \/ f = Garbled
  BY <1>1, <1>3 DEF Begins, Control, Garbled, Frame
<1>4. ASSUME NEW a \in Apps, Write(a), c = app[a].cir, f = Outgoing(c, Written(a)) PROVE Asks(a, s, c)
  <2>1. (WritesBegin(a) \/ WritesData(a)) /\ (app[a].pc = "begin" \/ app[a].pc = "pump")
    BY <1>4 DEF Write, WritesBegin, WritesData
  <2>2. app[a].pc = "begin"
    <3> SUFFICES ASSUME app[a].pc = "pump" PROVE FALSE
      BY <2>1
    <3>1. f = Data(StreamID(a), sent.app[StreamID(a)] + 1)
      BY <1>4, <2>1, Writes
    <3>2. f.type = "data"
      BY <3>1 DEF Data, Frame
    <3> QED BY <1>1, <3>2 DEF Begins
  <2>3. f.stream = StreamID(a) /\ f.layers = IF Direct(c) THEN <<>> ELSE <<0, 1>>
    BY <1>4, <2>1, <2>2, Writes
  <2>4. <<0, 1>> # <<>>
    OBVIOUS
  <2> QED BY <1>1, <1>4, <2>2, <2>3, <2>4 DEF Begins, Asks
<1> QED BY <1>2, <1>3, <1>4, UpFrames

\* A handler that is about to send its BEGIN has not asked yet.
LEMMA NotAsked ==
  ASSUME Sound, NEW a \in Apps, app[a].pc \in Early
  PROVE  /\ \A c : ~Asked(StreamID(a), c)
         /\ ~Made(StreamID(a)) /\ \A c \in Circuits : ~Begging(c, StreamID(a)) /\ ~Opening(c, StreamID(a))
<1>1. AppOK
  BY TypeParts DEF Sound, SafeInv, Safe
<1>2. StreamID(a) \in StreamIDs /\ StreamID(a) = <<a, app[a].try>> /\ app[a].try \in Nat
  BY <1>1, StreamIDType DEF Attempts
<1>3. \A c : ~Asked(StreamID(a), c)
  BY <1>2 DEF Asked, AskedBy, Early
<1> QED BY <1>2, <1>3 DEF Sound, Begun, BegunAt

\* In every queue to an exit a stream's BEGIN stays alone.
LEMMA OnceStep ==
  ASSUME Sound, Next \/ UNCHANGED vars, NEW s \in StreamIDs, NEW c \in Circuits
  PROVE  Once(up'[c], s)
<1>1. Safe /\ WireOK /\ Planned
  BY TypeParts DEF Sound, SafeInv, Safe
<1>2. up[c] \in Seq(Frames) /\ Once(up[c], s)
  BY <1>1 DEF WireOK, Sound, Begun, BegunAt
<1>3. CASE UpIdle
  <2>1. Idle(up[c], up'[c], far'[c] # "open", Inert, Control)
    BY <1>3 DEF UpIdle
  <2>2. \A f \in Control : f \in Frames /\ ~Begins(f, s)
    BY DEF Control, Begins
  <2>3. \A f \in Control : Once(Append(up[c], f), s)
    BY <1>2, <2>2, OnceKept
  <2>4. Once(<<>>, s) /\ (up[c] # <<>> => Once(Tail(up[c]), s))
    BY <1>2, OnceKept
  <2> QED BY <1>2, <2>1, <2>3, <2>4 DEF Idle
<1>4. ASSUME NEW a \in Apps, Write(a) PROVE Once(up'[c], s)
  <2> DEFINE g == Outgoing(app[a].cir, Written(a))
  <2>1. g \in Frames /\ app[a].cir \in Circuits
    BY <1>4, Writes DEF Write
  <2>2. up'[c] = up[c] \/ (c = app[a].cir /\ up'[c] = Append(up[c], g))
    BY <1>1, <1>4, <2>1 DEF Write, Send, WireOK
  <2>3. (WritesBegin(a) \/ WritesData(a)) /\ (app[a].pc = "begin" \/ app[a].pc = "pump")
    BY <1>4 DEF Write, WritesBegin, WritesData
  <2>4. app[a].pc = "pump" => g.type = "data"
    <3>1. app[a].pc = "pump" => g = Data(StreamID(a), sent.app[StreamID(a)] + 1)
      BY <2>3, Writes
    <3>2. \A n : Data(StreamID(a), n).type = "data"
      BY DEF Data, Frame
    <3> HIDE DEF g
    <3> QED BY <3>1, <3>2
  <2>5. app[a].pc = "begin" => g.stream = StreamID(a)
    BY <2>3, Writes
  <2>6. app[a].pc = "begin" => \A f \in In(up[c]) : ~Begins(f, StreamID(a))
    BY NotAsked DEF Begging, Early
  <2> HIDE DEF g
  <2>7. ~Begins(g, s) \/ \A f \in In(up[c]) : ~Begins(f, s)
    BY <2>3, <2>4, <2>5, <2>6 DEF Begins
  <2>8. Once(Append(up[c], g), s)
    BY <1>2, <2>1, <2>7, OnceKept
  <2> QED BY <1>2, <2>2, <2>8
<1>5. ASSUME NEW a \in Apps, NEW b \in Apps, Clash(a, b) PROVE Once(up'[c], s)
  <2>1. up'[c] = up[c] \/ up'[c] = Append(up[c], Garbled)
    BY <1>1, <1>5 DEF Clash, WireOK
  <2>2. Garbled \in Frames /\ ~Begins(Garbled, s)
    BY FramesTyped DEF Begins, Garbled, Frame
  <2>3. Once(Append(up[c], Garbled), s)
    BY <1>2, <2>2, OnceKept
  <2> QED BY <1>2, <2>1, <2>3
<1>6. ASSUME NEW d \in Circuits, ExitBegin(d) \/ ExitFrame(d) PROVE Once(up'[c], s)
  <2>1. Took(d) /\ Inbox(d) # <<>>
    BY <1>6 DEF ExitBegin, ExitFrame
  <2>2. up'[c] = up[c] \/ (up[c] # <<>> /\ up'[c] = Tail(up[c]))
    BY <1>1, <2>1 DEF Took, Inbox, WireOK
  <2> QED BY <1>2, <2>2, OnceKept
<1> QED BY <1>1, <1>3, <1>4, <1>5, <1>6, UpSteps DEF Sound

\* Every step keeps a BEGIN and what became of it in one place.
LEMMA BegunStep ==
  ASSUME Sound, Next \/ UNCHANGED vars
  PROVE  Begun'
<1> SUFFICES ASSUME NEW s \in StreamIDs PROVE BegunAt(s)'
  BY DEF Begun
<1>1. Safe /\ Linked /\ Planned /\ AppOK /\ WireOK /\ BegunAt(s)
  BY TypeParts DEF Sound, SafeInv, Safe, Begun
<1>2. \A c \in Circuits : plan[c] # NoPlan => plan'[c] # NoPlan /\ (Direct(c))' = Direct(c)
  BY <1>1, KindStays
<1>3. \A c \in Circuits : far[c] # "none" => far'[c] # "none"
  BY <1>1, EndsStay DEF Sound
<1>4. \A c : Asked(s, c) => Asked(s, c)'
  BY AskedStays
<1>5. \A c \in Circuits : Begging(c, s)' => Begging(c, s) \/ \E a \in Apps : Asks(a, s, c)
  BY BegSteps
<1>6. \A c \in Circuits : /\ Opening(c, s)' => Opening(c, s) \/ (ExitBegin(c) /\ Begins(Head(up[c]), s) /\ Inbox(c) = up[c])
                          /\ ExitDial(c) => ~Opening(c, s)'
  BY CheckSteps
<1>7. \A c \in Circuits : Once(up'[c], s)
  BY OnceStep
<1>8. \A c \in Circuits : ExitBegin(c) /\ Begins(Head(up[c]), s) /\ Inbox(c) = up[c] => Begging(c, s) /\ ~Begging(c, s)'
  <2> SUFFICES ASSUME NEW c \in Circuits, ExitBegin(c), Begins(Head(up[c]), s), Inbox(c) = up[c]
               PROVE  Begging(c, s) /\ ~Begging(c, s)'
    OBVIOUS
  <2>1. up[c] \in Seq(Frames) /\ up[c] # <<>> /\ Took(c)
    BY <1>1 DEF WireOK, ExitBegin
  <2>2. Head(up[c]) \in In(up[c])
    BY <2>1, InFacts
  <2>3. ExitServes(c)
    BY ReadsDirect DEF ExitBegin
  <2>4. up'[c] = Tail(up[c])
    BY <1>1, <2>1, <2>3 DEF Took, WireOK
  <2>5. \A f \in In(Tail(up[c])) : ~Begins(f, s)
    BY <1>1, <2>1, OnceKept DEF BegunAt
  <2> QED BY <2>2, <2>4, <2>5 DEF Begging
<1>9. /\ Made(s) => conn'[s].state # "none" /\ conn'[s].cir = conn[s].cir
      /\ ~Made(s) => conn'[s].state = "none" \/ \E c \in Circuits : ExitDial(c) /\ Opening(c, s) /\ conn'[s].cir = c
  BY ConnSteps
<1>10. Made(s)' <=> conn'[s].state # "none"
  BY DEF Made
<1>11. CASE \E a \in Apps : \E c \in Circuits : Asks(a, s, c)
  <2>1. PICK a \in Apps, d \in Circuits : Asks(a, s, d)
    BY <1>11
  <2>2. d = app[a].cir /\ Write(a) /\ app[a].pc = "begin" /\ s = StreamID(a) /\ Direct(d)
    BY <2>1 DEF Asks
  <2>3. ~Made(s) /\ (\A c \in Circuits : ~Begging(c, s) /\ ~Opening(c, s))
    BY <2>2, NotAsked DEF Early
  <2>4. \A c \in Circuits : ~Opening(c, s)'
    BY <1>6, <1>8, <2>3
  <2>5. ~Made(s)'
    BY <1>9, <1>10, <2>3
  <2>6. \A b \in Apps : StreamID(b) = s => b = a
    BY <2>2 DEF StreamID
  <2>7. \A c \in Circuits : Begging(c, s)' => c = d
    BY <1>5, <2>2, <2>3, <2>6 DEF Asks
  <2>8. Asked(s, d)'
    <3>1. AfterWrite({a}) /\ DataOK
      BY <2>2, TypeParts DEF Write, Sound, SafeInv, Safe
    <3>2. app'[a].pc = "wait" /\ app'[a].try = app[a].try /\ app'[a].cir = d
      BY <1>1, <2>2, <3>1, WriteFacts
    <3>3. s = <<a, app[a].try>>
      BY <2>2 DEF StreamID
    <3>4. s[1] = a /\ s[2] = app[a].try
      BY <3>3
    <3> QED BY <3>2, <3>4 DEF Asked, AskedBy, Early
  <2>9. plan[d] # NoPlan
    BY <1>1, <2>2 DEF Planned
  <2>10. \A c \in Circuits : Begging(c, s)' \/ Opening(c, s)' =>
            /\ Asked(s, c)' /\ Direct(c)' /\ ~Made(s)' /\ plan'[c] # NoPlan
            /\ \A e \in Circuits : Begging(e, s)' \/ Opening(e, s)' => e = c
    BY <1>2, <2>2, <2>4, <2>5, <2>7, <2>8, <2>9
  <2> QED BY <1>7, <2>4, <2>5, <2>10 DEF BegunAt
<1>12. CASE ~\E a \in Apps : \E c \in Circuits : Asks(a, s, c)
  <2>1. \A c \in Circuits : Begging(c, s)' => Begging(c, s)
    BY <1>5, <1>12
  <2>2. \A c \in Circuits : Begging(c, s)' \/ Opening(c, s)' => Begging(c, s) \/ Opening(c, s)
    BY <1>6, <1>8, <2>1
  <2>3. \A c \in Circuits : ~(Begging(c, s)' /\ Opening(c, s)')
    BY <1>1, <1>6, <1>8, <2>1 DEF BegunAt
  <2>4. \A c \in Circuits : Begging(c, s)' \/ Opening(c, s)' => ~Made(s)'
    <3> SUFFICES ASSUME NEW c \in Circuits, Begging(c, s)' \/ Opening(c, s)', Made(s)' PROVE FALSE
      OBVIOUS
    <3>1. ~Made(s) /\ (Begging(c, s) \/ Opening(c, s))
      BY <1>1, <2>2 DEF BegunAt
    <3>2. PICK e \in Circuits : ExitDial(e) /\ Opening(e, s)
      BY <1>9, <1>10, <3>1
    <3>3. e = c
      BY <1>1, <3>1, <3>2 DEF BegunAt
    <3>4. ~Opening(c, s)'
      BY <1>6, <3>2, <3>3
    <3>5. Begging(c, s)
      BY <2>1, <3>4
    <3> QED BY <1>1, <3>2, <3>3, <3>5 DEF BegunAt
  <2>5. \A c \in Circuits : Begging(c, s)' \/ Opening(c, s)' =>
            /\ Asked(s, c)' /\ Direct(c)' /\ plan'[c] # NoPlan
            /\ \A e \in Circuits : Begging(e, s)' \/ Opening(e, s)' => e = c
    BY <1>1, <1>2, <1>4, <2>2 DEF BegunAt
  <2>6. ASSUME Made(s)' PROVE \E c \in Circuits : conn'[s].cir = c /\ Asked(s, c)' /\ Direct(c)' /\ far'[c] # "none"
    <3>1. CASE Made(s)
      <4>1. PICK c \in Circuits : c = conn[s].cir /\ plan[c] # NoPlan
        BY <1>1, <3>1 DEF Planned, Made
      <4>2. Asked(s, c) /\ Direct(c) /\ far[c] # "none"
        BY <1>1, <3>1, <4>1 DEF BegunAt
      <4> QED BY <1>2, <1>3, <1>4, <1>9, <3>1, <4>1, <4>2
    <3>2. CASE ~Made(s)
      <4>1. PICK c \in Circuits : ExitDial(c) /\ Opening(c, s) /\ conn'[s].cir = c
        BY <1>9, <1>10, <2>6, <3>2
      <4>2. Asked(s, c) /\ Direct(c) /\ plan[c] # NoPlan
        BY <1>1, <4>1 DEF BegunAt
      <4>3. far[c] # "none"
        <5>1. ex[c].pc # "none"
          BY <4>1 DEF Opening, Active, Checking
        <5> QED BY <5>1 DEF Sound, Touched
      <4> QED BY <1>2, <1>3, <1>4, <4>1, <4>2, <4>3
    <3> QED BY <3>1, <3>2
  <2>7. (Made(s) => Asked(s, conn[s].cir) /\ Direct(conn[s].cir) /\ far[conn[s].cir] # "none")'
    BY <2>6 DEF Asked, Direct
  <2>8. \A c \in Circuits : Begging(c, s)' \/ Opening(c, s)' =>
            /\ Asked(s, c)' /\ Direct(c)' /\ ~Made(s)' /\ plan'[c] # NoPlan
            /\ \A e \in Circuits : Begging(e, s)' \/ Opening(e, s)' => e = c
    BY <2>4, <2>5
  <2> QED BY <1>7, <2>3, <2>7, <2>8 DEF BegunAt
<1> QED BY <1>11, <1>12

\* Every step confirms connections only.
LEMMA AnsweredStep ==
  ASSUME Sound, Next \/ UNCHANGED vars
  PROVE  Answered'
<1>1. Safe /\ AppOK /\ WireOK /\ ExitOK /\ Planned
  BY TypeParts DEF Sound, SafeInv, Safe
<1>2. \A s \in StreamIDs : Made(s) => Made(s)'
  BY ConnSteps DEF Made
<1>3. ASSUME NEW s \in StreamIDs, answer'[s] = "ok" PROVE Made(s)'
  <2>1. CASE answer[s] = "ok"
    BY <1>2, <2>1 DEF Sound, Answered
  <2>2. ASSUME NEW c \in Circuits, ReadFrame(c), answer[s] # "ok" PROVE Made(s)
    <3> DEFINE f == Head(down[c])
    <3>1. down[c] # <<>> /\ (UNCHANGED answer \/ (f.type = "connected" /\ answer' = [answer EXCEPT ![f.stream] = IF f.ok THEN "ok" ELSE "refused"]))
      BY <2>2 DEF ReadFrame
    <3>2. f \in In(down[c])
      BY <1>1, <3>1, InFacts DEF WireOK
    <3> HIDE DEF f
    <3>3. f.type = "connected" /\ f.stream = s /\ f.ok
      BY <1>1, <1>3, <2>2, <3>1 DEF AppOK
    <3> QED BY <3>2, <3>3 DEF Sound, Answered, Confirms
  <2>3. UNCHANGED answer \/ \E c \in Circuits : ReadFrame(c)
    <3>1. CASE Upkeep
      BY <3>1 DEF Upkeep, ReadLoopEnds, NotifyCircuitClosed, TransientRead, PoolCloses, HeartbeatTimeout, HeartbeatPing,
         SetExitSelection, CooldownEnds, appVars
    <3>2. CASE Serving
      BY <3>2 DEF Serving, Handler, Acquire, RegisterStream, BeginRefused, Write, BeginSucceeds, BeginFails,
         BeginTimeout, Reply, PumpEnds, AppLeaves, Clash
    <3>3. CASE Build \/ BuildDialFails \/ Outside \/ UNCHANGED vars
      BY <3>3 DEF Build, BuildStart, SelectPath, BuildDial, BuildExtend, BuildOpen, BuildTimeout, BuildDialFails, Outside, ExitPump,
         RemoteCloses, SetPolicy, LinkBreaks, vars, appVars
    <3>4. ASSUME NEW c \in Circuits, Relay(c) PROVE UNCHANGED answer
      BY <3>4 DEF Relay, RelayHandshake, RelayForward, RelayBackward, RelayPumpEnds, RelayEnds, appVars
    <3>5. ASSUME NEW c \in Circuits, Exit(c) \/ ExitDialFails(c) PROVE UNCHANGED answer
      BY <3>5 DEF Exit, ExitHandshake, ExitCell, ExitBegin, ExitCheck, ExitDial, ExitDialUnresolved, ExitDialFails, ExitFrame, ExitEnds, appVars
    <3> QED BY <3>1, <3>2, <3>3, <3>4, <3>5, Groups
  <2> QED BY <1>2, <1>3, <2>1, <2>2, <2>3
<1>4. ASSUME NEW s \in StreamIDs, NEW c \in Circuits, NEW f \in In(down'[c]), Confirms(f, s) PROVE Made(s)'
  <2>1. CASE f \in In(down[c])
    BY <1>2, <1>4, <2>1 DEF Sound, Answered
  <2>2. f \notin Silent
    BY <1>4 DEF Confirms, Silent
  <2>3. \A r, n : f # Data(r, n)
    <3>1. \A r, n : Data(r, n).type = "data"
      BY DEF Data, Frame
    <3> QED BY <1>4, <3>1 DEF Confirms
  <2>4. ASSUME ExitDial(c), f = Connected(ex[c].s, TRUE) PROVE Made(s)'
    <3>1. f.stream = ex[c].s
      BY <2>4 DEF Connected, Frame
    <3>2. PICK k : k.state = "open" /\ conn' = [conn EXCEPT ![ex[c].s] = k]
      BY <2>4, DialMakes
    <3>3. ex[c].s = s
      BY <1>4, <3>1 DEF Confirms
    <3>4. conn'[s] = k
      BY <1>1, <3>2, <3>3 DEF ExitOK
    <3> QED BY <3>2, <3>4 DEF Made
  <2>5. \/ f \in In(down[c]) \/ f \in Silent \/ (ExitDial(c) /\ f = Connected(ex[c].s, TRUE))
        \/ \E r \in StreamIDs : f = Data(r, sent.remote[r] + 1)
    BY DownFrames
  <2> QED BY <2>1, <2>2, <2>3, <2>4, <2>5
<1>5. ASSUME NEW a \in Apps, app'[a].pc \in {"reply", "pump"} PROVE Made(StreamID(a))'
  <2>1. Goes(app[a], app'[a], answer[StreamID(a)] = "ok", Reusable)
    BY <1>1, HandlerSteps
  <2>2. app'[a].try = app[a].try /\ (app[a].pc \in {"reply", "pump"} \/ answer[StreamID(a)] = "ok")
    BY <1>5, <2>1 DEF Goes
  <2>3. StreamID(a) \in StreamIDs
    BY <1>1, StreamIDType
  <2>4. Made(StreamID(a))
    BY <2>2, <2>3 DEF Sound, Answered
  <2>5. StreamID(a)' = StreamID(a)
    BY <2>2 DEF StreamID
  <2>6. conn'[StreamID(a)].state # "none"
    BY <1>2, <2>3, <2>4 DEF Made
  <2> QED BY <2>5, <2>6 DEF Made
<1> QED BY <1>3, <1>4, <1>5 DEF Answered

\* The invariant holds at the start and is kept by every step.
LEMMA SoundInit == Init => Sound
<1> SUFFICES ASSUME Init PROVE Sound
  OBVIOUS
<1>1. SafeInv
  BY SafeInit
<1>2. Held
  <2>1. NoCircuit \notin Circuits
    BY CircuitAssumption
  <2> QED BY <2>1 DEF Init, Held, NoRecord, IdleBuild, Waiting, Acquired
<1>8. \A c \in Circuits : ex[c].pc = "none"
  BY DEF Init, ServeAt
<1>3. Touched
  BY <1>8 DEF Init, Touched
<1>4. \A c \in Circuits : In(up[c]) = {} /\ In(up2[c]) = {} /\ In(down[c]) = {} /\ up[c] = <<>>
  BY DEF Init, In
<1>5. Sealed
  BY <1>4 DEF Sealed
<1>6. Begun
  <2>1. \A c \in Circuits : \A s : ~Opening(c, s)
    BY <1>8 DEF Opening, Active, Checking
  <2> QED BY <1>4, <2>1 DEF Init, Begun, BegunAt, Begging, Made, Once
<1>7. Answered
  BY <1>4 DEF Init, Answered
<1> QED BY <1>1, <1>2, <1>3, <1>5, <1>6, <1>7 DEF Sound

\* Every step keeps it.
LEMMA SoundStep ==
  ASSUME Sound, [Next]_vars
  PROVE  Sound'
<1>1. Next \/ UNCHANGED vars
  OBVIOUS
<1>2. SafeInv' /\ Held' /\ Touched'
  BY <1>1, SafeNext, HeldStep, TouchedStep DEF Sound
<1>3. Sealed' /\ Begun' /\ Answered'
  BY <1>1, SealedStep, BegunStep, AnsweredStep
<1> QED BY <1>2, <1>3 DEF Sound

\* A handler that was told CONNECTED (handleConn over BeginTCP) has a connection at the
\* exit that was dialled for this attempt over this circuit, for any number of
\* requests and retries, however late the answers.
THEOREM DialledHolds == Spec => []ConnectedIsDialled
<1>1. Sound => ConnectedIsDialled
  BY Pumping DEF ConnectedIsDialled, Made
<1>2. Sound /\ [Next]_vars => Sound'
  BY SoundStep
<1> QED BY SoundInit, <1>1, <1>2, PTL DEF Spec

-----------------------------------------------------------------------------
(* Data in order                                                            *)

\* A plain chunk of stream s, and torn bytes; nothing is torn up to position i.
Datum(f, s) == f.type = "data" /\ f.stream = s /\ f.layers = <<>>
Torn(f) == f.type = "garbled" /\ f.layers = <<>>
Clear(q, i) == \A j \in 1..i : ~Torn(q[j])

\* The chunks of a stream in a queue: in rising order, at most the n that were sent;
\* up to a tear each follows its predecessor, or the h that were delivered; and
\* without a tear the last one sent is there or was delivered.
Numbered(q, s, n) ==
    \A i \in 1..Len(q) : Datum(q[i], s) =>
        q[i].n \in 1..n /\ \A j \in 1..Len(q) : i < j /\ Datum(q[j], s) => q[i].n < q[j].n
Follows(q, s, h) ==
    \A i \in 1..Len(q) : Datum(q[i], s) /\ Clear(q, i) =>
        q[i].n = h + 1 \/ \E j \in 1..Len(q) : j < i /\ Datum(q[j], s) /\ q[j].n + 1 = q[i].n
Complete(q, s, h, n) ==
    Clear(q, Len(q)) => n = h \/ \E j \in 1..Len(q) : Datum(q[j], s) /\ q[j].n = n

\* What reading the first frame of a queue makes of it.
LEMMA TailFlow ==
  ASSUME NEW q \in Seq(Frames), q # <<>>, NEW s, NEW n \in Nat, NEW h \in Nat,
         Numbered(q, s, n), ~Torn(Head(q))
  PROVE  /\ Numbered(Tail(q), s, n)
         /\ ~Datum(Head(q), s) => /\ Follows(q, s, h) => Follows(Tail(q), s, h)
                                  /\ Complete(q, s, h, n) => Complete(Tail(q), s, h, n)
         /\ Datum(Head(q), s) /\ Follows(q, s, h) =>
              /\ Head(q).n = h + 1 /\ h + 1 <= n
              /\ Follows(Tail(q), s, h + 1)
              /\ Complete(q, s, h, n) => Complete(Tail(q), s, h + 1, n)
<1> DEFINE p == Tail(q)
<1>1. /\ Len(q) \in Nat /\ 1 \in 1..Len(q) /\ Head(q) = q[1] /\ Len(p) = Len(q) - 1
      /\ \A i \in 1..Len(p) : i + 1 \in 1..Len(q) /\ p[i] = q[i + 1]
  BY QueueFacts
<1>2. \A i \in 1..Len(q) : q[i] \in Frames /\ q[i].n \in Nat
  <2>1. \A i \in 1..Len(q) : q[i] \in Frames
    OBVIOUS
  <2>2. \A f \in Frames : f.n \in Nat
    BY DEF Frames
  <2> QED BY <2>1, <2>2
<1> HIDE DEF p
<1>3. \A j \in 1..Len(q) : j = 1 \/ (j - 1 \in 1..Len(p) /\ p[j - 1] = q[j])
  <2> TAKE j \in 1..Len(q)
  <2>1. j = 1 \/ j - 1 \in 1..Len(p)
    BY <1>1
  <2>2. j - 1 \in 1..Len(p) => p[j - 1] = q[(j - 1) + 1]
    BY <1>1
  <2>3. (j - 1) + 1 = j
    OBVIOUS
  <2> QED BY <2>1, <2>2, <2>3
<1>4. \A i \in 1..Len(p) : Clear(p, i) => Clear(q, i + 1)
  <2> SUFFICES ASSUME NEW i \in 1..Len(p), Clear(p, i), NEW j \in 1..(i + 1) PROVE ~Torn(q[j])
    BY DEF Clear
  <2>1. j \in 1..Len(q)
    BY <1>1
  <2>2. j = 1 \/ (j - 1 \in 1..i /\ p[j - 1] = q[j])
    BY <1>3, <2>1
  <2> QED BY <1>1, <2>2 DEF Clear
<1>5. Clear(p, Len(p)) => Clear(q, Len(q))
  <2> SUFFICES ASSUME Clear(p, Len(p)), NEW j \in 1..Len(q) PROVE ~Torn(q[j])
    BY DEF Clear
  <2>1. j = 1 \/ (j - 1 \in 1..Len(p) /\ p[j - 1] = q[j])
    BY <1>3
  <2> QED BY <1>1, <2>1 DEF Clear
<1>6. Numbered(p, s, n)
  <2> SUFFICES ASSUME NEW i \in 1..Len(p), Datum(p[i], s)
               PROVE  p[i].n \in 1..n /\ \A j \in 1..Len(p) : i < j /\ Datum(p[j], s) => p[i].n < p[j].n
    BY DEF Numbered
  <2>1. q[i + 1].n \in 1..n /\ \A j \in 1..Len(q) : i + 1 < j /\ Datum(q[j], s) => q[i + 1].n < q[j].n
    BY <1>1 DEF Numbered
  <2>2. \A j \in 1..Len(p) : i < j => i + 1 < j + 1
    OBVIOUS
  <2> QED BY <1>1, <2>1, <2>2
<1>7. ASSUME NEW i \in 1..Len(p), Follows(q, s, h), Datum(p[i], s), Clear(p, i)
      PROVE  \/ p[i].n = h + 1
             \/ Datum(q[1], s) /\ q[1].n + 1 = p[i].n
             \/ \E j \in 1..Len(p) : j < i /\ Datum(p[j], s) /\ p[j].n + 1 = p[i].n
  <2>1. i + 1 \in 1..Len(q) /\ p[i] = q[i + 1] /\ Clear(q, i + 1)
    BY <1>1, <1>4, <1>7
  <2>2. \/ q[i + 1].n = h + 1
        \/ \E j \in 1..Len(q) : j < i + 1 /\ Datum(q[j], s) /\ q[j].n + 1 = q[i + 1].n
    BY <1>7, <2>1 DEF Follows
  <2>3. ASSUME NEW j \in 1..Len(q), j < i + 1, Datum(q[j], s), q[j].n + 1 = q[i + 1].n, j # 1
        PROVE  \E k \in 1..Len(p) : k < i /\ Datum(p[k], s) /\ p[k].n + 1 = p[i].n
    <3>1. j - 1 \in 1..Len(p) /\ p[j - 1] = q[j]
      BY <1>3, <2>3
    <3>2. j - 1 < i
      BY <2>3
    <3> QED BY <2>1, <2>3, <3>1, <3>2
  <2> QED BY <2>1, <2>2, <2>3
<1>8. ASSUME NEW m \in Nat, Complete(q, s, m, n), Clear(p, Len(p))
      PROVE  n = m \/ (Datum(q[1], s) /\ q[1].n = n) \/ \E j \in 1..Len(p) : Datum(p[j], s) /\ p[j].n = n
  <2>1. n = m \/ \E j \in 1..Len(q) : Datum(q[j], s) /\ q[j].n = n
    BY <1>5, <1>8 DEF Complete
  <2> QED BY <1>3, <2>1
<1>9. ASSUME ~Datum(q[1], s)
      PROVE  (Follows(q, s, h) => Follows(p, s, h)) /\ (Complete(q, s, h, n) => Complete(p, s, h, n))
  <2>1. Follows(q, s, h) => Follows(p, s, h)
    BY <1>7, <1>9 DEF Follows
  <2>2. Complete(q, s, h, n) => Complete(p, s, h, n)
    BY <1>8, <1>9 DEF Complete
  <2> QED BY <2>1, <2>2
<1>10. ASSUME Datum(q[1], s), Follows(q, s, h)
       PROVE  q[1].n = h + 1 /\ h + 1 <= n /\ Follows(p, s, h + 1) /\ (Complete(q, s, h, n) => Complete(p, s, h + 1, n))
  <2>1. q[1].n = h + 1
    <3>1. Clear(q, 1)
      BY <1>1 DEF Clear
    <3> QED BY <1>1, <1>10, <3>1 DEF Follows
  <2>2. h + 1 \in 1..n
    BY <1>1, <1>10, <2>1 DEF Numbered
  <2>3. \A i \in 1..Len(p) : Datum(p[i], s) => h + 1 < p[i].n
    <3> SUFFICES ASSUME NEW i \in 1..Len(p), Datum(p[i], s) PROVE h + 1 < p[i].n
      OBVIOUS
    <3>1. i + 1 \in 1..Len(q) /\ p[i] = q[i + 1] /\ 1 < i + 1
      BY <1>1
    <3> QED BY <1>1, <1>10, <2>1, <3>1 DEF Numbered
  <2>4. Follows(p, s, h + 1)
    <3> SUFFICES ASSUME NEW i \in 1..Len(p), Datum(p[i], s), Clear(p, i)
                 PROVE  \/ p[i].n = (h + 1) + 1
                        \/ \E j \in 1..Len(p) : j < i /\ Datum(p[j], s) /\ p[j].n + 1 = p[i].n
      BY DEF Follows
    <3>1. p[i].n # h + 1
      <4>1. h + 1 < p[i].n
        BY <2>3
      <4> QED BY <4>1
    <3> QED BY <1>7, <1>10, <2>1, <3>1
  <2>5. Complete(q, s, h, n) => Complete(p, s, h + 1, n)
    <3>1. n # h
      BY <2>2
    <3> QED BY <1>8, <2>1, <3>1 DEF Complete
  <2> QED BY <2>1, <2>2, <2>4, <2>5
<1> QED BY <1>1, <1>6, <1>9, <1>10 DEF p

\* What writing a frame to a queue makes of it.
LEMMA AppendFlow ==
  ASSUME NEW q \in Seq(Frames), NEW f \in Frames, NEW s, NEW n \in Nat, NEW h \in Nat, Numbered(q, s, n)
  PROVE  /\ Numbered(q, s, n + 1)
         /\ Follows(q, s, h) /\ ~Datum(f, s) => Follows(Append(q, f), s, h)
         /\ ~Datum(f, s) => /\ Numbered(Append(q, f), s, n)
                            /\ Complete(q, s, h, n) => Complete(Append(q, f), s, h, n)
         /\ Torn(f) => Numbered(Append(q, f), s, n + 1) /\ Complete(Append(q, f), s, h, n + 1)
         /\ Datum(f, s) /\ f.n = n + 1 =>
              /\ Numbered(Append(q, f), s, n + 1) /\ Complete(Append(q, f), s, h, n + 1)
              /\ Follows(q, s, h) /\ Complete(q, s, h, n) => Follows(Append(q, f), s, h)
<1> DEFINE p == Append(q, f)
           l == Len(q) + 1
<1>1. Len(q) \in Nat /\ Len(p) = l /\ p[l] = f /\ \A i \in 1..Len(q) : p[i] = q[i]
  BY QueueFacts
<1>2. \A i \in 1..Len(q) : q[i].n \in Nat
  <2>1. \A i \in 1..Len(q) : q[i] \in Frames
    OBVIOUS
  <2> QED BY <2>1 DEF Frames
<1> HIDE DEF p
<1>3. /\ \A i \in 1..Len(p) : i \in 1..Len(q) \/ i = l
      /\ \A i \in 1..Len(q) : i \in 1..Len(p) /\ i < l
      /\ l \in 1..Len(p)
  BY <1>1
<1> HIDE DEF l
<1>4. \A i \in 1..Len(q) : Clear(p, i) => Clear(q, i)
  <2> SUFFICES ASSUME NEW i \in 1..Len(q), Clear(p, i), NEW j \in 1..i PROVE ~Torn(q[j])
    BY DEF Clear
  <2>1. j \in 1..Len(q)
    BY <1>1
  <2> QED BY <1>1, <2>1 DEF Clear
<1>5. Clear(p, l) => Clear(q, Len(q)) /\ ~Torn(f)
  <2>1. \A j \in 1..Len(q) : j \in 1..l
    BY <1>1 DEF l
  <2>2. l \in 1..l
    BY <1>1 DEF l
  <2> QED BY <1>1, <2>1, <2>2 DEF Clear
<1>6. Numbered(q, s, n + 1)
  <2>1. 1..n \subseteq 1..(n + 1)
    OBVIOUS
  <2> QED BY <2>1 DEF Numbered
<1>7. ASSUME NEW m \in Nat, Numbered(q, s, m), ~Datum(f, s) PROVE Numbered(p, s, m)
  BY <1>1, <1>3, <1>7 DEF Numbered
<1>8. ASSUME Datum(f, s), f.n = n + 1 PROVE Numbered(p, s, n + 1)
  <2> SUFFICES ASSUME NEW i \in 1..Len(p), Datum(p[i], s)
               PROVE  p[i].n \in 1..(n + 1) /\ \A j \in 1..Len(p) : i < j /\ Datum(p[j], s) => p[i].n < p[j].n
    BY DEF Numbered
  <2>1. CASE i = l
    <3>1. p[i].n = n + 1 /\ n + 1 \in 1..(n + 1)
      BY <1>1, <1>8, <2>1
    <3>2. \A j \in 1..Len(p) : ~(i < j)
      BY <1>1, <2>1 DEF l
    <3> QED BY <3>1, <3>2
  <2>2. CASE i \in 1..Len(q)
    <3>1. p[i] = q[i] /\ q[i].n \in 1..n /\ \A j \in 1..Len(q) : i < j /\ Datum(q[j], s) => q[i].n < q[j].n
      BY <1>1, <2>2 DEF Numbered
    <3>2. q[i].n \in 1..(n + 1) /\ q[i].n < n + 1
      BY <3>1
    <3> QED BY <1>1, <1>3, <1>8, <3>1, <3>2
  <2> QED BY <1>3, <2>1, <2>2
<1>9. ASSUME Follows(q, s, h), NEW i \in 1..Len(q), Datum(p[i], s), Clear(p, i)
      PROVE  p[i].n = h + 1 \/ \E j \in 1..Len(p) : j < i /\ Datum(p[j], s) /\ p[j].n + 1 = p[i].n
  <2>1. q[i].n = h + 1 \/ \E j \in 1..Len(q) : j < i /\ Datum(q[j], s) /\ q[j].n + 1 = q[i].n
    BY <1>1, <1>4, <1>9 DEF Follows
  <2> QED BY <1>1, <1>3, <2>1
<1>10. Follows(q, s, h) /\ ~Datum(f, s) => Follows(p, s, h)
  BY <1>1, <1>3, <1>9 DEF Follows
<1>11. ASSUME Complete(q, s, h, n), Clear(p, l) PROVE n = h \/ \E j \in 1..Len(p) : Datum(p[j], s) /\ p[j].n = n
  <2>1. n = h \/ \E j \in 1..Len(q) : Datum(q[j], s) /\ q[j].n = n
    BY <1>5, <1>11 DEF Complete
  <2> QED BY <1>1, <1>3, <2>1
<1>12. Complete(q, s, h, n) => Complete(p, s, h, n)
  BY <1>1, <1>11 DEF Complete
<1>13. Torn(f) => Complete(p, s, h, n + 1)
  BY <1>1, <1>5 DEF Complete
<1>14. Datum(f, s) /\ f.n = n + 1 => Complete(p, s, h, n + 1)
  BY <1>1, <1>3 DEF Complete
<1>15. ASSUME Datum(f, s), f.n = n + 1, Follows(q, s, h), Complete(q, s, h, n) PROVE Follows(p, s, h)
  <2> SUFFICES ASSUME NEW i \in 1..Len(p), Datum(p[i], s), Clear(p, i)
               PROVE  p[i].n = h + 1 \/ \E j \in 1..Len(p) : j < i /\ Datum(p[j], s) /\ p[j].n + 1 = p[i].n
    BY DEF Follows
  <2>1. CASE i = l
    <3>1. n = h \/ \E j \in 1..Len(q) : Datum(q[j], s) /\ q[j].n = n
      BY <1>5, <1>15, <2>1 DEF Complete
    <3>2. p[i].n = n + 1
      BY <1>1, <1>15, <2>1
    <3> QED BY <1>1, <1>3, <2>1, <3>1, <3>2
  <2> QED BY <1>3, <1>9, <1>15, <2>1
<1>16. Torn(f) => ~Datum(f, s)
  BY DEF Torn, Datum
<1>17. n + 1 \in Nat
  OBVIOUS
<1> QED BY <1>6, <1>7, <1>8, <1>10, <1>12, <1>13, <1>14, <1>15, <1>16, <1>17 DEF p

\* One direction of a connection: n chunks were sent and h delivered; on says that the
\* receiver still takes chunks, whole that no chunk was lost either.
Channel(q, s, n, h, on, whole) ==
    /\ Numbered(q, s, n)
    /\ on => Follows(q, s, h)
    /\ whole => Complete(q, s, h, n)

\* What was delivered: a prefix of what was sent.
Ordered(l, n) == Len(l) <= n /\ \A i \in 1..Len(l) : l[i] = i

\* The next chunk keeps it one, and so does sending more.
LEMMA OrderedOn ==
  ASSUME NEW l \in Seq(Nat), NEW n \in Nat, Ordered(l, n)
  PROVE  /\ Ordered(l, n + 1)
         /\ Len(l) + 1 <= n => Ordered(Append(l, Len(l) + 1), n)
         /\ Len(l) \in Nat /\ Len(Append(l, Len(l) + 1)) = Len(l) + 1
<1> DEFINE x == Len(l) + 1
           g == Append(l, x)
<1>1. Len(l) \in Nat /\ x \in Nat
  OBVIOUS
<1>2. Len(g) = Len(l) + 1 /\ g[Len(l) + 1] = x /\ \A i \in 1..Len(l) : g[i] = l[i]
  BY <1>1, QueueFacts
<1> HIDE DEF g
<1>3. \A i \in 1..Len(g) : i \in 1..Len(l) \/ i = Len(l) + 1
  BY <1>1, <1>2
<1>4. Ordered(l, n + 1)
  BY <1>1 DEF Ordered
<1>5. Len(l) + 1 <= n => Ordered(g, n)
  BY <1>1, <1>2, <1>3 DEF Ordered
<1> QED BY <1>1, <1>2, <1>4, <1>5 DEF g

\* What a step may do to a direction: the queue q becomes p, n chunks sent become m, the
\* list l of those delivered becomes k.
Moves(q, p, s, n, m, l, k, on, on2, whole, whole2) ==
    \/ /\ m = n /\ k = l
       /\ \/ p = q
          \/ p = <<>> /\ ~whole2
          \/ q # <<>> /\ p = Tail(q) /\ ~Torn(Head(q)) /\ ~Datum(Head(q), s)
          \/ \E f \in Frames : ~Datum(f, s) /\ p = Append(q, f)
    \/ /\ m = n + 1 /\ k = l
       /\ \/ p = q /\ ~whole2
          \/ \E f \in Frames : /\ Torn(f) \/ (Datum(f, s) /\ f.n = n + 1 /\ (on2 => whole))
                               /\ p = Append(q, f)
    \/ /\ m = n
       /\ q # <<>> /\ p = Tail(q) /\ Datum(Head(q), s)
       /\ (k = l /\ ~on2) \/ (k = Append(l, Head(q).n) /\ on)

\* Such a step keeps what is known of the direction.
LEMMA ChannelStep ==
  ASSUME NEW q \in Seq(Frames), NEW p, NEW s, NEW n \in Nat, NEW m, NEW l \in Seq(Nat), NEW k,
         NEW on, NEW on2, NEW whole, NEW whole2,
         on2 => on, whole2 => whole, whole2 => on2, whole => on,
         Channel(q, s, n, Len(l), on, whole), Ordered(l, n), Moves(q, p, s, n, m, l, k, on, on2, whole, whole2)
  PROVE  Channel(p, s, m, Len(k), on2, whole2) /\ Ordered(k, m)
<1> DEFINE h == Len(l)
           Goal == Channel(p, s, m, Len(k), on2, whole2) /\ Ordered(k, m)
<1>0. h \in Nat /\ Ordered(l, n + 1)
  BY OrderedOn
<1> SUFFICES Goal
  OBVIOUS
<1>1. Numbered(q, s, n) /\ (on => Follows(q, s, h)) /\ (whole => Complete(q, s, h, n))
  BY DEF Channel
<1> HIDE DEF Goal
<1>2. CASE p = q /\ k = l /\ (m = n \/ (m = n + 1 /\ ~whole2))
  <2>1. Garbled \in Frames
    BY FramesTyped
  <2>2. Numbered(q, s, n + 1)
    BY <1>0, <1>1, <2>1, AppendFlow
  <2> QED BY <1>0, <1>1, <1>2, <2>2 DEF Channel, Goal
<1>3. CASE p = <<>> /\ ~whole2 /\ m = n /\ k = l
  BY <1>3 DEF Channel, Numbered, Follows, Goal
<1>4. CASE q # <<>> /\ p = Tail(q) /\ ~Torn(Head(q)) /\ ~Datum(Head(q), s) /\ m = n /\ k = l
  <2>1. /\ Numbered(p, s, n) /\ (Follows(q, s, h) => Follows(p, s, h))
        /\ Complete(q, s, h, n) => Complete(p, s, h, n)
    BY <1>0, <1>1, <1>4, TailFlow
  <2> QED BY <1>0, <1>1, <1>4, <2>1 DEF Channel, Goal
<1>5. CASE q # <<>> /\ p = Tail(q) /\ Datum(Head(q), s) /\ m = n /\ ((k = l /\ ~on2) \/ (k = Append(l, Head(q).n) /\ on))
  <2>1. ~Torn(Head(q))
    BY <1>5 DEF Datum, Torn
  <2>2. Numbered(p, s, n)
    BY <1>0, <1>1, <1>5, <2>1, TailFlow
  <2>3. CASE k = l /\ ~on2
    BY <1>5, <2>2, <2>3 DEF Channel, Goal
  <2>4. CASE k = Append(l, Head(q).n) /\ on
    <3>1. /\ Follows(p, s, h + 1) /\ (Complete(q, s, h, n) => Complete(p, s, h + 1, n))
          /\ Head(q).n = h + 1 /\ h + 1 <= n
      BY <1>0, <1>1, <1>5, <2>1, <2>4, TailFlow
    <3>2. k = Append(l, h + 1)
      BY <2>4, <3>1
    <3>3. Ordered(k, n) /\ Len(k) = h + 1
      BY <3>1, <3>2, OrderedOn
    <3>4. whole2 => whole
      OBVIOUS
    <3> QED BY <1>1, <1>5, <2>2, <3>1, <3>3, <3>4 DEF Channel, Goal
  <2> QED BY <1>5, <2>3, <2>4
<1>6. ASSUME NEW f \in Frames, ~Datum(f, s), p = Append(q, f), m = n, k = l
      PROVE  Goal
  <2>1. /\ Numbered(p, s, n) /\ (Follows(q, s, h) => Follows(p, s, h))
        /\ Complete(q, s, h, n) => Complete(p, s, h, n)
    BY <1>0, <1>1, <1>6, AppendFlow
  <2> QED BY <1>0, <1>1, <1>6, <2>1 DEF Channel, Goal
<1>7. ASSUME NEW f \in Frames, Torn(f), p = Append(q, f), m = n + 1, k = l
      PROVE  Goal
  <2>1. ~Datum(f, s)
    BY <1>7 DEF Datum, Torn
  <2>2. /\ Numbered(p, s, n + 1) /\ (Follows(q, s, h) => Follows(p, s, h))
        /\ Complete(p, s, h, n + 1)
    BY <1>0, <1>1, <1>7, <2>1, AppendFlow
  <2> QED BY <1>0, <1>1, <1>7, <2>2 DEF Channel, Goal
<1>8. ASSUME NEW f \in Frames, Datum(f, s), f.n = n + 1, on2 => whole, p = Append(q, f), m = n + 1, k = l
      PROVE  Goal
  <2>1. /\ Numbered(p, s, n + 1) /\ Complete(p, s, h, n + 1)
        /\ Follows(q, s, h) /\ Complete(q, s, h, n) => Follows(p, s, h)
    BY <1>0, <1>1, <1>8, AppendFlow
  <2> QED BY <1>0, <1>1, <1>8, <2>1 DEF Channel, Goal
<1> QED BY <1>2, <1>3, <1>4, <1>5, <1>6, <1>7, <1>8 DEF Moves

\* A queue without a chunk of a stream of which nothing was sent.
LEMMA ChannelNew ==
  ASSUME NEW q \in Seq(Frames), NEW s, NEW on, NEW whole, \A f \in In(q) : ~Datum(f, s)
  PROVE  Channel(q, s, 0, 0, on, whole)
<1>1. \A i \in 1..Len(q) : ~Datum(q[i], s)
  BY DEF In
<1> QED BY <1>1 DEF Channel, Numbered, Follows, Complete

\* The client still delivers what comes back on a stream.
Listening(s) == reg[s] # NoCircuit /\ app[s[1]].open /\ near[conn[s].cir] = "open"

\* The two directions of a stream over circuit c, and how far each one works.
Open(s) == conn[s].state = "open"
Serves(s, c) == Open(s) /\ far[c] = "open"
Answers(s, c) == Serves(s, c) /\ Listening(s)
ToExit(s, c) == Channel(up[c], s, sent.app[s], Len(heard.remote[s]), Open(s), Serves(s, c))
ToApp(s, c) == Channel(down[c], s, sent.remote[s], Len(heard.app[s]), Listening(s), Answers(s, c))

\* The chunks of a stream are on the circuit of its connection only; nothing was sent
\* or delivered before there was one; what was delivered is a prefix of what was sent.
FlowAt(s) ==
    /\ \A d \in Circuits : \A f \in In(up[d]) \cup In(down[d]) : Datum(f, s) => Made(s) /\ conn[s].cir = d
    /\ ~Made(s) => sent.app[s] = 0 /\ sent.remote[s] = 0 /\ heard.remote[s] = <<>> /\ heard.app[s] = <<>>
    /\ Made(s) => ToExit(s, conn[s].cir) /\ ToApp(s, conn[s].cir)
    /\ Ordered(heard.remote[s], sent.app[s]) /\ Ordered(heard.app[s], sent.remote[s])
Flow == \A s \in StreamIDs : FlowAt(s)

\* Chunks are sent and delivered in these steps only.
LEMMA DataSteps ==
  ASSUME Next \/ UNCHANGED vars
  PROVE  \/ UNCHANGED dataVars
         \/ \E a \in Apps : Write(a) \/ \E b \in Apps : Clash(a, b)
         \/ \E c \in Circuits : ReadFrame(c) \/ ExitFrame(c)
         \/ \E s \in StreamIDs : ExitPump(s)
<1>1. CASE Build \/ BuildDialFails \/ UNCHANGED vars
  BY <1>1 DEF Build, BuildStart, SelectPath, BuildDial, BuildExtend, BuildOpen, BuildTimeout, BuildDialFails, vars
<1>2. CASE Upkeep
  BY <1>2 DEF Upkeep, ReadLoopEnds, NotifyCircuitClosed, TransientRead, PoolCloses, HeartbeatTimeout, HeartbeatPing,
     SetExitSelection, CooldownEnds
<1>3. CASE Serving
  BY <1>3 DEF Serving, Handler, Acquire, RegisterStream, BeginRefused, BeginSucceeds, BeginFails,
     BeginTimeout, Reply, PumpEnds, AppLeaves
<1>4. CASE Outside
  BY <1>4 DEF Outside, RemoteCloses, SetPolicy, LinkBreaks
<1>5. ASSUME NEW c \in Circuits, Relay(c) PROVE UNCHANGED dataVars
  BY <1>5 DEF Relay, RelayHandshake, RelayForward, RelayBackward, RelayPumpEnds, RelayEnds
<1>6. ASSUME NEW c \in Circuits, Exit(c) \/ ExitDialFails(c) PROVE UNCHANGED dataVars \/ ExitFrame(c)
  BY <1>6 DEF Exit, ExitHandshake, ExitCell, ExitBegin, ExitCheck, ExitDial, ExitDialUnresolved, ExitDialFails, ExitEnds
<1> QED BY <1>1, <1>2, <1>3, <1>4, <1>5, <1>6, Groups

\* A stream is registered before its BEGIN is sent, and then only removed.
LEMMA RegStays ==
  ASSUME Sound, Next \/ UNCHANGED vars, NEW s \in StreamIDs, Made(s), reg'[s] # NoCircuit
  PROVE  reg[s] # NoCircuit
<1>1. reg \in [StreamIDs -> Circuits \cup {NoCircuit}] /\ app \in [Apps -> Handlers]
  BY TypeParts DEF Sound, SafeInv, Safe, AppOK
<1>2. UNCHANGED reg => reg[s] # NoCircuit
  OBVIOUS
<1>3. ASSUME NEW r, reg' = [reg EXCEPT ![r] = NoCircuit] PROVE reg[s] # NoCircuit
  BY <1>1, <1>3
<1>4. CASE Build \/ BuildDialFails \/ UNCHANGED vars
  BY <1>2, <1>4 DEF Build, BuildStart, SelectPath, BuildDial, BuildExtend, BuildOpen, BuildTimeout, BuildDialFails, vars, appVars
<1>5. CASE Upkeep
  <2>1. ASSUME NEW c \in Circuits, NotifyCircuitClosed(c) PROVE reg[s] # NoCircuit
    <3>1. reg' = [t \in StreamIDs |-> IF reg[t] = c THEN NoCircuit ELSE reg[t]]
      BY <2>1 DEF NotifyCircuitClosed
    <3> QED BY <3>1
  <2> QED BY <1>2, <1>5, <2>1 DEF Upkeep, ReadFrame, ReadLoopEnds, TransientRead, PoolCloses, HeartbeatTimeout, HeartbeatPing,
          SetExitSelection, CooldownEnds, appVars
<1>6. CASE Serving
  <2>1. ASSUME NEW a \in Apps, RegisterStream(a) PROVE reg[s] # NoCircuit
    <3>1. app[a].pc = "register" /\ reg' = [reg EXCEPT ![StreamID(a)] = app[a].cir]
      BY <2>1 DEF RegisterStream
    <3>2. ~Made(StreamID(a))
      BY <3>1, NotAsked DEF Early
    <3>3. s # StreamID(a)
      BY <3>2
    <3> QED BY <1>1, <3>1, <3>3
  <2>2. ASSUME NEW a \in Apps, BeginRefused(a) \/ BeginFails(a) \/ BeginTimeout(a) PROVE reg[s] # NoCircuit
    <3>1. reg' = [reg EXCEPT ![StreamID(a)] = NoCircuit]
      BY <2>2 DEF BeginRefused, BeginFails, BeginTimeout, AfterBeginError, Unregister
    <3> QED BY <1>3, <3>1
  <2>3. ASSUME NEW a \in Apps, Reply(a) \/ PumpEnds(a) PROVE reg[s] # NoCircuit
    <3>1. UNCHANGED reg \/ reg' = [reg EXCEPT ![StreamID(a)] = NoCircuit]
      BY <2>3 DEF Reply, PumpEnds, Unregister
    <3> QED BY <1>2, <1>3, <3>1
  <2>4. ASSUME NEW a \in Apps, Acquire(a) \/ Write(a) \/ BeginSucceeds(a) \/ AppLeaves(a) \/ \E b \in Apps : Clash(a, b)
        PROVE  UNCHANGED reg
    BY <2>4 DEF Acquire, Write, BeginSucceeds, AppLeaves, Clash
  <2> QED BY <1>2, <1>6, <2>1, <2>2, <2>3, <2>4 DEF Serving, Handler
<1>7. CASE Outside
  BY <1>2, <1>7 DEF Outside, ExitPump, RemoteCloses, SetPolicy, LinkBreaks, appVars
<1>8. ASSUME NEW c \in Circuits, Relay(c) PROVE UNCHANGED reg
  BY <1>8 DEF Relay, RelayHandshake, RelayForward, RelayBackward, RelayPumpEnds, RelayEnds, appVars
<1>9. ASSUME NEW c \in Circuits, Exit(c) \/ ExitDialFails(c) PROVE UNCHANGED reg
  BY <1>9 DEF Exit, ExitHandshake, ExitCell, ExitBegin, ExitCheck, ExitDial, ExitDialUnresolved, ExitDialFails, ExitFrame, ExitEnds, appVars
<1> QED BY <1>2, <1>4, <1>5, <1>6, <1>7, <1>8, <1>9, Groups

\* What a direction can no longer do after a step it could not do before: ends, handlers
\* and connections only close.
LEMMA OnlyCloses ==
  ASSUME Sound, Next \/ UNCHANGED vars, NEW s \in StreamIDs, Made(s), NEW c, conn[s].cir = c
  PROVE  /\ c \in Circuits /\ conn'[s].cir = c
         /\ Open(s)' => Open(s)
         /\ Serves(s, c)' => Serves(s, c)
         /\ Listening(s)' => Listening(s)
         /\ Answers(s, c)' => Answers(s, c)
<1>1. Safe /\ Held /\ c \in Circuits /\ far[c] # "none" /\ s[1] \in Apps
  BY DEF Sound, SafeInv, Safe, Planned, Begun, BegunAt, Made, StreamIDs
<1>2. conn'[s].cir = c /\ (conn'[s].state = "open" => conn[s].state = "open")
  BY ConnSteps
<1>3. (far'[c] = "open" => far[c] = "open") /\ (near'[c] = "open" => near[c] = "open")
  BY <1>1, EndsStay
<1>4. app'[s[1]].open => app[s[1]].open
  <2>1. Goes(app[s[1]], app'[s[1]], answer[StreamID(s[1])] = "ok", Reusable)
    BY <1>1, HandlerSteps
  <2> QED BY <2>1 DEF Goes
<1>5. Open(s)' => Open(s)
  BY <1>2 DEF Open
<1>6. Serves(s, c)' => Serves(s, c)
  BY <1>3, <1>5 DEF Serves
<1>7. Listening(s)' => Listening(s)
  BY <1>2, <1>3, <1>4, RegStays DEF Listening
<1>8. Answers(s, c)' => Answers(s, c)
  BY <1>6, <1>7 DEF Answers
<1> QED BY <1>1, <1>2, <1>5, <1>6, <1>7, <1>8

\* What one step does to the direction to the exit.
LEMMA UpMoves ==
  ASSUME Sound, Next \/ UNCHANGED vars, NEW s \in StreamIDs, FlowAt(s), Made(s), NEW c, conn[s].cir = c
  PROVE  Moves(up[c], up'[c], s, sent.app[s], sent'.app[s], heard.remote[s], heard'.remote[s],
               Open(s), Open(s)', Serves(s, c), Serves(s, c)')
<1> DEFINE Same == sent'.app[s] = sent.app[s] /\ heard'.remote[s] = heard.remote[s]
           Goal == Moves(up[c], up'[c], s, sent.app[s], sent'.app[s], heard.remote[s], heard'.remote[s],
                         Open(s), Open(s)', Serves(s, c), Serves(s, c)')
<1> SUFFICES Goal
  OBVIOUS
<1>1. Safe /\ AppOK /\ WireOK /\ RelayOK /\ DataOK /\ Planned /\ c \in Circuits
  BY TypeParts DEF Sound, SafeInv, Safe, Planned, Made
<1>2. Garbled \in Frames /\ Torn(Garbled) /\ ~Datum(Garbled, s)
  BY FramesTyped DEF Garbled, Frame, Torn, Datum
<1>3. Same /\ up'[c] = up[c] => Goal
  BY DEF Moves
<1>4. ASSUME Same, NEW f \in Frames, ~Datum(f, s), up'[c] = Append(up[c], f) PROVE Goal
  BY <1>4 DEF Moves
<1>5. Same /\ up[c] # <<>> /\ up'[c] = Tail(up[c]) /\ ~Torn(Head(up[c])) /\ ~Datum(Head(up[c]), s) => Goal
  BY DEF Moves
<1>6. CASE UpIdle /\ Same
  <2>1. Idle(up[c], up'[c], far'[c] # "open", Inert, Control)
    BY <1>1, <1>6 DEF UpIdle
  <2>2. CASE far'[c] # "open" /\ up'[c] = <<>>
    <3>1. ~Serves(s, c)'
      BY <2>2 DEF Serves
    <3> QED BY <1>6, <2>2, <3>1 DEF Moves
  <2>3. CASE up[c] # <<>> /\ Head(up[c]) \in Inert /\ up'[c] = Tail(up[c])
    <3>1. ~Torn(Head(up[c])) /\ ~Datum(Head(up[c]), s)
      BY <2>3 DEF Inert, Torn, Datum
    <3> QED BY <1>5, <1>6, <2>3, <3>1
  <2>4. ASSUME NEW f \in Control, up'[c] = Append(up[c], f) PROVE Goal
    <3>1. f \in Frames /\ ~Datum(f, s)
      BY <2>4 DEF Control, Datum
    <3> QED BY <1>4, <1>6, <2>4, <3>1
  <2> HIDE DEF Goal
  <2> QED BY <1>3, <1>6, <2>1, <2>2, <2>3, <2>4 DEF Idle
<1>7. ASSUME NEW W \in SUBSET Apps, AfterWrite(W), UNCHANGED heard
      PROVE  /\ heard'.remote[s] = heard.remote[s]
             /\ (\A a \in W : ~(s = StreamID(a) /\ app[a].pc = "pump")) => sent'.app[s] = sent.app[s]
             /\ (\E a \in W : s = StreamID(a) /\ app[a].pc = "pump") => sent'.app[s] = sent.app[s] + 1
  <2>1. sent' = [sent EXCEPT !.app = [r \in StreamIDs |->
                  IF \E a \in W : r = StreamID(a) /\ app[a].pc = "pump" THEN sent.app[r] + 1 ELSE sent.app[r]]]
    BY <1>7 DEF AfterWrite
  <2>2. sent'.app[s] = IF \E a \in W : s = StreamID(a) /\ app[a].pc = "pump" THEN sent.app[s] + 1 ELSE sent.app[s]
    BY <1>1, <2>1 DEF DataOK
  <2> QED BY <1>7, <2>2
<1>8. ASSUME NEW a \in Apps, Write(a) PROVE Goal
  <2> DEFINE g == Outgoing(app[a].cir, Written(a))
  <2>1. /\ app[a].cir \in Circuits /\ g \in Frames
        /\ app[a].pc = "begin" => g.type = "begin"
        /\ app[a].pc = "pump" => g = Data(StreamID(a), sent.app[StreamID(a)] + 1)
    BY <1>8, Writes DEF Write
  <2>2. app[a].pc \in {"begin", "pump"} /\ AfterWrite({a}) /\ UNCHANGED <<far, heard>>
    BY <1>8 DEF Write, WritesBegin, WritesData, wireVars
  <2>3. up' = [up EXCEPT ![app[a].cir] = IF far[app[a].cir] = "open" THEN Append(up[app[a].cir], g) ELSE up[app[a].cir]]
    BY <1>8 DEF Write, Send
  <2> HIDE DEF g
  <2>4. /\ app[a].cir # c => up'[c] = up[c]
        /\ app[a].cir = c /\ far[c] = "open" => up'[c] = Append(up[c], g)
        /\ app[a].cir = c /\ far[c] # "open" => up'[c] = up[c]
    BY <1>1, <2>1, <2>3 DEF WireOK
  <2>5. CASE s = StreamID(a) /\ app[a].pc = "pump"
    <3>1. app[a].cir = c
      BY <2>5, Pumping
    <3>2. sent'.app[s] = sent.app[s] + 1 /\ heard'.remote[s] = heard.remote[s]
      BY <1>7, <2>2, <2>5
    <3>3. CASE far[c] = "open"
      <4>1. g.type = "data" /\ g.stream = s /\ g.layers = <<>> /\ g.n = sent.app[s] + 1
        BY <2>1, <2>5 DEF Data, Frame
      <4>2. Open(s)' => Serves(s, c)
        BY <3>3, OnlyCloses DEF Serves
      <4> QED BY <2>1, <2>4, <3>1, <3>2, <3>3, <4>1, <4>2 DEF Moves, Datum
    <3>4. CASE far[c] # "open"
      <4>1. ~Serves(s, c)'
        BY <2>2, <3>4 DEF Serves
      <4> QED BY <2>4, <3>1, <3>2, <3>4, <4>1 DEF Moves
    <3> QED BY <3>3, <3>4
  <2>6. CASE ~(s = StreamID(a) /\ app[a].pc = "pump")
    <3>1. Same
      BY <1>7, <2>2, <2>6
    <3>2. ~Datum(g, s)
      BY <2>1, <2>2, <2>6 DEF Datum, Data, Frame
    <3> HIDE DEF Same, Goal
    <3> QED BY <1>3, <1>4, <2>1, <2>4, <3>1, <3>2
  <2> QED BY <2>5, <2>6
<1>9. ASSUME NEW a \in Apps, NEW b \in Apps, Clash(a, b) PROVE Goal
  <2>1. /\ app[b].cir = app[a].cir /\ AfterWrite({a, b}) /\ UNCHANGED <<far, heard>>
        /\ \/ up' = [up EXCEPT ![app[a].cir] = Append(up[app[a].cir], Garbled)]
           \/ ~Direct(app[a].cir) /\ UNCHANGED up
    BY <1>9 DEF Clash
  <2>2. up'[c] = up[c] \/ up'[c] = Append(up[c], Garbled)
    BY <1>1, <2>1 DEF WireOK
  <2>3. CASE \E x \in {a, b} : s = StreamID(x) /\ app[x].pc = "pump"
    <3>1. app[a].cir = c /\ Direct(c)
      BY <2>1, <2>3, Pumping
    <3>2. up'[c] = Append(up[c], Garbled)
      BY <1>1, <2>1, <3>1 DEF WireOK
    <3>3. sent'.app[s] = sent.app[s] + 1 /\ heard'.remote[s] = heard.remote[s]
      BY <1>7, <2>1, <2>3
    <3> QED BY <1>2, <3>2, <3>3 DEF Moves
  <2>4. CASE ~\E x \in {a, b} : s = StreamID(x) /\ app[x].pc = "pump"
    <3>1. Same
      BY <1>7, <2>1, <2>4
    <3> HIDE DEF Same, Goal
    <3> QED BY <1>2, <1>3, <1>4, <2>2, <3>1
  <2> QED BY <2>3, <2>4
<1>10. ASSUME NEW d \in Circuits, ExitBegin(d) PROVE Goal
  <2>1. Same /\ Took(d) /\ Inbox(d) # <<>> /\ Head(Inbox(d)).type = "begin"
    BY <1>10 DEF ExitBegin, dataVars
  <2>2. \/ up'[c] = up[c]
        \/ up[c] # <<>> /\ up'[c] = Tail(up[c]) /\ Head(up[c]).type = "begin"
    BY <1>1, <2>1 DEF Took, Inbox, WireOK
  <2>3. Head(up[c]).type = "begin" => ~Torn(Head(up[c])) /\ ~Datum(Head(up[c]), s)
    BY DEF Torn, Datum
  <2> HIDE DEF Same, Goal
  <2> QED BY <1>3, <1>5, <2>1, <2>2, <2>3
<1>11. ASSUME NEW d \in Circuits, ExitFrame(d) PROVE Goal
  <2> DEFINE f == Head(Inbox(d))
  <2>1. /\ Took(d) /\ Inbox(d) # <<>> /\ f.type \in {"data", "end"} /\ f.layers = <<>> /\ UNCHANGED sent
        /\ heard' = IF f.type = "data" /\ conn[f.stream].state = "open"
                    THEN [heard EXCEPT !.remote[f.stream] = Append(heard.remote[f.stream], f.n)] ELSE heard
        /\ f.type # "end" => UNCHANGED conn
    BY <1>11 DEF ExitFrame
  <2>2. /\ d # c \/ ~ExitServes(d) => up'[c] = up[c]
        /\ d = c /\ ExitServes(d) => up[c] # <<>> /\ up'[c] = Tail(up[c]) /\ f = Head(up[c])
    BY <1>1, <2>1 DEF Took, Inbox, WireOK
  <2>3. ~Torn(f)
    BY <2>1 DEF Torn
  <2>4. heard'.remote[s] = IF Datum(f, s) /\ Open(s) THEN Append(heard.remote[s], f.n) ELSE heard.remote[s]
    BY <1>1, <2>1 DEF DataOK, Datum, Open
  <2>5. CASE ~Datum(f, s)
    <3>1. Same
      BY <2>1, <2>4, <2>5
    <3> HIDE DEF Same, Goal, f
    <3> QED BY <1>3, <1>5, <2>2, <2>3, <2>5, <3>1
  <2>6. CASE Datum(f, s)
    <3>1. ExitServes(d) /\ Inbox(d) = up[d] /\ f \in In(up[d])
      <4>1. f.type \in {"begin", "data"} /\ f.layers = <<>>
        BY <2>6 DEF Datum
      <4> QED BY <2>1, <4>1, ReadsDirect
    <3>2. d = c
      BY <2>6, <3>1 DEF FlowAt
    <3>3. sent'.app[s] = sent.app[s]
      BY <2>1
    <3>4. ~Open(s) => ~Open(s)'
      BY OnlyCloses
    <3> HIDE DEF f
    <3> QED BY <2>2, <2>4, <2>6, <3>1, <3>2, <3>3, <3>4 DEF Moves
  <2> QED BY <2>5, <2>6
<1>12. \/ Same
       \/ \E a \in Apps : Write(a) \/ \E b \in Apps : Clash(a, b)
       \/ \E d \in Circuits : ExitFrame(d)
  <2>1. UNCHANGED dataVars => Same
    BY DEF dataVars
  <2>2. ASSUME NEW d \in Circuits, ReadFrame(d) PROVE Same
    <3>1. UNCHANGED sent /\ (UNCHANGED heard \/ \E r, l : heard' = [heard EXCEPT !.app[r] = l])
      BY <2>2 DEF ReadFrame
    <3> QED BY <1>1, <3>1 DEF DataOK
  <2>3. ASSUME NEW r \in StreamIDs, ExitPump(r) PROVE Same
    <3>1. UNCHANGED heard /\ sent' = [sent EXCEPT !.remote[r] = sent.remote[r] + 1]
      BY <2>3 DEF ExitPump
    <3> QED BY <1>1, <3>1 DEF DataOK
  <2> HIDE DEF Same
  <2> QED BY <2>1, <2>2, <2>3, DataSteps
<1> HIDE DEF Same, Goal
<1> QED BY <1>1, <1>6, <1>8, <1>9, <1>10, <1>11, <1>12, UpSteps DEF Sound

\* What one step does to the direction to the application.
LEMMA DownMoves ==
  ASSUME Sound, Next \/ UNCHANGED vars, NEW s \in StreamIDs, FlowAt(s), Made(s), NEW c, conn[s].cir = c
  PROVE  Moves(down[c], down'[c], s, sent.remote[s], sent'.remote[s], heard.app[s], heard'.app[s],
               Listening(s), Listening(s)', Answers(s, c), Answers(s, c)')
<1> DEFINE Same == sent'.remote[s] = sent.remote[s] /\ heard'.app[s] = heard.app[s]
           Goal == Moves(down[c], down'[c], s, sent.remote[s], sent'.remote[s], heard.app[s], heard'.app[s],
                         Listening(s), Listening(s)', Answers(s, c), Answers(s, c)')
<1> SUFFICES Goal
  OBVIOUS
<1>1. Safe /\ AppOK /\ WireOK /\ RelayOK /\ DataOK /\ ExitOK /\ Planned /\ c \in Circuits
  BY TypeParts DEF Sound, SafeInv, Safe, Planned, Made
<1>2. down[c] \in Seq(Frames)
  BY <1>1 DEF WireOK
<1>3. Same /\ down'[c] = down[c] => Goal
  BY DEF Moves
<1>4. ASSUME Same, NEW f \in Frames, ~Datum(f, s), down'[c] = Append(down[c], f) PROVE Goal
  BY <1>4 DEF Moves
<1>5. Same /\ down[c] # <<>> /\ down'[c] = Tail(down[c]) /\ ~Torn(Head(down[c])) /\ ~Datum(Head(down[c]), s) => Goal
  BY DEF Moves
<1>6. CASE DownIdle /\ Same
  <2>1. Idle(down[c], down'[c], far'[c] # "open", Silent, Silent)
    BY <1>1, <1>6 DEF DownIdle
  <2>2. CASE far'[c] # "open" /\ down'[c] = <<>>
    <3>1. ~Answers(s, c)'
      BY <2>2 DEF Serves, Answers
    <3> QED BY <1>6, <2>2, <3>1 DEF Moves
  <2>3. CASE down[c] # <<>> /\ Head(down[c]) \in Silent /\ down'[c] = Tail(down[c])
    <3>1. ~Torn(Head(down[c])) /\ ~Datum(Head(down[c]), s)
      BY <2>3 DEF Silent, Torn, Datum
    <3> QED BY <1>5, <1>6, <2>3, <3>1
  <2>4. ASSUME NEW f \in Silent, down'[c] = Append(down[c], f) PROVE Goal
    <3>1. f \in Frames /\ ~Datum(f, s)
      BY <2>4 DEF Silent, Datum
    <3> QED BY <1>4, <1>6, <2>4, <3>1
  <2> HIDE DEF Goal
  <2> QED BY <1>3, <1>6, <2>1, <2>2, <2>3, <2>4 DEF Idle
<1>7. ASSUME NEW d \in Circuits, ReadFrame(d) PROVE Goal
  <2> DEFINE f == Head(down[d])
  <2>1. /\ near[d] = "open" /\ down[d] # <<>> /\ down' = [down EXCEPT ![d] = Tail(down[d])] /\ UNCHANGED sent
        /\ heard' = IF f.type = "data" /\ reg[f.stream] # NoCircuit /\ app[f.stream[1]].open
                    THEN [heard EXCEPT !.app[f.stream] = Append(heard.app[f.stream], f.n)] ELSE heard
    BY <1>7 DEF ReadFrame
  <2>2. /\ d # c => down'[c] = down[c]
        /\ d = c => down[c] # <<>> /\ down'[c] = Tail(down[c]) /\ f = Head(down[c])
    BY <1>1, <2>1 DEF WireOK
  <2>3. f \in In(down[d])
    <3>1. down[d] \in Seq(Frames)
      BY <1>1 DEF WireOK
    <3> QED BY <2>1, <3>1, InFacts
  <2>4. ~Torn(f) /\ (f.type = "data" => f.layers = <<>>)
    BY <2>3 DEF Sound, Sealed, Torn
  <2>5. heard'.app[s] = IF Datum(f, s) /\ reg[s] # NoCircuit /\ app[s[1]].open THEN Append(heard.app[s], f.n) ELSE heard.app[s]
    BY <1>1, <2>1, <2>4 DEF DataOK, Datum
  <2>6. sent'.remote[s] = sent.remote[s]
    BY <2>1
  <2>7. CASE ~Datum(f, s)
    <3>1. Same
      BY <2>5, <2>6, <2>7
    <3> HIDE DEF Same, Goal, f
    <3> QED BY <1>3, <1>5, <2>2, <2>4, <2>7, <3>1
  <2>8. CASE Datum(f, s)
    <3>1. d = c
      BY <2>3, <2>8 DEF FlowAt
    <3>2. Listening(s) <=> reg[s] # NoCircuit /\ app[s[1]].open
      BY <2>1, <3>1 DEF Listening
    <3>3. ~Listening(s) => ~Listening(s)'
      BY OnlyCloses
    <3> HIDE DEF f
    <3> QED BY <2>2, <2>5, <2>6, <2>8, <3>1, <3>2, <3>3 DEF Moves
  <2> QED BY <2>7, <2>8
<1>8. ASSUME NEW d \in Circuits, NEW g \in Frames, ExitReplies(d, g)
      PROVE  /\ down'[c] = down[c] \/ (d = c /\ down'[c] = Append(down[c], g))
             /\ d = c /\ ExitServes(c) => down'[c] = IF near[c] = "open" THEN Append(down[c], g) ELSE down[c]
  BY <1>1, <1>8 DEF ExitReplies, WireOK
<1>9. ASSUME NEW d \in Circuits, ExitDial(d) PROVE Goal
  <2>1. ExitReplies(d, Connected(ex[d].s, TRUE)) /\ UNCHANGED <<sent, heard>>
    BY <1>9 DEF ExitDial, ExitAnswers, DialReply, dataVars
  <2>2. Connected(ex[d].s, TRUE) \in Frames
    BY <1>1, FramesTyped DEF ExitOK, Exits
  <2>3. Same
    BY <2>1
  <2>4. ~Datum(Connected(ex[d].s, TRUE), s)
    BY DEF Datum, Connected, Frame
  <2> HIDE DEF Same, Goal
  <2> QED BY <1>3, <1>4, <1>8, <2>1, <2>2, <2>3, <2>4
<1>10. ASSUME NEW r \in StreamIDs, ExitPump(r) PROVE Goal
  <2> DEFINE d == conn[r].cir
             g == Data(r, sent.remote[r] + 1)
  <2>1. /\ conn[r].state = "open" /\ sent' = [sent EXCEPT !.remote[r] = sent.remote[r] + 1]
        /\ far[d] = "open" => ExitReplies(d, g)
        /\ far[d] # "open" => UNCHANGED down
        /\ UNCHANGED <<near, far, heard>>
    BY <1>10 DEF ExitPump
  <2>2. d \in Circuits
    BY <1>1, <2>1 DEF Planned
  <2>3. sent.remote[r] + 1 \in Nat
    BY <1>1 DEF DataOK
  <2>4. g \in Frames /\ g.type = "data" /\ g.stream = r /\ g.layers = <<>> /\ g.n = sent.remote[r] + 1
    <3>1. g \in Frames
      BY <2>3, FramesTyped
    <3> QED BY <3>1 DEF Data, Frame
  <2>5. sent'.remote[s] = IF r = s THEN sent.remote[s] + 1 ELSE sent.remote[s]
    BY <1>1, <2>1 DEF DataOK
  <2> HIDE DEF g
  <2>6. CASE r # s
    <3>1. Same
      BY <2>1, <2>5, <2>6
    <3>2. ~Datum(g, s)
      BY <2>4, <2>6 DEF Datum
    <3>3. down'[c] = down[c] \/ down'[c] = Append(down[c], g)
      BY <1>8, <2>1, <2>2, <2>4
    <3> HIDE DEF Same, Goal
    <3> QED BY <1>3, <1>4, <2>4, <3>1, <3>2, <3>3
  <2>7. CASE r = s
    <3>1. d = c /\ ExitServes(c) /\ Open(s)
      BY <2>1, <2>7 DEF Sound, Begun, BegunAt, Open, ExitServes
    <3>2. sent'.remote[s] = sent.remote[s] + 1 /\ heard'.app[s] = heard.app[s]
      BY <2>1, <2>5, <2>7
    <3>3. CASE far[c] = "open" /\ near[c] = "open"
      <4>1. down'[c] = Append(down[c], g)
        BY <1>8, <2>1, <2>2, <2>4, <3>1, <3>3
      <4>2. Datum(g, s) /\ g.n = sent.remote[s] + 1
        BY <2>4, <2>7 DEF Datum
      <4>3. Listening(s)' => Answers(s, c)
        BY <3>1, <3>3, OnlyCloses DEF Answers, Serves
      <4> QED BY <2>4, <3>2, <4>1, <4>2, <4>3 DEF Moves
    <3>4. CASE far[c] # "open" \/ near[c] # "open"
      <4>1. down'[c] = down[c]
        BY <1>8, <2>1, <2>2, <2>4, <3>1, <3>4
      <4>2. ~Answers(s, c)
        BY <3>4 DEF Answers, Serves, Listening
      <4>3. ~Answers(s, c)'
        BY <4>2, OnlyCloses
      <4> QED BY <3>2, <4>1, <4>3 DEF Moves
    <3> QED BY <3>3, <3>4
  <2> QED BY <2>6, <2>7
<1>11. \/ Same
       \/ \E d \in Circuits : ReadFrame(d)
       \/ \E r \in StreamIDs : ExitPump(r)
  <2>1. UNCHANGED dataVars => Same
    BY DEF dataVars
  <2>2. ASSUME NEW d \in Circuits, ExitFrame(d) PROVE Same
    <3>1. UNCHANGED sent /\ (UNCHANGED heard \/ \E r, l : heard' = [heard EXCEPT !.remote[r] = l])
      BY <2>2 DEF ExitFrame
    <3> QED BY <1>1, <3>1 DEF DataOK
  <2>3. ASSUME NEW a \in Apps, Write(a) \/ \E b \in Apps : Clash(a, b) PROVE Same
    <3>1. UNCHANGED heard /\ \E W \in SUBSET Apps : AfterWrite(W)
      BY <2>3 DEF Write, Clash
    <3>2. sent'.remote = sent.remote
      BY <1>1, <3>1, WriteFacts
    <3> QED BY <3>1, <3>2
  <2> HIDE DEF Same
  <2> QED BY <2>1, <2>2, <2>3, DataSteps
<1> HIDE DEF Same, Goal
<1> QED BY <1>1, <1>6, <1>7, <1>9, <1>10, <1>11, DownSteps

\* A chunk that is in flight after a step belongs to a connection that was there before.
LEMMA DatumSteps ==
  ASSUME Sound, Next \/ UNCHANGED vars, NEW s \in StreamIDs, FlowAt(s), NEW d \in Circuits,
         NEW f \in In(up'[d]) \cup In(down'[d]), Datum(f, s)
  PROVE  Made(s) /\ conn[s].cir = d
<1>1. f \in In(up[d]) \cup In(down[d]) => Made(s) /\ conn[s].cir = d
  BY DEF FlowAt
<1>2. CASE f \in In(up'[d])
  <2>1. \/ f \in In(up[d]) \/ f \in Control \/ f = Garbled
        \/ \E a \in Apps : Write(a) /\ d = app[a].cir /\ f = Outgoing(d, Written(a))
    BY <1>2, UpFrames
  <2>2. f \notin Control /\ f # Garbled
    BY DEF Datum, Control, Garbled, Frame
  <2>3. ASSUME NEW a \in Apps, Write(a), d = app[a].cir, f = Outgoing(d, Written(a)) PROVE Made(s) /\ conn[s].cir = d
    <3>1. WritesBegin(a) \/ WritesData(a)
      BY <2>3 DEF Write
    <3>2. app[a].pc = "pump"
      BY <2>3, <3>1, Writes DEF Datum, WritesBegin, WritesData
    <3>3. f = Data(StreamID(a), sent.app[StreamID(a)] + 1)
      BY <2>3, <3>1, <3>2, Writes
    <3>4. s = StreamID(a)
      BY <3>3 DEF Datum, Data, Frame
    <3> QED BY <2>3, <3>2, <3>4, Pumping
  <2> QED BY <1>1, <2>1, <2>2, <2>3
<1>3. CASE f \in In(down'[d])
  <2>1. \/ f \in In(down[d]) \/ f \in Silent
        \/ ExitDial(d) /\ f = Connected(ex[d].s, TRUE)
        \/ \E r \in StreamIDs : ExitPump(r) /\ d = conn[r].cir /\ f = Data(r, sent.remote[r] + 1)
    BY <1>3, DownFrames
  <2>2. f \notin Silent /\ f # Connected(ex[d].s, TRUE)
    BY DEF Datum, Silent, Connected, Frame
  <2>3. ASSUME NEW r \in StreamIDs, ExitPump(r), d = conn[r].cir, f = Data(r, sent.remote[r] + 1)
        PROVE  Made(s) /\ conn[s].cir = d
    <3>1. s = r
      BY <2>3 DEF Datum, Data, Frame
    <3> QED BY <2>3, <3>1 DEF ExitPump, Made
  <2> QED BY <1>1, <2>1, <2>2, <2>3
<1> QED BY <1>2, <1>3

\* Nothing is sent or delivered on a stream that has no connection.
LEMMA Untouched ==
  ASSUME Sound, Next \/ UNCHANGED vars, NEW s \in StreamIDs, FlowAt(s), ~Made(s)
  PROVE  /\ sent'.app[s] = sent.app[s] /\ sent'.remote[s] = sent.remote[s]
         /\ heard'.app[s] = heard.app[s] /\ heard'.remote[s] = heard.remote[s]
<1> DEFINE Same == /\ sent'.app[s] = sent.app[s] /\ sent'.remote[s] = sent.remote[s]
                   /\ heard'.app[s] = heard.app[s] /\ heard'.remote[s] = heard.remote[s]
<1>1. Safe /\ AppOK /\ DataOK /\ WireOK
  BY TypeParts DEF Sound, SafeInv, Safe
<1>2. UNCHANGED <<sent, heard>> => Same
  OBVIOUS
<1>3. ASSUME NEW W \in SUBSET Apps, AfterWrite(W), UNCHANGED heard PROVE Same
  <2>1. sent'.remote = sent.remote
    BY <1>1, <1>3, WriteFacts
  <2>2. sent' = [sent EXCEPT !.app = [r \in StreamIDs |->
                  IF \E a \in W : r = StreamID(a) /\ app[a].pc = "pump" THEN sent.app[r] + 1 ELSE sent.app[r]]]
    BY <1>3 DEF AfterWrite
  <2>3. ASSUME NEW a \in W, s = StreamID(a), app[a].pc = "pump" PROVE FALSE
    BY <2>3, Pumping
  <2>4. sent'.app[s] = sent.app[s]
    BY <1>1, <2>2, <2>3 DEF DataOK
  <2> QED BY <1>3, <2>1, <2>4
<1>4. ASSUME NEW c \in Circuits, ReadFrame(c) PROVE Same
  <2> DEFINE f == Head(down[c])
  <2>1. /\ down[c] # <<>> /\ UNCHANGED sent
        /\ heard' = IF f.type = "data" /\ reg[f.stream] # NoCircuit /\ app[f.stream[1]].open
                    THEN [heard EXCEPT !.app[f.stream] = Append(heard.app[f.stream], f.n)] ELSE heard
    BY <1>4 DEF ReadFrame
  <2>2. f \in In(down[c])
    <3>1. down[c] \in Seq(Frames)
      BY <1>1 DEF WireOK
    <3> QED BY <2>1, <3>1, InFacts
  <2>3. f.type = "data" => f.stream # s
    <3>1. f.type = "data" => f.layers = <<>>
      BY <2>2 DEF Sound, Sealed
    <3>2. ~Datum(f, s)
      BY <2>2 DEF FlowAt
    <3> QED BY <3>1, <3>2 DEF Datum
  <2> QED BY <1>1, <2>1, <2>3 DEF DataOK
<1>5. ASSUME NEW c \in Circuits, ExitFrame(c) PROVE Same
  <2> DEFINE f == Head(Inbox(c))
  <2>1. /\ UNCHANGED sent
        /\ heard' = IF f.type = "data" /\ conn[f.stream].state = "open"
                    THEN [heard EXCEPT !.remote[f.stream] = Append(heard.remote[f.stream], f.n)] ELSE heard
    BY <1>5 DEF ExitFrame
  <2>2. conn[f.stream].state = "open" => f.stream # s
    BY DEF Made
  <2> QED BY <1>1, <2>1, <2>2 DEF DataOK
<1>6. ASSUME NEW r \in StreamIDs, ExitPump(r) PROVE Same
  <2>1. conn[r].state = "open" /\ UNCHANGED heard /\ sent' = [sent EXCEPT !.remote[r] = sent.remote[r] + 1]
    BY <1>6 DEF ExitPump
  <2>2. r # s
    BY <2>1 DEF Made
  <2> QED BY <1>1, <2>1, <2>2 DEF DataOK
<1>7. ASSUME NEW a \in Apps, Write(a) \/ \E b \in Apps : Clash(a, b) PROVE Same
  <2>1. UNCHANGED heard /\ \E W \in SUBSET Apps : AfterWrite(W)
    BY <1>7 DEF Write, Clash
  <2> QED BY <1>3, <2>1
<1>8. UNCHANGED dataVars => Same
  BY <1>2 DEF dataVars
<1> HIDE DEF Same
<1>9. Same
  BY <1>4, <1>5, <1>6, <1>7, <1>8, DataSteps
<1> QED BY <1>9 DEF Same

\* Every step keeps the two directions of a stream in order.
LEMMA FlowStep ==
  ASSUME Sound, Next \/ UNCHANGED vars, NEW s \in StreamIDs, FlowAt(s)
  PROVE  FlowAt(s)'
<1>1. WireOK /\ DataOK /\ WireOK' /\ DataOK' /\ Planned'
  <2>1. SafeInv'
    BY SafeNext DEF Sound
  <2>2. TypeOK' /\ Planned'
    BY <2>1 DEF SafeInv, Safe
  <2>3. WireOK' /\ DataOK'
    BY <2>2 DEF TypeOK, WireOK, DataOK
  <2> QED BY <2>2, <2>3, TypeParts DEF Sound, SafeInv, Safe
<1>2. \A d \in Circuits : \A f \in In(up'[d]) \cup In(down'[d]) : Datum(f, s) => Made(s) /\ conn[s].cir = d
  BY DatumSteps
<1>3. Made(s) => Made(s)' /\ conn'[s].cir = conn[s].cir
  BY ConnSteps DEF Made
<1>4. /\ sent.app[s] \in Nat /\ sent.remote[s] \in Nat
      /\ heard.app[s] \in Seq(Nat) /\ heard.remote[s] \in Seq(Nat)
  BY <1>1 DEF DataOK
<1>5. ASSUME Made(s)
      PROVE  /\ \E c : conn'[s].cir = c /\ ToExit(s, c)' /\ ToApp(s, c)'
             /\ Ordered(heard'.remote[s], sent'.app[s]) /\ Ordered(heard'.app[s], sent'.remote[s])
  <2>1. PICK c : conn[s].cir = c
    OBVIOUS
  <2>2. /\ c \in Circuits /\ conn'[s].cir = c
        /\ Open(s)' => Open(s)
        /\ Serves(s, c)' => Serves(s, c)
        /\ Listening(s)' => Listening(s)
        /\ Answers(s, c)' => Answers(s, c)
    BY <1>5, <2>1, OnlyCloses
  <2>3. up[c] \in Seq(Frames) /\ down[c] \in Seq(Frames)
    BY <1>1, <2>2 DEF WireOK
  <2>4. ToExit(s, c) /\ ToApp(s, c) /\ Ordered(heard.remote[s], sent.app[s]) /\ Ordered(heard.app[s], sent.remote[s])
    BY <1>5, <2>1 DEF FlowAt
  <2>5. Channel(up'[c], s, sent'.app[s], Len(heard'.remote[s]), Open(s)', Serves(s, c)') /\ Ordered(heard'.remote[s], sent'.app[s])
    <3>1. Moves(up[c], up'[c], s, sent.app[s], sent'.app[s], heard.remote[s], heard'.remote[s],
                Open(s), Open(s)', Serves(s, c), Serves(s, c)')
      BY <1>5, <2>1, UpMoves
    <3>2. (Serves(s, c) => Open(s)) /\ (Serves(s, c)' => Open(s)')
      BY DEF Serves
    <3>3. Channel(up[c], s, sent.app[s], Len(heard.remote[s]), Open(s), Serves(s, c))
      BY <2>4 DEF ToExit
    <3> QED BY <1>4, <2>2, <2>3, <2>4, <3>1, <3>2, <3>3, ChannelStep
  <2>6. Channel(down'[c], s, sent'.remote[s], Len(heard'.app[s]), Listening(s)', Answers(s, c)') /\ Ordered(heard'.app[s], sent'.remote[s])
    <3>1. Moves(down[c], down'[c], s, sent.remote[s], sent'.remote[s], heard.app[s], heard'.app[s],
                Listening(s), Listening(s)', Answers(s, c), Answers(s, c)')
      BY <1>5, <2>1, DownMoves
    <3>2. (Answers(s, c) => Listening(s)) /\ (Answers(s, c)' => Listening(s)')
      BY DEF Answers
    <3>3. Channel(down[c], s, sent.remote[s], Len(heard.app[s]), Listening(s), Answers(s, c))
      BY <2>4 DEF ToApp
    <3> QED BY <1>4, <2>2, <2>3, <2>4, <3>1, <3>2, <3>3, ChannelStep
  <2>7. ToExit(s, c)' /\ ToApp(s, c)'
    BY <2>5, <2>6 DEF ToExit, ToApp
  <2> QED BY <2>2, <2>5, <2>6, <2>7
<1>6. ASSUME ~Made(s)
      PROVE  /\ sent'.app[s] = 0 /\ sent'.remote[s] = 0 /\ heard'.remote[s] = <<>> /\ heard'.app[s] = <<>>
             /\ Made(s)' => \E c : conn'[s].cir = c /\ ToExit(s, c)' /\ ToApp(s, c)'
             /\ Ordered(heard'.remote[s], sent'.app[s]) /\ Ordered(heard'.app[s], sent'.remote[s])
  <2>1. sent'.app[s] = 0 /\ sent'.remote[s] = 0 /\ heard'.remote[s] = <<>> /\ heard'.app[s] = <<>>
    BY <1>6, Untouched DEF FlowAt
  <2>2. Ordered(heard'.remote[s], sent'.app[s]) /\ Ordered(heard'.app[s], sent'.remote[s])
    BY <2>1 DEF Ordered
  <2>3. ASSUME Made(s)' PROVE \E c : conn'[s].cir = c /\ ToExit(s, c)' /\ ToApp(s, c)'
    <3>1. PICK c : conn'[s].cir = c
      OBVIOUS
    <3>2. c \in Circuits
      BY <1>1, <2>3, <3>1 DEF Planned, Made
    <3>3. up'[c] \in Seq(Frames) /\ down'[c] \in Seq(Frames)
      BY <1>1, <3>2 DEF WireOK
    <3>4. \A f \in In(up'[c]) \cup In(down'[c]) : ~Datum(f, s)
      BY <1>2, <1>6, <3>2
    <3>5. /\ Channel(up'[c], s, 0, 0, Open(s)', Serves(s, c)')
          /\ Channel(down'[c], s, 0, 0, Listening(s)', Answers(s, c)')
      BY <3>3, <3>4, ChannelNew
    <3>6. Len(heard'.remote[s]) = 0 /\ Len(heard'.app[s]) = 0
      BY <2>1
    <3>7. ToExit(s, c)' /\ ToApp(s, c)'
      BY <2>1, <3>5, <3>6 DEF ToExit, ToApp
    <3> QED BY <3>1, <3>7
  <2> QED BY <2>1, <2>2, <2>3
<1>7. (\E c : conn'[s].cir = c /\ ToExit(s, c)' /\ ToApp(s, c)') => (ToExit(s, conn[s].cir) /\ ToApp(s, conn[s].cir))'
  BY DEF ToExit, ToApp, Serves, Answers
<1>8. Made(s) => Made(s)'
  BY <1>3
<1> QED BY <1>2, <1>3, <1>5, <1>6, <1>7 DEF FlowAt

\* They are in order at the start.
LEMMA FlowInit == Init => Flow
<1> SUFFICES ASSUME Init, NEW s \in StreamIDs PROVE FlowAt(s)
  BY DEF Flow
<1>1. \A d \in Circuits : In(up[d]) = {} /\ In(down[d]) = {}
  BY DEF Init, In
<1>2. sent.app[s] = 0 /\ sent.remote[s] = 0 /\ heard.remote[s] = <<>> /\ heard.app[s] = <<>> /\ ~Made(s)
  BY DEF Init, Made
<1>3. Ordered(heard.remote[s], sent.app[s]) /\ Ordered(heard.app[s], sent.remote[s])
  BY <1>2 DEF Ordered
<1> QED BY <1>1, <1>2, <1>3 DEF FlowAt

\* What the application and the remote end of a stream receive (StartDataPump,
\* handleDirectFrame, pumpRemoteToCircuitPlain) is a prefix of what was sent, for any
\* number of streams that share a circuit and write to it unserialised.
THEOREM OrderHolds == Spec => []InOrder
<1>1. Sound /\ Flow => InOrder
  <2> SUFFICES ASSUME Sound, Flow, NEW s \in StreamIDs
               PROVE  /\ \A i \in DOMAIN heard.app[s] : heard.app[s][i] = i /\ i <= sent.remote[s]
                      /\ \A i \in DOMAIN heard.remote[s] : heard.remote[s][i] = i /\ i <= sent.app[s]
    BY DEF InOrder
  <2>1. DataOK
    BY TypeParts DEF Sound, SafeInv, Safe
  <2>2. /\ sent.app[s] \in Nat /\ sent.remote[s] \in Nat
        /\ heard.app[s] \in Seq(Nat) /\ heard.remote[s] \in Seq(Nat)
    BY <2>1 DEF DataOK
  <2>3. Ordered(heard.remote[s], sent.app[s]) /\ Ordered(heard.app[s], sent.remote[s])
    BY DEF Flow, FlowAt
  <2>4. ASSUME NEW l \in Seq(Nat), NEW n \in Nat, Ordered(l, n) PROVE \A i \in DOMAIN l : l[i] = i /\ i <= n
    BY <2>4 DEF Ordered
  <2> QED BY <2>2, <2>3, <2>4
<1>2. Init => Sound /\ Flow
  BY SoundInit, FlowInit
<1>3. Sound /\ Flow /\ [Next]_vars => Sound' /\ Flow'
  <2> SUFFICES ASSUME Sound, Flow, [Next]_vars PROVE Sound' /\ Flow'
    OBVIOUS
  <2>1. Sound'
    BY SoundStep
  <2>2. ASSUME NEW s \in StreamIDs PROVE FlowAt(s)'
    BY FlowStep DEF Flow
  <2> QED BY <2>1, <2>2 DEF Flow
<1> QED BY <1>1, <1>2, <1>3, PTL DEF Spec
=============================================================================
