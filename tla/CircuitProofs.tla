---------------------------- MODULE CircuitProofs ----------------------------
(***************************************************************************)
(* Proofs about Circuit, for any nodes, circuits, requests, targets,       *)
(* policies, selections and scopes.                                        *)
(***************************************************************************)
EXTENDS Circuit, TLAPS

-----------------------------------------------------------------------------
(* Frames and sequences                                                     *)

\* What Head, Tail and Append make of a queue, element by element.
LEMMA QueueFacts ==
  ASSUME NEW T, NEW q \in Seq(T)
  PROVE  /\ q # <<>> => /\ Head(q) \in T /\ Head(q) = q[1] /\ Len(q) >= 1
                        /\ Tail(q) \in Seq(T) /\ Len(Tail(q)) = Len(q) - 1
                        /\ \A i \in 1 .. Len(Tail(q)) : i + 1 \in 1 .. Len(q) /\ Tail(q)[i] = q[i + 1]
         /\ \A f \in T : /\ Append(q, f) \in Seq(T) /\ Len(Append(q, f)) = Len(q) + 1
                         /\ Append(q, f)[Len(q) + 1] = f
                         /\ \A i \in 1 .. Len(q) : Append(q, f)[i] = q[i]
         /\ <<>> \in Seq(T) /\ Len(q) \in Nat
  OBVIOUS

\* Every frame the nodes write is a frame.
LEMMA FramesTyped ==
  /\ \A t \in FrameTypes, s \in StreamIDs : Frame(t, s) \in Frames
  /\ \A t \in FrameTypes \ {"begin"} : Frame(t, None) \in Frames
  /\ \A s \in StreamIDs \cup {None}, n \in Nat : Data(s, n) \in Frames
  /\ \A s \in StreamIDs \cup {None}, ok \in BOOLEAN : Connected(s, ok) \in Frames
  /\ Garbled \in Frames
  /\ \A n \in 0..2, t \in FrameTypes, s \in StreamIDs \cup {None} :
       (t = "begin" => s \in StreamIDs) => WrapForward(n, t, s) \in Frames
  /\ \A f \in Frames : Opens(f) => Peeled(f) \in Frames
<1>1. \A t \in FrameTypes, s \in StreamIDs \cup {None} : (t = "begin" => s \in StreamIDs) => Frame(t, s) \in Frames
  BY DEF Frame, Frames
<1>2. \A s \in StreamIDs \cup {None}, n \in Nat : Data(s, n) \in Frames
  BY DEF Frame, Frames, Data, FrameTypes
<1>3. \A s \in StreamIDs \cup {None}, ok \in BOOLEAN : Connected(s, ok) \in Frames
  BY DEF Frame, Frames, Connected, FrameTypes
<1>4. Garbled \in Frames
  BY <1>1 DEF Garbled, FrameTypes
<1>5. ASSUME NEW n \in 0..2, NEW t \in FrameTypes, NEW s \in StreamIDs \cup {None}, t = "begin" => s \in StreamIDs
      PROVE  WrapForward(n, t, s) \in Frames
  <2>1. [i \in 1..n |-> i - 1] \in {<<>>, <<0>>, <<0, 1>>}
    <3>1. CASE n = 0
      <4>1. [i \in 1..n |-> i - 1] = <<>>
        BY <3>1
      <4> QED BY <4>1
    <3>2. CASE n = 1
      <4>1. [i \in 1..n |-> i - 1] = <<0>>
        BY <3>2
      <4> QED BY <4>1
    <3>3. CASE n = 2
      <4>1. [i \in 1..n |-> i - 1] = <<0, 1>>
        BY <3>3
      <4> QED BY <4>1
    <3> QED BY <3>1, <3>2, <3>3
  <2> DEFINE l == [i \in 1..n |-> i - 1]
  <2>2. WrapForward(n, t, s) = [Frame(t, s) EXCEPT !.layers = l]
    BY DEF WrapForward
  <2>3. l \in {<<>>, <<0>>, <<0, 1>>}
    BY ONLY <2>1 DEF l
  <2>4. Frame(t, s) \in Frames
    BY <1>1, <1>5
  <2> HIDE DEF l
  <2>5. [Frame(t, s) EXCEPT !.layers = l] \in Frames
    BY <2>3, <2>4 DEF Frames
  <2> QED BY <2>2, <2>5
<1>6. ASSUME NEW f \in Frames, Opens(f) PROVE Peeled(f) \in Frames
  <2>1. f.layers \in {<<0>>, <<1>>, <<0, 1>>}
    BY <1>6 DEF Frames, Opens
  <2>2. Tail(f.layers) \in {<<>>, <<1>>}
    <3>1. Tail(<<0>>) = <<>> /\ Tail(<<1>>) = <<>> /\ Tail(<<0, 1>>) = <<1>>
      OBVIOUS
    <3>2. f.layers = <<0>> \/ f.layers = <<1>> \/ f.layers = <<0, 1>>
      BY <2>1
    <3> QED BY ONLY <3>1, <3>2, Zenon
  <2> DEFINE l == Tail(f.layers)
  <2>3. Peeled(f) = [f EXCEPT !.layers = l]
    BY DEF Peeled
  <2> HIDE DEF l
  <2> QED BY <2>2, <2>3 DEF Frames, l
<1> QED BY <1>1, <1>2, <1>3, <1>4, <1>5, <1>6

-----------------------------------------------------------------------------
(* Types, part by part                                                      *)

ClientOK ==
    /\ health \in [Nodes -> Healths] /\ sel \in Selections
    /\ bld \in Builds /\ man \in [Circuits -> Records] /\ plan \in [Circuits -> Plans]
    /\ hb \in Circuits \cup {NoCircuit}
AppOK ==
    /\ app \in [Apps -> Handlers] /\ reg \in [StreamIDs -> Circuits \cup {NoCircuit}]
    /\ pending \in SUBSET StreamIDs /\ answer \in [StreamIDs -> {"none", "ok", "refused"}]
WireOK ==
    /\ near \in [Circuits -> Ends] /\ far \in [Circuits -> Ends]
    /\ up \in [Circuits -> Seq(Frames)] /\ down \in [Circuits -> Seq(Frames)]
RelayOK ==
    /\ rel \in [Circuits -> {"none", "first", "run", "done"}] /\ nxt \in [Circuits -> BOOLEAN]
    /\ up2 \in [Circuits -> Seq(Frames)] /\ down2 \in [Circuits -> Seq(Frames)]
ExitOK == ex \in [Circuits -> Exits] /\ conn \in [StreamIDs -> Connections] /\ policy \in Policies
DataOK ==
    /\ sent \in [app : [StreamIDs -> Nat], remote : [StreamIDs -> Nat]]
    /\ heard \in [app : [StreamIDs -> Seq(Nat)], remote : [StreamIDs -> Seq(Nat)]]
BoundOK == scope \in Scopes /\ faults \in 0..scope.faults /\ changes \in 0..scope.changes

\* A circuit has a plan from the step that begins its build on: whoever knows the
\* circuit finds its plan, and an exit in it.
Waiting == {"dial", "key", "extend"}
Planned ==
    /\ \A c \in Circuits :
         /\ plan[c] # NoPlan => plan[c].exit \in Nodes
         /\ man[c].rec # "none" \/ man[c].active \/ rel[c] # "none" \/ ex[c].pc # "none" => plan[c] # NoPlan
    /\ bld.pc \in Waiting => bld.cir \in Circuits /\ plan[bld.cir] # NoPlan
    /\ \A s \in StreamIDs : conn[s].state # "none" => conn[s].cir \in Circuits /\ plan[conn[s].cir] # NoPlan
    /\ \A a \in Apps : app[a].pc \in {"register", "begin", "wait", "reply", "pump"} \/ app[a].try > 1 =>
          app[a].cir \in Circuits /\ plan[app[a].cir] # NoPlan

\* The type invariant is made of these parts.
LEMMA TypeParts == TypeOK <=> ClientOK /\ AppOK /\ WireOK /\ RelayOK /\ ExitOK /\ DataOK /\ BoundOK
  BY DEF TypeOK, ClientOK, AppOK, WireOK, RelayOK, ExitOK, DataOK, BoundOK

\* What is known of a scope.
LEMMA ScopeFacts ==
  ASSUME NEW sc \in Scopes
  PROVE  /\ sc.apps \subseteq Apps /\ sc.circuits \subseteq Circuits
         /\ sc.buildRetries \in Nat /\ sc.beginRetries \in 0..(MaxTries - 1) /\ sc.chunks \in Nat
         /\ sc.faults \in Nat /\ sc.changes \in Nat
         /\ sc.selections \subseteq Selections /\ sc.policies \subseteq Policies
  BY CircuitAssumption DEF ScopeType

\* The plans a selection may return have an exit.
LEMMA SelectedPlans ==
  ASSUME NEW cfg, NEW h, NEW exclude, NEW p \in SelectPathForPool(cfg, h, exclude)
  PROVE  p \in Plans /\ p.exit \in Nodes /\ p # NoPlan
<1>1. \A S : RankedFirst(h, S) \subseteq S
  BY DEF RankedFirst
<1>2. ASSUME NEW S, NEW e \in ExitFirst(cfg, h, S) PROVE e \in S
  <2> DEFINE In(c) == {n \in S : Descriptors[n].country = c}
             wanted == {i \in 1..Len(cfg.preferred) : In(cfg.preferred[i]) # {}}
             k == cfg.preferred[CHOOSE i \in wanted : \A j \in wanted : i <= j]
  <2>1. \/ e \in RankedFirst(h, S) \/ e \in RankedFirst(h, In(k))
        \/ \E c \in {Descriptors[n].country : n \in S} : e \in RankedFirst(h, In(c))
    BY <1>2 DEF ExitFirst
  <2>2. \A c : In(c) \subseteq S
    OBVIOUS
  <2> HIDE DEF In, k
  <2> QED BY <1>1, <2>1, <2>2
<1>3. filterExitsWithSelection(cfg, exclude) \subseteq Nodes
  BY DEF filterExitsWithSelection, applyExitSelection, filterExitsExcluding
<1>4. filterRelaysExcluding(exclude) \subseteq Nodes
  BY DEF filterRelaysExcluding
<1> DEFINE exits == filterExitsWithSelection(cfg, exclude)
           relays == filterRelaysExcluding(exclude)
<1>5. p \in DirectPlans(cfg, h, exits) \/ p \in RelayPlans(cfg, h, relays, exits)
  BY DEF SelectPathForPool
<1> HIDE DEF exits, relays
<1>6. p.exit \in exits /\ p \in [relay : relays \cup {NoNode}, exit : exits]
  <2>1. CASE p \in DirectPlans(cfg, h, exits)
    BY <2>1, <1>2 DEF DirectPlans
  <2>2. CASE p \in RelayPlans(cfg, h, relays, exits)
    <3>1. PICK r, e : p = [relay |-> r, exit |-> e] /\ e \in ExitFirst(cfg, h, exits \ {r})
                      /\ r \in RankedFirst(h, {x \in relays : exits \ {x} # {}})
      BY <2>2 DEF RelayPlans
    <3>2. e \in exits \ {r} /\ r \in relays
      BY <3>1, <1>1, <1>2
    <3> QED BY <3>1, <3>2
  <2> QED BY <1>5, <2>1, <2>2
<1>7. p.exit \in Nodes /\ p \in Plans
  BY <1>3, <1>4, <1>6 DEF exits, relays, Plans
<1>8. p.exit # NoNode
  BY <1>7, SelectorAssumption
<1> QED BY <1>7, <1>8 DEF NoPlan

\* A report counts a success or a failure of some nodes.
LEMMA ReportType ==
  ASSUME NEW h \in [Nodes -> Healths], NEW pl, NEW success
  PROVE  reportPath(h, pl, success) \in [Nodes -> Healths]
<1> DEFINE r(n) == IF n \notin Hops(pl) THEN h[n]
                   ELSE IF success
                        THEN [known |-> TRUE, successes |-> h[n].successes + 1, failures |-> 0, cooled |-> FALSE]
                        ELSE [h[n] EXCEPT !.known = TRUE, !.failures = @ + 1, !.cooled = TRUE]
<1>1. ASSUME NEW v \in Healths
      PROVE  /\ [known |-> TRUE, successes |-> v.successes + 1, failures |-> 0, cooled |-> FALSE] \in Healths
             /\ [v EXCEPT !.known = TRUE, !.failures = @ + 1, !.cooled = TRUE] \in Healths
  <2>1. [known |-> TRUE, successes |-> v.successes + 1, failures |-> 0, cooled |-> FALSE] \in Healths
    BY DEF Healths
  <2>2. /\ [v EXCEPT !.known = TRUE] \in Healths /\ \A w \in Healths : [w EXCEPT !.cooled = TRUE] \in Healths
        /\ \A w \in Healths, n \in Nat : [w EXCEPT !.failures = n] \in Healths
    BY DEF Healths
  <2>3. v.failures \in Nat
    BY DEF Healths
  <2>4. [v EXCEPT !.known = TRUE, !.failures = @ + 1, !.cooled = TRUE]
           = [[[v EXCEPT !.known = TRUE] EXCEPT !.failures = v.failures + 1] EXCEPT !.cooled = TRUE]
    OBVIOUS
  <2>5. [[v EXCEPT !.known = TRUE] EXCEPT !.failures = v.failures + 1] \in Healths
    <3>1. v.failures + 1 \in Nat
      BY <2>3
    <3> QED BY <2>2, <3>1, Zenon
  <2> QED BY <2>1, <2>2, <2>4, <2>5, Zenon
<1>3. \A n \in Nodes : r(n) \in Healths
  BY <1>1
<1>2. reportPath(h, pl, success) = [n \in Nodes |-> r(n)]
  BY DEF reportPath
<1> HIDE DEF r
<1> QED BY <1>2, <1>3

\* The edits of records, one field at a time and together.
LEMMA Edits ==
  /\ \A m \in Records :
       /\ Forgotten(m) \in Records /\ \A n \in 0..2 : Opened(m, n) \in Records
       /\ \A r \in {"none", "creating", "open", "degraded"} : [m EXCEPT !.rec = r] \in Records
       /\ \A l \in {"reading", "notify", "over"} : [m EXCEPT !.loop = l] \in Records
       /\ \A n \in 0..2 : [m EXCEPT !.hops = n] \in Records
       /\ [m EXCEPT !.active = TRUE] \in Records
       /\ [m EXCEPT !.rec = "open", !.fails = 0] \in Records
       /\ [Forgotten(m) EXCEPT !.loop = "notify"] \in Records
       /\ ~Unhealthy(m.fails + 1) => [m EXCEPT !.rec = "degraded", !.fails = m.fails + 1] \in Records
  /\ \A e \in Exits : \A p \in {"first", "enc", "direct"} : [e EXCEPT !.pc = p] \in Exits
  /\ \A p \in {"first", "direct", "done"} : ServeAt(p) \in Exits
  /\ IdleBuild \in Builds
  /\ \A b \in Builds : /\ \A c \in Circuits : [b EXCEPT !.pc = "dial", !.cir = c] \in Builds
                        /\ [b EXCEPT !.pc = "key"] \in Builds /\ [b EXCEPT !.pc = "extend"] \in Builds
  /\ \A avoid \in SUBSET Nodes : [IdleBuild EXCEPT !.pc = "select", !.exclude = avoid] \in Builds
<1>1. /\ \A m \in Records, r \in {"none", "creating", "open", "degraded"} : [m EXCEPT !.rec = r] \in Records
      /\ \A m \in Records, l \in {"reading", "notify", "over"} : [m EXCEPT !.loop = l] \in Records
  BY DEF Records
<1>2. /\ \A m \in Records : [m EXCEPT !.active = TRUE] \in Records
      /\ \A m \in Records : [m EXCEPT !.active = FALSE] \in Records
  BY DEF Records
<1>3. \A m \in Records, n \in 0..2 : [m EXCEPT !.hops = n] \in Records
  BY DEF Records
<1>4. \A m \in Records, n \in 0..FailureThreshold : [m EXCEPT !.fails = n] \in Records
  BY DEF Records
<1>5. \A m \in Records : Forgotten(m) \in Records
  <2>1. \A m : Forgotten(m) = [[[m EXCEPT !.rec = "none"] EXCEPT !.active = FALSE] EXCEPT !.hops = 0]
    BY DEF Forgotten
  <2>2. ASSUME NEW m \in Records PROVE Forgotten(m) \in Records
    <3>1. [m EXCEPT !.rec = "none"] \in Records
      BY <1>1
    <3>2. [[m EXCEPT !.rec = "none"] EXCEPT !.active = FALSE] \in Records
      BY <1>2, <3>1, Zenon
    <3>3. 0 \in 0..2
      OBVIOUS
    <3> QED BY <1>3, <2>1, <3>2, <3>3, Zenon
  <2> QED BY <2>2
<1>6. \A m \in Records, n \in 0..2 : Opened(m, n) \in Records
  <2>1. \A m, n : Opened(m, n)
                    = [[[[m EXCEPT !.rec = "open"] EXCEPT !.active = TRUE] EXCEPT !.hops = n] EXCEPT !.loop = "reading"]
    BY DEF Opened
  <2>2. ASSUME NEW m \in Records, NEW n \in 0..2 PROVE Opened(m, n) \in Records
    <3>1. [m EXCEPT !.rec = "open"] \in Records
      BY <1>1
    <3>2. [[m EXCEPT !.rec = "open"] EXCEPT !.active = TRUE] \in Records
      BY <1>2, <3>1, Zenon
    <3>3. [[[m EXCEPT !.rec = "open"] EXCEPT !.active = TRUE] EXCEPT !.hops = n] \in Records
      BY <1>3, <3>2, Zenon
    <3> QED BY <1>1, <2>1, <3>3, Zenon
  <2> QED BY <2>2
<1>7. /\ \A m \in Records : [m EXCEPT !.rec = "open", !.fails = 0] \in Records
      /\ \A m \in Records : ~Unhealthy(m.fails + 1) => [m EXCEPT !.rec = "degraded", !.fails = m.fails + 1] \in Records
  <2>1. \A m, r, n : [m EXCEPT !.rec = r, !.fails = n] = [[m EXCEPT !.rec = r] EXCEPT !.fails = n]
    OBVIOUS
  <2>2. 0 \in 0..FailureThreshold /\ \A m \in Records : ~Unhealthy(m.fails + 1) => m.fails + 1 \in 0..FailureThreshold
    BY CircuitAssumption DEF Records, Unhealthy
  <2> QED BY <1>1, <1>4, <2>1, <2>2
<1>8. \A e \in Exits : \A p \in {"first", "enc", "direct"} : [e EXCEPT !.pc = p] \in Exits
  BY DEF Exits, Checking
<1>9. \A p \in {"first", "direct", "done"} : ServeAt(p) \in Exits
  BY DEF Exits, Checking, ServeAt
<1>10. IdleBuild \in Builds
  BY DEF IdleBuild, Builds
<1>11. \A b \in Builds : /\ \A c \in Circuits : [b EXCEPT !.pc = "dial", !.cir = c] \in Builds
                         /\ [b EXCEPT !.pc = "key"] \in Builds /\ [b EXCEPT !.pc = "extend"] \in Builds
  BY DEF Builds
<1>12. \A avoid \in SUBSET Nodes : [IdleBuild EXCEPT !.pc = "select", !.exclude = avoid] \in Builds
  BY <1>10 DEF Builds
<1> QED BY <1>1, <1>2, <1>3, <1>5, <1>6, <1>7, <1>8, <1>9, <1>10, <1>11, <1>12

-----------------------------------------------------------------------------
(* Every action keeps the types, and gives plans before they are used       *)

Safe == TypeOK /\ Planned

\* The client builds circuits.
LEMMA BuildStep ==
  ASSUME Safe, Build \/ BuildDialFails
  PROVE  Safe'
<1>1. ClientOK /\ AppOK /\ WireOK /\ RelayOK /\ ExitOK /\ DataOK /\ BoundOK /\ Planned
  BY TypeParts DEF Safe
<1> SUFFICES ClientOK' /\ AppOK' /\ WireOK' /\ RelayOK' /\ ExitOK' /\ DataOK' /\ BoundOK' /\ Planned'
  BY TypeParts DEF Safe, TypeOK, ClientOK, AppOK, WireOK, RelayOK, ExitOK, DataOK, BoundOK
<1>2. \A c \in Circuits : man[c] \in Records /\ plan[c] \in Plans
  BY <1>1 DEF ClientOK
<1>3. AppOK' /\ DataOK'
  BY <1>1 DEF AppOK, DataOK, Build, BuildStart, SelectPath, BuildDial, BuildExtend, BuildOpen, BuildTimeout, BuildDialFails,
     appVars, dataVars
<1>4. CASE BuildStart
  <2>1. FailedExits \subseteq Nodes
    BY <1>1 DEF FailedExits, Planned, AppOK, Handlers
  <2>2. bld' \in Builds /\ bld'.pc = "select"
    <3>1. PICK avoid \in {{}} \cup {{n} : n \in FailedExits} : bld' = [IdleBuild EXCEPT !.pc = "select", !.exclude = avoid]
      BY <1>4 DEF BuildStart
    <3>2. avoid \in SUBSET Nodes
      BY <2>1
    <3> QED BY <3>1, <3>2, Edits DEF IdleBuild
  <2> QED BY <1>1, <1>3, <1>4, <2>2 DEF BuildStart, ClientOK, WireOK, RelayOK, ExitOK, BoundOK, Planned, Waiting,
             wireVars, relayVars, exitVars, boundVars, appVars
<1>5. CASE SelectPath
  <2>1. WireOK' /\ RelayOK' /\ ExitOK' /\ BoundOK'
    BY <1>1, <1>5 DEF SelectPath, WireOK, RelayOK, ExitOK, BoundOK, wireVars, relayVars, exitVars, boundVars
  <2>2. \/ bld' = IdleBuild /\ UNCHANGED <<man, plan>>
        \/ \E p \in Plans, c \in Circuits :
              /\ p.exit \in Nodes /\ p # NoPlan /\ plan[c] = NoPlan
              /\ bld' = [bld EXCEPT !.pc = "dial", !.cir = c]
              /\ plan' = [plan EXCEPT ![c] = p] /\ man' = [man EXCEPT ![c].rec = "creating"]
    <3> DEFINE fresh == {c \in scope.circuits : plan[c] = NoPlan}
    <3>1. CASE fresh # {}
      <4>1. (CHOOSE x \in fresh : TRUE) \in fresh /\ fresh \subseteq Circuits
        BY <3>1, <1>1, ScopeFacts DEF BoundOK
      <4> DEFINE d == CHOOSE x \in fresh : TRUE
      <4>2. \/ bld' = IdleBuild /\ UNCHANGED <<man, plan>>
            \/ \E p \in SelectPathForPool(sel, health, bld.exclude) :
                   /\ bld' = [bld EXCEPT !.pc = "dial", !.cir = d]
                   /\ plan' = [plan EXCEPT ![d] = p] /\ man' = [man EXCEPT ![d].rec = "creating"]
        BY <1>5 DEF SelectPath
      <4>3. d \in Circuits /\ plan[d] = NoPlan
        BY <4>1
      <4> HIDE DEF d
      <4>4. CASE bld' = IdleBuild /\ UNCHANGED <<man, plan>>
        BY <4>4
      <4>5. ASSUME NEW p \in SelectPathForPool(sel, health, bld.exclude), bld' = [bld EXCEPT !.pc = "dial", !.cir = d],
                   plan' = [plan EXCEPT ![d] = p], man' = [man EXCEPT ![d].rec = "creating"]
            PROVE  \E q \in Plans, e \in Circuits :
                      /\ q.exit \in Nodes /\ q # NoPlan /\ plan[e] = NoPlan
                      /\ bld' = [bld EXCEPT !.pc = "dial", !.cir = e]
                      /\ plan' = [plan EXCEPT ![e] = q] /\ man' = [man EXCEPT ![e].rec = "creating"]
        <5>1. p \in Plans /\ p.exit \in Nodes /\ p # NoPlan
          BY SelectedPlans
        <5> QED BY <4>3, <4>5, <5>1
      <4> QED BY <4>2, <4>4, <4>5
    <3> QED BY <3>1, <1>5 DEF SelectPath
  <2>3. UNCHANGED <<health, sel, hb, app, rel, ex, conn>>
    BY <1>5 DEF SelectPath, appVars, relayVars, exitVars
  <2>4. CASE bld' = IdleBuild /\ UNCHANGED <<man, plan>>
    BY <1>1, <1>3, <2>1, <2>3, <2>4 DEF ClientOK, Planned, Waiting, IdleBuild, Builds
  <2>5. ASSUME NEW p \in Plans, NEW c \in Circuits, p.exit \in Nodes, p # NoPlan, plan[c] = NoPlan,
               bld' = [bld EXCEPT !.pc = "dial", !.cir = c],
               plan' = [plan EXCEPT ![c] = p], man' = [man EXCEPT ![c].rec = "creating"]
        PROVE  ClientOK' /\ Planned'
    <3>1. bld' \in Builds /\ bld'.cir = c /\ man'[c] \in Records /\ plan'[c] = p
      BY <1>1, <1>2, <2>5 DEF ClientOK, Builds, Records
    <3>2. /\ \A d \in Circuits : plan[d] # NoPlan => plan'[d] = plan[d]
          /\ \A d \in Circuits : d # c => man'[d] = man[d] /\ plan'[d] = plan[d]
      BY <1>1, <2>5 DEF ClientOK
    <3>3. ClientOK'
      BY <1>1, <2>3, <2>5, <3>1 DEF ClientOK
    <3> QED BY <1>1, <2>3, <2>5, <3>1, <3>2, <3>3 DEF Planned
  <2> QED BY <1>3, <2>1, <2>2, <2>4, <2>5
<1> DEFINE c == bld.cir
<1>6. ASSUME bld.pc \in Waiting
      PROVE  /\ c \in Circuits /\ plan[c] # NoPlan /\ plan[c] \in Plans /\ plan[c].exit \in Nodes /\ man[c] \in Records
             /\ NextAttempt(bld) \in Builds /\ NextAttempt(bld).pc \in {"idle", "select"}
  <2>1. c \in Circuits /\ plan[c] # NoPlan /\ plan[c] \in Plans /\ plan[c].exit \in Nodes /\ man[c] \in Records
    BY <1>1, <1>2, <1>6 DEF Planned
  <2> QED BY <2>1, <1>1, ScopeFacts DEF NextAttempt, Builds, Exclude, IdleBuild, ClientOK
<1>7. IdleBuild \in Builds /\ IdleBuild.pc = "idle"
  BY DEF IdleBuild, Builds
<1>8. ASSUME UNCHANGED <<plan, app, conn>>, c \in Circuits, plan[c] # NoPlan,
             bld'.pc \notin Waiting \/ bld'.cir = c,
             \A d \in Circuits : d # c => man'[d] = man[d] /\ rel'[d] = rel[d] /\ ex'[d] = ex[d]
      PROVE  Planned'
  BY <1>1, <1>8 DEF Planned
<1>9. CASE BuildDial
  <2>1. c \in Circuits /\ plan[c] # NoPlan /\ plan[c] \in Plans /\ man[c] \in Records
    BY <1>6, <1>9 DEF BuildDial, Waiting
  <2>2. WireOK'
    <3>1. Frame("init", None) \in Frames
      BY FramesTyped DEF FrameTypes
    <3>2. <<Frame("init", None)>> \in Seq(Frames)
      BY <3>1
    <3> QED BY <1>1, <1>9, <2>1, <3>2 DEF BuildDial, WireOK, Ends
  <2>3. RelayOK' /\ ExitOK' /\ BoundOK'
    <3>1. \/ rel' = [rel EXCEPT ![c] = "first"] /\ ex' = ex
          \/ rel' = rel /\ ex' = [ex EXCEPT ![c] = [ex[c] EXCEPT !.pc = "first"]]
      BY <1>9 DEF BuildDial
    <3>2. UNCHANGED <<nxt, up2, down2, conn, policy, boundVars>>
      BY <1>9 DEF BuildDial
    <3>3. [ex[c] EXCEPT !.pc = "first"] \in Exits
      <4>1. ex[c] \in Exits
        BY <1>1, <2>1 DEF ExitOK
      <4> QED BY <4>1, Edits, Zenon
    <3> QED BY <1>1, <2>1, <3>1, <3>2, <3>3 DEF RelayOK, ExitOK, BoundOK, boundVars
  <2>4. ClientOK' /\ (bld'.pc \notin Waiting \/ bld'.cir = c)
    <3>1. CASE Direct(c)
      <4>1. /\ bld' = IdleBuild /\ man' = [man EXCEPT ![c] = Opened(man[c], 0)]
            /\ health' = reportPath(health, plan[c], TRUE) /\ UNCHANGED <<sel, plan, hb>>
        BY <1>9, <3>1 DEF BuildDial
      <4>2. Opened(man[c], 0) \in Records
        <5>1. 0 \in 0..2
          OBVIOUS
        <5> QED BY <2>1, <5>1, Edits, Zenon
      <4> QED BY <1>1, <1>7, <4>1, <4>2, ReportType DEF ClientOK, Waiting
    <3>2. CASE ~Direct(c)
      <4>1. bld' = [bld EXCEPT !.pc = "key"] /\ man' = [man EXCEPT ![c].active = TRUE] /\ UNCHANGED <<health, sel, plan, hb>>
        BY <1>9, <3>2 DEF BuildDial
      <4> QED BY <1>1, <2>1, <4>1, Edits DEF ClientOK, Builds
    <3> QED BY <3>1, <3>2
  <2>5. Planned'
    BY <1>1, <1>8, <1>9, <2>1, <2>4 DEF BuildDial, appVars, ClientOK, RelayOK, ExitOK
  <2> QED BY <1>3, <2>2, <2>3, <2>4, <2>5
<1>10. CASE BuildDialFails
  <2>1. c \in Circuits /\ plan[c] # NoPlan /\ plan[c] \in Plans /\ man[c] \in Records /\ NextAttempt(bld) \in Builds
        /\ NextAttempt(bld).pc \in {"idle", "select"}
    BY <1>6, <1>10 DEF BuildDialFails, Waiting
  <2>2. WireOK' /\ RelayOK' /\ ExitOK' /\ BoundOK'
    BY <1>1, <1>10, ScopeFacts DEF BuildDialFails, WireOK, RelayOK, ExitOK, BoundOK, wireVars, relayVars, exitVars
  <2>3. ClientOK' /\ bld'.pc \notin Waiting
    BY <1>1, <1>10, <2>1, ReportType DEF BuildDialFails, ClientOK, Records, Waiting
  <2>4. Planned'
    BY <1>1, <1>8, <1>10, <2>1, <2>3 DEF BuildDialFails, appVars, relayVars, exitVars, ClientOK
  <2> QED BY <1>3, <2>2, <2>3, <2>4
<1>11. CASE BuildExtend
  <2>1. c \in Circuits /\ plan[c] # NoPlan /\ plan[c] \in Plans /\ man[c] \in Records
    BY <1>6, <1>11 DEF BuildExtend, Waiting
  <2>2. WrapForward(1, "extend", None) \in Frames
    BY FramesTyped DEF FrameTypes
  <2>3. WireOK'
    BY <1>1, <1>11, <2>1, <2>2, QueueFacts DEF BuildExtend, WireOK
  <2>4. RelayOK' /\ ExitOK' /\ BoundOK'
    BY <1>1, <1>11 DEF BuildExtend, RelayOK, ExitOK, BoundOK, relayVars, exitVars, boundVars
  <2>5. ClientOK' /\ bld'.cir = c
    <3>1. bld' = [bld EXCEPT !.pc = "extend"] /\ man' = [man EXCEPT ![c].hops = 1] /\ UNCHANGED <<health, sel, plan, hb>>
      BY <1>11 DEF BuildExtend
    <3>2. [man[c] EXCEPT !.hops = 1] \in Records /\ [bld EXCEPT !.pc = "extend"] \in Builds
      <4>1. bld \in Builds /\ 1 \in 0..2
        BY <1>1 DEF ClientOK
      <4> QED BY <2>1, <4>1, Edits, Zenon
    <3>3. bld'.cir = c
      BY <1>1, <3>1 DEF ClientOK, Builds
    <3> QED BY <1>1, <3>1, <3>2, <3>3 DEF ClientOK
  <2>6. Planned'
    BY <1>1, <1>8, <1>11, <2>1, <2>5 DEF BuildExtend, appVars, relayVars, exitVars, ClientOK
  <2> QED BY <1>3, <2>3, <2>4, <2>5, <2>6
<1>12. CASE BuildOpen
  <2>1. c \in Circuits /\ plan[c] # NoPlan /\ plan[c] \in Plans /\ man[c] \in Records
    BY <1>6, <1>12 DEF BuildOpen, Waiting
  <2>2. WireOK'
    BY <1>1, <1>12, <2>1, QueueFacts DEF BuildOpen, WireOK
  <2>3. RelayOK' /\ ExitOK' /\ BoundOK'
    BY <1>1, <1>12 DEF BuildOpen, RelayOK, ExitOK, BoundOK, relayVars, exitVars, boundVars
  <2>4. ClientOK' /\ bld'.pc \notin Waiting
    <3>1. /\ bld' = IdleBuild /\ man' = [man EXCEPT ![c] = Opened(man[c], 2)]
          /\ health' = reportPath(health, plan[c], TRUE) /\ UNCHANGED <<sel, plan, hb>>
      BY <1>12 DEF BuildOpen
    <3>2. Opened(man[c], 2) \in Records
      <4>1. 2 \in 0..2
        OBVIOUS
      <4> QED BY <2>1, <4>1, Edits, Zenon
    <3> QED BY <1>1, <1>7, <3>1, <3>2, ReportType DEF ClientOK, Waiting
  <2>5. Planned'
    BY <1>1, <1>8, <1>12, <2>1, <2>4 DEF BuildOpen, appVars, relayVars, exitVars, ClientOK
  <2> QED BY <1>3, <2>2, <2>3, <2>4, <2>5
<1>13. CASE BuildTimeout
  <2>1. c \in Circuits /\ plan[c] # NoPlan /\ plan[c] \in Plans /\ man[c] \in Records /\ NextAttempt(bld) \in Builds
        /\ NextAttempt(bld).pc \in {"idle", "select"}
    BY <1>6, <1>13 DEF BuildTimeout, Waiting
  <2>2. WireOK' /\ RelayOK' /\ ExitOK' /\ BoundOK'
    BY <1>1, <1>13, <2>1 DEF BuildTimeout, CloseCircuit, WireOK, RelayOK, ExitOK, BoundOK, relayVars, exitVars, boundVars, Ends
  <2>3. ClientOK' /\ bld'.pc \notin Waiting
    BY <1>1, <1>13, <2>1, ReportType, Edits DEF BuildTimeout, CloseCircuit, ClientOK, Waiting
  <2>4. Planned'
    BY <1>1, <1>8, <1>13, <2>1, <2>3 DEF BuildTimeout, CloseCircuit, appVars, relayVars, exitVars, ClientOK
  <2> QED BY <1>3, <2>2, <2>3, <2>4
<1> QED BY <1>4, <1>5, <1>9, <1>10, <1>11, <1>12, <1>13 DEF Build

\* No record comes into being.
NoneBegun == \A c \in Circuits : man'[c].rec # "none" \/ man'[c].active => man[c].rec # "none" \/ man[c].active

\* Outside the builds a plan stays, and so does the claim about it.
LEMMA PlannedStays ==
  ASSUME Planned, UNCHANGED <<plan, bld>>, NoneBegun,
         \A c \in Circuits : rel'[c] # "none" \/ ex'[c].pc # "none" => rel[c] # "none" \/ ex[c].pc # "none",
         \A s \in StreamIDs : conn'[s].state # "none" => conn'[s].cir \in Circuits /\ plan[conn'[s].cir] # NoPlan,
         \A a \in Apps : app'[a].pc \in {"register", "begin", "wait", "reply", "pump"} \/ app'[a].try > 1 =>
                            app'[a].cir \in Circuits /\ plan[app'[a].cir] # NoPlan
  PROVE  Planned'
  BY DEF Planned, NoneBegun

\* One record is edited.
LEMMA RecordEdited ==
  ASSUME man \in [Circuits -> Records], NEW c \in Circuits, NEW m \in Records, man' = [man EXCEPT ![c] = m],
         m.rec # "none" \/ m.active => man[c].rec # "none" \/ man[c].active
  PROVE  man' \in [Circuits -> Records] /\ NoneBegun
  BY DEF NoneBegun

\* A circuit is closed.
LEMMA CircuitClosed ==
  ASSUME man \in [Circuits -> Records], near \in [Circuits -> Ends], NEW c \in Circuits, CloseCircuit(c)
  PROVE  man' \in [Circuits -> Records] /\ near' \in [Circuits -> Ends] /\ NoneBegun
<1>1. man[c] \in Records /\ man' = [man EXCEPT ![c] = Forgotten(man[c])]
  BY DEF CloseCircuit
<1>2. Forgotten(man[c]) \in Records
  BY <1>1, Edits, Zenon
<1>3. Forgotten(man[c]).rec = "none" /\ ~Forgotten(man[c]).active
  BY <1>1 DEF Forgotten, Records
<1>4. near' \in [Circuits -> Ends]
  BY DEF CloseCircuit, Ends
<1> QED BY <1>1, <1>2, <1>3, <1>4, RecordEdited

\* The read loops, the heartbeat, the pool and the settings.
Upkeep ==
    \/ \E c \in Circuits : \/ ReadFrame(c) \/ ReadLoopEnds(c) \/ NotifyCircuitClosed(c) \/ TransientRead(c)
                           \/ HeartbeatPing(c) \/ PoolCloses(c)
    \/ HeartbeatTimeout \/ SetExitSelection \/ \E n \in Nodes : CooldownEnds(n)

\* Upkeep of the client's side keeps the types and the plans.
LEMMA UpkeepStep ==
  ASSUME Safe, Upkeep
  PROVE  Safe'
<1>1. ClientOK /\ AppOK /\ WireOK /\ RelayOK /\ ExitOK /\ DataOK /\ BoundOK /\ Planned
  BY TypeParts DEF Safe
<1> SUFFICES ClientOK' /\ AppOK' /\ WireOK' /\ RelayOK' /\ ExitOK' /\ DataOK' /\ BoundOK' /\ Planned'
  BY TypeParts DEF Safe, TypeOK, ClientOK, AppOK, WireOK, RelayOK, ExitOK, DataOK, BoundOK
<1>2. UNCHANGED <<bld, plan, rel, nxt, up2, down2, ex, conn, policy, sent, scope>>
  BY DEF Upkeep, ReadFrame, ReadLoopEnds, NotifyCircuitClosed, TransientRead, HeartbeatPing, PoolCloses, HeartbeatTimeout,
         SetExitSelection, CooldownEnds, clientVars, relayVars, exitVars, dataVars, boundVars
<1>3. RelayOK' /\ ExitOK'
  BY <1>1, <1>2 DEF RelayOK, ExitOK
<1>4. ASSUME NoneBegun, \A a \in Apps : app'[a].pc = app[a].pc /\ app'[a].try = app[a].try /\ app'[a].cir = app[a].cir
      PROVE  Planned'
  BY <1>1, <1>2, <1>4, PlannedStays DEF Planned
<1>5. UNCHANGED man => NoneBegun
  BY DEF NoneBegun
<1>6. ASSUME NEW c \in Circuits, ReadFrame(c)
      PROVE  ClientOK' /\ AppOK' /\ WireOK' /\ DataOK' /\ BoundOK' /\ Planned'
  <2>1. UNCHANGED <<clientVars, app, reg, near, far, up, boundVars, sent>> /\ down' = [down EXCEPT ![c] = Tail(down[c])]
        /\ down[c] # <<>>
    BY <1>6 DEF ReadFrame
  <2>2. Tail(down[c]) \in Seq(Frames) /\ Head(down[c]) \in Frames
    BY <1>1, <2>1, QueueFacts DEF WireOK
  <2>3. pending' \in SUBSET StreamIDs /\ answer' \in [StreamIDs -> {"none", "ok", "refused"}]
    BY <1>1, <1>6 DEF ReadFrame, AppOK
  <2>4. heard' \in [app : [StreamIDs -> Seq(Nat)], remote : [StreamIDs -> Seq(Nat)]]
    <3> DEFINE s == Head(down[c]).stream
               l == Append(heard.app[s], Head(down[c]).n)
    <3>1. heard' = heard \/ heard' = [heard EXCEPT !.app[s] = l]
      BY <1>6 DEF ReadFrame
    <3>2. s \in StreamIDs => l \in Seq(Nat)
      BY <1>1, <2>2 DEF DataOK, Frames
    <3> HIDE DEF s, l
    <3>3. [heard.app EXCEPT ![s] = l] \in [StreamIDs -> Seq(Nat)]
      BY <1>1, <3>2 DEF DataOK
    <3> DEFINE g == [heard.app EXCEPT ![s] = l]
    <3>4. heard' = heard \/ heard' = [heard EXCEPT !.app = g]
      BY <3>1
    <3> HIDE DEF g
    <3> QED BY <1>1, <3>3, <3>4 DEF DataOK, g
  <2> QED BY <1>1, <1>4, <1>5, <2>1, <2>2, <2>3, <2>4 DEF ClientOK, AppOK, WireOK, DataOK, BoundOK, clientVars, boundVars
<1>7. ASSUME NEW c \in Circuits, ReadLoopEnds(c)
      PROVE  ClientOK' /\ AppOK' /\ WireOK' /\ DataOK' /\ BoundOK' /\ Planned'
  <2>1. /\ near' = [near EXCEPT ![c] = "closed"] /\ UNCHANGED <<sel, hb, appVars, far, up, down, dataVars, boundVars>>
        /\ health' = reportPath(health, plan[c], FALSE) \/ health' = health
        /\ man' = [man EXCEPT ![c] = [Forgotten(man[c]) EXCEPT !.loop = "notify"]]
    BY <1>7 DEF ReadLoopEnds
  <2> DEFINE m == [Forgotten(man[c]) EXCEPT !.loop = "notify"]
  <2>2. m \in Records
    BY <1>1, Edits, Zenon DEF ClientOK
  <2>3. m.rec = "none" /\ ~m.active
    BY <1>1 DEF ClientOK, Forgotten, Records
  <2> HIDE DEF m
  <2>4. man' \in [Circuits -> Records] /\ NoneBegun
    BY <1>1, <2>1, <2>2, <2>3, RecordEdited DEF ClientOK, m
  <2>5. health' \in [Nodes -> Healths]
    <3>1. health \in [Nodes -> Healths]
      BY <1>1 DEF ClientOK
    <3>2. reportPath(health, plan[c], FALSE) \in [Nodes -> Healths]
      BY <3>1, ReportType, Zenon
    <3> QED BY <2>1, <3>1, <3>2, Zenon
  <2>6. Planned'
    BY <1>4, <2>1, <2>4 DEF appVars
  <2>7. WireOK'
    BY <1>1, <2>1 DEF WireOK, Ends
  <2> QED BY <1>1, <1>2, <2>1, <2>4, <2>5, <2>6, <2>7 DEF ClientOK, AppOK, DataOK, BoundOK, appVars, dataVars, boundVars
<1>8. ASSUME NEW c \in Circuits, NotifyCircuitClosed(c)
      PROVE  ClientOK' /\ AppOK' /\ WireOK' /\ DataOK' /\ BoundOK' /\ Planned'
  <2>1. /\ man' = [man EXCEPT ![c] = [man[c] EXCEPT !.loop = "over"]]
        /\ UNCHANGED <<health, sel, hb, pending, answer, wireVars, dataVars, boundVars>>
        /\ reg' = [s \in StreamIDs |-> IF reg[s] = c THEN NoCircuit ELSE reg[s]]
        /\ app' = [a \in Apps |-> IF \E n \in Attempts : reg[<<a, n>>] = c
                                  THEN [app[a] EXCEPT !.open = FALSE] ELSE app[a]]
    BY <1>8 DEF NotifyCircuitClosed
  <2> DEFINE m == [man[c] EXCEPT !.loop = "over"]
  <2>2. m \in Records
    BY <1>1, Edits, Zenon DEF ClientOK
  <2>3. m.rec = man[c].rec /\ m.active = man[c].active
    BY <1>1 DEF ClientOK, Records
  <2> HIDE DEF m
  <2>4. man' \in [Circuits -> Records] /\ NoneBegun
    BY <1>1, <2>1, <2>2, <2>3, RecordEdited DEF ClientOK, m
  <2>5. \A h \in Handlers : /\ [h EXCEPT !.open = FALSE] \in Handlers
                            /\ [h EXCEPT !.open = FALSE].pc = h.pc /\ [h EXCEPT !.open = FALSE].try = h.try
                            /\ [h EXCEPT !.open = FALSE].cir = h.cir
    BY DEF Handlers
  <2>6. AppOK' /\ \A a \in Apps : app'[a].pc = app[a].pc /\ app'[a].try = app[a].try /\ app'[a].cir = app[a].cir
    BY <1>1, <2>1, <2>5 DEF AppOK
  <2> QED BY <1>1, <1>2, <1>4, <2>1, <2>4, <2>6 DEF ClientOK, WireOK, DataOK, BoundOK, wireVars, dataVars, boundVars
<1>9. ASSUME NEW c \in Circuits, TransientRead(c)
      PROVE  ClientOK' /\ AppOK' /\ WireOK' /\ DataOK' /\ BoundOK' /\ Planned'
  <2>1. /\ man' = [man EXCEPT ![c] = [man[c] EXCEPT !.rec = "degraded"]] /\ man[c].rec = "open"
        /\ UNCHANGED <<health, sel, hb, appVars, wireVars, dataVars, changes>>
        /\ faults < scope.faults /\ faults' = faults + 1
    BY <1>9 DEF TransientRead
  <2>2. [man[c] EXCEPT !.rec = "degraded"] \in Records
    BY <1>1, Edits, Zenon DEF ClientOK
  <2>3. man' \in [Circuits -> Records] /\ NoneBegun
    BY <1>1, <2>1, <2>2, RecordEdited DEF ClientOK
  <2>4. BoundOK'
    BY <1>1, <1>2, <2>1, ScopeFacts DEF BoundOK
  <2> QED BY <1>1, <1>2, <1>4, <2>1, <2>3, <2>4 DEF ClientOK, AppOK, WireOK, DataOK, appVars, wireVars, dataVars
<1>10. ASSUME NEW c \in Circuits, HeartbeatPing(c)
      PROVE  ClientOK' /\ AppOK' /\ WireOK' /\ DataOK' /\ BoundOK' /\ Planned'
  <2>1. WrapForward(man[c].hops, "ping", None) \in Frames
    <3>1. man[c].hops \in 0..2
      BY <1>1 DEF ClientOK, Records
    <3> QED BY <3>1, FramesTyped DEF FrameTypes
  <2>2. /\ UNCHANGED <<health, sel, man, appVars, near, far, down, dataVars, boundVars>> /\ hb' = c
        /\ \/ UNCHANGED up
           \/ up' = [up EXCEPT ![c] = Append(up[c], WrapForward(man[c].hops, "ping", None))]
    BY <1>1, <1>10 DEF HeartbeatPing, WireOK
  <2>3. WireOK'
    <3> DEFINE f == WrapForward(man[c].hops, "ping", None)
    <3> HIDE DEF f
    <3>1. up[c] \in Seq(Frames) /\ f \in Frames
      BY <1>1, <2>1 DEF WireOK, f
    <3>2. Append(up[c], f) \in Seq(Frames)
      BY <3>1, QueueFacts
    <3> QED BY <1>1, <2>2, <3>2 DEF WireOK, f
  <2> QED BY <1>1, <1>2, <1>4, <1>5, <2>2, <2>3 DEF ClientOK, AppOK, DataOK, BoundOK, appVars, dataVars, boundVars
<1>11. ASSUME NEW c \in Circuits, PoolCloses(c)
      PROVE  ClientOK' /\ AppOK' /\ WireOK' /\ DataOK' /\ BoundOK' /\ Planned'
  <2>1. /\ CloseCircuit(c) /\ UNCHANGED <<health, sel, hb, appVars, far, up, down, dataVars, changes>>
        /\ faults < scope.faults /\ faults' = faults + 1
    BY <1>11 DEF PoolCloses
  <2>2. man' \in [Circuits -> Records] /\ near' \in [Circuits -> Ends] /\ NoneBegun
    BY <1>1, <2>1, CircuitClosed DEF ClientOK, WireOK
  <2>3. BoundOK'
    BY <1>1, <1>2, <2>1, ScopeFacts DEF BoundOK
  <2> QED BY <1>1, <1>2, <1>4, <2>1, <2>2, <2>3 DEF ClientOK, AppOK, WireOK, DataOK, appVars, dataVars
<1>12. CASE HeartbeatTimeout
  <2>1. /\ hb \in Circuits /\ hb' = NoCircuit /\ UNCHANGED <<sel, appVars, far, up, down, dataVars, boundVars>>
        /\ \/ UNCHANGED <<man, near, health>>
           \/ CloseCircuit(hb) /\ health' = reportPath(health, plan[hb], FALSE)
           \/ /\ man' = [man EXCEPT ![hb] = [man[hb] EXCEPT !.rec = "degraded", !.fails = man[hb].fails + 1]]
              /\ ~Unhealthy(man[hb].fails + 1) /\ man[hb].rec # "none" /\ UNCHANGED <<near, health>>
    BY <1>1, <1>12 DEF HeartbeatTimeout, ClientOK
  <2>2. health' \in [Nodes -> Healths] /\ man' \in [Circuits -> Records] /\ near' \in [Circuits -> Ends] /\ NoneBegun
    <3>1. CASE UNCHANGED <<man, near, health>>
      BY <1>1, <1>5, <3>1 DEF ClientOK, WireOK
    <3>2. CASE CloseCircuit(hb) /\ health' = reportPath(health, plan[hb], FALSE)
      BY <1>1, <2>1, <3>2, CircuitClosed, ReportType DEF ClientOK, WireOK
    <3>3. CASE /\ man' = [man EXCEPT ![hb] = [man[hb] EXCEPT !.rec = "degraded", !.fails = man[hb].fails + 1]]
               /\ ~Unhealthy(man[hb].fails + 1) /\ man[hb].rec # "none" /\ UNCHANGED <<near, health>>
      <4>1. man[hb] \in Records
        BY <1>1, <2>1 DEF ClientOK
      <4>2. [man[hb] EXCEPT !.rec = "degraded", !.fails = man[hb].fails + 1] \in Records
        BY <3>3, <4>1, Edits, Zenon
      <4> QED BY <1>1, <2>1, <3>3, <4>2, RecordEdited DEF ClientOK, WireOK
    <3> QED BY <2>1, <3>1, <3>2, <3>3
  <2> QED BY <1>1, <1>2, <1>3, <1>4, <2>1, <2>2 DEF ClientOK, AppOK, WireOK, DataOK, BoundOK, appVars, dataVars, boundVars
<1>13. CASE SetExitSelection
  <2>1. /\ sel' \in scope.selections /\ UNCHANGED <<health, man, hb, appVars, wireVars, dataVars, faults>>
        /\ changes < scope.changes /\ changes' = changes + 1
    BY <1>13 DEF SetExitSelection
  <2> QED BY <1>1, <1>2, <1>3, <1>4, <1>5, <2>1, ScopeFacts DEF ClientOK, AppOK, WireOK, DataOK, BoundOK, appVars, wireVars, dataVars
<1>14. ASSUME NEW n \in Nodes, CooldownEnds(n)
       PROVE  ClientOK' /\ AppOK' /\ WireOK' /\ DataOK' /\ BoundOK' /\ Planned'
  <2>1. /\ health' = [health EXCEPT ![n] = [health[n] EXCEPT !.cooled = FALSE]]
        /\ UNCHANGED <<sel, man, hb, appVars, wireVars, dataVars, boundVars>>
    BY <1>14 DEF CooldownEnds
  <2>2. \A h \in Healths : [h EXCEPT !.cooled = FALSE] \in Healths
    BY DEF Healths
  <2>3. health' \in [Nodes -> Healths]
    BY <1>1, <2>1, <2>2 DEF ClientOK
  <2> QED BY <1>1, <1>2, <1>4, <1>5, <2>1, <2>3 DEF ClientOK, AppOK, WireOK, DataOK, BoundOK, appVars, wireVars, dataVars, boundVars
<1> QED BY <1>3, <1>6, <1>7, <1>8, <1>9, <1>10, <1>11, <1>12, <1>13, <1>14 DEF Upkeep

\* The stream id of a handler's attempt.
LEMMA StreamIDType ==
  ASSUME AppOK, NEW a \in Apps
  PROVE  StreamID(a) \in StreamIDs /\ StreamID(a) = <<a, app[a].try>> /\ app[a].try \in Attempts
BY DEF AppOK, Handlers, StreamID, StreamIDs

\* One handler moves.
LEMMA HandlerEdited ==
  ASSUME app \in [Apps -> Handlers], NEW a \in Apps, NEW h \in Handlers, app' = [app EXCEPT ![a] = h]
  PROVE  app' \in [Apps -> Handlers] /\ app'[a] = h /\ \A b \in Apps : b # a => app'[b] = app[b]
  OBVIOUS

\* A BEGIN that failed: the circuit is closed or given back, the handler tries
\* again or gives up.
LEMMA BeginErrorFacts ==
  ASSUME ClientOK, AppOK, WireOK, BoundOK, NEW a \in Apps, app[a].cir \in Circuits, NEW kind, AfterBeginError(a, kind)
  PROVE  /\ man' \in [Circuits -> Records] /\ near' \in [Circuits -> Ends] /\ NoneBegun
         /\ reg' \in [StreamIDs -> Circuits \cup {NoCircuit}] /\ pending' \in SUBSET StreamIDs
         /\ app' \in [Apps -> Handlers]
         /\ \A b \in Apps : b # a => app'[b] = app[b]
         /\ app'[a].cir = app[a].cir /\ app'[a].pc \in {"failed", "get"}
<1> DEFINE c == app[a].cir
           h == IF UDP(a) \/ app[a].try > scope.beginRetries
                THEN [app[a] EXCEPT !.pc = "failed", !.open = FALSE]
                ELSE [app[a] EXCEPT !.pc = "get", !.try = app[a].try + 1]
<1>1. c \in Circuits /\ man[c] \in Records /\ app[a] \in Handlers
  BY DEF ClientOK, AppOK
<1>2. man' \in [Circuits -> Records] /\ near' \in [Circuits -> Ends] /\ NoneBegun
  <2>1. CASE kind = "circuit" \/ ~canReuseCircuit(c)
    BY <1>1, <2>1, CircuitClosed DEF AfterBeginError, ClientOK, WireOK
  <2>2. CASE ~(kind = "circuit" \/ ~canReuseCircuit(c))
    <3> DEFINE m == [man[c] EXCEPT !.rec = IF kind = "timeout" THEN "degraded" ELSE man[c].rec]
    <3>1. man' = [man EXCEPT ![c] = m] /\ UNCHANGED near
      BY <2>2 DEF AfterBeginError
    <3>2. m \in Records
      BY <1>1 DEF Records
    <3>3. man[c].rec # "none"
      BY <2>2 DEF canReuseCircuit
    <3> HIDE DEF m, c
    <3> QED BY <1>1, <3>1, <3>2, <3>3, RecordEdited DEF ClientOK, WireOK
  <2> QED BY <2>1, <2>2
<1>3. reg' \in [StreamIDs -> Circuits \cup {NoCircuit}] /\ pending' \in SUBSET StreamIDs
  BY DEF AfterBeginError, Unregister, AppOK
<1>4. app' = [app EXCEPT ![a] = h]
  BY DEF AfterBeginError
<1>5. h \in Handlers /\ h.cir = app[a].cir /\ h.pc \in {"failed", "get"}
  <2>1. CASE UDP(a) \/ app[a].try > scope.beginRetries
    <3>1. h = [[app[a] EXCEPT !.pc = "failed"] EXCEPT !.open = FALSE]
      BY <2>1
    <3>2. [app[a] EXCEPT !.pc = "failed"] \in Handlers /\ \A g \in Handlers : [g EXCEPT !.open = FALSE] \in Handlers
      BY <1>1 DEF Handlers
    <3>3. h \in Handlers
      BY <3>1, <3>2, Zenon
    <3>4. h.cir = app[a].cir /\ h.pc = "failed"
      BY <1>1, <2>1 DEF Handlers
    <3> QED BY <3>3, <3>4
  <2>2. CASE ~(UDP(a) \/ app[a].try > scope.beginRetries)
    <3>1. app[a].try + 1 \in Attempts
      BY <1>1, <2>2, ScopeFacts, CircuitAssumption DEF BoundOK, Handlers, Attempts
    <3> DEFINE n == app[a].try + 1
    <3>2. h = [app[a] EXCEPT !.pc = "get", !.try = n]
      BY <2>2
    <3> HIDE DEF h, n
    <3> QED BY <1>1, <3>1, <3>2 DEF Handlers, n
  <2> QED BY <2>1, <2>2
<1> HIDE DEF h
<1> QED BY <1>2, <1>3, <1>4, <1>5, HandlerEdited DEF AppOK

\* Writing BEGIN and data moves handlers from begin to wait.
LEMMA WriteFacts ==
  ASSUME AppOK, DataOK, NEW W \in SUBSET Apps, AfterWrite(W)
  PROVE  /\ app' \in [Apps -> Handlers] /\ pending' \in SUBSET StreamIDs
         /\ \A a \in Apps : /\ app'[a].cir = app[a].cir /\ app'[a].try = app[a].try /\ app'[a].open = app[a].open
                            /\ app'[a].pc = IF a \in W /\ app[a].pc = "begin" THEN "wait" ELSE app[a].pc
         /\ sent' \in [app : [StreamIDs -> Nat], remote : [StreamIDs -> Nat]]
         /\ sent'.remote = sent.remote
<1>1. \A h \in Handlers : LET g == [h EXCEPT !.pc = "wait"]
                          IN g \in Handlers /\ g.cir = h.cir /\ g.try = h.try /\ g.open = h.open /\ g.pc = "wait"
  BY DEF Handlers
<1>2. \A a \in Apps : app[a] \in Handlers
  BY DEF AppOK
<1>3. app' = [a \in Apps |-> IF a \in W /\ app[a].pc = "begin" THEN [app[a] EXCEPT !.pc = "wait"] ELSE app[a]]
  BY DEF AfterWrite
<1>4. pending' \in SUBSET StreamIDs
  BY StreamIDType DEF AfterWrite, AppOK
<1> DEFINE f == [s \in StreamIDs |-> IF \E a \in W : s = StreamID(a) /\ app[a].pc = "pump" THEN sent.app[s] + 1 ELSE sent.app[s]]
<1>5. sent' = [sent EXCEPT !.app = f]
  BY DEF AfterWrite
<1>6. f \in [StreamIDs -> Nat]
  BY DEF DataOK
<1> HIDE DEF f
<1>7. sent' \in [app : [StreamIDs -> Nat], remote : [StreamIDs -> Nat]] /\ sent'.remote = sent.remote
  BY <1>5, <1>6 DEF DataOK
<1> QED BY <1>1, <1>2, <1>3, <1>4, <1>7

\* What a client sends is a frame.
LEMMA OutgoingType ==
  ASSUME ClientOK, NEW c \in Circuits, NEW f \in Frames
  PROVE  Outgoing(c, f) \in Frames
<1>1. man[c].hops \in 0..2
  BY DEF ClientOK, Records
<1> DEFINE l == WrapForward(man[c].hops, f.type, f.stream).layers
<1>2. f.type \in FrameTypes /\ f.stream \in StreamIDs \cup {None} /\ (f.type = "begin" => f.stream \in StreamIDs)
  BY DEF Frames
<1>3. WrapForward(man[c].hops, f.type, f.stream) \in Frames
  BY <1>1, <1>2, FramesTyped, Zenon
<1>4. \A g \in Frames : g.layers \in {<<>>, <<0>>, <<1>>, <<0, 1>>}
  BY DEF Frames
<1>5. l \in {<<>>, <<0>>, <<1>>, <<0, 1>>}
  BY <1>3, <1>4, Zenon
<1>6. Outgoing(c, f) = f \/ Outgoing(c, f) = [f EXCEPT !.layers = l]
  BY DEF Outgoing
<1> HIDE DEF l
<1> QED BY <1>5, <1>6 DEF Frames

\* A frame the client sends leaves a typed queue: it is lost, or sealed and appended.
LEMMA SendType ==
  ASSUME ClientOK, WireOK, NEW c \in Circuits, NEW f \in Frames, Send(c, f)
  PROVE  up' \in [Circuits -> Seq(Frames)]
<1> DEFINE g == Outgoing(c, f)
<1>1. up' = up \/ up' = [up EXCEPT ![c] = Append(up[c], g)]
  BY DEF Send, WireOK
<1>2. g \in Frames
  BY OutgoingType
<1> HIDE DEF g
<1>3. up[c] \in Seq(Frames)
  BY DEF WireOK
<1>4. Append(up[c], g) \in Seq(Frames)
  BY <1>2, <1>3, QueueFacts
<1> QED BY <1>1, <1>4 DEF WireOK

\* The SOCKS5 handlers and the applications behind them.
Serving ==
    \E a \in Apps : Handler(a) \/ AppLeaves(a) \/ \E b \in Apps : Clash(a, b)

\* What the handlers leave alone.
LEMMA ServingTouches ==
  ASSUME Serving
  PROVE  UNCHANGED <<health, sel, bld, plan, hb, far, down, rel, nxt, up2, down2, ex, conn, policy, heard, faults, changes, scope>>
<1> DEFINE still == UNCHANGED <<health, sel, bld, plan, hb, far, down, rel, nxt, up2, down2, ex, conn, policy, heard, faults, changes, scope>>
<1>1. ASSUME NEW a \in Apps, Acquire(a) \/ RegisterStream(a) \/ BeginRefused(a) \/ Write(a) PROVE still
  BY <1>1 DEF Acquire, RegisterStream, BeginRefused, Write, clientVars, wireVars, relayVars, exitVars, dataVars, boundVars
<1>2. ASSUME NEW a \in Apps, BeginSucceeds(a) \/ BeginFails(a) \/ BeginTimeout(a) \/ Reply(a) \/ PumpEnds(a) PROVE still
  BY <1>2 DEF BeginSucceeds, BeginFails, BeginTimeout, Reply, PumpEnds, clientVars, wireVars, relayVars, exitVars, dataVars, boundVars
<1>3. ASSUME NEW a \in Apps, AppLeaves(a) \/ \E b \in Apps : Clash(a, b) PROVE still
  BY <1>3 DEF AppLeaves, Clash, clientVars, wireVars, relayVars, exitVars, dataVars, boundVars
<1> HIDE DEF still
<1>4. still
  BY <1>1, <1>2, <1>3 DEF Serving, Handler
<1> QED BY <1>4 DEF still

\* The steps of the connection handlers, of the applications and of two handlers that
\* meet in one stream id keep the types and the plans.
LEMMA ServingStep ==
  ASSUME Safe, Serving
  PROVE  Safe'
<1>1. ClientOK /\ AppOK /\ WireOK /\ RelayOK /\ ExitOK /\ DataOK /\ BoundOK /\ Planned
  BY TypeParts DEF Safe
<1> SUFFICES ClientOK' /\ AppOK' /\ WireOK' /\ RelayOK' /\ ExitOK' /\ DataOK' /\ BoundOK' /\ Planned'
  BY TypeParts DEF Safe, TypeOK, ClientOK, AppOK, WireOK, RelayOK, ExitOK, DataOK, BoundOK
<1>2. UNCHANGED <<health, sel, bld, plan, hb, far, down, rel, nxt, up2, down2, ex, conn, policy, heard, faults, changes, scope>>
  BY ServingTouches
<1>3. RelayOK' /\ ExitOK' /\ BoundOK'
  BY <1>1, <1>2 DEF RelayOK, ExitOK, BoundOK
<1>4. ASSUME NoneBegun,
             \A a \in Apps : app'[a].pc \in {"register", "begin", "wait", "reply", "pump"} \/ app'[a].try > 1 =>
                                app'[a].cir \in Circuits /\ plan[app'[a].cir] # NoPlan
      PROVE  Planned'
  BY <1>1, <1>2, <1>4, PlannedStays DEF Planned
<1>5. UNCHANGED man => NoneBegun
  BY DEF NoneBegun
<1>6. ASSUME NEW a \in Apps, NEW h \in Handlers, app' = [app EXCEPT ![a] = h], NoneBegun,
             \/ h.cir = app[a].cir /\ h.pc \in {"ended", "failed"} /\ h.try = app[a].try
             \/ h.cir = app[a].cir /\ app[a].pc \in {"register", "begin", "wait", "reply", "pump"}
             \/ h.cir \in Circuits /\ plan[h.cir] # NoPlan
      PROVE  app' \in [Apps -> Handlers] /\ Planned'
  <2>1. app' \in [Apps -> Handlers] /\ app'[a] = h /\ \A b \in Apps : b # a => app'[b] = app[b]
    BY <1>1, <1>6, HandlerEdited DEF AppOK
  <2> QED BY <1>1, <1>4, <1>6, <2>1 DEF Planned
<1>7. \A a \in Apps : /\ app[a] \in Handlers /\ StreamID(a) \in StreamIDs
                      /\ app[a].pc \in {"register", "begin", "wait", "reply", "pump"} =>
                            /\ app[a].cir \in Circuits /\ plan[app[a].cir] # NoPlan /\ man[app[a].cir] \in Records
  BY <1>1, StreamIDType DEF AppOK, ClientOK, Planned
<1>8. \A h \in Handlers : \A p \in {"register", "begin", "pump", "reply", "ended", "failed"} :
         /\ [h EXCEPT !.pc = p] \in Handlers /\ [h EXCEPT !.pc = p].pc = p
         /\ [h EXCEPT !.pc = p].cir = h.cir /\ [h EXCEPT !.pc = p].try = h.try
  BY DEF Handlers
<1>9. ASSUME NEW a \in Apps, Acquire(a)
      PROVE  ClientOK' /\ AppOK' /\ WireOK' /\ DataOK' /\ Planned'
  <2>1. UNCHANGED <<clientVars, reg, pending, answer, wireVars, dataVars>>
    BY <1>9 DEF Acquire
  <2>2. AppOK' /\ Planned'
    <3>1. ASSUME NEW c \in Circuits, canReuseCircuit(c), app' = [app EXCEPT ![a].pc = "register", ![a].cir = c]
          PROVE  app' \in [Apps -> Handlers] /\ Planned'
      <4> DEFINE h == [app[a] EXCEPT !.pc = "register", !.cir = c]
      <4>1. app' = [app EXCEPT ![a] = h]
        BY <1>1, <3>1 DEF AppOK
      <4>2. h \in Handlers /\ h.cir = c
        BY <1>7 DEF Handlers
      <4>3. plan[c] # NoPlan
        BY <1>1, <3>1 DEF canReuseCircuit, Planned
      <4> HIDE DEF h
      <4> QED BY <1>5, <1>6, <2>1, <4>1, <4>2, <4>3 DEF clientVars
    <3>2. ASSUME app' = [app EXCEPT ![a].pc = "failed", ![a].open = FALSE]
          PROVE  app' \in [Apps -> Handlers] /\ Planned'
      <4> DEFINE h == [[app[a] EXCEPT !.pc = "failed"] EXCEPT !.open = FALSE]
      <4>1. app' = [app EXCEPT ![a] = h]
        BY <1>1, <3>2 DEF AppOK
      <4>2. \A g \in Handlers : /\ [g EXCEPT !.open = FALSE] \in Handlers /\ [g EXCEPT !.open = FALSE].pc = g.pc
                                /\ [g EXCEPT !.open = FALSE].cir = g.cir /\ [g EXCEPT !.open = FALSE].try = g.try
        BY DEF Handlers
      <4>3. app[a] \in Handlers /\ "failed" \in {"register", "begin", "pump", "reply", "ended", "failed"}
        BY <1>7
      <4>4. LET g == [app[a] EXCEPT !.pc = "failed"]
            IN g \in Handlers /\ g.pc = "failed" /\ g.cir = app[a].cir /\ g.try = app[a].try
        BY <1>8, <4>3, Zenon
      <4>5. h \in Handlers /\ h.cir = app[a].cir /\ h.try = app[a].try /\ h.pc = "failed"
        BY <4>2, <4>4, Zenon
      <4> HIDE DEF h
      <4> QED BY <1>5, <1>6, <2>1, <4>1, <4>5 DEF clientVars
    <3> QED BY <1>1, <1>9, <2>1, <3>1, <3>2 DEF Acquire, AppOK
  <2> QED BY <1>1, <1>2, <2>1, <2>2 DEF ClientOK, WireOK, DataOK, clientVars, wireVars, dataVars
<1>10. ASSUME NEW a \in Apps, RegisterStream(a)
       PROVE  ClientOK' /\ AppOK' /\ WireOK' /\ DataOK' /\ Planned'
  <2>1. /\ UNCHANGED <<clientVars, pending, answer, wireVars, dataVars>> /\ app[a].pc = "register"
        /\ app' = [app EXCEPT ![a] = [app[a] EXCEPT !.pc = "begin"]]
        /\ reg' = [reg EXCEPT ![StreamID(a)] = app[a].cir]
    BY <1>10 DEF RegisterStream
  <2>2. app' \in [Apps -> Handlers] /\ Planned'
    <3> DEFINE h == [app[a] EXCEPT !.pc = "begin"]
    <3>1. h \in Handlers /\ h.cir = app[a].cir
      BY <1>7, <1>8
    <3> HIDE DEF h
    <3> QED BY <1>5, <1>6, <2>1, <3>1 DEF clientVars, h
  <2>3. reg' \in [StreamIDs -> Circuits \cup {NoCircuit}]
    BY <1>1, <1>7, <2>1 DEF AppOK
  <2> QED BY <1>1, <1>2, <2>1, <2>2, <2>3 DEF ClientOK, AppOK, WireOK, DataOK, clientVars, wireVars, dataVars
<1>11. ASSUME NEW a \in Apps, NEW kind, AfterBeginError(a, kind), app[a].pc \in {"begin", "wait"}, UNCHANGED <<answer, up, dataVars>>
       PROVE  ClientOK' /\ AppOK' /\ WireOK' /\ DataOK' /\ Planned'
  <2>1. app[a].cir \in Circuits /\ plan[app[a].cir] # NoPlan
    BY <1>7, <1>11
  <2>2. /\ man' \in [Circuits -> Records] /\ near' \in [Circuits -> Ends] /\ NoneBegun
        /\ reg' \in [StreamIDs -> Circuits \cup {NoCircuit}] /\ pending' \in SUBSET StreamIDs
        /\ app' \in [Apps -> Handlers]
        /\ \A b \in Apps : b # a => app'[b] = app[b]
        /\ app'[a].cir = app[a].cir /\ app'[a].pc \in {"failed", "get"}
    BY <1>1, <1>11, <2>1, BeginErrorFacts
  <2>3. Planned'
    BY <1>1, <1>4, <2>1, <2>2 DEF Planned
  <2> QED BY <1>1, <1>2, <1>11, <2>2, <2>3 DEF ClientOK, AppOK, WireOK, DataOK, dataVars
<1>12. ASSUME NEW W \in SUBSET Apps, AfterWrite(W), up' \in [Circuits -> Seq(Frames)],
              UNCHANGED <<clientVars, reg, answer, near>>
       PROVE  ClientOK' /\ AppOK' /\ WireOK' /\ DataOK' /\ Planned'
  <2>1. /\ app' \in [Apps -> Handlers] /\ pending' \in SUBSET StreamIDs
        /\ \A a \in Apps : /\ app'[a].cir = app[a].cir /\ app'[a].try = app[a].try
                           /\ app'[a].pc = IF a \in W /\ app[a].pc = "begin" THEN "wait" ELSE app[a].pc
        /\ sent' \in [app : [StreamIDs -> Nat], remote : [StreamIDs -> Nat]]
    BY <1>1, <1>12, WriteFacts
  <2>2. Planned'
    BY <1>1, <1>4, <1>5, <1>12, <2>1 DEF Planned, clientVars
  <2> QED BY <1>1, <1>2, <1>12, <2>1, <2>2 DEF ClientOK, AppOK, WireOK, DataOK, clientVars
<1>13. ASSUME NEW a \in Apps, Write(a)
       PROVE  ClientOK' /\ AppOK' /\ WireOK' /\ DataOK' /\ Planned'
  <2>1. app[a].cir \in Circuits
    BY <1>7, <1>13 DEF Write, WritesBegin, WritesData
  <2>2. Written(a) \in Frames
    <3>1. StreamID(a) \in StreamIDs /\ sent.app[StreamID(a)] + 1 \in Nat
      BY <1>1, <1>7 DEF DataOK
    <3>2. Frame("begin", StreamID(a)) \in Frames /\ Data(StreamID(a), sent.app[StreamID(a)] + 1) \in Frames
      BY <3>1, FramesTyped DEF FrameTypes
    <3> QED BY <3>2 DEF Written
  <2>3. up' \in [Circuits -> Seq(Frames)]
    BY <1>1, <1>13, <2>1, <2>2, SendType DEF Write
  <2> QED BY <1>12, <1>13, <2>3 DEF Write
<1>14. ASSUME NEW a \in Apps, NEW b \in Apps, Clash(a, b)
       PROVE  ClientOK' /\ AppOK' /\ WireOK' /\ DataOK' /\ Planned'
  <2> DEFINE q == Append(up[app[a].cir], Garbled)
  <2>1. app[a].cir \in Circuits
    BY <1>7, <1>14 DEF Clash, WritesBegin, WritesData
  <2>2. up' = up \/ up' = [up EXCEPT ![app[a].cir] = q]
    BY <1>14 DEF Clash
  <2>3. q \in Seq(Frames)
    BY <1>1, <2>1, QueueFacts, FramesTyped DEF WireOK
  <2> HIDE DEF q
  <2>4. up' \in [Circuits -> Seq(Frames)]
    BY <1>1, <2>2, <2>3 DEF WireOK
  <2>5. AfterWrite({a, b}) /\ {a, b} \in SUBSET Apps /\ UNCHANGED <<clientVars, reg, answer, near>>
    BY <1>14 DEF Clash
  <2> QED BY <1>12, <2>4, <2>5
<1>15. ASSUME NEW a \in Apps, BeginSucceeds(a)
       PROVE  ClientOK' /\ AppOK' /\ WireOK' /\ DataOK' /\ Planned'
  <2> DEFINE c == app[a].cir
             m == IF man[c].rec = "none" THEN man[c] ELSE [man[c] EXCEPT !.rec = "open", !.fails = 0]
             h == [app[a] EXCEPT !.pc = IF UDP(a) THEN "pump" ELSE "reply"]
  <2>1. /\ UNCHANGED <<reg, pending, answer, wireVars, dataVars>> /\ app[a].pc = "wait"
        /\ app' = [app EXCEPT ![a] = h] /\ man' = [man EXCEPT ![c] = m]
    BY <1>15 DEF BeginSucceeds
  <2>2. c \in Circuits /\ man[c] \in Records
    BY <1>7, <2>1
  <2>3. m \in Records /\ (man[c].rec = "none" => m = man[c])
    BY <2>2, Edits
  <2>4. h \in Handlers /\ h.cir = c
    <3>1. app[a] \in Handlers /\ (IF UDP(a) THEN "pump" ELSE "reply") \in {"register", "begin", "pump", "reply", "ended", "failed"}
      BY <1>7
    <3> QED BY <1>8, <3>1, Zenon
  <2> HIDE DEF c, m, h
  <2>5. man' \in [Circuits -> Records] /\ NoneBegun
    BY <1>1, <2>1, <2>2, <2>3, RecordEdited DEF ClientOK
  <2>6. app' \in [Apps -> Handlers] /\ Planned'
    BY <1>6, <2>1, <2>4, <2>5 DEF c
  <2> QED BY <1>1, <1>2, <2>1, <2>5, <2>6 DEF ClientOK, AppOK, WireOK, DataOK, wireVars, dataVars
<1>16. ASSUME NEW a \in Apps, Reply(a)
       PROVE  ClientOK' /\ AppOK' /\ WireOK' /\ DataOK' /\ Planned'
  <2> DEFINE c == app[a].cir
  <2>1. app[a].pc = "reply" /\ UNCHANGED <<pending, answer, up, dataVars>> /\ c \in Circuits /\ man[c] \in Records
    BY <1>7, <1>16 DEF Reply
  <2>2. /\ \E p \in {"pump", "ended"} : app' = [app EXCEPT ![a] = [app[a] EXCEPT !.pc = p]]
        /\ UNCHANGED <<man, near>> \/ CloseCircuit(c)
        /\ reg' = reg \/ reg' = [reg EXCEPT ![StreamID(a)] = NoCircuit]
    BY <1>16 DEF Reply
  <2>3. man' \in [Circuits -> Records] /\ near' \in [Circuits -> Ends] /\ NoneBegun
    BY <1>1, <1>5, <2>1, <2>2, CircuitClosed DEF ClientOK, WireOK
  <2>4. app' \in [Apps -> Handlers] /\ Planned'
    <3>1. PICK p \in {"pump", "ended"} : app' = [app EXCEPT ![a] = [app[a] EXCEPT !.pc = p]]
      BY <2>2
    <3> DEFINE h == [app[a] EXCEPT !.pc = p]
    <3>2. h \in Handlers /\ h.cir = c
      <4>1. app[a] \in Handlers /\ p \in {"register", "begin", "pump", "reply", "ended", "failed"}
        BY <1>7
      <4> QED BY <1>8, <4>1, Zenon
    <3> HIDE DEF h
    <3> QED BY <1>6, <2>1, <2>3, <3>1, <3>2 DEF h
  <2>5. reg' \in [StreamIDs -> Circuits \cup {NoCircuit}]
    BY <1>1, <2>2 DEF AppOK
  <2> QED BY <1>1, <1>2, <2>1, <2>3, <2>4, <2>5 DEF ClientOK, AppOK, WireOK, DataOK, dataVars
<1>17. ASSUME NEW a \in Apps, PumpEnds(a)
       PROVE  ClientOK' /\ AppOK' /\ WireOK' /\ DataOK' /\ Planned'
  <2>1. /\ app[a].pc = "pump" /\ UNCHANGED <<clientVars, pending, answer, near, dataVars>> /\ app[a].cir \in Circuits
        /\ app' = [app EXCEPT ![a] = [app[a] EXCEPT !.pc = "ended"]]
        /\ reg' = reg \/ reg' = [reg EXCEPT ![StreamID(a)] = NoCircuit]
        /\ UNCHANGED up \/ Send(app[a].cir, Frame("end", StreamID(a)))
    BY <1>7, <1>17 DEF PumpEnds, Unregister
  <2>2. Frame("end", StreamID(a)) \in Frames
    BY <1>7, FramesTyped DEF FrameTypes
  <2>3. WireOK'
    BY <1>1, <1>2, <2>1, <2>2, SendType DEF WireOK
  <2>4. app' \in [Apps -> Handlers] /\ Planned'
    <3> DEFINE h == [app[a] EXCEPT !.pc = "ended"]
    <3>1. h \in Handlers /\ h.cir = app[a].cir
      BY <1>7, <1>8
    <3> HIDE DEF h
    <3> QED BY <1>5, <1>6, <2>1, <3>1 DEF h, clientVars
  <2>5. reg' \in [StreamIDs -> Circuits \cup {NoCircuit}]
    BY <1>1, <2>1 DEF AppOK
  <2> QED BY <1>1, <1>2, <2>1, <2>3, <2>4, <2>5 DEF ClientOK, AppOK, DataOK, clientVars, dataVars
<1>18. ASSUME NEW a \in Apps, AppLeaves(a)
       PROVE  ClientOK' /\ AppOK' /\ WireOK' /\ DataOK' /\ Planned'
  <2>1. /\ app[a].pc \in {"wait", "reply", "pump"} /\ UNCHANGED <<clientVars, reg, pending, answer, wireVars, dataVars>>
        /\ app' = [app EXCEPT ![a] = [app[a] EXCEPT !.open = FALSE]]
    BY <1>18 DEF AppLeaves
  <2>2. app' \in [Apps -> Handlers] /\ Planned'
    <3> DEFINE h == [app[a] EXCEPT !.open = FALSE]
    <3>1. h \in Handlers /\ h.cir = app[a].cir
      BY <1>7 DEF Handlers
    <3> HIDE DEF h
    <3> QED BY <1>5, <1>6, <2>1, <3>1 DEF h, clientVars
  <2> QED BY <1>1, <1>2, <2>1, <2>2 DEF ClientOK, AppOK, WireOK, DataOK, clientVars, wireVars, dataVars
<1>19. ASSUME NEW a \in Apps, BeginRefused(a) \/ BeginFails(a) \/ BeginTimeout(a)
       PROVE  ClientOK' /\ AppOK' /\ WireOK' /\ DataOK' /\ Planned'
  BY <1>11, <1>19 DEF BeginRefused, BeginFails, BeginTimeout
<1> QED BY <1>3, <1>9, <1>10, <1>13, <1>14, <1>15, <1>16, <1>17, <1>18, <1>19 DEF Serving, Handler

\* One queue of many is read, written or emptied.
Edited(v, w, c, F) ==
    \/ w = v \/ w = [v EXCEPT ![c] = <<>>]
    \/ v[c] # <<>> /\ w = [v EXCEPT ![c] = Tail(v[c])]
    \/ \E f \in F : w = [v EXCEPT ![c] = Append(v[c], f)] \/ w = [v EXCEPT ![c] = <<f>>]

\* A family of queues stays typed under each of these edits.
LEMMA QueueEdits ==
  ASSUME NEW v \in [Circuits -> Seq(Frames)], NEW c \in Circuits, NEW w, Edited(v, w, c, Frames)
  PROVE  w \in [Circuits -> Seq(Frames)]
<1>1. \A q \in Seq(Frames) : [v EXCEPT ![c] = q] \in [Circuits -> Seq(Frames)]
  OBVIOUS
<1>2. v[c] \in Seq(Frames)
  OBVIOUS
<1>3. v[c] # <<>> => Tail(v[c]) \in Seq(Frames)
  BY <1>2, QueueFacts
<1>4. \A f \in Frames : Append(v[c], f) \in Seq(Frames) /\ <<f>> \in Seq(Frames)
  BY <1>2, QueueFacts
<1>5. <<>> \in Seq(Frames)
  OBVIOUS
<1> QED BY <1>1, <1>3, <1>4, <1>5 DEF Edited

\* What the exit takes from its stream and puts into it.
LEMMA TookType ==
  ASSUME WireOK, RelayOK, NEW c \in Circuits, Inbox(c) # <<>>
  PROVE  /\ Head(Inbox(c)) \in Frames
         /\ Took(c) => up' \in [Circuits -> Seq(Frames)] /\ up2' \in [Circuits -> Seq(Frames)]
<1>1. up[c] \in Seq(Frames) /\ up2[c] \in Seq(Frames)
  BY DEF WireOK, RelayOK
<1>2. Inbox(c) \in Seq(Frames)
  BY <1>1 DEF Inbox
<1>3. Head(Inbox(c)) \in Frames
  BY <1>2, QueueFacts
<1>4. ASSUME Took(c) PROVE up' \in [Circuits -> Seq(Frames)] /\ up2' \in [Circuits -> Seq(Frames)]
  <2>1. CASE ExitServes(c)
    <3>1. Tail(up[c]) \in Seq(Frames) /\ up' = [up EXCEPT ![c] = Tail(up[c])] /\ up2' = up2
      BY <1>1, <1>4, <2>1, QueueFacts DEF Took, Inbox
    <3> QED BY <3>1 DEF WireOK, RelayOK
  <2>2. CASE ~ExitServes(c)
    <3>1. Tail(up2[c]) \in Seq(Frames) /\ up2' = [up2 EXCEPT ![c] = Tail(up2[c])] /\ up' = up
      BY <1>1, <1>4, <2>2, QueueFacts DEF Took, Inbox
    <3> QED BY <3>1 DEF WireOK, RelayOK
  <2> QED BY <2>1, <2>2
<1> QED BY <1>3, <1>4

\* What the exit sends back joins one of the two typed queues.
LEMMA RepliesType ==
  ASSUME WireOK, RelayOK, NEW c \in Circuits, NEW f \in Frames, ExitReplies(c, f)
  PROVE  down' \in [Circuits -> Seq(Frames)] /\ down2' \in [Circuits -> Seq(Frames)]
<1>1. Append(down[c], f) \in Seq(Frames) /\ Append(down2[c], f) \in Seq(Frames)
  BY QueueFacts DEF WireOK, RelayOK
<1>2. \/ down' = down /\ down2' = down2
      \/ down' = [down EXCEPT ![c] = Append(down[c], f)] /\ down2' = down2
      \/ down2' = [down2 EXCEPT ![c] = Append(down2[c], f)] /\ down' = down
  BY DEF ExitReplies, WireOK
<1> QED BY <1>1, <1>2 DEF WireOK, RelayOK

\* The end of the exit's loop keeps the types, and touches the entry of one circuit only.
LEMMA ReturnsType ==
  ASSUME WireOK, RelayOK, ex \in [Circuits -> Exits], NEW c \in Circuits, ExitReturns(c)
  PROVE  /\ ex' \in [Circuits -> Exits] /\ far' \in [Circuits -> Ends]
         /\ up' \in [Circuits -> Seq(Frames)] /\ up2' \in [Circuits -> Seq(Frames)]
         /\ \A d \in Circuits : d # c => ex'[d] = ex[d]
<1> DEFINE e == ServeAt("done")
<1>1. e \in Exits
  BY Edits, Zenon
<1>2. ex' = [ex EXCEPT ![c] = e]
  BY DEF ExitReturns
<1> HIDE DEF e
<1>3. ex' \in [Circuits -> Exits] /\ \A d \in Circuits : d # c => ex'[d] = ex[d]
  BY <1>1, <1>2
<1>4. far' \in [Circuits -> Ends]
  BY DEF ExitReturns, WireOK, Ends
<1>5. /\ up' = up \/ up' = [up EXCEPT ![c] = <<>>]
      /\ up2' = up2 \/ up2' = [up2 EXCEPT ![c] = <<>>]
  BY DEF ExitReturns
<1>6. Edited(up, up', c, Frames) /\ Edited(up2, up2', c, Frames)
  BY <1>5 DEF Edited
<1>7. up' \in [Circuits -> Seq(Frames)] /\ up2' \in [Circuits -> Seq(Frames)]
  BY <1>6, QueueEdits DEF WireOK, RelayOK
<1> QED BY <1>3, <1>4, <1>7

\* The relay's goroutines.
LEMMA RelayStep ==
  ASSUME Safe, NEW c \in Circuits, Relay(c)
  PROVE  Safe'
<1>1. ClientOK /\ AppOK /\ WireOK /\ RelayOK /\ ExitOK /\ DataOK /\ BoundOK /\ Planned
  BY TypeParts DEF Safe
<1> SUFFICES ClientOK' /\ AppOK' /\ WireOK' /\ RelayOK' /\ ExitOK' /\ DataOK' /\ BoundOK' /\ Planned'
  BY TypeParts DEF Safe, TypeOK, ClientOK, AppOK, WireOK, RelayOK, ExitOK, DataOK, BoundOK
<1>2. UNCHANGED <<clientVars, appVars, near, conn, policy, dataVars, boundVars>>
  BY DEF Relay, RelayHandshake, RelayForward, RelayBackward, RelayPumpEnds, RelayEnds, wireVars, exitVars
<1>3. ClientOK' /\ AppOK' /\ DataOK' /\ BoundOK'
  BY <1>1, <1>2 DEF ClientOK, AppOK, DataOK, BoundOK, clientVars, appVars, dataVars, boundVars
<1>4. ASSUME \A d \in Circuits : rel'[d] # "none" \/ ex'[d].pc # "none" => rel[d] # "none" \/ ex[d].pc # "none"
      PROVE  Planned'
  <2>1. NoneBegun
    BY <1>2 DEF NoneBegun, clientVars
  <2> QED BY <1>1, <1>2, <1>4, <2>1, PlannedStays DEF Planned, clientVars, appVars
<1>5. up[c] \in Seq(Frames) /\ (up[c] # <<>> => Head(up[c]) \in Frames)
  BY <1>1, QueueFacts DEF WireOK
<1>6. /\ Edited(up, up', c, Frames) => up' \in [Circuits -> Seq(Frames)]
      /\ Edited(down, down', c, Frames) => down' \in [Circuits -> Seq(Frames)]
      /\ Edited(up2, up2', c, Frames) => up2' \in [Circuits -> Seq(Frames)]
      /\ Edited(down2, down2', c, Frames) => down2' \in [Circuits -> Seq(Frames)]
  BY <1>1, QueueEdits DEF WireOK, RelayOK
<1>7. \A t \in FrameTypes \ {"begin"} : Frame(t, None) \in Frames
  BY FramesTyped
<1>8. CASE RelayHandshake(c)
  <2> DEFINE f == Frame("resp", None)
  <2>1. /\ rel[c] = "first" /\ up[c] # <<>> /\ up' = [up EXCEPT ![c] = Tail(up[c])] /\ rel' = [rel EXCEPT ![c] = "run"]
        /\ down' = down \/ down' = [down EXCEPT ![c] = Append(down[c], f)]
        /\ UNCHANGED <<near, far, nxt, up2, down2, ex, conn, policy>>
    BY <1>1, <1>8 DEF RelayHandshake, exitVars, WireOK
  <2>2. f \in Frames
    BY <1>7 DEF FrameTypes
  <2> HIDE DEF f
  <2>3. up' \in [Circuits -> Seq(Frames)] /\ down' \in [Circuits -> Seq(Frames)]
    BY <1>6, <2>1, <2>2 DEF Edited
  <2>4. rel' \in [Circuits -> {"none", "first", "run", "done"}] /\ Planned'
    BY <1>1, <1>4, <2>1 DEF RelayOK
  <2> QED BY <1>1, <1>3, <2>1, <2>3, <2>4 DEF WireOK, RelayOK, ExitOK
<1>9. CASE RelayForward(c)
  <2> DEFINE f == Head(up[c])
             onward == IF f.type = "extend" THEN Frame("init", None) ELSE Peeled(f)
             e == ServeAt("first")
  <2>1. /\ rel[c] = "run" /\ up[c] # <<>> /\ up' = [up EXCEPT ![c] = Tail(up[c])]
        /\ UNCHANGED <<near, far, down, rel, conn, policy>>
        /\ \/ UNCHANGED <<nxt, ex, up2, down2>>
           \/ /\ Opens(f) /\ nxt' = [nxt EXCEPT ![c] = TRUE]
              /\ \/ UNCHANGED <<ex, down2>>
                 \/ ex' = [ex EXCEPT ![c] = e] /\ down2' = [down2 EXCEPT ![c] = <<>>]
              /\ \/ up2' = [up2 EXCEPT ![c] = <<onward>>]
                 \/ up2' = up2
                 \/ up2' = [up2 EXCEPT ![c] = Append(up2[c], onward)]
    BY <1>1, <1>9 DEF RelayForward, RelayOK
  <2>2. Opens(f) => onward \in Frames
    BY <1>5, <1>7, <2>1, FramesTyped DEF FrameTypes
  <2>3. e \in Exits
    BY Edits, Zenon
  <2> HIDE DEF f, onward, e
  <2>4. up2' \in [Circuits -> Seq(Frames)] /\ down2' \in [Circuits -> Seq(Frames)] /\ nxt' \in [Circuits -> BOOLEAN]
    <3>1. up2' \in [Circuits -> Seq(Frames)] /\ down2' \in [Circuits -> Seq(Frames)]
      BY <1>6, <2>1, <2>2 DEF Edited
    <3>2. nxt' \in [Circuits -> BOOLEAN]
      BY <1>1, <2>1 DEF RelayOK
    <3> QED BY <3>1, <3>2
  <2>5. up' \in [Circuits -> Seq(Frames)]
    BY <1>6, <2>1 DEF Edited
  <2>6. ex' \in [Circuits -> Exits] /\ \A d \in Circuits : d # c => ex'[d] = ex[d]
    BY <1>1, <2>1, <2>3 DEF ExitOK
  <2>7. Planned'
    BY <1>4, <2>1, <2>6
  <2> QED BY <1>1, <1>3, <2>1, <2>4, <2>5, <2>6, <2>7 DEF WireOK, RelayOK, ExitOK
<1>10. CASE RelayBackward(c)
  <2> DEFINE f == Frame("extended", None)
  <2>1. /\ down2[c] # <<>> /\ down2' = [down2 EXCEPT ![c] = Tail(down2[c])]
        /\ down' = down \/ down' = [down EXCEPT ![c] = Append(down[c], f)]
        /\ UNCHANGED <<near, far, up, rel, nxt, up2, ex, conn, policy>>
    BY <1>1, <1>10 DEF RelayBackward, exitVars, WireOK
  <2>2. f \in Frames
    BY <1>7 DEF FrameTypes
  <2> HIDE DEF f
  <2>3. down2' \in [Circuits -> Seq(Frames)] /\ down' \in [Circuits -> Seq(Frames)]
    BY <1>6, <2>1, <2>2 DEF Edited
  <2> QED BY <1>1, <1>3, <1>4, <2>1, <2>3 DEF WireOK, RelayOK, ExitOK
<1>11. CASE RelayPumpEnds(c)
  BY <1>1, <1>3, <1>4, <1>11 DEF RelayPumpEnds, WireOK, RelayOK, ExitOK, wireVars, exitVars
<1>12. CASE RelayEnds(c)
  <2>1. /\ rel[c] # "none" /\ rel' = [rel EXCEPT ![c] = "done"] /\ far' = [far EXCEPT ![c] = "closed"]
        /\ up' = [up EXCEPT ![c] = <<>>] /\ UNCHANGED <<near, down, nxt, up2, down2, ex, conn, policy>>
    BY <1>12 DEF RelayEnds, exitVars
  <2>2. up' \in [Circuits -> Seq(Frames)]
    BY <1>6, <2>1 DEF Edited
  <2> QED BY <1>1, <1>3, <1>4, <2>1, <2>2 DEF WireOK, RelayOK, ExitOK, Ends
<1> QED BY <1>8, <1>9, <1>10, <1>11, <1>12 DEF Relay

\* A goroutine of the exit that has opened no connection leaves the rest alone.
LEMMA ExitEdited ==
  ASSUME Planned, UNCHANGED <<plan, bld, man, app, rel>>, NEW c \in Circuits, ex[c].pc # "none" \/ rel[c] # "none",
         \A d \in Circuits : d # c => ex'[d] = ex[d],
         \A s \in StreamIDs : conn'[s].state # "none" =>
             \/ conn[s].state # "none" /\ conn'[s].cir = conn[s].cir
             \/ conn'[s].cir = c
  PROVE  Planned'
<1>1. plan[c] # NoPlan
  BY DEF Planned
<1>2. NoneBegun
  BY DEF NoneBegun
<1>3. \A s \in StreamIDs : conn'[s].state # "none" => conn'[s].cir \in Circuits /\ plan[conn'[s].cir] # NoPlan
  BY <1>1 DEF Planned
<1> QED BY <1>2, <1>3, PlannedStays DEF Planned

\* The states a check begins in and moves through, and the connection it ends with.
LEMMA ExitStates ==
  /\ \A s \in StreamIDs : \A p \in Policies : \A pc \in {"check", "dial"} :
        [ServeAt(pc) EXCEPT !.s = s, !.rule = 1, !.seen = {p}] \in Exits
  /\ \A e \in Exits : \A c \in Circuits : \A k \in AddressClasses :
        [state |-> "open", cir |-> c, under |-> e.seen, checked |-> e.addrs, to |-> k] \in Connections
  /\ \A e \in Exits : \A p \in Policies : [e EXCEPT !.seen = e.seen \cup {p}] \in Exits
<1>1. Len(Rules) = 7 /\ DOMAIN Rules = 1..7
  BY DEF Rules
<1>2. ASSUME NEW s \in StreamIDs, NEW p \in Policies, NEW pc \in {"check", "dial"}
      PROVE  [ServeAt(pc) EXCEPT !.s = s, !.rule = 1, !.seen = {p}] \in Exits
  <2> DEFINE R == [pc : {"none", "first", "enc", "direct", "dial", "done"} \cup Checking, s : StreamIDs \cup {None},
                   rule : Nat, seen : SUBSET Policies, addrs : Seq(AddressClasses)]
  <2>1. PICK b : b = ServeAt(pc)
    OBVIOUS
  <2>2. b \in R /\ b.pc = pc
    <3>1. <<>> \in Seq(AddressClasses)
      OBVIOUS
    <3> QED BY <2>1, <3>1 DEF ServeAt, Checking
  <2>3. PICK e : e = [b EXCEPT !.s = s]
    OBVIOUS
  <2>4. e \in R /\ e.pc = pc /\ e.s = s
    BY <2>2, <2>3
  <2>5. PICK g : g = [e EXCEPT !.rule = 1]
    OBVIOUS
  <2>6. g \in R /\ g.pc = pc /\ g.s = s /\ g.rule = 1
    BY <2>4, <2>5
  <2>7. PICK h : h = [g EXCEPT !.seen = {p}]
    OBVIOUS
  <2>8. h \in R /\ h.pc = pc /\ h.s = s /\ h.rule = 1
    BY <2>6, <2>7
  <2>9. h \in Exits
    BY <1>1, <2>8 DEF Exits
  <2> QED BY <2>1, <2>3, <2>5, <2>7, <2>9
<1>3. ASSUME NEW e \in Exits, NEW c \in Circuits, NEW k \in AddressClasses
      PROVE  [state |-> "open", cir |-> c, under |-> e.seen, checked |-> e.addrs, to |-> k] \in Connections
  <2>1. e.seen \in SUBSET Policies /\ e.addrs \in Seq(AddressClasses)
    BY DEF Exits
  <2> QED BY <2>1 DEF Connections
<1>4. ASSUME NEW e \in Exits, NEW p \in Policies
      PROVE  [e EXCEPT !.seen = e.seen \cup {p}] \in Exits
  <2>1. e.seen \cup {p} \in SUBSET Policies
    BY DEF Exits
  <2> DEFINE S == e.seen \cup {p}
  <2> HIDE DEF S
  <2>2. [e EXCEPT !.seen = S] \in Exits
    BY <2>1 DEF Exits, Checking, S
  <2> QED BY <2>2 DEF S
<1> QED BY <1>2, <1>3, <1>4

\* What a lookup of a request's target gives is a sequence of address classes.
LEMMA ResolvedType ==
  ASSUME NEW s \in StreamIDs, NEW found \in Resolved(TargetOf[s[1]])
  PROVE  found \in Seq(AddressClasses)
<1>1. s[1] \in Apps
  BY DEF StreamIDs
<1> DEFINE t == TargetOf[s[1]]
<1>2. t.addr \in AddressClasses /\ (t.name # <<>> => t.answers \subseteq Seq(AddressClasses))
  BY <1>1, CircuitAssumption
<1>3. found \in Resolved(t)
  OBVIOUS
<1> HIDE DEF t
<1>4. \A k \in AddressClasses : <<k>> \in Seq(AddressClasses)
  OBVIOUS
<1> QED BY <1>2, <1>3, <1>4 DEF Resolved

\* The two ways a step of the check (checkBeginPolicy) goes: the BEGIN is refused, or
\* the goroutine goes on to state e.
Refuses(c) == ExitReplies(c, Connected(ex[c].s, FALSE)) /\ ex' = [ex EXCEPT ![c] = ServeAt("direct")]
Passes(c, e) ==
    /\ ex' = [ex EXCEPT ![c] = e] /\ UNCHANGED <<down, down2>>
    /\ e.pc \in Checking \cup {"dial"} /\ e.s = ex[c].s /\ e.seen = ex[c].seen

\* Every step of a check goes one of these ways, with a typed state.
LEMMA CheckGoes ==
  ASSUME ex \in [Circuits -> Exits], NEW c \in Circuits, ExitCheck(c)
  PROVE  ex[c].pc \in Checking /\ (Refuses(c) \/ \E e \in Exits : Passes(c, e))
<1>1. ex[c] \in Exits
  OBVIOUS
<1> DEFINE x == ex[c]
<1> HIDE DEF x
<1>2. ASSUME NEW e, ExitPasses(c, e), e \in Exits, e.pc \in Checking \cup {"dial"}, e.s = x.s, e.seen = x.seen
      PROVE  \E g \in Exits : Passes(c, g)
  BY <1>2 DEF ExitPasses, Passes, x
<1>3. ASSUME NEW pc \in {"remoteDNS", "lookup", "dial"}, x \in Exits, x.pc \in Checking
      PROVE  LET e == [x EXCEPT !.pc = pc]
             IN  e \in Exits /\ e.pc \in Checking \cup {"dial"} /\ e.s = x.s /\ e.seen = x.seen
  BY <1>3 DEF Exits, Checking
<1>4. ASSUME x \in Exits, x.pc \in {"check", "address"}, x.pc = "check" => x.rule + 1 \in DOMAIN Rules,
             x.pc = "address" => x.rule + 1 \in DOMAIN x.addrs
      PROVE  LET e == [x EXCEPT !.rule = x.rule + 1]
             IN  e \in Exits /\ e.pc \in Checking \cup {"dial"} /\ e.s = x.s /\ e.seen = x.seen
  <2>1. x.rule + 1 \in Nat
    BY <1>4 DEF Exits
  <2> DEFINE n == x.rule + 1
  <2> HIDE DEF n
  <2>2. LET e == [x EXCEPT !.rule = n]
        IN  e \in Exits /\ e.pc \in Checking \cup {"dial"} /\ e.s = x.s /\ e.seen = x.seen
    BY <1>4, <2>1 DEF Exits, Checking, n
  <2> QED BY <2>2 DEF n
<1>5. CASE ExitRule(c)
  <2>1. /\ x.pc = "check"
        /\ \/ ExitRefuses(c)
           \/ x.rule < Len(Rules) /\ ExitPasses(c, [x EXCEPT !.rule = x.rule + 1])
           \/ \E pc \in {"remoteDNS", "dial"} : ExitPasses(c, [x EXCEPT !.pc = pc])
    BY <1>5 DEF ExitRule, x
  <2>2. x.rule \in DOMAIN Rules
    BY <1>1, <2>1 DEF Exits, x
  <2>3. x.rule < Len(Rules) => x.rule + 1 \in DOMAIN Rules
    <3>1. Len(Rules) = 7 /\ DOMAIN Rules = 1..7
      BY DEF Rules
    <3> QED BY <2>2, <3>1
  <2>4. x.pc \in Checking /\ x \in Exits
    BY <1>1, <2>1 DEF Checking, x
  <2>5. ASSUME x.rule < Len(Rules), ExitPasses(c, [x EXCEPT !.rule = x.rule + 1]) PROVE \E g \in Exits : Passes(c, g)
    BY <1>2, <1>4, <2>1, <2>3, <2>4, <2>5
  <2>6. ASSUME NEW pc \in {"remoteDNS", "dial"}, ExitPasses(c, [x EXCEPT !.pc = pc]) PROVE \E g \in Exits : Passes(c, g)
    BY <1>2, <1>3, <2>4, <2>6
  <2> QED BY <2>1, <2>4, <2>5, <2>6 DEF ExitRefuses, ExitAnswers, Refuses, x
<1>6. CASE ExitRemoteDNS(c)
  <2>1. x.pc = "remoteDNS" /\ \E pc \in {"lookup", "dial"} : ExitPasses(c, [x EXCEPT !.pc = pc])
    BY <1>6 DEF ExitRemoteDNS, x
  <2>2. x.pc \in Checking /\ x \in Exits
    BY <1>1, <2>1 DEF Checking, x
  <2> QED BY <1>2, <1>3, <2>1, <2>2 DEF x
<1>7. CASE ExitLookup(c)
  <2>1. x.pc = "lookup" /\ \E found \in Resolved(Target(c)) :
            \/ ExitRefuses(c)
            \/ found # <<>> /\ ExitPasses(c, [x EXCEPT !.pc = "address", !.rule = 1, !.addrs = found])
    BY <1>7 DEF ExitLookup, x
  <2>2. PICK found \in Resolved(Target(c)) :
            \/ ExitRefuses(c)
            \/ found # <<>> /\ ExitPasses(c, [x EXCEPT !.pc = "address", !.rule = 1, !.addrs = found])
    BY <2>1
  <2>3. x.pc \in Checking /\ x \in Exits /\ x.s \in StreamIDs
    BY <1>1, <2>1 DEF Checking, Exits, x
  <2>4. found \in Seq(AddressClasses)
    BY <2>2, <2>3, ResolvedType DEF Target, x
  <2>5. ASSUME found # <<>> PROVE
           LET e == [x EXCEPT !.pc = "address", !.rule = 1, !.addrs = found]
           IN  e \in Exits /\ e.pc \in Checking \cup {"dial"} /\ e.s = x.s /\ e.seen = x.seen
    <3>1. 1 \in DOMAIN found
      BY <2>4, <2>5
    <3> QED BY <2>3, <2>4, <3>1 DEF Exits, Checking
  <2> QED BY <1>2, <2>2, <2>3, <2>5 DEF ExitRefuses, ExitAnswers, Refuses, x
<1>8. CASE ExitAddress(c)
  <2>1. /\ x.pc = "address"
        /\ \/ ExitRefuses(c)
           \/ x.rule # Len(x.addrs) /\ ExitPasses(c, [x EXCEPT !.rule = x.rule + 1])
           \/ ExitPasses(c, [x EXCEPT !.pc = "dial"])
    BY <1>8 DEF ExitAddress, LastAddress, x
  <2>2. x.pc \in Checking /\ x \in Exits
    BY <1>1, <2>1 DEF Checking, x
  <2>3. x.rule # Len(x.addrs) => x.rule + 1 \in DOMAIN x.addrs
    <3>1. x.rule \in DOMAIN x.addrs /\ x.addrs \in Seq(AddressClasses)
      BY <2>1, <2>2 DEF Exits
    <3> QED BY <3>1
  <2>4. ASSUME x.rule # Len(x.addrs), ExitPasses(c, [x EXCEPT !.rule = x.rule + 1]) PROVE \E g \in Exits : Passes(c, g)
    BY <1>2, <1>4, <2>1, <2>2, <2>3, <2>4
  <2>5. ASSUME ExitPasses(c, [x EXCEPT !.pc = "dial"]) PROVE \E g \in Exits : Passes(c, g)
    BY <1>2, <1>3, <2>2, <2>5
  <2> QED BY <2>1, <2>2, <2>4, <2>5 DEF ExitRefuses, ExitAnswers, Refuses, x
<1> QED BY <1>5, <1>6, <1>7, <1>8 DEF ExitCheck

\* Two connections differ in their states at most.
Alike(k, l) == k.cir = l.cir /\ k.under = l.under /\ k.checked = l.checked /\ k.to = l.to

\* A connection that closes keeps the rest.
LEMMA Shut ==
  ASSUME NEW v \in [StreamIDs -> Connections], NEW s
  PROVE  LET w == [v EXCEPT ![s].state = "closed"]
         IN  /\ w \in [StreamIDs -> Connections]
             /\ \A r \in StreamIDs : r # s => w[r] = v[r]
             /\ s \in StreamIDs => w[s].state = "closed" /\ Alike(w[s], v[s])
<1>1. \A k \in Connections : LET g == [k EXCEPT !.state = "closed"]
                             IN g \in Connections /\ g.state = "closed" /\ Alike(g, k)
  BY DEF Connections, Alike
<1> QED BY <1>1

\* The exit's goroutines.
LEMMA ExitStep ==
  ASSUME Safe, NEW c \in Circuits, Exit(c) \/ ExitDialFails(c)
  PROVE  Safe'
<1>1. ClientOK /\ AppOK /\ WireOK /\ RelayOK /\ ExitOK /\ DataOK /\ BoundOK /\ Planned
  BY TypeParts DEF Safe
<1> SUFFICES ClientOK' /\ AppOK' /\ WireOK' /\ RelayOK' /\ ExitOK' /\ DataOK' /\ BoundOK' /\ Planned'
  BY TypeParts DEF Safe, TypeOK, ClientOK, AppOK, WireOK, RelayOK, ExitOK, DataOK, BoundOK
<1>2. UNCHANGED <<clientVars, appVars, near, rel, nxt, policy, sent, changes, scope>>
  <2>1. ASSUME ExitHandshake(c) \/ ExitCell(c) \/ ExitBegin(c) \/ ExitFrame(c) \/ ExitEnds(c)
        PROVE  UNCHANGED <<clientVars, appVars, near, rel, nxt, policy, sent, changes, scope>>
    BY <2>1 DEF ExitHandshake, ExitCell, ExitBegin, ExitFrame, ExitEnds, dataVars, boundVars
  <2>2. ASSUME ExitCheck(c) \/ ExitDial(c) \/ ExitDialUnresolved(c) \/ ExitDialFails(c)
        PROVE  UNCHANGED <<clientVars, appVars, near, rel, nxt, policy, sent, changes, scope>>
    BY <2>2 DEF ExitCheck, ExitDial, ExitDialUnresolved, ExitDialFails, dataVars, boundVars
  <2> QED BY <2>1, <2>2 DEF Exit
<1>3. ClientOK' /\ AppOK'
  BY <1>1, <1>2 DEF ClientOK, AppOK, clientVars, appVars
<1>4. ex[c] \in Exits /\ ex[c].s \in StreamIDs \cup {None}
  BY <1>1 DEF ExitOK, Exits
<1>5. ASSUME NEW e \in Exits, ex' = [ex EXCEPT ![c] = e] PROVE ex' \in [Circuits -> Exits] /\ \A d \in Circuits : d # c => ex'[d] = ex[d]
  BY <1>1, <1>5 DEF ExitOK
<1>6. ASSUME ex[c].pc # "none", \A d \in Circuits : d # c => ex'[d] = ex[d],
             \A s \in StreamIDs : conn'[s].state # "none" =>
                 \/ conn[s].state # "none" /\ conn'[s].cir = conn[s].cir
                 \/ conn'[s].cir = c
      PROVE  Planned'
  BY <1>1, <1>2, <1>6, ExitEdited DEF clientVars, appVars
<1>7. UNCHANGED dataVars => DataOK'
  BY <1>1 DEF DataOK, dataVars
<1>8. UNCHANGED boundVars => BoundOK'
  BY <1>1 DEF BoundOK, boundVars
<1>9. CASE ExitHandshake(c)
  <2> DEFINE e == IF Head(Inbox(c)).type = "init" THEN [ex[c] EXCEPT !.pc = "enc"] ELSE [ex[c] EXCEPT !.pc = "direct"]
  <2>1. /\ ex' = [ex EXCEPT ![c] = e] /\ UNCHANGED <<far, conn, dataVars, boundVars>> /\ ex[c].pc = "first" /\ Inbox(c) # <<>>
        /\ \/ UNCHANGED <<up, up2, down, down2>>
           \/ Took(c) /\ ExitReplies(c, Frame("resp", None))
    BY <1>9 DEF ExitHandshake
  <2>2. e \in Exits
    <3>1. [ex[c] EXCEPT !.pc = "enc"] \in Exits /\ [ex[c] EXCEPT !.pc = "direct"] \in Exits
      BY <1>4, Edits, Zenon
    <3> QED BY <3>1
  <2>3. up' \in [Circuits -> Seq(Frames)] /\ up2' \in [Circuits -> Seq(Frames)]
        /\ down' \in [Circuits -> Seq(Frames)] /\ down2' \in [Circuits -> Seq(Frames)]
    <3>1. Frame("resp", None) \in Frames
      BY FramesTyped DEF FrameTypes
    <3>2. CASE UNCHANGED <<up, up2, down, down2>>
      BY <1>1, <3>2 DEF WireOK, RelayOK
    <3>3. CASE Took(c) /\ ExitReplies(c, Frame("resp", None))
      BY <1>1, <2>1, <3>1, <3>3, TookType, RepliesType
    <3> QED BY <2>1, <3>2, <3>3
  <2> HIDE DEF e
  <2> QED BY <1>1, <1>2, <1>3, <1>5, <1>6, <1>7, <1>8, <2>1, <2>2, <2>3 DEF WireOK, RelayOK, ExitOK
<1>10. CASE ExitCell(c)
  <2>1. /\ UNCHANGED <<down, down2, conn, dataVars, boundVars>> /\ ex[c].pc # "none" /\ Inbox(c) # <<>>
        /\ (Took(c) /\ UNCHANGED <<ex, far>>) \/ ExitReturns(c)
    BY <1>10 DEF ExitCell
  <2>2. /\ ex' \in [Circuits -> Exits] /\ far' \in [Circuits -> Ends]
        /\ up' \in [Circuits -> Seq(Frames)] /\ up2' \in [Circuits -> Seq(Frames)]
        /\ \A d \in Circuits : d # c => ex'[d] = ex[d]
    <3>1. CASE Took(c) /\ UNCHANGED <<ex, far>>
      BY <1>1, <2>1, <3>1, TookType DEF ExitOK, WireOK
    <3>2. CASE ExitReturns(c)
      BY <1>1, <3>2, ReturnsType DEF ExitOK
    <3> QED BY <2>1, <3>1, <3>2
  <2> QED BY <1>1, <1>2, <1>3, <1>6, <1>7, <1>8, <2>1, <2>2 DEF WireOK, RelayOK, ExitOK
<1>11. CASE ExitBegin(c)
  <2> DEFINE f == Head(Inbox(c))
             e == [ServeAt(IF Exempt(TargetOf[f.stream[1]]) THEN "dial" ELSE "check") EXCEPT
                      !.s = f.stream, !.rule = 1, !.seen = {policy}]
  <2>1. /\ ex' = [ex EXCEPT ![c] = e] /\ UNCHANGED <<far, down, down2, conn, dataVars, boundVars>> /\ ex[c].pc = "direct"
        /\ Inbox(c) # <<>> /\ Took(c) /\ f.type = "begin"
    BY <1>11 DEF ExitBegin
  <2>2. up' \in [Circuits -> Seq(Frames)] /\ up2' \in [Circuits -> Seq(Frames)] /\ f \in Frames
    BY <1>1, <2>1, TookType
  <2>3. e \in Exits
    <3>1. f.stream \in StreamIDs /\ policy \in Policies
      BY <1>1, <2>1, <2>2 DEF Frames, ExitOK
    <3>2. (IF Exempt(TargetOf[f.stream[1]]) THEN "dial" ELSE "check") \in {"check", "dial"}
      OBVIOUS
    <3> QED BY <3>1, <3>2, ExitStates, Zenon
  <2> HIDE DEF f, e
  <2> QED BY <1>1, <1>2, <1>3, <1>5, <1>6, <1>7, <1>8, <2>1, <2>2, <2>3 DEF WireOK, RelayOK, ExitOK
<1>12. ASSUME NEW f \in Frames, ex[c].pc \in Checking \cup {"dial"}, ExitReplies(c, f),
              ex' = [ex EXCEPT ![c] = ServeAt("direct")],
              \/ conn' = conn
              \/ \E k \in AddressClasses :
                   conn' = [conn EXCEPT ![ex[c].s] = [state |-> "open", cir |-> c, under |-> ex[c].seen,
                                                      checked |-> ex[c].addrs, to |-> k]],
              UNCHANGED <<far, up, up2, dataVars>>
       PROVE  WireOK' /\ RelayOK' /\ ExitOK' /\ DataOK' /\ Planned'
  <2>1. down' \in [Circuits -> Seq(Frames)] /\ down2' \in [Circuits -> Seq(Frames)]
    BY <1>1, <1>12, RepliesType
  <2>2. ex' \in [Circuits -> Exits] /\ \A d \in Circuits : d # c => ex'[d] = ex[d]
    <3>1. ServeAt("direct") \in Exits
      BY Edits, Zenon
    <3> QED BY <1>5, <1>12, <3>1
  <2>3. conn' \in [StreamIDs -> Connections] /\ \A s \in StreamIDs : conn'[s] = conn[s] \/ conn'[s].cir = c
    <3>1. CASE conn' = conn
      BY <1>1, <3>1 DEF ExitOK
    <3>2. ASSUME NEW k \in AddressClasses,
                 conn' = [conn EXCEPT ![ex[c].s] = [state |-> "open", cir |-> c, under |-> ex[c].seen,
                                                    checked |-> ex[c].addrs, to |-> k]]
          PROVE  conn' \in [StreamIDs -> Connections] /\ \A s \in StreamIDs : conn'[s] = conn[s] \/ conn'[s].cir = c
      <4> DEFINE g == [state |-> "open", cir |-> c, under |-> ex[c].seen, checked |-> ex[c].addrs, to |-> k]
      <4>1. g \in Connections
        BY <1>4, ExitStates, Zenon
      <4>2. g.cir = c
        OBVIOUS
      <4>3. conn' = [conn EXCEPT ![ex[c].s] = g]
        BY <3>2
      <4> HIDE DEF g
      <4> QED BY <1>1, <4>1, <4>2, <4>3 DEF ExitOK
    <3> QED BY <1>12, <3>1, <3>2
  <2>4. Planned'
    <3>1. ex[c].pc # "none"
      BY <1>12 DEF Checking
    <3> QED BY <1>6, <2>2, <2>3, <3>1
  <2> QED BY <1>1, <1>2, <1>7, <1>12, <2>1, <2>2, <2>3, <2>4 DEF WireOK, RelayOK, ExitOK
<1>13. \A ok \in BOOLEAN : Connected(ex[c].s, ok) \in Frames /\ DialReply(ex[c].s, ok) \in Frames
  BY <1>4, FramesTyped DEF DialReply
<1>14. CASE ExitCheck(c)
  <2>1. Connected(ex[c].s, FALSE) \in Frames
    BY <1>13, Zenon
  <2>2. UNCHANGED <<far, up, up2, conn, dataVars, boundVars>>
    BY <1>14 DEF ExitCheck
  <2>3. ex[c].pc \in Checking /\ (Refuses(c) \/ \E e \in Exits : Passes(c, e))
    BY <1>1, <1>14, CheckGoes DEF ExitOK
  <2>4. CASE Refuses(c)
    BY <1>3, <1>8, <1>12, <2>1, <2>2, <2>3, <2>4 DEF Refuses
  <2>5. ASSUME NEW e \in Exits, Passes(c, e)
        PROVE  WireOK' /\ RelayOK' /\ ExitOK' /\ DataOK' /\ Planned'
    <3>1. ex' = [ex EXCEPT ![c] = e] /\ UNCHANGED <<down, down2>>
      BY <2>5 DEF Passes
    <3>2. ex' \in [Circuits -> Exits] /\ \A d \in Circuits : d # c => ex'[d] = ex[d]
      BY <1>5, <3>1
    <3>3. Planned'
      <4>1. ex[c].pc # "none"
        BY <2>3 DEF Checking
      <4> QED BY <1>6, <2>2, <3>2, <4>1
    <3> QED BY <1>1, <1>2, <1>7, <2>2, <3>1, <3>2, <3>3 DEF WireOK, RelayOK, ExitOK
  <2> QED BY <1>3, <1>8, <2>2, <2>3, <2>4, <2>5
<1>15. CASE ExitDial(c)
  <2>1. DialReply(ex[c].s, TRUE) \in Frames
    BY <1>13, Zenon
  <2>2. /\ ex[c].pc = "dial" /\ ExitReplies(c, DialReply(ex[c].s, TRUE)) /\ ex' = [ex EXCEPT ![c] = ServeAt("direct")]
        /\ UNCHANGED <<far, up, up2, dataVars, boundVars>>
        /\ \E found \in Resolved(Target(c)) : \E i \in DOMAIN found :
             conn' = [conn EXCEPT ![ex[c].s] = [state |-> "open", cir |-> c, under |-> ex[c].seen,
                                                checked |-> ex[c].addrs, to |-> found[i]]]
    BY <1>15 DEF ExitDial, ExitAnswers
  <2>3. \A found \in Resolved(Target(c)) : \A i \in DOMAIN found : found[i] \in AddressClasses
    <3>1. ex[c].s \in StreamIDs
      BY <1>4, <2>2 DEF Exits
    <3>2. \A found \in Resolved(Target(c)) : found \in Seq(AddressClasses)
      BY <3>1, ResolvedType DEF Target
    <3> QED BY <3>2
  <2>4. \E k \in AddressClasses :
          conn' = [conn EXCEPT ![ex[c].s] = [state |-> "open", cir |-> c, under |-> ex[c].seen,
                                             checked |-> ex[c].addrs, to |-> k]]
    BY <2>2, <2>3
  <2> QED BY <1>3, <1>8, <1>12, <2>1, <2>2, <2>4
<1>16. CASE ExitDialFails(c) \/ ExitDialUnresolved(c)
  <2>1. DialReply(ex[c].s, FALSE) \in Frames
    BY <1>13, Zenon
  <2>2. BoundOK'
    <3>1. CASE ExitDialFails(c)
      BY <1>1, <1>2, <3>1, ScopeFacts DEF BoundOK, ExitDialFails
    <3>2. CASE ExitDialUnresolved(c)
      BY <1>8, <3>2 DEF ExitDialUnresolved
    <3> QED BY <1>16, <3>1, <3>2
  <2>3. /\ ex[c].pc = "dial" /\ ExitReplies(c, DialReply(ex[c].s, FALSE)) /\ ex' = [ex EXCEPT ![c] = ServeAt("direct")]
        /\ UNCHANGED <<far, up, up2, conn, dataVars>>
    BY <1>16 DEF ExitDialFails, ExitDialUnresolved, ExitAnswers
  <2> QED BY <1>3, <1>12, <2>1, <2>2, <2>3
<1>17. CASE ExitFrame(c)
  <2> DEFINE f == Head(Inbox(c))
             l == Append(heard.remote[f.stream], f.n)
  <2>1. /\ UNCHANGED <<ex, far, down, down2, sent, boundVars>> /\ ex[c].pc = "direct" /\ Inbox(c) # <<>> /\ Took(c)
        /\ heard' = heard \/ heard' = [heard EXCEPT !.remote[f.stream] = l]
        /\ conn' = conn \/ (conn[f.stream].state = "open" /\ conn' = [conn EXCEPT ![f.stream].state = "closed"])
    BY <1>17 DEF ExitFrame
  <2>2. up' \in [Circuits -> Seq(Frames)] /\ up2' \in [Circuits -> Seq(Frames)] /\ f \in Frames
    BY <1>1, <2>1, TookType
  <2>3. f.stream \in StreamIDs => l \in Seq(Nat)
    BY <1>1, <2>2 DEF DataOK, Frames
  <2> DEFINE s == f.stream
  <2>4. /\ heard' = heard \/ heard' = [heard EXCEPT !.remote[s] = l]
        /\ conn' = conn \/ (conn[s].state = "open" /\ conn' = [conn EXCEPT ![s].state = "closed"])
        /\ s \in StreamIDs => l \in Seq(Nat)
    BY <2>1, <2>3
  <2> HIDE DEF f, l, s
  <2>5. DataOK'
    <3>1. [heard.remote EXCEPT ![s] = l] \in [StreamIDs -> Seq(Nat)]
      BY <1>1, <2>4 DEF DataOK
    <3> DEFINE g == [heard.remote EXCEPT ![s] = l]
    <3>2. heard' = heard \/ heard' = [heard EXCEPT !.remote = g]
      BY <2>4
    <3> HIDE DEF g
    <3> QED BY <1>1, <2>1, <3>1, <3>2 DEF DataOK, g
  <2>6. /\ conn' \in [StreamIDs -> Connections]
        /\ \A r \in StreamIDs : conn'[r] = conn[r] \/ (conn[r].state = "open" /\ conn'[r].cir = conn[r].cir)
    <3>1. conn \in [StreamIDs -> Connections]
      BY <1>1 DEF ExitOK
    <3>2. CASE conn' = conn
      BY <3>1, <3>2
    <3>3. CASE conn[s].state = "open" /\ conn' = [conn EXCEPT ![s].state = "closed"]
      <4>1. /\ conn' \in [StreamIDs -> Connections]
            /\ \A r \in StreamIDs : r # s => conn'[r] = conn[r]
            /\ s \in StreamIDs => conn'[s].cir = conn[s].cir
        BY <3>1, <3>3, Shut DEF Alike
      <4> QED BY <3>3, <4>1
    <3> QED BY <2>4, <3>2, <3>3
  <2>7. Planned'
    BY <1>6, <2>1, <2>6
  <2> QED BY <1>1, <1>2, <1>3, <1>8, <2>1, <2>2, <2>5, <2>6, <2>7 DEF WireOK, RelayOK, ExitOK
<1>18. CASE ExitEnds(c)
  <2>1. UNCHANGED <<down, down2, conn, dataVars, boundVars>> /\ ex[c].pc # "none" /\ ExitReturns(c)
    BY <1>18 DEF ExitEnds
  <2>2. /\ ex' \in [Circuits -> Exits] /\ far' \in [Circuits -> Ends]
        /\ up' \in [Circuits -> Seq(Frames)] /\ up2' \in [Circuits -> Seq(Frames)]
        /\ \A d \in Circuits : d # c => ex'[d] = ex[d]
    BY <1>1, <2>1, ReturnsType DEF ExitOK
  <2> QED BY <1>1, <1>2, <1>3, <1>6, <1>7, <1>8, <2>1, <2>2 DEF WireOK, RelayOK, ExitOK
<1> QED BY <1>9, <1>10, <1>11, <1>14, <1>15, <1>16, <1>17, <1>18 DEF Exit

\* A stream between nodes belongs to a circuit that has a plan.
Linked == \A c \in Circuits : far[c] # "none" => plan[c] # NoPlan

\* The remote ends, the operator and the links.
Outside ==
    \/ \E s \in StreamIDs : ExitPump(s) \/ RemoteCloses(s)
    \/ SetPolicy \/ \E c \in Circuits : LinkBreaks(c)

\* The remote sides, the change of policy and a broken link keep the types and the plans.
LEMMA OutsideStep ==
  ASSUME Safe, Linked, Outside
  PROVE  Safe'
<1>1. ClientOK /\ AppOK /\ WireOK /\ RelayOK /\ ExitOK /\ DataOK /\ BoundOK /\ Planned
  BY TypeParts DEF Safe
<1> SUFFICES ClientOK' /\ AppOK' /\ WireOK' /\ RelayOK' /\ ExitOK' /\ DataOK' /\ BoundOK' /\ Planned'
  BY TypeParts DEF Safe, TypeOK, ClientOK, AppOK, WireOK, RelayOK, ExitOK, DataOK, BoundOK
<1>2. UNCHANGED <<clientVars, appVars, near, nxt, up2, heard, scope>>
  BY DEF Outside, ExitPump, RemoteCloses, SetPolicy, LinkBreaks, wireVars, relayVars, dataVars, boundVars
<1>3. ClientOK' /\ AppOK' /\ NoneBegun
  BY <1>1, <1>2 DEF ClientOK, AppOK, NoneBegun, clientVars, appVars
<1>4. ASSUME \A c \in Circuits : rel'[c] # "none" \/ ex'[c].pc # "none" => rel[c] # "none" \/ ex[c].pc # "none",
             \A s \in StreamIDs : conn'[s].state # "none" => conn[s].state # "none" /\ conn'[s].cir = conn[s].cir
      PROVE  Planned'
  BY <1>1, <1>2, <1>3, <1>4, PlannedStays DEF Planned, clientVars, appVars
<1>5. ASSUME NEW s \in StreamIDs, conn[s].state = "open", conn' = [conn EXCEPT ![s].state = "closed"]
      PROVE  /\ conn' \in [StreamIDs -> Connections]
             /\ \A r \in StreamIDs : conn'[r].state # "none" => conn[r].state # "none" /\ conn'[r].cir = conn[r].cir
  <2>1. conn \in [StreamIDs -> Connections]
    BY <1>1 DEF ExitOK
  <2>2. /\ conn' \in [StreamIDs -> Connections]
        /\ \A r \in StreamIDs : r # s => conn'[r] = conn[r]
        /\ conn'[s].cir = conn[s].cir
    BY <1>5, <2>1, Shut DEF Alike
  <2> QED BY <1>5, <2>2
<1>6. ASSUME NEW s \in StreamIDs, ExitPump(s)
      PROVE  WireOK' /\ RelayOK' /\ ExitOK' /\ DataOK' /\ BoundOK' /\ Planned'
  <2> DEFINE c == conn[s].cir
             n == sent.remote[s] + 1
  <2>1. /\ conn[s].state = "open" /\ UNCHANGED <<near, far, up, rel, nxt, up2, ex, policy, heard, boundVars>>
        /\ sent' = [sent EXCEPT !.remote[s] = n]
        /\ \/ ExitReplies(c, Data(s, n)) /\ UNCHANGED conn
           \/ conn' = [conn EXCEPT ![s].state = "closed"] /\ UNCHANGED <<down, down2>>
    BY <1>6 DEF ExitPump
  <2>2. c \in Circuits /\ n \in Nat
    BY <1>1, <2>1 DEF Planned, DataOK
  <2>3. down' \in [Circuits -> Seq(Frames)] /\ down2' \in [Circuits -> Seq(Frames)]
    <3>1. Data(s, n) \in Frames
      BY <2>2, FramesTyped
    <3> QED BY <1>1, <2>1, <2>2, <3>1, RepliesType DEF WireOK, RelayOK
  <2>4. /\ conn' \in [StreamIDs -> Connections]
        /\ \A r \in StreamIDs : conn'[r].state # "none" => conn[r].state # "none" /\ conn'[r].cir = conn[r].cir
    BY <1>1, <1>5, <2>1 DEF ExitOK
  <2>5. DataOK'
    <3> DEFINE g == [sent.remote EXCEPT ![s] = n]
    <3>1. sent' = [sent EXCEPT !.remote = g]
      BY <2>1
    <3> HIDE DEF n
    <3>2. g \in [StreamIDs -> Nat]
      BY <1>1, <2>2 DEF DataOK
    <3> HIDE DEF g
    <3> QED BY <1>1, <2>1, <3>1, <3>2 DEF DataOK
  <2>6. Planned'
    BY <1>4, <2>1, <2>4
  <2> QED BY <1>1, <2>1, <2>3, <2>4, <2>5, <2>6 DEF WireOK, RelayOK, ExitOK, BoundOK, boundVars
<1>7. ASSUME NEW s \in StreamIDs, RemoteCloses(s)
      PROVE  WireOK' /\ RelayOK' /\ ExitOK' /\ DataOK' /\ BoundOK' /\ Planned'
  <2>1. /\ conn[s].state = "open" /\ conn' = [conn EXCEPT ![s].state = "closed"] /\ faults < scope.faults /\ faults' = faults + 1
        /\ UNCHANGED <<wireVars, relayVars, ex, policy, dataVars, changes>>
    BY <1>7 DEF RemoteCloses
  <2>2. /\ conn' \in [StreamIDs -> Connections]
        /\ \A r \in StreamIDs : conn'[r].state # "none" => conn[r].state # "none" /\ conn'[r].cir = conn[r].cir
    BY <1>5, <2>1
  <2>3. BoundOK' /\ Planned'
    BY <1>1, <1>2, <1>4, <2>1, <2>2, ScopeFacts DEF BoundOK, relayVars
  <2> QED BY <1>1, <2>1, <2>2, <2>3 DEF WireOK, RelayOK, ExitOK, DataOK, wireVars, relayVars, dataVars
<1>8. CASE SetPolicy
  <2>1. UNCHANGED <<wireVars, relayVars, conn, dataVars, faults>> /\ changes < scope.changes /\ changes' = changes + 1
    BY <1>8 DEF SetPolicy
  <2>2. PICK p \in scope.policies :
           /\ policy' = p
           /\ ex' = [c \in Circuits |-> IF ex[c].pc \in Checking THEN [ex[c] EXCEPT !.seen = ex[c].seen \cup {p}] ELSE ex[c]]
    BY <1>8 DEF SetPolicy
  <2>4. p \in Policies
    BY <1>1, <2>2, ScopeFacts DEF BoundOK
  <2>5. ASSUME NEW c \in Circuits PROVE [ex[c] EXCEPT !.seen = ex[c].seen \cup {p}] \in Exits
    <3>1. ex[c] \in Exits
      BY <1>1 DEF ExitOK
    <3> QED BY <2>4, <3>1, ExitStates, Zenon
  <2>6. ex' \in [Circuits -> Exits] /\ \A c \in Circuits : ex'[c].pc # "none" => ex[c].pc # "none"
    <3>1. \A c \in Circuits : ex[c] \in Exits
      BY <1>1 DEF ExitOK
    <3>2. \A c \in Circuits : ex[c].pc \in Checking => ex[c].pc # "none"
      BY DEF Checking
    <3> QED BY <2>2, <2>5, <3>1, <3>2
  <2>7. Planned'
    BY <1>4, <2>1, <2>6 DEF relayVars
  <2>8. BoundOK'
    BY <1>1, <1>2, <2>1, ScopeFacts DEF BoundOK
  <2>9. WireOK' /\ RelayOK' /\ DataOK'
    BY <1>1, <2>1 DEF WireOK, RelayOK, DataOK, wireVars, relayVars, dataVars
  <2> QED BY <1>1, <1>3, <2>1, <2>2, <2>4, <2>6, <2>7, <2>8, <2>9 DEF ExitOK
<1>9. ASSUME NEW c \in Circuits, LinkBreaks(c)
      PROVE  WireOK' /\ RelayOK' /\ ExitOK' /\ DataOK' /\ BoundOK' /\ Planned'
  <2> DEFINE e == ServeAt("done")
  <2>1. /\ faults < scope.faults /\ faults' = faults + 1 /\ far' = [far EXCEPT ![c] = "closed"] /\ far[c] = "open"
        /\ up' = [up EXCEPT ![c] = <<>>] /\ down' = [down EXCEPT ![c] = <<>>]
        /\ UNCHANGED <<near, nxt, up2, down2, conn, policy, dataVars, changes>>
        /\ \/ ExitServes(c) /\ ex' = [ex EXCEPT ![c] = e] /\ UNCHANGED rel
           \/ ~ExitServes(c) /\ rel' = [rel EXCEPT ![c] = "done"] /\ UNCHANGED ex
    BY <1>9 DEF LinkBreaks
  <2>2. e \in Exits
    BY Edits, Zenon
  <2> HIDE DEF e
  <2>3. up' \in [Circuits -> Seq(Frames)] /\ down' \in [Circuits -> Seq(Frames)]
    BY <1>1, <2>1, QueueEdits DEF WireOK, Edited
  <2>4. Planned'
    <3>1. plan[c] # NoPlan
      BY <2>1 DEF Linked
    <3> QED BY <1>1, <1>2, <1>3, <2>1, <3>1 DEF Planned, clientVars, appVars, NoneBegun, ExitOK, RelayOK
  <2>5. BoundOK'
    BY <1>1, <1>2, <2>1, ScopeFacts DEF BoundOK
  <2>6. WireOK'
    BY <1>1, <2>1, <2>3 DEF WireOK, Ends
  <2>7. RelayOK' /\ ExitOK'
    BY <1>1, <2>1, <2>2 DEF RelayOK, ExitOK
  <2>8. DataOK'
    BY <1>1, <2>1 DEF DataOK, dataVars
  <2> QED BY <2>4, <2>5, <2>6, <2>7, <2>8
<1> QED BY <1>3, <1>6, <1>7, <1>8, <1>9 DEF Outside

\* Every step is one of these.
LEMMA Groups ==
  Next => \/ Build \/ BuildDialFails
          \/ Upkeep \/ Serving \/ Outside
          \/ \E c \in Circuits : Relay(c) \/ Exit(c) \/ ExitDialFails(c)
  BY DEF Next, System, Environment, Upkeep, Serving, Outside

\* A circuit keeps its plan.
LEMMA PlanStays ==
  ASSUME Safe, Next \/ UNCHANGED vars
  PROVE  \A c \in Circuits : plan[c] # NoPlan => plan'[c] = plan[c]
<1>1. CASE SelectPath
  <2>1. plan' = plan \/ \E p, c : plan[c] = NoPlan /\ c \in Circuits /\ plan' = [plan EXCEPT ![c] = p]
    <3> DEFINE fresh == {c \in scope.circuits : plan[c] = NoPlan}
               d == CHOOSE x \in fresh : TRUE
    <3>1. plan' = plan \/ (fresh # {} /\ \E p : plan' = [plan EXCEPT ![d] = p])
      BY <1>1 DEF SelectPath
    <3>2. fresh # {} => d \in fresh
      OBVIOUS
    <3>3. fresh \subseteq Circuits
      BY TypeParts, ScopeFacts DEF BoundOK, Safe
    <3> HIDE DEF d
    <3> QED BY <3>1, <3>2, <3>3
  <2> QED BY TypeParts, <2>1 DEF ClientOK, Safe
<1>2. CASE ~SelectPath
  <2>1. CASE Build \/ BuildDialFails \/ UNCHANGED vars
    BY <1>2, <2>1 DEF Build, BuildStart, BuildDial, BuildExtend, BuildOpen, BuildTimeout, BuildDialFails, vars, clientVars
  <2>2. CASE Upkeep
    BY <2>2 DEF Upkeep, ReadFrame, ReadLoopEnds, NotifyCircuitClosed, TransientRead, HeartbeatPing, HeartbeatTimeout,
       PoolCloses, CooldownEnds, SetExitSelection, clientVars
  <2>3. CASE Serving
    BY <2>3 DEF Serving, Handler, Acquire, RegisterStream, BeginRefused, Write, BeginSucceeds, BeginFails,
       BeginTimeout, Reply, PumpEnds, AppLeaves, Clash, clientVars
  <2>4. CASE Outside
    BY <2>4 DEF Outside, ExitPump, RemoteCloses, SetPolicy, LinkBreaks, clientVars
  <2>5. ASSUME NEW c \in Circuits, Relay(c) PROVE UNCHANGED plan
    BY <2>5 DEF Relay, RelayHandshake, RelayForward, RelayBackward, RelayPumpEnds, RelayEnds, clientVars
  <2>6. ASSUME NEW c \in Circuits, Exit(c) \/ ExitDialFails(c) PROVE UNCHANGED plan
    <3>1. CASE ExitHandshake(c) \/ ExitCell(c) \/ ExitFrame(c) \/ ExitEnds(c)
      BY <3>1 DEF ExitHandshake, ExitCell, ExitFrame, ExitEnds, clientVars
    <3>2. CASE ExitBegin(c) \/ ExitCheck(c) \/ ExitDial(c) \/ ExitDialUnresolved(c) \/ ExitDialFails(c)
      BY <3>2 DEF ExitBegin, ExitCheck, ExitDial, ExitDialUnresolved, ExitDialFails, clientVars
    <3> QED BY <2>6, <3>1, <3>2 DEF Exit
  <2> QED BY Groups, <2>1, <2>2, <2>3, <2>4, <2>5, <2>6
<1> QED BY <1>1, <1>2

\* Every step keeps the plan of a circuit whose exit side has begun.
LEMMA LinkedStep ==
  ASSUME Safe, Linked, Next \/ UNCHANGED vars
  PROVE  Linked'
<1>1. WireOK /\ ClientOK /\ Planned /\ ExitOK /\ RelayOK
  BY TypeParts DEF Safe
<1>2. \A c \in Circuits : plan[c] # NoPlan => plan'[c] = plan[c]
  BY PlanStays
<1>3. \/ UNCHANGED far
      \/ \E c \in Circuits, v \in Ends : far' = [far EXCEPT ![c] = v] /\ plan[c] # NoPlan
  <2>1. CASE BuildDial
    BY <1>1, <2>1 DEF BuildDial, Planned, Waiting, Ends
  <2>2. CASE \E c \in Circuits : RelayEnds(c)
    BY <1>1, <2>2 DEF RelayEnds, Planned, Ends
  <2>3. CASE \E c \in Circuits : ExitCell(c) \/ ExitEnds(c)
    BY <1>1, <2>3 DEF ExitCell, ExitEnds, ExitReturns, Planned, Ends
  <2>4. CASE \E c \in Circuits : LinkBreaks(c)
    <3>1. PICK c \in Circuits : LinkBreaks(c)
      BY <2>4
    <3>2. plan[c] # NoPlan /\ far' = [far EXCEPT ![c] = "closed"]
      BY <3>1 DEF LinkBreaks, Linked
    <3> QED BY <3>2 DEF Ends
  <2>5. CASE ~(BuildDial \/ \E c \in Circuits : RelayEnds(c) \/ ExitCell(c) \/ ExitEnds(c) \/ LinkBreaks(c))
    <3>1. CASE UNCHANGED vars
      BY <3>1 DEF vars, wireVars
    <3>2. CASE Build \/ BuildDialFails
      BY <2>5, <3>2 DEF Build, BuildStart, SelectPath, BuildExtend, BuildOpen, BuildTimeout, BuildDialFails, wireVars
    <3>3. CASE Upkeep
      BY <3>3 DEF Upkeep, ReadFrame, ReadLoopEnds, NotifyCircuitClosed, TransientRead, HeartbeatPing, HeartbeatTimeout,
         PoolCloses, CooldownEnds, SetExitSelection, wireVars
    <3>4. CASE Serving
      BY <3>4, ServingTouches
    <3>5. CASE Outside
      BY <2>5, <3>5 DEF Outside, ExitPump, RemoteCloses, SetPolicy, wireVars
    <3>6. ASSUME NEW c \in Circuits, Relay(c) PROVE UNCHANGED far
      BY <2>5, <3>6 DEF Relay, RelayHandshake, RelayForward, RelayBackward, RelayPumpEnds, wireVars
    <3>7. ASSUME NEW c \in Circuits, Exit(c) \/ ExitDialFails(c) PROVE UNCHANGED far
      <4>1. CASE ExitHandshake(c) \/ ExitBegin(c) \/ ExitCheck(c)
        BY <4>1 DEF ExitHandshake, ExitBegin, ExitCheck, wireVars
      <4>2. CASE ExitDial(c) \/ ExitDialUnresolved(c) \/ ExitDialFails(c) \/ ExitFrame(c)
        BY <4>2 DEF ExitDial, ExitDialUnresolved, ExitDialFails, ExitFrame, wireVars
      <4> QED BY <2>5, <3>7, <4>1, <4>2 DEF Exit
    <3> QED BY Groups, <3>1, <3>2, <3>3, <3>4, <3>5, <3>6, <3>7
  <2> QED BY <2>1, <2>2, <2>3, <2>4, <2>5
<1> QED BY <1>1, <1>2, <1>3 DEF Linked, WireOK

\* The invariant the claims about the exit and the streams are proved with.
SafeInv == Safe /\ Linked

\* The first states are typed, and nothing has been planned or linked in them.
LEMMA SafeInit == Init => SafeInv
<1> SUFFICES ASSUME Init PROVE SafeInv
  OBVIOUS
<1>1. scope \in Scopes /\ sel \in Selections /\ policy \in Policies
  BY ScopeFacts DEF Init
<1>2. ClientOK
  <2>1. NewHealth \in Healths /\ NoRecord \in Records /\ NoPlan \in Plans /\ IdleBuild \in Builds
    BY CircuitAssumption DEF NewHealth, Healths, NoRecord, Records, NoPlan, Plans, IdleBuild, Builds
  <2> QED BY <1>1, <2>1 DEF Init, ClientOK
<1>3. AppOK
  <2>1. 1 \in Attempts
    BY CircuitAssumption DEF Attempts
  <2>2. \A p \in {"get", "ended"} : [pc |-> p, cir |-> NoCircuit, try |-> 1, open |-> TRUE] \in Handlers
    BY <2>1 DEF Handlers
  <2>3. app = [a \in Apps |-> [pc |-> IF a \in scope.apps THEN "get" ELSE "ended", cir |-> NoCircuit, try |-> 1, open |-> TRUE]]
    BY DEF Init
  <2>4. app \in [Apps -> Handlers]
    BY <2>2, <2>3
  <2> QED BY <2>4 DEF Init, AppOK
<1>4. \A T : <<>> \in Seq(T)
  OBVIOUS
<1>5. WireOK /\ RelayOK
  BY <1>4 DEF Init, WireOK, RelayOK, Ends
<1>6. ExitOK
  <2>1. ServeAt("none") \in Exits
    BY <1>4 DEF Exits, Checking, ServeAt
  <2>2. [state |-> "none", cir |-> NoCircuit, under |-> {}, checked |-> <<>>, to |-> "public"] \in Connections
    BY <1>4 DEF Connections, AddressClasses
  <2> QED BY <1>1, <2>1, <2>2 DEF Init, ExitOK
<1>7. DataOK
  BY <1>4 DEF Init, DataOK
<1>8. BoundOK
  BY <1>1, ScopeFacts DEF Init, BoundOK
<1>9. Planned
  <2>1. \A c \in Circuits : ex[c].pc = "none" /\ rel[c] = "none" /\ man[c].rec = "none" /\ ~man[c].active /\ plan[c] = NoPlan
    BY DEF Init, NoRecord, ServeAt
  <2>2. bld.pc \notin Waiting
    BY DEF Init, IdleBuild, Waiting
  <2>3. \A s \in StreamIDs : conn[s].state = "none"
    BY DEF Init
  <2>4. \A a \in Apps : app[a].pc \in {"get", "ended"} /\ app[a].try = 1
    BY DEF Init
  <2> QED BY <2>1, <2>2, <2>3, <2>4 DEF Planned
<1>10. Linked
  BY DEF Init, Linked
<1> QED BY <1>2, <1>3, <1>5, <1>6, <1>7, <1>8, <1>9, <1>10, TypeParts DEF SafeInv, Safe

\* Every step of the system is one of these.
LEMMA SafeNext ==
  ASSUME SafeInv, [Next]_vars
  PROVE  SafeInv'
<1>1. Safe /\ Linked
  BY DEF SafeInv
<1>2. Linked'
  BY <1>1, LinkedStep
<1>3. CASE Next
  BY <1>1, <1>2, <1>3, Groups, BuildStep, UpkeepStep, ServingStep, OutsideStep, RelayStep, ExitStep DEF SafeInv
<1>4. CASE UNCHANGED vars
  <2>1. TypeOK' /\ Planned'
    <3>1. TypeOK' = TypeOK
      BY <1>4 DEF vars, TypeOK, clientVars, appVars, wireVars, relayVars, exitVars, dataVars, boundVars
    <3>2. Planned' = Planned
      BY <1>4 DEF vars, Planned, clientVars, appVars, wireVars, relayVars, exitVars
    <3> QED BY <1>1, <3>1, <3>2 DEF Safe
  <2> QED BY <1>2, <2>1 DEF SafeInv, Safe
<1> QED BY <1>3, <1>4

\* Types: no behaviour of the client, the relay and the exit leaves TypeOK
\* (internal/client, internal/relay/service.go, internal/exit/service.go).
THEOREM CircuitTypeCorrect == Spec => []TypeOK
<1>1. SafeInv /\ [Next]_vars => SafeInv'
  BY SafeNext
<1>2. SafeInv => TypeOK
  BY DEF SafeInv, Safe
<1> QED BY SafeInit, <1>1, <1>2, PTL DEF Spec

-----------------------------------------------------------------------------
(* The exit's policy                                                        *)

\* A clause of the configuration is enforced by one of the rules: a policy that
\* passes the rule does not forbid the clause.
LEMMA RulesCoverClauses ==
  ASSUME NEW peer, NEW t, NEW clause \in Clauses
  PROVE  \E j \in DOMAIN Rules : \A p : Verdict(Rules[j], p, peer, t) = "" => clause \notin Forbids(p, peer, t)
<1>1. /\ DOMAIN Rules = 1..7 /\ Rules[1] = "enabled" /\ Rules[2] = "accepting" /\ Rules[3] = "draining" /\ Rules[4] = "peer"
      /\ Rules[5] = "protocol" /\ Rules[6] = "port" /\ Rules[7] = "target"
  BY DEF Rules
<1>2. CASE clause = "disabled"
  <2>1. \A p : Verdict(Rules[1], p, peer, t) = "" => clause \notin Forbids(p, peer, t)
    BY <1>1, <1>2 DEF Verdict, Forbids
  <2>2. 1 \in DOMAIN Rules
    BY <1>1
  <2> QED BY <2>1, <2>2, Zenon
<1>3. CASE clause = "draining"
  <2>1. \A p : Verdict(Rules[2], p, peer, t) = "" => clause \notin Forbids(p, peer, t)
    BY <1>1, <1>3 DEF Verdict, Forbids
  <2>2. 2 \in DOMAIN Rules
    BY <1>1
  <2> QED BY <2>1, <2>2, Zenon
<1>4. CASE clause = "peer"
  <2>1. \A p : Verdict(Rules[4], p, peer, t) = "" => clause \notin Forbids(p, peer, t)
    BY <1>1, <1>4 DEF Verdict, Forbids, CheckPeerAllowed
  <2>2. 4 \in DOMAIN Rules
    BY <1>1
  <2> QED BY <2>1, <2>2, Zenon
<1>5. CASE clause = "protocol"
  <2>1. \A p : Verdict(Rules[5], p, peer, t) = "" => clause \notin Forbids(p, peer, t)
    BY <1>1, <1>5 DEF Verdict, Forbids, CheckProtocolAllowed
  <2>2. 5 \in DOMAIN Rules
    BY <1>1
  <2> QED BY <2>1, <2>2, Zenon
<1>6. CASE clause = "port"
  <2>1. \A p : Verdict(Rules[6], p, peer, t) = "" => clause \notin Forbids(p, peer, t)
    BY <1>1, <1>6 DEF Verdict, Forbids, CheckPortAllowed
  <2>2. 6 \in DOMAIN Rules
    BY <1>1
  <2> QED BY <2>1, <2>2, Zenon
<1>7. CASE clause = "domain"
  <2>1. \A p : Verdict(Rules[7], p, peer, t) = "" => clause \notin Forbids(p, peer, t)
    BY <1>1, <1>7 DEF Verdict, Forbids, CheckDomainAllowed
  <2>2. 7 \in DOMAIN Rules
    BY <1>1
  <2> QED BY <2>1, <2>2, Zenon
<1> QED BY <1>2, <1>3, <1>4, <1>5, <1>6, <1>7 DEF Clauses

\* An address that the policy's check lets pass is not forbidden by it, and a literal
\* address is put to that check by the last of the rules.
LEMMA AddressRule ==
  ASSUME NEW p, NEW t, NEW class \in AddressClasses
  PROVE  /\ CheckTargetIPAllowed(p, class) = "" => ~ForbidsAddress(p, class, t)
         /\ \A peer : t.name = <<>> /\ t.addr = class /\ Verdict(Rules[7], p, peer, t) = "" => ~ForbidsAddress(p, class, t)
<1>1. CheckTargetIPAllowed(p, class) = "" => class = "public" \/ class \in p.allowedClasses
  <2>1. class \in {"public", "private", "loopback", "link_local"}
    BY DEF AddressClasses
  <2>2. TargetDenied["private"] # "" /\ TargetDenied["loopback"] # "" /\ TargetDenied["link_local"] # ""
    BY DEF TargetDenied
  <2> QED BY <2>1, <2>2 DEF CheckTargetIPAllowed
<1>2. Rules[7] = "target"
  BY DEF Rules
<1>3. \A peer : t.name = <<>> /\ t.addr = class /\ Verdict(Rules[7], p, peer, t) = "" => CheckTargetIPAllowed(p, class) = ""
  BY <1>2 DEF Verdict
<1> QED BY <1>1, <1>3 DEF ForbidsAddress

\* The peer that the exit sees at the other end of a circuit with this plan.
PeerOf(p) == IF p.relay # NoNode => Descriptors[p.relay].exit THEN Local ELSE p.relay

\* What the exit takes for its peer depends on the plan of the circuit only.
LEMMA PeerIsPlanned == \A c : Peer(c) = PeerOf(plan[c])
  BY DEF Peer, PeerOf, ExitServes, Direct

\* Rule j of the check of stream s, over a circuit with this plan, was passed under
\* one of the policies S; one of them allows an address of the class.
Passed(j, pl, s, S) == \E p \in S : Verdict(Rules[j], p, PeerOf(pl), TargetOf[s[1]]) = ""
Allowed(class, s, S) == \E p \in S : ~ForbidsAddress(p, class, TargetOf[s[1]])
Bound(s) == ~Exempt(TargetOf[s[1]])
Active == Checking \cup {"dial"}

\* What a BEGIN in hand has behind it: the rules before the one it is at, and the
\* addresses before the one it is at.  A name that is dialled was looked up, or
\* RemoteDNS was seen unset.
Cleared(e, pl) ==
    /\ \A j \in DOMAIN Rules : e.pc # "check" \/ j < e.rule => Passed(j, pl, e.s, e.seen)
    /\ e.pc \in {"check", "remoteDNS", "lookup"} => e.addrs = <<>>
    /\ e.pc = "address" =>
         /\ e.addrs \in Resolved(TargetOf[e.s[1]])
         /\ \A i \in DOMAIN e.addrs : i < e.rule => Allowed(e.addrs[i], e.s, e.seen)
    /\ e.pc = "dial" =>
         /\ \A i \in DOMAIN e.addrs : Allowed(e.addrs[i], e.s, e.seen)
         /\ \/ TargetOf[e.s[1]].name = <<>>
            \/ e.addrs \in Resolved(TargetOf[e.s[1]])
            \/ \E p \in e.seen : ~p.remoteDNS

\* A connection has passed every rule, and so have the addresses the exit answers for.
Admitted(k, pl, s) ==
    /\ \A j \in DOMAIN Rules : Passed(j, pl, s, k.under)
    /\ \A class \in AddressesOf(k, TargetOf[s[1]]) : Allowed(class, s, k.under)

\* A check knows the policy in force.
Checked ==
    /\ \A c \in Circuits : ex[c].pc \in Checking => policy \in ex[c].seen
    /\ \A c \in Circuits : ex[c].pc \in Active /\ Bound(ex[c].s) => Cleared(ex[c], plan[c])
    /\ \A s \in StreamIDs : conn[s].state # "none" /\ Bound(s) => Admitted(conn[s], plan[conn[s].cir], s)

\* A step that begins no check, moves none and makes no connection.
Quiet ==
    /\ policy' = policy
    /\ \A c \in Circuits : ex'[c].pc \in Active => ex'[c] = ex[c]
    /\ \A s \in StreamIDs : conn'[s].state # "none" => conn[s].state # "none" /\ Alike(conn'[s], conn[s])

\* Only a change of policy, the beginning of a check and its steps disturb what Checked
\* says: every other step is quiet.
LEMMA QuietSteps ==
  ASSUME Safe, Next \/ UNCHANGED vars
  PROVE  Quiet \/ SetPolicy \/ \E c \in Circuits : ExitBegin(c) \/ ExitCheck(c) \/ ExitDial(c)
<1>1. /\ ex \in [Circuits -> Exits] /\ conn \in [StreamIDs -> Connections] /\ Planned
  BY TypeParts DEF Safe, ExitOK
<1>2. UNCHANGED <<ex, conn, policy>> => Quiet
  BY DEF Quiet, Alike
<1>3. ASSUME UNCHANGED <<conn, policy>>, NEW c \in Circuits, NEW e, e.pc \notin Active, ex' = [ex EXCEPT ![c] = e]
      PROVE  Quiet
  BY <1>1, <1>3 DEF Quiet, Alike
<1>4. ASSUME UNCHANGED <<ex, policy>>, NEW s, conn[s].state = "open", conn' = [conn EXCEPT ![s].state = "closed"] PROVE Quiet
  <2>1. /\ conn' \in [StreamIDs -> Connections] /\ \A r \in StreamIDs : r # s => conn'[r] = conn[r]
        /\ s \in StreamIDs => Alike(conn'[s], conn[s])
    BY <1>1, <1>4, Shut
  <2> QED BY <1>4, <2>1 DEF Quiet, Alike
<1>5. \A p \in {"first", "done", "direct"} : ServeAt(p).pc \notin Active
  BY DEF ServeAt, Active, Checking
<1>6. \A c \in Circuits : \A p \in {"first", "enc", "direct"} : [ex[c] EXCEPT !.pc = p].pc \notin Active
  BY <1>1 DEF Exits, Active, Checking
<1>7. \A c \in Circuits : ExitReturns(c) /\ UNCHANGED <<conn, policy>> => Quiet
  BY <1>3, <1>5 DEF ExitReturns
<1>8. CASE UNCHANGED vars \/ Serving \/ Upkeep
  <2>1. ASSUME UNCHANGED vars PROVE UNCHANGED <<ex, conn, policy>>
    BY <2>1 DEF vars, exitVars
  <2>2. ASSUME NEW a \in Apps, Handler(a) PROVE UNCHANGED <<ex, conn, policy>>
    BY <2>2 DEF Handler, Acquire, RegisterStream, BeginRefused, Write, BeginSucceeds, BeginFails, BeginTimeout, Reply, PumpEnds,
       exitVars
  <2>3. ASSUME NEW a \in Apps, AppLeaves(a) \/ \E b \in Apps : Clash(a, b) PROVE UNCHANGED <<ex, conn, policy>>
    BY <2>3 DEF AppLeaves, Clash, exitVars
  <2>4. ASSUME NEW c \in Circuits, ReadFrame(c) \/ ReadLoopEnds(c) \/ NotifyCircuitClosed(c) PROVE UNCHANGED <<ex, conn, policy>>
    BY <2>4 DEF ReadFrame, ReadLoopEnds, NotifyCircuitClosed, exitVars
  <2>5. ASSUME NEW c \in Circuits, TransientRead(c) \/ HeartbeatPing(c) \/ PoolCloses(c) PROVE UNCHANGED <<ex, conn, policy>>
    BY <2>5 DEF TransientRead, HeartbeatPing, PoolCloses, exitVars
  <2>6. ASSUME HeartbeatTimeout \/ SetExitSelection \/ \E n \in Nodes : CooldownEnds(n) PROVE UNCHANGED <<ex, conn, policy>>
    BY <2>6 DEF HeartbeatTimeout, SetExitSelection, CooldownEnds, exitVars
  <2>7. Serving => UNCHANGED <<ex, conn, policy>>
    BY <2>2, <2>3 DEF Serving
  <2>8. Upkeep => UNCHANGED <<ex, conn, policy>>
    BY <2>4, <2>5, <2>6 DEF Upkeep
  <2> QED BY <1>2, <1>8, <2>1, <2>7, <2>8
<1>9. CASE Build \/ BuildDialFails
  <2>1. CASE BuildDial
    <3>1. bld.cir \in Circuits /\ UNCHANGED <<conn, policy>>
      BY <1>1, <2>1 DEF BuildDial, Planned, Waiting
    <3>2. UNCHANGED ex \/ ex' = [ex EXCEPT ![bld.cir] = [ex[bld.cir] EXCEPT !.pc = "first"]]
      BY <2>1 DEF BuildDial
    <3> QED BY <1>2, <1>3, <1>6, <3>1, <3>2
  <2> QED BY <1>2, <1>9, <2>1 DEF Build, BuildStart, SelectPath, BuildExtend, BuildOpen, BuildTimeout, BuildDialFails, exitVars
<1>10. CASE Outside
  <2>1. ASSUME NEW s \in StreamIDs, ExitPump(s) \/ RemoteCloses(s) PROVE Quiet
    BY <1>2, <1>4, <2>1 DEF ExitPump, RemoteCloses
  <2>2. ASSUME NEW c \in Circuits, LinkBreaks(c) PROVE Quiet
    <3> DEFINE e == ServeAt("done")
    <3>1. (UNCHANGED ex \/ ex' = [ex EXCEPT ![c] = e]) /\ UNCHANGED <<conn, policy>>
      BY <2>2 DEF LinkBreaks
    <3> QED BY <1>2, <1>3, <1>5, <3>1
  <2> QED BY <1>10, <2>1, <2>2 DEF Outside
<1>11. ASSUME NEW c \in Circuits, Relay(c) PROVE Quiet
  <2> DEFINE e == ServeAt("first")
  <2>1. (UNCHANGED ex \/ ex' = [ex EXCEPT ![c] = e]) /\ UNCHANGED <<conn, policy>>
    BY <1>11 DEF Relay, RelayHandshake, RelayForward, RelayBackward, RelayPumpEnds, RelayEnds, exitVars
  <2> QED BY <1>2, <1>3, <1>5, <2>1
<1>12. ASSUME NEW c \in Circuits, Exit(c) \/ ExitDialFails(c) PROVE Quiet \/ ExitBegin(c) \/ ExitCheck(c) \/ ExitDial(c)
  <2> DEFINE d == ServeAt("direct")
  <2>1. CASE ExitHandshake(c)
    <3>1. /\ UNCHANGED <<conn, policy>>
          /\ \E p \in {"first", "enc", "direct"} : ex' = [ex EXCEPT ![c] = [ex[c] EXCEPT !.pc = p]]
      BY <2>1 DEF ExitHandshake
    <3> QED BY <1>3, <1>6, <3>1
  <2>2. CASE ExitDialUnresolved(c) \/ ExitDialFails(c)
    <3>1. UNCHANGED <<conn, policy>> /\ ex' = [ex EXCEPT ![c] = d]
      BY <2>2 DEF ExitDialUnresolved, ExitDialFails, ExitAnswers
    <3> QED BY <1>3, <1>5, <3>1
  <2>3. CASE ExitCell(c) \/ ExitEnds(c)
    BY <1>2, <1>7, <2>3 DEF ExitCell, ExitEnds
  <2>4. CASE ExitFrame(c)
    BY <1>2, <1>4, <2>4 DEF ExitFrame
  <2> QED BY <1>12, <2>1, <2>2, <2>3, <2>4 DEF Exit
<1> QED BY Groups, <1>8, <1>9, <1>10, <1>11, <1>12 DEF Outside

\* Every step keeps what is known of the checks: a change of policy between two rules
\* adds to the policies seen, and a rule that is passed was passed under one of them.
LEMMA CheckedStep ==
  ASSUME SafeInv, Checked, [Next]_vars
  PROVE  Checked'
<1>1. /\ Safe /\ Planned /\ ex \in [Circuits -> Exits] /\ conn \in [StreamIDs -> Connections] /\ policy \in Policies
  BY TypeParts DEF Safe, SafeInv, ExitOK
<1>2. \A c \in Circuits : plan[c] # NoPlan => plan'[c] = plan[c]
  BY <1>1, PlanStays
<1>3. \A c \in Circuits : ex[c].pc # "none" => plan'[c] = plan[c]
  BY <1>1, <1>2 DEF Planned
<1>4. \A s \in StreamIDs : conn[s].state # "none" => conn[s].cir \in Circuits /\ plan'[conn[s].cir] = plan[conn[s].cir]
  BY <1>1, <1>2 DEF Planned
<1> DEFINE Check(p, e, pl) == /\ e.pc \in Checking => p \in e.seen
                              /\ e.pc \in Active /\ Bound(e.s) => Cleared(e, pl)
           Admit(k, pl, s) == k.state # "none" /\ Bound(s) => Admitted(k, pl, s)
<1>5. /\ \A c \in Circuits : Check(policy, ex[c], plan[c])
      /\ \A s \in StreamIDs : Admit(conn[s], plan[conn[s].cir], s)
  BY DEF Checked
<1>6. /\ \A c \in Circuits : Check(policy', ex'[c], plan'[c])
      /\ \A s \in StreamIDs : Admit(conn'[s], plan'[conn'[s].cir], s)
      => Checked'
  BY DEF Checked, Cleared, Admitted, Passed, Allowed, Bound, AddressesOf
<1>7. \A c \in Circuits : (ex'[c].pc \in Active => ex'[c] = ex[c]) /\ policy' = policy => Check(policy', ex'[c], plan'[c])
  <2>1. \A c \in Circuits : ex[c].pc \in Active => plan'[c] = plan[c]
    BY <1>3 DEF Active, Checking
  <2>2. Checking \subseteq Active
    BY DEF Active
  <2> QED BY <1>5, <2>1, <2>2
<1>8. \A s \in StreamIDs : (conn'[s].state # "none" => conn[s].state # "none" /\ Alike(conn'[s], conn[s]))
                            => Admit(conn'[s], plan'[conn'[s].cir], s)
  BY <1>4, <1>5 DEF Alike, Admitted, AddressesOf
<1>9. \A c \in Circuits : ex[c].pc \in Active => plan'[c] = plan[c]
  BY <1>3 DEF Active, Checking
<1>10. ASSUME UNCHANGED conn PROVE \A s \in StreamIDs : Admit(conn'[s], plan'[conn'[s].cir], s)
  BY <1>8, <1>10 DEF Alike
<1> HIDE DEF Check, Admit
<1>11. CASE Quiet
  BY <1>6, <1>7, <1>8, <1>11 DEF Quiet
<1>12. CASE SetPolicy
  <2>1. PICK p \in scope.policies :
          /\ policy' = p
          /\ ex' = [c \in Circuits |-> IF ex[c].pc \in Checking THEN [ex[c] EXCEPT !.seen = ex[c].seen \cup {p}] ELSE ex[c]]
    BY <1>12 DEF SetPolicy
  <2>2. \A s \in StreamIDs : Admit(conn'[s], plan'[conn'[s].cir], s)
    BY <1>10, <1>12 DEF SetPolicy
  <2>3. ASSUME NEW c \in Circuits PROVE Check(policy', ex'[c], plan'[c])
    <3>1. ex[c] \in Exits
      BY <1>1
    <3>2. CASE ex[c].pc \notin Checking
      <4>1. ex'[c] = ex[c]
        BY <2>1, <3>2
      <4> QED BY <1>5, <1>9, <3>2, <4>1 DEF Check
    <3>3. CASE ex[c].pc \in Checking
      <4> DEFINE S == ex[c].seen \cup {p}
      <4>1. ex'[c] = [ex[c] EXCEPT !.seen = S]
        BY <2>1, <3>3
      <4>2. ex[c].seen \subseteq S /\ p \in S
        OBVIOUS
      <4> HIDE DEF S
      <4>3. PICK g : g = ex'[c]
        OBVIOUS
      <4>4. /\ g.pc = ex[c].pc /\ g.s = ex[c].s /\ g.rule = ex[c].rule /\ g.addrs = ex[c].addrs /\ g.seen = S
        BY <3>1, <4>1, <4>3 DEF Exits
      <4>5. plan'[c] = plan[c] /\ (Bound(ex[c].s) => Cleared(ex[c], plan[c]))
        BY <1>5, <1>9, <3>3 DEF Check, Active
      <4>6. /\ \A j, pl, s : Passed(j, pl, s, ex[c].seen) => Passed(j, pl, s, S)
            /\ \A k, s : Allowed(k, s, ex[c].seen) => Allowed(k, s, S)
        BY <4>2 DEF Passed, Allowed
      <4>7. Bound(g.s) => Cleared(g, plan[c])
        BY <4>2, <4>4, <4>5, <4>6 DEF Cleared
      <4> QED BY <2>1, <4>2, <4>3, <4>4, <4>5, <4>7 DEF Check
    <3> QED BY <3>2, <3>3
  <2> QED BY <1>6, <2>2, <2>3
<1>13. ASSUME NEW c \in Circuits, ExitBegin(c) PROVE Checked'
  <2>1. /\ UNCHANGED <<conn, policy>>
        /\ \E s : \E pc \in Active : /\ pc = "check" \/ Exempt(TargetOf[s[1]])
                                     /\ ex' = [ex EXCEPT ![c] = [ServeAt(pc) EXCEPT !.s = s, !.rule = 1, !.seen = {policy}]]
    <3>1. "dial" \in Active /\ "check" \in Active
      BY DEF Active, Checking
    <3> QED BY <1>13, <3>1 DEF ExitBegin
  <2>2. PICK s : \E pc \in Active : /\ pc = "check" \/ Exempt(TargetOf[s[1]])
                                    /\ ex' = [ex EXCEPT ![c] = [ServeAt(pc) EXCEPT !.s = s, !.rule = 1, !.seen = {policy}]]
    BY <2>1
  <2>8. PICK pc \in Active : /\ pc = "check" \/ Exempt(TargetOf[s[1]])
                             /\ ex' = [ex EXCEPT ![c] = [ServeAt(pc) EXCEPT !.s = s, !.rule = 1, !.seen = {policy}]]
    BY <2>2
  <2>3. PICK g : g = [ServeAt(pc) EXCEPT !.s = s, !.rule = 1, !.seen = {policy}]
    OBVIOUS
  <2>4. g.pc = pc /\ g.s = s /\ g.rule = 1 /\ g.seen = {policy} /\ g.addrs = <<>>
    BY <2>3 DEF ServeAt
  <2>5. ex'[c] = g /\ \A d \in Circuits : d # c => ex'[d] = ex[d]
    BY <1>1, <2>8, <2>3
  <2>6. Check(policy', ex'[c], plan'[c])
    <3>1. \A j \in DOMAIN Rules : ~(j < 1)
      BY DEF Rules
    <3>2. Bound(s) => pc = "check"
      BY <2>8 DEF Bound
    <3>3. Bound(s) => Cleared(g, plan'[c])
      BY <2>4, <3>1, <3>2 DEF Cleared
    <3> QED BY <2>1, <2>4, <2>5, <3>3 DEF Check
  <2>7. \A d \in Circuits : Check(policy', ex'[d], plan'[d])
    BY <1>7, <2>1, <2>5, <2>6
  <2> QED BY <1>6, <1>10, <2>1, <2>7
<1>14. ASSUME NEW c \in Circuits, ExitCheck(c) PROVE Checked'
  <2>1. UNCHANGED <<conn, policy>>
    BY <1>14 DEF ExitCheck
  <2>2. ex[c].pc \in Checking /\ (Refuses(c) \/ \E e \in Exits : Passes(c, e))
    BY <1>1, <1>14, CheckGoes
  <2>3. PICK x : x = ex[c]
    OBVIOUS
  <2>4. x \in Exits /\ policy \in x.seen /\ plan'[c] = plan[c] /\ (Bound(x.s) => Cleared(x, plan[c])) /\ x.pc \in Checking
    BY <1>1, <1>5, <1>9, <2>2, <2>3 DEF Check, Active
  <2>5. ASSUME Check(policy, ex'[c], plan[c]), \A d \in Circuits : d # c => ex'[d] = ex[d] PROVE Checked'
    <3>1. Check(policy', ex'[c], plan'[c])
      BY <2>1, <2>4, <2>5
    <3>2. \A d \in Circuits : Check(policy', ex'[d], plan'[d])
      BY <1>7, <2>1, <2>5, <3>1
    <3> QED BY <1>6, <1>10, <2>1, <3>2
  <2>6. CASE Refuses(c)
    <3>1. ex'[c] = ServeAt("direct") /\ \A d \in Circuits : d # c => ex'[d] = ex[d]
      BY <1>1, <2>6 DEF Refuses
    <3>2. ServeAt("direct").pc \notin Active /\ ServeAt("direct").pc \notin Checking
      BY DEF ServeAt, Active, Checking
    <3> QED BY <2>5, <3>1, <3>2 DEF Check
  <2>7. ASSUME NEW e, ExitPasses(c, e), e.s = x.s, e.seen = x.seen, Bound(x.s) => Cleared(e, plan[c]) PROVE Checked'
    <3>1. ex'[c] = e /\ \A d \in Circuits : d # c => ex'[d] = ex[d]
      BY <1>1, <2>7 DEF ExitPasses
    <3> QED BY <2>4, <2>5, <2>7, <3>1 DEF Check
  <2>8. CASE ExitRule(c) /\ ~Refuses(c)
    <3> DEFINE n == x.rule
               t == TargetOf[x.s[1]]
    <3>1. /\ x.pc = "check" /\ Verdict(Rules[n], policy, Peer(c), t) = ""
          /\ \/ ExitPasses(c, [x EXCEPT !.rule = n + 1])
             \/ n >= Len(Rules) /\ t.name = <<>> /\ ExitPasses(c, [x EXCEPT !.pc = "dial"])
             \/ n >= Len(Rules) /\ ExitPasses(c, [x EXCEPT !.pc = "remoteDNS"])
      <4>1. x.pc = "check" /\ x.rule \in DOMAIN Rules /\ Len(Rules) = 7 /\ DOMAIN Rules = 1..7
        <5>1. x.pc = "check"
          BY <2>3, <2>8 DEF ExitRule
        <5>2. Len(Rules) = 7 /\ DOMAIN Rules = 1..7
          BY DEF Rules
        <5> QED BY <2>4, <5>1, <5>2 DEF Exits
      <4>2. Target(c) = t
        BY <2>3 DEF Target
      <4>3. IF Verdict(Rules[n], policy, Peer(c), t) # "" THEN Refuses(c)
            ELSE IF n < Len(Rules) THEN ExitPasses(c, [x EXCEPT !.rule = n + 1])
            ELSE ExitPasses(c, [x EXCEPT !.pc = IF t.name = <<>> THEN "dial" ELSE "remoteDNS"])
        BY <2>3, <2>8, <4>2 DEF ExitRule, ExitRefuses, ExitAnswers, Refuses
      <4>4. n \in 1..7
        BY <4>1
      <4> HIDE DEF t, n
      <4>5. CASE n < Len(Rules)
        BY <2>8, <4>1, <4>3, <4>5
      <4>6. CASE ~(n < Len(Rules))
        <5>1. n >= Len(Rules)
          BY <4>1, <4>4, <4>6
        <5>2. Verdict(Rules[n], policy, Peer(c), t) = ""
          BY <2>8, <4>3
        <5>3. ExitPasses(c, [x EXCEPT !.pc = IF t.name = <<>> THEN "dial" ELSE "remoteDNS"])
          BY <4>3, <4>6, <5>2
        <5>4. CASE t.name = <<>>
          BY <4>1, <5>1, <5>2, <5>3, <5>4
        <5>5. CASE t.name # <<>>
          BY <4>1, <5>1, <5>2, <5>3, <5>5
        <5> QED BY <5>4, <5>5
      <4> QED BY <4>5, <4>6
    <3>2. n \in 1..7 /\ Len(Rules) = 7 /\ DOMAIN Rules = 1..7
      <4>1. Len(Rules) = 7 /\ DOMAIN Rules = 1..7
        BY DEF Rules
      <4>2. x.pc = "check" /\ x \in Exits
        BY <2>4, <3>1
      <4> QED BY <4>1, <4>2 DEF Exits
    <3>3. Passed(n, plan[c], x.s, x.seen)
      BY <2>4, <3>1, PeerIsPlanned DEF Passed
    <3>4. Bound(x.s) => x.addrs = <<>> /\ \A j \in DOMAIN Rules : j < n => Passed(j, plan[c], x.s, x.seen)
      BY <2>4, <3>1 DEF Cleared
    <3> HIDE DEF n
    <3>5. CASE ExitPasses(c, [x EXCEPT !.rule = n + 1])
      <4>1. PICK g : g = [x EXCEPT !.rule = n + 1]
        OBVIOUS
      <4>2. g.pc = "check" /\ g.s = x.s /\ g.rule = n + 1 /\ g.addrs = x.addrs /\ g.seen = x.seen
        BY <2>4, <3>1, <4>1 DEF Exits
      <4>3. \A j \in DOMAIN Rules : j < n + 1 => j < n \/ j = n
        BY <3>2
      <4>4. Bound(x.s) => Cleared(g, plan[c])
        BY <3>3, <3>4, <4>2, <4>3 DEF Cleared
      <4> QED BY <2>7, <3>5, <4>1, <4>2, <4>4
    <3>6. ASSUME n >= Len(Rules) PROVE Bound(x.s) => x.addrs = <<>> /\ \A j \in DOMAIN Rules : Passed(j, plan[c], x.s, x.seen)
      <4>1. \A j \in DOMAIN Rules : j < n \/ j = n
        BY <3>2, <3>6
      <4> QED BY <3>3, <3>4, <4>1
    <3>7. CASE n >= Len(Rules) /\ t.name = <<>> /\ ExitPasses(c, [x EXCEPT !.pc = "dial"])
      <4>1. PICK g : g = [x EXCEPT !.pc = "dial"]
        OBVIOUS
      <4>2. g.pc = "dial" /\ g.s = x.s /\ g.addrs = x.addrs /\ g.seen = x.seen
        BY <2>4, <4>1 DEF Exits
      <4>3. Bound(x.s) => Cleared(g, plan[c])
        BY <3>6, <3>7, <4>2 DEF Cleared
      <4> QED BY <2>7, <3>7, <4>1, <4>2, <4>3
    <3>8. CASE n >= Len(Rules) /\ ExitPasses(c, [x EXCEPT !.pc = "remoteDNS"])
      <4>1. PICK g : g = [x EXCEPT !.pc = "remoteDNS"]
        OBVIOUS
      <4>2. g.pc = "remoteDNS" /\ g.s = x.s /\ g.addrs = x.addrs /\ g.seen = x.seen
        BY <2>4, <4>1 DEF Exits
      <4>3. Bound(x.s) => Cleared(g, plan[c])
        BY <3>6, <3>8, <4>2 DEF Cleared
      <4> QED BY <2>7, <3>8, <4>1, <4>2, <4>3
    <3> QED BY <3>1, <3>5, <3>7, <3>8
  <2>9. CASE ExitRemoteDNS(c)
    <3>1. x.pc = "remoteDNS" /\ ((policy.remoteDNS /\ ExitPasses(c, [x EXCEPT !.pc = "lookup"]))
                                  \/ (~policy.remoteDNS /\ ExitPasses(c, [x EXCEPT !.pc = "dial"])))
      BY <2>3, <2>9 DEF ExitRemoteDNS
    <3>2. Bound(x.s) => x.addrs = <<>> /\ \A j \in DOMAIN Rules : Passed(j, plan[c], x.s, x.seen)
      BY <2>4, <3>1 DEF Cleared
    <3>3. CASE ExitPasses(c, [x EXCEPT !.pc = "lookup"])
      <4>1. PICK g : g = [x EXCEPT !.pc = "lookup"]
        OBVIOUS
      <4>2. g.pc = "lookup" /\ g.s = x.s /\ g.addrs = x.addrs /\ g.seen = x.seen
        BY <2>4, <4>1 DEF Exits
      <4>3. Bound(x.s) => Cleared(g, plan[c])
        BY <3>2, <4>2 DEF Cleared
      <4> QED BY <2>7, <3>3, <4>1, <4>2, <4>3
    <3>4. CASE ~policy.remoteDNS /\ ExitPasses(c, [x EXCEPT !.pc = "dial"])
      <4>1. PICK g : g = [x EXCEPT !.pc = "dial"]
        OBVIOUS
      <4>2. g.pc = "dial" /\ g.s = x.s /\ g.addrs = x.addrs /\ g.seen = x.seen
        BY <2>4, <4>1 DEF Exits
      <4>3. Bound(x.s) => Cleared(g, plan[c])
        BY <2>4, <3>2, <3>4, <4>2 DEF Cleared
      <4> QED BY <2>7, <3>4, <4>1, <4>2, <4>3
    <3> QED BY <3>1, <3>3, <3>4
  <2>10. CASE ExitLookup(c) /\ ~Refuses(c)
    <3>1. x.pc = "lookup" /\ \E found \in Resolved(TargetOf[x.s[1]]) :
                               ExitPasses(c, [x EXCEPT !.pc = "address", !.rule = 1, !.addrs = found])
      BY <2>3, <2>10 DEF ExitLookup, ExitRefuses, ExitAnswers, Refuses, Target
    <3>2. PICK found \in Resolved(TargetOf[x.s[1]]) :
                 ExitPasses(c, [x EXCEPT !.pc = "address", !.rule = 1, !.addrs = found])
      BY <3>1
    <3>3. PICK g : g = [x EXCEPT !.pc = "address", !.rule = 1, !.addrs = found]
      OBVIOUS
    <3>4. g.pc = "address" /\ g.s = x.s /\ g.rule = 1 /\ g.addrs = found /\ g.seen = x.seen
      BY <2>4, <3>3 DEF Exits
    <3>5. Bound(x.s) => \A j \in DOMAIN Rules : Passed(j, plan[c], x.s, x.seen)
      BY <2>4, <3>1 DEF Cleared
    <3>6. \A i \in DOMAIN found : ~(i < 1)
      <4>1. x.s \in StreamIDs
        BY <2>4 DEF Exits
      <4>2. found \in Seq(AddressClasses)
        BY <3>2, <4>1, ResolvedType
      <4> QED BY <4>2
    <3>7. Bound(x.s) => Cleared(g, plan[c])
      BY <3>2, <3>4, <3>5, <3>6 DEF Cleared
    <3> QED BY <2>7, <3>2, <3>3, <3>4, <3>7
  <2>11. CASE ExitAddress(c) /\ ~Refuses(c)
    <3> DEFINE n == x.rule
               L == x.addrs
    <3>1. /\ x.pc = "address" /\ CheckTargetIPAllowed(policy, L[n]) = ""
          /\ \/ n = Len(L) /\ ExitPasses(c, [x EXCEPT !.pc = "dial"])
             \/ n # Len(L) /\ ExitPasses(c, [x EXCEPT !.rule = n + 1])
      BY <2>3, <2>11 DEF ExitAddress, LastAddress, ExitRefuses, ExitAnswers, Refuses
    <3>2. n \in DOMAIN L /\ L \in Seq(AddressClasses)
      BY <2>4, <3>1 DEF Exits
    <3>3. n \in 1..Len(L) /\ DOMAIN L = 1..Len(L) /\ L[n] \in AddressClasses /\ Len(L) \in Nat
      BY <3>2
    <3>4. Allowed(L[n], x.s, x.seen)
      BY <2>4, <3>1, <3>3, AddressRule DEF Allowed
    <3>5. Bound(x.s) => /\ \A j \in DOMAIN Rules : Passed(j, plan[c], x.s, x.seen)
                        /\ L \in Resolved(TargetOf[x.s[1]])
                        /\ \A i \in DOMAIN L : i < n => Allowed(L[i], x.s, x.seen)
      BY <2>4, <3>1 DEF Cleared
    <3> HIDE DEF n, L
    <3>6. CASE n = Len(L) /\ ExitPasses(c, [x EXCEPT !.pc = "dial"])
      <4>1. PICK g : g = [x EXCEPT !.pc = "dial"]
        OBVIOUS
      <4>2. g.pc = "dial" /\ g.s = x.s /\ g.addrs = L /\ g.seen = x.seen
        BY <2>4, <4>1 DEF Exits, L
      <4>3. \A i \in DOMAIN L : i < n \/ i = n
        BY <3>3, <3>6
      <4>4. Bound(x.s) => Cleared(g, plan[c])
        BY <3>4, <3>5, <4>2, <4>3 DEF Cleared
      <4> QED BY <2>7, <3>6, <4>1, <4>2, <4>4
    <3>7. CASE n # Len(L) /\ ExitPasses(c, [x EXCEPT !.rule = n + 1])
      <4>1. PICK g : g = [x EXCEPT !.rule = n + 1]
        OBVIOUS
      <4>2. g.pc = "address" /\ g.s = x.s /\ g.rule = n + 1 /\ g.addrs = L /\ g.seen = x.seen
        BY <2>4, <3>1, <4>1 DEF Exits, L
      <4>3. \A i \in DOMAIN L : i < n + 1 => i < n \/ i = n
        BY <3>3
      <4>4. Bound(x.s) => Cleared(g, plan[c])
        BY <3>4, <3>5, <4>2, <4>3 DEF Cleared
      <4> QED BY <2>7, <3>7, <4>1, <4>2, <4>4
    <3> QED BY <3>1, <3>6, <3>7 DEF n, L
  <2> QED BY <1>14, <2>6, <2>8, <2>9, <2>10, <2>11 DEF ExitCheck
<1>15. ASSUME NEW c \in Circuits, ExitDial(c) PROVE Checked'
  <2>1. PICK x : x = ex[c]
    OBVIOUS
  <2>2. /\ policy' = policy /\ x.pc = "dial"
        /\ \E found \in Resolved(TargetOf[x.s[1]]) : \E i \in DOMAIN found :
             conn' = [conn EXCEPT ![x.s] = [state |-> "open", cir |-> c, under |-> x.seen, checked |-> x.addrs, to |-> found[i]]]
        /\ ex' = [ex EXCEPT ![c] = ServeAt("direct")]
    BY <1>15, <2>1 DEF ExitDial, ExitAnswers, Target
  <2>0. PICK found \in Resolved(TargetOf[x.s[1]]) : \E i \in DOMAIN found :
             conn' = [conn EXCEPT ![x.s] = [state |-> "open", cir |-> c, under |-> x.seen, checked |-> x.addrs, to |-> found[i]]]
    BY <2>2
  <2>3. PICK i \in DOMAIN found :
             conn' = [conn EXCEPT ![x.s] = [state |-> "open", cir |-> c, under |-> x.seen, checked |-> x.addrs, to |-> found[i]]]
    BY <2>0
  <2>4. \A d \in Circuits : ex'[d].pc \in Active => ex'[d] = ex[d]
    <3>1. ServeAt("direct").pc \notin Active
      BY DEF ServeAt, Active, Checking
    <3> QED BY <1>1, <2>2, <3>1
  <2>5. \A d \in Circuits : Check(policy', ex'[d], plan'[d])
    BY <1>7, <2>2, <2>4
  <2>6. ASSUME NEW r \in StreamIDs PROVE Admit(conn'[r], plan'[conn'[r].cir], r)
    <3>1. CASE r # x.s
      <4>1. conn'[r] = conn[r]
        BY <1>1, <2>3, <3>1
      <4> QED BY <1>8, <4>1 DEF Alike
    <3>2. CASE r = x.s
      <4> DEFINE t == TargetOf[r[1]]
      <4>1. PICK k : k = conn'[r]
        OBVIOUS
      <4>2. k.cir = c /\ k.under = x.seen /\ k.checked = x.addrs /\ k.to = found[i]
        BY <1>1, <2>3, <3>2, <4>1
      <4>3. plan'[c] = plan[c] /\ (Bound(r) => Cleared(x, plan[c])) /\ x \in Exits
        <5>1. ex[c].pc \in Active
          BY <2>1, <2>2 DEF Active
        <5> QED BY <1>1, <1>5, <1>9, <2>1, <3>2, <5>1 DEF Check
      <4>4. found \in Seq(AddressClasses) /\ x.addrs \in Seq(AddressClasses) /\ found \in Resolved(t)
        BY <2>3, <3>2, <4>3, ResolvedType DEF Exits
      <4>5. ASSUME Bound(r), NEW class \in AddressesOf(k, t) PROVE Allowed(class, r, x.seen)
        <5>1. /\ \A j \in DOMAIN Rules : Passed(j, plan[c], r, x.seen)
              /\ \A m \in DOMAIN x.addrs : Allowed(x.addrs[m], r, x.seen)
              /\ t.name = <<>> \/ x.addrs \in Resolved(t) \/ \E p \in x.seen : ~p.remoteDNS
          BY <2>2, <3>2, <4>3, <4>5 DEF Cleared
        <5>2. CASE class \in ToSet(x.addrs)
          BY <5>1, <5>2 DEF ToSet
        <5>3. CASE class = found[i] /\ \A u, v \in Resolved(t) : u = v
          <6>1. CASE t.name = <<>>
            <7>1. found = <<t.addr>> /\ i = 1
              BY <2>3, <4>4, <6>1 DEF Resolved
            <7>2. class = t.addr /\ class \in AddressClasses
              BY <2>3, <4>4, <5>3, <7>1
            <7>3. 7 \in DOMAIN Rules
              BY DEF Rules
            <7>4. PICK p \in x.seen : Verdict(Rules[7], p, PeerOf(plan[c]), t) = ""
              BY <5>1, <7>3 DEF Passed
            <7> QED BY <6>1, <7>2, <7>4, AddressRule DEF Allowed
          <6>2. CASE x.addrs \in Resolved(t)
            <7>1. found = x.addrs
              BY <4>4, <5>3, <6>2
            <7> QED BY <2>3, <5>1, <5>3, <7>1
          <6>3. CASE t.name # <<>> /\ \E p \in x.seen : ~p.remoteDNS
            BY <6>3 DEF Allowed, ForbidsAddress
          <6> QED BY <5>1, <6>1, <6>2, <6>3
        <5> QED BY <4>2, <4>5, <5>2, <5>3 DEF AddressesOf
      <4>6. Bound(r) => \A j \in DOMAIN Rules : Passed(j, plan[c], r, x.seen)
        BY <2>2, <3>2, <4>3 DEF Cleared
      <4>7. Bound(r) => Admitted(k, plan[c], r)
        BY <4>2, <4>5, <4>6 DEF Admitted
      <4> QED BY <4>1, <4>2, <4>3, <4>7 DEF Admit
    <3> QED BY <3>1, <3>2
  <2> QED BY <1>6, <2>5, <2>6
<1> QED BY <1>1, <1>11, <1>12, <1>13, <1>14, <1>15, QuietSteps

\* A check that was passed rule by rule met every clause under some policy it had seen.
LEMMA CheckedAdmits ==
  ASSUME SafeInv, Checked
  PROVE  AdmittedByPolicy
<1> SUFFICES ASSUME NEW s \in StreamIDs, conn[s].state # "none", ~Exempt(TargetOf[s[1]])
             PROVE  /\ \A clause \in Clauses :
                         \E p \in conn[s].under : clause \notin Forbids(p, Peer(conn[s].cir), TargetOf[s[1]])
                    /\ \A class \in AddressesOf(conn[s], TargetOf[s[1]]) :
                         \E p \in conn[s].under : ~ForbidsAddress(p, class, TargetOf[s[1]])
  BY DEF AdmittedByPolicy
<1>1. Admitted(conn[s], plan[conn[s].cir], s)
  BY DEF Checked, Bound
<1>2. ASSUME NEW clause \in Clauses
      PROVE  \E p \in conn[s].under : clause \notin Forbids(p, Peer(conn[s].cir), TargetOf[s[1]])
  <2> DEFINE t == TargetOf[s[1]]
             peer == Peer(conn[s].cir)
  <2> HIDE DEF t, peer
  <2>1. PICK j \in DOMAIN Rules : \A p : Verdict(Rules[j], p, peer, t) = "" => clause \notin Forbids(p, peer, t)
    BY RulesCoverClauses
  <2>2. \E p \in conn[s].under : Verdict(Rules[j], p, peer, t) = ""
    BY <1>1, PeerIsPlanned DEF Admitted, Passed, t, peer
  <2> QED BY <2>1, <2>2 DEF t, peer
<1> QED BY <1>1, <1>2 DEF Admitted, Allowed

\* The exit (checkBeginPolicy in internal/exit/service.go) never has a connection
\* that some clause of the configuration forbade during the whole check, nor one to an
\* address it forbade throughout, as far as the name resolves alike both times, for
\* any policies, targets and switches of policy between two steps of the check.
THEOREM PolicyHolds == Spec => []AdmittedByPolicy
<1>1. Init => SafeInv /\ Checked
  <2>1. Init => Checked
    <3> SUFFICES ASSUME Init PROVE Checked
      OBVIOUS
    <3>1. \A c \in Circuits : ex[c].pc \notin Active /\ ex[c].pc \notin Checking
      BY DEF Init, ServeAt, Active, Checking
    <3>2. \A s \in StreamIDs : conn[s].state = "none"
      BY DEF Init
    <3> QED BY <3>1, <3>2 DEF Checked
  <2> QED BY <2>1, SafeInit
<1>2. SafeInv /\ Checked /\ [Next]_vars => SafeInv' /\ Checked'
  BY SafeNext, CheckedStep
<1>3. SafeInv /\ Checked => AdmittedByPolicy
  BY CheckedAdmits
<1> QED BY <1>1, <1>2, <1>3, PTL DEF Spec
=============================================================================
