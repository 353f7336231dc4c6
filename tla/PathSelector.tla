--------------------------- MODULE PathSelector ---------------------------
(***************************************************************************)
(* How the client chooses the hops of a circuit: PathSelector              *)
(* (internal/client/path_selector.go) and the exit selection rules         *)
(* (internal/client/exit_selection.go).                                    *)
(*                                                                         *)
(* A selection is the set of plans the code may return: ties between nodes *)
(* that only differ in LastSuccess, and the order in which the countries   *)
(* nobody prefers are visited (a Go map), are left open.  The empty set    *)
(* stands for an error.                                                    *)
(***************************************************************************)
EXTENDS Naturals, Sequences, FiniteSets

CONSTANTS
    Descriptors,   \* discovery.Store: node -> [relay, exit, country, tcp, dns]
    Local,         \* localPeer
    AllowSelfExit, \* RoutePolicy.AllowSelfExit
    NoNode         \* an absent hop

Nodes == DOMAIN Descriptors

ASSUME SelectorAssumption == AllowSelfExit \in BOOLEAN /\ NoNode \notin Nodes

----------------------------------------------------------------------------
(* Peer health: what earlier circuits said about a node.                   *)

\* peerHealth; "known" is false while the map has no entry for the peer, and
\* "cooled" while CooldownUntil lies in the future.
NewHealth == [known |-> FALSE, successes |-> 0, failures |-> 0, cooled |-> FALSE]

Hops(plan) == {plan.relay, plan.exit} \ {NoNode}

reportPath(health, plan, success) ==
    [n \in DOMAIN health |->
        IF n \notin Hops(plan) THEN health[n]
        ELSE IF success
             THEN [known |-> TRUE, successes |-> health[n].successes + 1, failures |-> 0, cooled |-> FALSE]
             ELSE [health[n] EXCEPT !.known = TRUE, !.failures = @ + 1, !.cooled = TRUE]]

\* The first criterion, the smoothed round-trip time, is left out: it is recorded
\* with a pong, and no pong ever arrives (see HeartbeatTimeout of Circuit).
betterNode(health, a, b) ==
    \/ health[a].known /\ ~health[b].known
    \/ /\ health[a].known = health[b].known
       /\ \/ health[a].successes > health[b].successes
          \/ /\ health[a].successes = health[b].successes
             /\ health[a].failures < health[b].failures

\* The nodes rankNodes may put first: nobody in cooldown while another is not.
RankedFirst(health, S) ==
    LET available == {n \in S : ~health[n].cooled}
        field == IF available # {} THEN available ELSE S
    IN  {n \in field : \A m \in field : ~betterNode(health, m, n)}

----------------------------------------------------------------------------
(* Exit selection.                                                         *)

filterExitsExcluding(exclude) ==
    {n \in Nodes : /\ Descriptors[n].exit
                   /\ n \notin exclude
                   /\ AllowSelfExit \/ n # Local}

filterRelaysExcluding(exclude) ==
    {n \in Nodes \ ({Local} \cup exclude) : Descriptors[n].relay}

\* applyExitSelection: the filters every mode shares, then the mode's own.
applyExitSelection(cfg, exits) ==
    {n \in exits :
        /\ n \notin cfg.excludePeers
        /\ Descriptors[n].country \notin cfg.excludeCountries
        /\ ~(cfg.requireTCP /\ ~Descriptors[n].tcp)
        /\ ~(cfg.requireDNS /\ ~Descriptors[n].dns)
        /\ \/ cfg.mode \in {"auto", "country_preferred"}
           \/ cfg.mode = "fixed_peer" /\ n = cfg.fixedPeer
           \/ /\ cfg.mode = "country_only"
              /\ cfg.allowed # {} => Descriptors[n].country \in cfg.allowed}

\* fallback_to_any: the same filters without the mode's own.
filterExitsWithSelection(cfg, exclude) ==
    LET base == filterExitsExcluding(exclude)
        chosen == applyExitSelection(cfg, base)
    IN  IF chosen = {} /\ cfg.fallback
        THEN applyExitSelection([cfg EXCEPT !.mode = "auto"], base)
        ELSE chosen

\* The exits that may head the list: the first preferred country with an exit
\* of its own, ranked within the country.
ExitFirst(cfg, health, S) ==
    LET In(c) == {n \in S : Descriptors[n].country = c}
        wanted == {i \in 1..Len(cfg.preferred) : In(cfg.preferred[i]) # {}}
    IN  IF cfg.mode # "country_preferred" \/ cfg.preferred = <<>>
        THEN RankedFirst(health, S)
        ELSE IF wanted # {}
             THEN RankedFirst(health, In(cfg.preferred[CHOOSE i \in wanted : \A j \in wanted : i <= j]))
             ELSE UNION {RankedFirst(health, In(c)) : c \in {Descriptors[n].country : n \in S}}

----------------------------------------------------------------------------
(* Plans.                                                                  *)

DirectPlans(cfg, health, exits) ==
    {[relay |-> NoNode, exit |-> e] : e \in ExitFirst(cfg, health, exits)}

\* The first relay that leaves an exit other than itself, with the first such exit.
RelayPlans(cfg, health, relays, exits) ==
    LET able == {r \in relays : exits \ {r} # {}}
    IN  UNION {{[relay |-> r, exit |-> e] : e \in ExitFirst(cfg, health, exits \ {r})}
               : r \in RankedFirst(health, able)}

\* SelectPathForPoolExcluding: the three pool kinds choose alike.
SelectPathForPool(cfg, health, exclude) ==
    LET exits == filterExitsWithSelection(cfg, exclude)
    IN  IF exits = {} THEN {}
        ELSE IF cfg.allowDirect THEN DirectPlans(cfg, health, exits)
        ELSE RelayPlans(cfg, health, filterRelaysExcluding(exclude), exits)

=============================================================================
