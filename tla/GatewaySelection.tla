-------------------------- MODULE GatewaySelection --------------------------
(***************************************************************************)
(* Which node the link enters the mesh through: async_select_gateway       *)
(* (gateway.py) and the loop of GodoxMeshLink._async_connect around it.    *)
(* Adverts arrive while a connect is awaited; between a failed connect and *)
(* the next selection nothing is awaited, so both are one step.            *)
(***************************************************************************)
EXTENDS Integers, FiniteSets

CONSTANTS
  Nodes,          \* the addresses that may advertise
  Known,          \* known_macs: nodes recognised without a Network ID advert
  Preferred,      \* the configured address
  None,           \* no gateway picked yet
  Signal,         \* rssi of each node's adverts
  FreshAdvert,    \* FRESH_ADVERT_SECONDS
  ShortHold,      \* SHORT_HOLD_SECONDS
  DropPenalty,    \* DROP_PENALTY_SECONDS
  MaxTime         \* bound on the clock

ASSUME GatewayAssumption ==
  /\ Known \subseteq Nodes /\ Preferred \in Nodes /\ None \notin Nodes
  /\ Signal \in [Nodes -> Int]
  /\ {FreshAdvert, ShortHold, DropPenalty, MaxTime} \subseteq Nat

Never == -1

Time == 0 .. MaxTime
Stamps == [Nodes -> Time \cup {Never}]

VARIABLES
  now,          \* time.monotonic()
  heard,        \* time of each node's last advert the manager holds
  named,        \* nodes whose last advert carried this network's Network ID
  failTime,     \* _fail_time
  droppedAt,    \* _dropped_at
  connectedAt,  \* _connected_at
  gateway,      \* _gateway, or None
  link,         \* "closed", "attempting", "open", or "gaveup": _async_connect raised
  tried,        \* _async_connect's nodes tried this round
  offered       \* history: the list the gateway was picked from

radio == <<now, heard, named>>
gatewayVars == <<radio, failTime, droppedAt, connectedAt, gateway, link, tried, offered>>

GatewayTypeOK == /\ now \in Time
                 /\ heard \in Stamps /\ failTime \in Stamps
                 /\ droppedAt \in Stamps
                 /\ connectedAt \in Time \cup {Never}
                 /\ named \subseteq Nodes /\ tried \subseteq Nodes /\ offered \subseteq Nodes
                 /\ gateway \in Nodes \cup {None}
                 /\ link \in {"closed", "attempting", "open", "gaveup"}
                 /\ link \in {"attempting", "open"} => gateway # None

-----------------------------------------------------------------------------
\* Mutant: an advert as old as the failure readmits the node.
CandidatesAtOnce(fails) == {n \in Nodes : /\ heard[n] # Never
                                          /\ n \in Known \cup named
                                          /\ heard[n] >= fails[n]}

\* On the list: held by the manager, of this mesh, and not failed since heard.
Candidates(fails) == {n \in Nodes : /\ heard[n] # Never
                                    /\ n \in Known \cup named
                                    /\ heard[n] > fails[n]}

Unstable(n, drops) == drops[n] # Never /\ now - drops[n] < DropPenalty
Stale(n) == now - heard[n] >= FreshAdvert

\* The sort key: steady before unstable, fresh before stale, then signal.
Burden(n, drops) == (IF Unstable(n, drops) THEN 2 ELSE 0) + (IF Stale(n) THEN 1 ELSE 0)
Before(a, b, drops) ==
  \/ Burden(a, drops) < Burden(b, drops)
  \/ Burden(a, drops) = Burden(b, drops) /\ Signal[a] > Signal[b]

Heads(list, drops) == {a \in list : \A b \in list : ~Before(b, a, drops)}

\* Mutant: stickiness that does not yield.
SelectionsSticky(fails, drops) ==
  LET list == Candidates(fails) IN
  IF list = {} THEN {Preferred}
  ELSE IF gateway \in list THEN {gateway}
  ELSE Heads(list, drops)

\* async_select_gateway, with the bookkeeping it is given.
Selections(fails, drops) ==
  LET list == Candidates(fails) IN
  IF list = {} THEN {Preferred}
  ELSE IF gateway \in list /\ ~Unstable(gateway, drops) THEN {gateway}
  ELSE Heads(list, drops)

\* _build_client: pick a gateway and aim the next connect at it.
Attempt(fails, drops) == /\ gateway' \in Selections(fails, drops)
                         /\ offered' = Candidates(fails)
                         /\ link' = "attempting"

\* _on_gateway_drop: only a quick drop counts, judged by the last connection
\* whose setup completed.
DropNoted == IF connectedAt # Never /\ now - connectedAt < ShortHold
             THEN [droppedAt EXCEPT ![gateway] = now] ELSE droppedAt

-----------------------------------------------------------------------------
GatewayInit == /\ now = 0
               /\ heard = [n \in Nodes |-> Never] /\ named = {}
               /\ failTime = [n \in Nodes |-> Never]
               /\ droppedAt = [n \in Nodes |-> Never]
               /\ connectedAt = Never /\ gateway = None
               /\ link = "closed" /\ tried = {} /\ offered = {}

Tick == /\ now < MaxTime
        /\ now' = now + 1
        /\ UNCHANGED <<heard, named, failTime, droppedAt, connectedAt, gateway, link,
                       tried, offered>>

\* An advert with the Network ID, or with Node Identity.  The node that holds
\* the connection does not advertise.
Advertise(n) == /\ ~(link = "open" /\ n = gateway)
                /\ heard' = [heard EXCEPT ![n] = now]
                /\ named' \in {named \cup {n}} \cup {named \ {n}}
                /\ UNCHANGED <<now, failTime, droppedAt, connectedAt, gateway, link,
                               tried, offered>>

\* The manager forgets a node that has gone quiet.
Vanish(n) == /\ heard[n] # Never
             /\ heard' = [heard EXCEPT ![n] = Never]
             /\ named' = named \ {n}
             /\ UNCHANGED <<now, failTime, droppedAt, connectedAt, gateway, link,
                            tried, offered>>

-----------------------------------------------------------------------------
\* A command finds no connection and enters _async_connect.
Begin == /\ link \in {"closed", "gaveup"}
         /\ tried' = {}
         /\ Attempt(failTime, droppedAt)
         /\ UNCHANGED <<radio, failTime, droppedAt, connectedAt>>

AttemptConnects == /\ link = "attempting"
                   /\ link' = "open"
                   /\ connectedAt' = now
                   /\ tried' = {} /\ offered' = {}
                   /\ UNCHANGED <<radio, failTime, droppedAt, gateway>>

\* Mutant: the loop only remembers the last node it tried.
AttemptFailsUntracked(dropped) ==
  /\ link = "attempting"
  /\ droppedAt' = IF dropped THEN DropNoted ELSE droppedAt
  /\ IF gateway \in tried
     THEN /\ link' = "gaveup"
          /\ UNCHANGED <<failTime, gateway, tried, offered>>
     ELSE /\ tried' = {gateway}
          /\ failTime' = [failTime EXCEPT ![gateway] = now]
          /\ Attempt(failTime', droppedAt')
  /\ UNCHANGED <<radio, connectedAt>>

\* The connect or its setup raised; dropped says that the connection was up and
\* went away during setup.  A first failure takes the node off the list and the
\* loop picks again at once; a second one of the same node ends the round.
AttemptFails(dropped) ==
  /\ link = "attempting"
  /\ droppedAt' = IF dropped THEN DropNoted ELSE droppedAt
  /\ IF gateway \in tried
     THEN /\ link' = "gaveup"
          /\ UNCHANGED <<failTime, gateway, tried, offered>>
     ELSE /\ tried' = tried \cup {gateway}
          /\ failTime' = [failTime EXCEPT ![gateway] = now]
          /\ Attempt(failTime', droppedAt')
  /\ UNCHANGED <<radio, connectedAt>>

\* The command is cancelled while it connects.
Cancelled == /\ link = "attempting"
             /\ link' = "closed"
             /\ tried' = {} /\ offered' = {}
             /\ UNCHANGED <<radio, failTime, droppedAt, connectedAt, gateway>>

\* The connection ends on its own, or is closed by the link.
Drops == /\ link = "open"
         /\ link' = "closed"
         /\ droppedAt' = DropNoted
         /\ UNCHANGED <<radio, failTime, connectedAt, gateway, tried, offered>>

Closes == /\ link = "open"
          /\ link' = "closed"
          /\ UNCHANGED <<radio, failTime, droppedAt, connectedAt, gateway, tried,
                         offered>>

GatewayNext == \/ Tick
               \/ \E n \in Nodes : Advertise(n) \/ Vanish(n)
               \/ Begin \/ AttemptConnects \/ Cancelled
               \/ \E dropped \in BOOLEAN : AttemptFails(dropped)
               \/ Drops \/ Closes

GatewaySpec == GatewayInit /\ [][GatewayNext]_gatewayVars

-----------------------------------------------------------------------------
\* The steps that pick a gateway, and those that pick again within a round.
Picks  == link' = "attempting" /\ UNCHANGED radio
Repicks == link = "attempting" /\ Picks

\* mesh.py:533, "a light that will not connect is abandoned for a sibling within
\* one command": a node that just failed is not attempted again next while any
\* node is on the list.
FailureMovesOn == [][Repicks => gateway' # gateway \/ offered' = {}]_gatewayVars

\* A node that will not hold a connection never comes before a steadier one on
\* the list, not even because it is the current one.
SteadyFirst ==
  [][Picks /\ gateway' \in offered' /\ Unstable(gateway', droppedAt')
       => \A n \in offered' : Unstable(n, droppedAt')]_gatewayVars

\* Every failed attempt uses up a node: a round has at most one attempt more
\* than there are nodes, however often they advertise meanwhile.
EveryFailureCounts == [][Repicks => tried \subseteq tried' /\ tried # tried']_gatewayVars
=============================================================================
