----------------------------- MODULE RequestInfo -----------------------------
(***************************************************************************)
(* The outstanding-request tracker of                                      *)
(* src/epicchain/network/convenience/requestinfo.py, driven by the sync    *)
(* scheduler spec sections 4.3 and 5 describe (its code, SyncManager, and  *)
(* FlightInfo are not in this repository).                                 *)
(*                                                                         *)
(* One RequestInfo per tracked height.  The scheduler creates it with a    *)
(* first flight, may fan out to more peers, and on a timeout marks the     *)
(* peer of the most recent flight failed and issues a replacement flight;  *)
(* a response from any peer with a flight for the height ends tracking.    *)
(* Responses of discarded heights arrive late and are ignored.  Every      *)
(* method runs to completion before another handler runs (one event loop, *)
(* or the lock spec section 5 requires).                                   *)
(***************************************************************************)
EXTENDS Integers, FiniteSets, TLC

CONSTANTS
  Heights,      \* block or header heights the scheduler requests
  Nodes,        \* EpicChainNode ids
  MaxFlights,   \* bound on the flights issued per height
  NULL

ASSUME Heights # {} /\ Cardinality(Nodes) >= 2 /\ MaxFlights \in Nat

VARIABLES
  info,       \* [Heights -> RequestInfo record, or NULL when not tracked]
  issued,     \* [Heights -> number of flights issued], FlightInfo sequence
  inflight,   \* requests sent and not yet answered: [height, node, seq]
  received    \* heights whose data arrived

vars == <<info, issued, inflight, received>>

(* FlightInfo(node_id, height) with a creation sequence number in place   *)
(* of its timestamp.                                                      *)
FlightInfo(n, h, s) == [node_id |-> n, height |-> h, seq |-> s]

-----------------------------------------------------------------------------
(* RequestInfo.__init__ (lines 13-32). *)
NewRequestInfo(h) ==
  [height |-> h, failed_nodes |-> << >>, failed_total |-> 0,
   flights |-> << >>, last_used_node |-> -1]

(* Mutant of AddNewFlight: flights keyed by the flight's height. *)
AddNewFlightByHeight(r, f) ==
  [r EXCEPT !.flights = (f.height :> f) @@ r.flights,
            !.last_used_node = f.node_id]

(* add_new_flight (lines 34-42): replaces the node's flight. *)
AddNewFlight(r, f) ==
  [r EXCEPT !.flights = (f.node_id :> f) @@ r.flights,
            !.last_used_node = f.node_id]

(* most_recent_flight (lines 44-52): None on a KeyError. *)
MostRecentFlight(r) ==
  IF r.last_used_node \in DOMAIN r.flights THEN r.flights[r.last_used_node]
  ELSE NULL

(* mark_failed_node (lines 54-64). *)
MarkFailedNode(r, n) ==
  [r EXCEPT !.failed_nodes = (n :> IF n \in DOMAIN r.failed_nodes
                                      THEN r.failed_nodes[n] + 1 ELSE 1)
                             @@ r.failed_nodes,
            !.failed_total = @ + 1]

-----------------------------------------------------------------------------
(* Sending flight f: the FlightInfo is recorded and the request sent. *)
Send(h, r, n) ==
  LET f == FlightInfo(n, h, issued[h] + 1)
  IN /\ issued[h] < MaxFlights
     /\ issued' = [issued EXCEPT ![h] = @ + 1]
     /\ info' = [info EXCEPT ![h] = AddNewFlight(r, f)]
     /\ inflight' = inflight \cup {f}

(* The scheduler starts tracking a height with a first flight. *)
Request(h, n) ==
  /\ info[h] = NULL
  /\ h \notin received
  /\ issued[h] = 0
  /\ Send(h, NewRequestInfo(h), n)
  /\ UNCHANGED received

(* Fan-out: one more concurrent flight for a tracked height. *)
FanOut(h, n) ==
  /\ info[h] # NULL
  /\ Send(h, info[h], n)
  /\ UNCHANGED received

(* Timeout of the most recent flight: its node is marked failed and a   *)
(* replacement flight goes to another node.                             *)
Timeout(h, n) ==
  LET f == MostRecentFlight(info[h])
  IN /\ info[h] # NULL
     /\ f # NULL
     /\ f \in inflight
     /\ n # f.node_id
     /\ Send(h, MarkFailedNode(info[h], f.node_id), n)
     /\ UNCHANGED received

(* A node answers a request; a height still tracked is complete and its *)
(* RequestInfo discarded, a late answer is dropped.                     *)
Respond(f) ==
  /\ inflight' = inflight \ {f}
  /\ IF info[f.height] # NULL
       THEN /\ received' = received \cup {f.height}
            /\ info' = [info EXCEPT ![f.height] = NULL]
       ELSE UNCHANGED <<received, info>>
  /\ UNCHANGED issued

(* A request or its answer is lost. *)
Lose(f) ==
  /\ inflight' = inflight \ {f}
  /\ UNCHANGED <<info, issued, received>>

Init ==
  /\ info = [h \in Heights |-> NULL]
  /\ issued = [h \in Heights |-> 0]
  /\ inflight = {}
  /\ received = {}

Next ==
  \/ \E h \in Heights, n \in Nodes : Request(h, n) \/ FanOut(h, n) \/ Timeout(h, n)
  \/ \E f \in inflight : Respond(f) \/ Lose(f)

Spec == Init /\ [][Next]_vars

-----------------------------------------------------------------------------
Flights == [node_id : Nodes, height : Heights, seq : 1 .. MaxFlights]

TypeOK ==
  /\ \A h \in Heights :
       \/ info[h] = NULL
       \/ /\ info[h].height = h
          /\ DOMAIN info[h].flights \subseteq Nodes
          /\ \A n \in DOMAIN info[h].flights : info[h].flights[n] \in Flights
          /\ DOMAIN info[h].failed_nodes \subseteq Nodes
          /\ info[h].failed_total \in Nat
          /\ info[h].last_used_node \in Nodes \cup {-1}
  /\ issued \in [Heights -> 0 .. MaxFlights]
  /\ inflight \subseteq Flights
  /\ received \subseteq Heights

=============================================================================
