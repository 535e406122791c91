------------------------------ MODULE Presence ------------------------------
(***************************************************************************)
(* One user's WebSocket connections: the hub of each gateway node, the     *)
(* goroutines of a connection, and what they write about it to Redis.      *)
(*                                                                         *)
(* A connection has a handler goroutine (register, then read until it      *)
(* fails, then unregister), a write pump that pings on a timer, and        *)
(* possibly a goroutine that kicks it.  Redis holds a hash of the user's   *)
(* connections, whose time to live is one for all fields, and a sorted set *)
(* with the expiry time of the user (that of the connections is written    *)
(* along with the hash and only counted from: it is left out).  A Redis    *)
(* pipeline is one step.                                                   *)
(*                                                                         *)
(* Events for the user and forced logouts reach some gateway node, which   *)
(* routes them by the hash: to its own hub, and over Redis pub/sub to the  *)
(* other nodes, each of which takes the clients from its hub when the      *)
(* message arrives, if it arrives.  One request is on the way at a time,   *)
(* and the list and the router's own hub are read in one step.             *)
(*                                                                         *)
(* Time is abstract: a ping comes more than twice within a time to live    *)
(* (54 s and 120 s), so nothing a running pump writes expires, and         *)
(* everything else may expire.                                             *)
(***************************************************************************)
EXTENDS Naturals, FiniteSets

CONSTANTS
    Conns,        \* the connections the user ever makes
    Nodes,
    NodeOf,       \* the gateway node of a connection
    Router,       \* the node that routes what is meant for the user
    MaxFaults     \* bound on Redis calls that fail and on nodes that die

ASSUME PresenceAssumption == NodeOf \in [Conns -> Nodes] /\ Router \in Nodes /\ MaxFaults \in Nat

VARIABLES
    at,           \* where the two goroutines are that may unregister a connection
    hub,          \* the connections in the hubs
    closed,       \* those on which Close was called
    pumping,      \* those whose write pump runs
    listed,       \* the fields of presence:user:<uuid>:connections
    onlineUser,   \* the user is in presence:online_users
    wire,         \* messages on the way to other nodes
    owed,         \* connections that were listed for them and not reached yet
    faults

redis == <<listed, onlineUser>>
routing == <<wire, owed>>
vars == <<at, hub, closed, pumping, redis, routing, faults>>

Goroutines == {"handler", "kicker"}
Leaving == {"leave", "remove", "clear", "refresh"}

\* An event, a logout of every device, and a logout of one connection.
Requests == [kind : {"event", "all"}, about : {Conns}] \union [kind : {"some"}, about : {{c} : c \in Conns}]

\* Besides the types: a connection that was unregistered is not in the hub and
\* is closed, whatever happened to its writes.
TypeOK ==
    /\ at \in [Conns -> [Goroutines -> {"none", "register", "read", "done"} \union Leaving]]
    /\ hub \subseteq Conns /\ closed \subseteq Conns /\ pumping \subseteq Conns
    /\ listed \subseteq Conns /\ onlineUser \in BOOLEAN
    /\ \A c \in Conns, g \in Goroutines : at[c][g] = "done" => c \notin hub /\ c \in closed
    /\ wire \subseteq (Nodes \ {Router}) \X Requests /\ owed \subseteq Conns
    /\ faults \in 0..MaxFaults

Init ==
    /\ at = [c \in Conns |-> [g \in Goroutines |-> "none"]]
    /\ hub = {} /\ closed = {} /\ pumping = {}
    /\ listed = {} /\ onlineUser = FALSE
    /\ wire = {} /\ owed = {}
    /\ faults = 0

-----------------------------------------------------------------------------

Goto(c, g, step) == at' = [at EXCEPT ![c][g] = step]

Fault == faults < MaxFaults /\ faults' = faults + 1

\* Variant: a heartbeat only prolongs what is there.
ExtendState(c) == UNCHANGED redis

\* writeState: one field and the time to live of all, and the sorted set.
WriteState(c) ==
    /\ listed' = listed \union {c}
    /\ onlineUser' = TRUE

\* A call that fails is logged and forgotten.
WriteFails == Fault /\ UNCHANGED redis

-----------------------------------------------------------------------------
(* A connection *)

\* Hub.Register, up to the unlocking of the hub.
Connect(c) ==
    /\ at[c]["handler"] = "none"
    /\ hub' = hub \union {c}
    /\ Goto(c, "handler", "register")
    /\ UNCHANGED <<closed, pumping, redis, faults, routing>>

\* The presence is registered; a connection that was kicked in between is
\* unregistered at once, any other one is run.
Register(c) ==
    /\ at[c]["handler"] = "register"
    /\ (WriteState(c) /\ UNCHANGED faults) \/ WriteFails
    /\ IF c \in closed
       THEN Goto(c, "handler", "leave") /\ UNCHANGED pumping
       ELSE Goto(c, "handler", "read") /\ pumping' = pumping \union {c}
    /\ UNCHANGED <<hub, closed, routing>>

\* Variant of Touch.
Extend(c) == ExtendState(c) /\ UNCHANGED faults

\* Hub.Touch
Touch(c) == (WriteState(c) /\ UNCHANGED faults) \/ WriteFails

\* The write pump's timer: the presence is touched, then a ping is written.  On
\* a closed connection the ping fails and the pump ends.
Ping(c) ==
    /\ c \in pumping
    /\ Touch(c)
    /\ pumping' = pumping \ (IF c \in closed THEN {c} ELSE {})
    /\ UNCHANGED <<at, hub, closed, routing>>

\* A payload or the ping cannot be written: the pump ends and closes the connection.
PumpFails(c) ==
    /\ c \in pumping
    /\ pumping' = pumping \ {c}
    /\ closed' = closed \union {c}
    /\ UNCHANGED <<at, hub, redis, faults, routing>>

\* A frame of the client.
Receive(c) ==
    /\ at[c]["handler"] = "read" /\ c \notin closed
    /\ Touch(c)
    /\ UNCHANGED <<at, hub, closed, pumping, routing>>

\* The client goes away, or Close has made the read fail.
ReadFails(c) ==
    /\ at[c]["handler"] = "read"
    /\ Goto(c, "handler", "leave")
    /\ UNCHANGED <<hub, closed, pumping, redis, faults, routing>>

-----------------------------------------------------------------------------
(* Routing *)

\* Variant: a connection on the router's own node is enough.
DestinationsLocalFirst(r, listing) ==
    LET homes == {NodeOf[c] : c \in r.about \intersect listing}
    IN  IF homes = {} \/ Router \in homes THEN {Router} ELSE homes

\* An event goes to the nodes of the listed connections, a logout of every
\* device to the router's own hub as well.  One connection that is not listed
\* is looked for in the router's own hub, and so is everything else when
\* nothing is listed.
Destinations(r, listing) ==
    LET homes == {NodeOf[c] : c \in r.about \intersect listing}
    IN  IF homes = {} \/ r.kind = "all" THEN homes \union {Router} ELSE homes

\* The clients are unregistered one after the other; a client that a second
\* snapshot contains is unregistered already.
Kick(clients) ==
    at' = [c \in Conns |-> IF c \in clients /\ at[c]["kicker"] = "none"
                           THEN [at[c] EXCEPT !["kicker"] = "leave"] ELSE at[c]]

\* A snapshot of a hub is taken, and its clients are told or kicked.
At(n, r) == {c \in hub \intersect r.about : NodeOf[c] = n}
Tell(r, clients) == IF r.kind = "event" THEN UNCHANGED at ELSE Kick(clients)

\* The listed connections on other nodes are owed what is routed; when the list
\* cannot be read, the router's own hub is all there is.
Route(r) ==
    /\ wire = {}
    /\ \E listing \in {listed, {}} :
          LET homes == Destinations(r, listing)
          IN  /\ IF listing = listed THEN UNCHANGED faults ELSE Fault
              /\ Tell(r, IF Router \in homes THEN At(Router, r) ELSE {})
              /\ wire' = {<<n, r>> : n \in homes \ {Router}}
              /\ owed' = {c \in r.about \intersect listing : NodeOf[c] # Router}
    /\ UNCHANGED <<hub, closed, pumping, redis>>

\* dispatch, on another node
Dispatch(n, r) ==
    /\ <<n, r>> \in wire
    /\ Tell(r, At(n, r))
    /\ wire' = wire \ {<<n, r>>}
    /\ owed' = owed \ At(n, r)
    /\ UNCHANGED <<hub, closed, pumping, redis, faults>>

\* Pub/sub keeps nothing for a subscriber that is not there, and a publication
\* that fails is logged.
LoseMessage(n, r) ==
    /\ <<n, r>> \in wire
    /\ Fault
    /\ wire' = wire \ {<<n, r>>}
    /\ owed' = {c \in owed : NodeOf[c] # n}
    /\ UNCHANGED <<at, hub, closed, pumping, redis>>

\* A node is shut down; its process ends later, or not.
CloseAll(n) ==
    /\ Kick({c \in hub : NodeOf[c] = n})
    /\ UNCHANGED <<hub, closed, pumping, redis, routing, faults>>

-----------------------------------------------------------------------------
(* Hub.Unregister, in either goroutine *)

LeaveHub(c, g) ==
    /\ at[c][g] = "leave"
    /\ hub' = hub \ {c}
    /\ Goto(c, g, "remove")
    /\ UNCHANGED <<closed, pumping, redis, faults, routing>>

\* The first pipeline takes the connection out and counts what remains.
Remove(c, g) ==
    /\ at[c][g] = "remove"
    /\ listed' = listed \ {c}
    /\ Goto(c, g, IF listed \ {c} = {} THEN "clear" ELSE "refresh")
    /\ UNCHANGED <<hub, closed, pumping, onlineUser, faults, routing>>

\* Variant: an error returns before the connection is closed.
RemoveFailsOpen(c, g) ==
    /\ at[c][g] = "remove"
    /\ WriteFails
    /\ Goto(c, g, "done")
    /\ UNCHANGED <<hub, closed, pumping, routing>>

RemoveFails(c, g) ==
    /\ at[c][g] = "remove"
    /\ WriteFails
    /\ closed' = closed \union {c}
    /\ Goto(c, g, "done")
    /\ UNCHANGED <<hub, pumping, routing>>

\* The second pipeline acts on the count of the first; Close comes last.
Finish(c, g) ==
    /\ \/ at[c][g] = "clear" /\ listed' = {} /\ onlineUser' = FALSE /\ UNCHANGED faults
       \/ at[c][g] = "refresh" /\ onlineUser' = TRUE /\ UNCHANGED <<listed, faults>>
       \/ at[c][g] \in {"clear", "refresh"} /\ WriteFails
    /\ closed' = closed \union {c}
    /\ Goto(c, g, "done")
    /\ UNCHANGED <<hub, pumping, routing>>

-----------------------------------------------------------------------------
(* Redis, and nodes that die *)

\* Variant: the hash has no time to live.
KeyStays == FALSE /\ UNCHANGED vars

\* The hash expires when no pump has touched any of its fields for long.
KeyExpires ==
    /\ listed # {} /\ pumping = {}
    /\ listed' = {}
    /\ UNCHANGED <<at, hub, closed, pumping, onlineUser, faults, routing>>

\* cleanupExpired, whenever somebody counts.
CleanupExpired ==
    /\ onlineUser /\ pumping = {}
    /\ onlineUser' = FALSE
    /\ UNCHANGED <<at, hub, closed, pumping, listed, faults, routing>>

NodeDies(n) ==
    LET lost == {c \in Conns : NodeOf[c] = n /\ at[c]["handler"] # "none"}
    IN  /\ Fault
        /\ at' = [c \in Conns |-> IF c \in lost THEN [g \in Goroutines |-> "done"] ELSE at[c]]
        /\ hub' = hub \ lost
        /\ closed' = closed \union lost
        /\ pumping' = pumping \ lost
        /\ wire' = {m \in wire : m[1] # n}
        /\ owed' = owed \ lost
        /\ UNCHANGED redis

Run(c) == Register(c) \/ \E g \in Goroutines : LeaveHub(c, g) \/ Remove(c, g) \/ Finish(c, g)

Next ==
    \/ \E c \in Conns :
          \/ Connect(c) \/ Ping(c) \/ PumpFails(c) \/ Receive(c) \/ ReadFails(c) \/ Run(c)
          \/ \E g \in Goroutines : RemoveFails(c, g)
    \/ KeyExpires \/ CleanupExpired
    \/ \E r \in Requests : Route(r)
    \/ \E n \in Nodes, r \in Requests : Dispatch(n, r) \/ LoseMessage(n, r)
    \/ \E n \in Nodes : CloseAll(n) \/ NodeDies(n)

Spec == Init /\ [][Next]_vars

\* Goroutines that can run do, timers fire, and keys expire.  Nobody has to
\* connect, to leave or to be kicked; a read on a closed connection fails.
Fairness ==
    /\ WF_vars(KeyExpires)
    /\ WF_vars(\E n \in Nodes, r \in Requests : Dispatch(n, r))
    /\ \A c \in Conns : /\ WF_vars(Run(c))
                        /\ WF_vars(Ping(c))
                        /\ WF_vars(c \in closed /\ ReadFails(c))

FairSpec == Spec /\ Fairness

-----------------------------------------------------------------------------
(* Properties *)

Serving(c) == at[c]["handler"] = "read" /\ c \notin closed

\* A connection that is being served does not stay missing from the hash: the
\* event router finds it again although another one's unregistration cleared
\* the whole key between its two pipelines, or a write failed (Touch).
ServedIsListedAgain == \A c \in Conns : Serving(c) ~> c \in listed \/ ~ Serving(c)

\* When the last connection of a user is gone for good, the hash empties, late
\* writes and dead nodes notwithstanding (writeState, Expire).
QuietUserVanishes == (<>[] \A c \in Conns : ~ Serving(c)) => (<>[] (listed = {}))

\* When nothing is on the way, what was routed has reached every connection of
\* another node that was listed for it and has not left its hub since, unless its
\* message was lost: a connection is not listed before it is in the hub, and is
\* looked for there when the message arrives (SendEventToUserContext,
\* DisconnectConnections, DisconnectAllConnections, dispatch).
ReachesListed == wire = {} => owed \intersect hub = {}

\* A logout on the way to a connection ends it, if the message is not lost:
\* whatever fails or is done at the same time on the connection's node, both of
\* its goroutines come to Close (dispatch, disconnectClient, Unregister).
LogoutEnds == \A c \in Conns :
    c \in owed /\ (\E m \in wire : m[2].kind # "event" /\ m[1] = NodeOf[c])
    ~> c \in closed \/ (c \notin owed /\ at[c]["kicker"] = "none")

\* What the documentation promises of a connection that has ended: it is shown
\* as online for a short time at most.
EndedVanishes == \A c \in Conns : c \in closed ~> c \notin listed
=============================================================================
