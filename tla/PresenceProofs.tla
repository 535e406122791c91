---------------------------- MODULE PresenceProofs ----------------------------
(***************************************************************************)
(* Proofs about Presence for any connections, nodes and number of faults:  *)
(* its type invariant, with which a connection that was unregistered is    *)
(* out of the hub and closed, and that what is routed reaches whom it was  *)
(* listed for.                                                             *)
(***************************************************************************)
EXTENDS Presence, TLAPS

USE PresenceAssumption DEF PresenceAssumption

-----------------------------------------------------------------------------
(* Type correctness.  TypeOK says nothing of a goroutine that is leaving:   *)
(* it took the connection out of the hub first, and nobody puts it there    *)
(* again, for Connect is the first thing that happens to a connection.      *)

\* Nothing has been done with the connection.
Untouched(c) == at[c]["handler"] = "none"

\* The connection has left the hub.
Outside(c) == \E g \in Goroutines : at[c][g] \in {"remove", "clear", "refresh", "done"}

Steps == \A c \in Conns :
    /\ Untouched(c) => c \notin hub /\ at[c]["kicker"] = "none"
    /\ Outside(c) => c \notin hub

Typed == TypeOK /\ Steps

LEMMA TypedInit == Init => Typed
  <1> SUFFICES ASSUME Init PROVE Typed
    OBVIOUS
  <1>1. \A c \in Conns, g \in Goroutines : at[c][g] = "none"
    BY DEF Init
  <1>2. at \in [Conns -> [Goroutines -> {"none", "register", "read", "done"} \union Leaving]]
    BY DEF Init
  <1>3. Steps
    BY <1>1 DEF Init, Steps, Untouched, Outside, Goroutines
  <1>4. \A c \in Conns, g \in Goroutines : at[c][g] # "done"
    BY <1>1
  <1>5. /\ hub \subseteq Conns /\ closed \subseteq Conns /\ pumping \subseteq Conns
        /\ listed \subseteq Conns /\ owed \subseteq Conns
    BY DEF Init
  <1>6. onlineUser \in BOOLEAN
    BY DEF Init
  <1>7. faults \in 0..MaxFaults
    BY DEF Init
  <1>8. wire \subseteq (Nodes \ {Router}) \X Requests
    BY DEF Init
  <1> QED BY <1>2, <1>3, <1>4, <1>5, <1>6, <1>7, <1>8 DEF Typed, TypeOK

\* A step of one goroutine of one connection.
LEMMA GotoTyped ==
  ASSUME Typed, NEW c \in Conns, NEW g \in Goroutines,
         NEW step \in {"register", "read", "done"} \union Leaving, Goto(c, g, step),
         Untouched(c) => g = "handler",
         hub' \subseteq hub \union {c}, closed \subseteq closed', closed' \subseteq Conns,
         step \notin {"register", "read", "leave"} => c \notin hub',
         step \in {"register", "read", "leave"} => ~ Outside(c) \/ c \notin hub',
         step = "done" => c \in closed'
  PROVE  /\ at' \in [Conns -> [Goroutines -> {"none", "register", "read", "done"} \union Leaving]]
         /\ hub' \subseteq Conns
         /\ \A d \in Conns, h \in Goroutines : at'[d][h] = "done" => d \notin hub' /\ d \in closed'
         /\ Steps'
  <1> USE DEF Typed, TypeOK
  <1>1. at' = [at EXCEPT ![c] = [at[c] EXCEPT ![g] = step]]
    BY DEF Goto
  <1>2. /\ at'[c][g] = step
        /\ \A h \in Goroutines \ {g} : at'[c][h] = at[c][h]
        /\ \A d \in Conns \ {c} : at'[d] = at[d]
    BY <1>1
  <1>3. at' \in [Conns -> [Goroutines -> {"none", "register", "read", "done"} \union Leaving]]
    BY <1>1
  <1>4. \A d \in Conns, h \in Goroutines : at'[d][h] = "done" => d \notin hub' /\ d \in closed'
    <2> SUFFICES ASSUME NEW d \in Conns, NEW h \in Goroutines, at'[d][h] = "done"
                 PROVE  d \notin hub' /\ d \in closed'
      OBVIOUS
    <2>1. CASE d # c
      BY <2>1, <1>2
    <2>2. CASE d = c /\ h = g
      BY <2>2, <1>2
    <2>3. CASE d = c /\ h # g
      <3>1. at[c][h] = "done" /\ Outside(c)
        BY <2>3, <1>2 DEF Outside
      <3> QED BY <2>3, <3>1
    <2> QED BY <2>1, <2>2, <2>3
  <1>5. Steps'
    <2> SUFFICES ASSUME NEW d \in Conns
                 PROVE  /\ at'[d]["handler"] = "none" => d \notin hub' /\ at'[d]["kicker"] = "none"
                        /\ (\E h \in Goroutines : at'[d][h] \in {"remove", "clear", "refresh", "done"})
                              => d \notin hub'
      BY DEF Steps, Untouched, Outside
    <2>1. CASE d # c
      BY <2>1, <1>2 DEF Steps, Untouched, Outside
    <2>2. CASE d = c
      <3>1. at'[c]["handler"] # "none"
        BY <1>2 DEF Untouched, Goroutines, Leaving
      <3>2. (\E h \in Goroutines : at'[c][h] \in {"remove", "clear", "refresh", "done"})
              => Outside(c) \/ step \in {"remove", "clear", "refresh", "done"}
        BY <1>2 DEF Outside
      <3>3. step \in {"remove", "clear", "refresh", "done"} => step \notin {"register", "read", "leave"}
        OBVIOUS
      <3>4. step \in {"register", "read", "leave"} \/ step \notin {"register", "read", "leave"}
        OBVIOUS
      <3> QED BY <2>2, <3>1, <3>2, <3>3, <3>4
    <2> QED BY <2>1, <2>2
  <1> QED BY <1>3, <1>4, <1>5

\* Clients of a hub are kicked, or told.
LEMMA KickTyped ==
  ASSUME Typed, NEW clients, clients \subseteq hub, Kick(clients) \/ UNCHANGED at,
         UNCHANGED <<hub, closed>>
  PROVE  /\ at' \in [Conns -> [Goroutines -> {"none", "register", "read", "done"} \union Leaving]]
         /\ \A d \in Conns, h \in Goroutines : at'[d][h] = "done" => d \notin hub' /\ d \in closed'
         /\ Steps'
         /\ \A d \in Conns : at'[d]["handler"] = at[d]["handler"]
  <1> USE DEF Typed, TypeOK
  <1>1. CASE UNCHANGED at
    BY <1>1 DEF Steps, Untouched, Outside
  <1>2. CASE Kick(clients)
    <2>1. at' = [c \in Conns |-> IF c \in clients /\ at[c]["kicker"] = "none"
                                 THEN [at[c] EXCEPT !["kicker"] = "leave"] ELSE at[c]]
      BY <1>2 DEF Kick
    <2>2. \A d \in Conns :
             \/ at'[d] = at[d]
             \/ d \in hub /\ at'[d] = [at[d] EXCEPT !["kicker"] = "leave"]
      BY <2>1
    <2>3. \A d \in Conns : at'[d] \in [Goroutines -> {"none", "register", "read", "done"} \union Leaving]
      <3> SUFFICES ASSUME NEW d \in Conns
                   PROVE  at'[d] \in [Goroutines -> {"none", "register", "read", "done"} \union Leaving]
        OBVIOUS
      <3>1. at[d] \in [Goroutines -> {"none", "register", "read", "done"} \union Leaving]
        OBVIOUS
      <3>2. "leave" \in {"none", "register", "read", "done"} \union Leaving
        BY DEF Leaving
      <3>3. CASE at'[d] = at[d]
        BY <3>1, <3>3
      <3>4. CASE at'[d] = [at[d] EXCEPT !["kicker"] = "leave"]
        BY <3>1, <3>2, <3>4
      <3> QED BY <2>2, <3>3, <3>4
    <2>4. at' \in [Conns -> [Goroutines -> {"none", "register", "read", "done"} \union Leaving]]
      BY <2>1, <2>3
    <2>5. ASSUME NEW d \in Conns
          PROVE  /\ at'[d]["handler"] = at[d]["handler"]
                 /\ at'[d]["kicker"] = at[d]["kicker"] \/ (d \in hub /\ at'[d]["kicker"] = "leave")
      <3>1. DOMAIN at[d] = Goroutines /\ "kicker" \in Goroutines /\ "kicker" # "handler"
        BY DEF Goroutines
      <3>2. CASE at'[d] = at[d]
        BY <3>2
      <3>3. CASE d \in hub /\ at'[d] = [at[d] EXCEPT !["kicker"] = "leave"]
        BY <3>1, <3>3 DEF Goroutines
      <3> QED BY <2>2, <3>2, <3>3
    <2>6. \A d \in Conns : at'[d]["kicker"] = at[d]["kicker"] \/ (d \in hub /\ at'[d]["kicker"] = "leave")
      BY <2>5
    <2>7. \A d \in Conns, h \in Goroutines :
             at'[d][h] \in {"remove", "clear", "refresh", "done"} => at'[d][h] = at[d][h]
      BY <2>5, <2>6 DEF Goroutines
    <2>8. Steps'
      BY <2>5, <2>6, <2>7 DEF Steps, Untouched, Outside
    <2> QED BY <2>4, <2>5, <2>7, <2>8
  <1> QED BY <1>1, <1>2

LEMMA AtHub ==
  ASSUME NEW n, NEW r PROVE At(n, r) \subseteq hub
  BY DEF At

LEMMA DestinationsTyped ==
  ASSUME NEW r \in Requests, NEW listing
  PROVE  Destinations(r, listing) \subseteq Nodes
  <1>1. r.about \subseteq Conns
    BY DEF Requests
  <1>2. {NodeOf[c] : c \in r.about \intersect listing} \subseteq Nodes
    BY <1>1
  <1> QED BY <1>2 DEF Destinations

LEMMA TypedStep == Typed /\ [Next]_vars => Typed'
  <1> SUFFICES ASSUME Typed, [Next]_vars PROVE Typed'
    OBVIOUS
  <1> USE DEF redis, routing
  <1>0. Steps /\ TypeOK
    BY DEF Typed
  <1>a. ASSUME UNCHANGED <<at, hub>>, closed \subseteq closed', closed' \subseteq Conns,
               pumping' \subseteq Conns, listed' \subseteq Conns, onlineUser' \in BOOLEAN,
               faults' \in 0..MaxFaults, UNCHANGED routing
        PROVE  Typed'
    BY <1>0, <1>a DEF Typed, TypeOK, Steps, Untouched, Outside
  <1>b. ASSUME NEW c \in Conns, WriteState(c) PROVE listed' \subseteq Conns /\ onlineUser' \in BOOLEAN
    BY <1>0, <1>b DEF WriteState, TypeOK
  <1>c. ASSUME Fault PROVE faults' \in 0..MaxFaults
    BY <1>0, <1>c DEF Fault, TypeOK
  <1>1. ASSUME NEW c \in Conns, Connect(c) PROVE Typed'
    <2> USE <1>1 DEF Connect
    <2>1. ~ Outside(c) /\ Untouched(c)
      BY <1>0 DEF Outside, Steps, Untouched, Goroutines
    <2> HIDE DEF Connect
    <2>2. Goto(c, "handler", "register") /\ hub' = hub \union {c} /\ UNCHANGED <<closed, pumping, redis, faults, routing>>
      BY DEF Connect
    <2>3. /\ at' \in [Conns -> [Goroutines -> {"none", "register", "read", "done"} \union Leaving]]
          /\ hub' \subseteq Conns
          /\ \A d \in Conns, h \in Goroutines : at'[d][h] = "done" => d \notin hub' /\ d \in closed'
          /\ Steps'
      BY <1>0, <2>1, <2>2, GotoTyped DEF Goroutines, TypeOK
    <2> QED BY <1>0, <2>2, <2>3 DEF Typed, TypeOK
  <1>2. ASSUME NEW c \in Conns, Register(c) PROVE Typed'
    <2>1. PICK step \in {"read", "leave"} : Goto(c, "handler", step)
      BY <1>2 DEF Register
    <2>2. /\ at[c]["handler"] = "register" /\ UNCHANGED <<hub, closed, routing>>
          /\ pumping' \subseteq Conns
      BY <1>0, <1>2 DEF Register, TypeOK
    <2>3. listed' \subseteq Conns /\ onlineUser' \in BOOLEAN /\ faults' \in 0..MaxFaults
      BY <1>0, <1>2, <1>b, <1>c DEF Register, WriteFails, TypeOK
    <2>4. ~ Outside(c) \/ c \notin hub
      BY <1>0 DEF Steps
    <2>5. /\ at' \in [Conns -> [Goroutines -> {"none", "register", "read", "done"} \union Leaving]]
          /\ hub' \subseteq Conns
          /\ \A d \in Conns, h \in Goroutines : at'[d][h] = "done" => d \notin hub' /\ d \in closed'
          /\ Steps'
      BY <1>0, <2>1, <2>2, <2>4, GotoTyped DEF Goroutines, Leaving, TypeOK
    <2> QED BY <1>0, <2>2, <2>3, <2>5 DEF Typed, TypeOK
  <1>3. ASSUME NEW c \in Conns, Ping(c) \/ Receive(c) PROVE Typed'
    <2>1. listed' \subseteq Conns /\ onlineUser' \in BOOLEAN /\ faults' \in 0..MaxFaults
      BY <1>0, <1>3, <1>b, <1>c DEF Ping, Receive, Touch, WriteFails, TypeOK
    <2>2. UNCHANGED <<at, hub, closed, routing>> /\ pumping' \subseteq Conns
      BY <1>0, <1>3 DEF Ping, Receive, TypeOK
    <2> QED BY <1>0, <2>1, <2>2, <1>a DEF TypeOK
  <1>4. ASSUME NEW c \in Conns, PumpFails(c) PROVE Typed'
    BY <1>0, <1>4, <1>a DEF PumpFails, TypeOK
  <1>5. ASSUME NEW c \in Conns, ReadFails(c) PROVE Typed'
    <2>1. /\ Goto(c, "handler", "leave") /\ ~ Untouched(c)
          /\ UNCHANGED <<hub, closed, pumping, redis, faults, routing>>
      BY <1>5 DEF ReadFails, Untouched
    <2>2. ~ Outside(c) \/ c \notin hub
      BY <1>0 DEF Steps
    <2>3. /\ at' \in [Conns -> [Goroutines -> {"none", "register", "read", "done"} \union Leaving]]
          /\ hub' \subseteq Conns
          /\ \A d \in Conns, h \in Goroutines : at'[d][h] = "done" => d \notin hub' /\ d \in closed'
          /\ Steps'
      BY <1>0, <2>1, <2>2, GotoTyped DEF Goroutines, Leaving, TypeOK
    <2> QED BY <1>0, <2>1, <2>3 DEF Typed, TypeOK
  <1>6. ASSUME NEW c \in Conns, NEW g \in Goroutines,
               LeaveHub(c, g) \/ Remove(c, g) \/ Finish(c, g) \/ RemoveFails(c, g)
        PROVE  Typed'
    <2>1. at[c][g] \in {"leave", "remove", "clear", "refresh"}
      BY <1>6 DEF LeaveHub, Remove, Finish, RemoveFails
    <2>2. ~ Untouched(c)
      BY <1>0, <2>1 DEF Steps, Untouched, Goroutines
    <2>3. LeaveHub(c, g) \/ c \notin hub
      BY <1>0, <1>6 DEF Steps, Outside, Remove, Finish, RemoveFails
    <2>4. hub' \subseteq hub /\ c \notin hub' /\ UNCHANGED <<pumping, routing>>
      BY <1>6, <2>3 DEF LeaveHub, Remove, Finish, RemoveFails
    <2>5. PICK step \in {"remove", "clear", "refresh", "done"} :
             /\ Goto(c, g, step)
             /\ step = "done" => c \in closed'
      BY <1>6 DEF LeaveHub, Remove, Finish, RemoveFails
    <2>6. closed \subseteq closed' /\ closed' \subseteq Conns
      BY <1>0, <1>6 DEF LeaveHub, Remove, Finish, RemoveFails, TypeOK
    <2>7. listed' \subseteq Conns /\ onlineUser' \in BOOLEAN /\ faults' \in 0..MaxFaults
      BY <1>0, <1>6, <1>c DEF LeaveHub, Remove, Finish, RemoveFails, WriteFails, TypeOK
    <2>8. /\ at' \in [Conns -> [Goroutines -> {"none", "register", "read", "done"} \union Leaving]]
          /\ hub' \subseteq Conns
          /\ \A d \in Conns, h \in Goroutines : at'[d][h] = "done" => d \notin hub' /\ d \in closed'
          /\ Steps'
      BY <2>2, <2>4, <2>5, <2>6, GotoTyped DEF Leaving
    <2> QED BY <1>0, <2>4, <2>6, <2>7, <2>8 DEF Typed, TypeOK
  <1>7. CASE KeyExpires \/ CleanupExpired
    BY <1>0, <1>7, <1>a DEF KeyExpires, CleanupExpired, TypeOK
  <1>8. ASSUME NEW r \in Requests, Route(r) PROVE Typed'
    <2>1. PICK listing \in {listed, {}} :
             /\ IF listing = listed THEN UNCHANGED faults ELSE Fault
             /\ Tell(r, IF Router \in Destinations(r, listing) THEN At(Router, r) ELSE {})
             /\ wire' = {<<n, r>> : n \in Destinations(r, listing) \ {Router}}
             /\ owed' = {c \in r.about \intersect listing : NodeOf[c] # Router}
      BY <1>8 DEF Route
    <2>2. UNCHANGED <<hub, closed, pumping, redis>>
      BY <1>8 DEF Route
    <2>3. \E clients \in SUBSET hub : Kick(clients) \/ UNCHANGED at
      BY <2>1, AtHub DEF Tell
    <2>4. /\ at' \in [Conns -> [Goroutines -> {"none", "register", "read", "done"} \union Leaving]]
          /\ \A d \in Conns, h \in Goroutines : at'[d][h] = "done" => d \notin hub' /\ d \in closed'
          /\ Steps'
      BY <2>2, <2>3, KickTyped
    <2>5. wire' \subseteq (Nodes \ {Router}) \X Requests /\ owed' \subseteq Conns
      BY <1>0, <2>1, DestinationsTyped DEF TypeOK
    <2>6. faults' \in 0..MaxFaults
      BY <1>0, <2>1, <1>c DEF TypeOK
    <2> QED BY <1>0, <2>2, <2>4, <2>5, <2>6 DEF Typed, TypeOK
  <1>9. ASSUME NEW n \in Nodes, NEW r \in Requests, Dispatch(n, r) PROVE Typed'
    <2>1. Kick(At(n, r)) \/ UNCHANGED at
      BY <1>9 DEF Dispatch, Tell
    <2>2. /\ at' \in [Conns -> [Goroutines -> {"none", "register", "read", "done"} \union Leaving]]
          /\ \A d \in Conns, h \in Goroutines : at'[d][h] = "done" => d \notin hub' /\ d \in closed'
          /\ Steps'
      BY <1>9, <2>1, KickTyped, AtHub DEF Dispatch
    <2> QED BY <1>0, <1>9, <2>2 DEF Dispatch, Typed, TypeOK
  <1>10. ASSUME NEW n \in Nodes, NEW r \in Requests, LoseMessage(n, r) PROVE Typed'
    <2>1. wire' \subseteq wire /\ owed' \subseteq owed /\ UNCHANGED <<at, hub, closed, pumping, redis>>
      BY <1>10 DEF LoseMessage
    <2>2. faults' \in 0..MaxFaults
      BY <1>10, <1>c DEF LoseMessage
    <2> QED BY <1>0, <2>1, <2>2 DEF Typed, TypeOK, Steps, Untouched, Outside
  <1>11. ASSUME NEW n \in Nodes, CloseAll(n) PROVE Typed'
    <2>1. /\ at' \in [Conns -> [Goroutines -> {"none", "register", "read", "done"} \union Leaving]]
          /\ \A d \in Conns, h \in Goroutines : at'[d][h] = "done" => d \notin hub' /\ d \in closed'
          /\ Steps'
      BY <1>11, KickTyped DEF CloseAll
    <2> QED BY <1>0, <1>11, <2>1 DEF CloseAll, Typed, TypeOK
  <1>12. ASSUME NEW n \in Nodes, NodeDies(n) PROVE Typed'
    <2> DEFINE lost == {c \in Conns : NodeOf[c] = n /\ at[c]["handler"] # "none"}
    <2>1. /\ at' = [c \in Conns |-> IF c \in lost THEN [g \in Goroutines |-> "done"] ELSE at[c]]
          /\ hub' = hub \ lost /\ closed' = closed \union lost /\ pumping' = pumping \ lost
          /\ wire' \subseteq wire /\ owed' \subseteq owed /\ UNCHANGED redis
      BY <1>12 DEF NodeDies
    <2>2. faults' \in 0..MaxFaults
      BY <1>12, <1>c DEF NodeDies
    <2>3. lost \subseteq Conns
      OBVIOUS
    <2> HIDE DEF lost
    <2>4. \A c \in Conns : (c \in lost /\ \A g \in Goroutines : at'[c][g] = "done") \/ (c \notin lost /\ at'[c] = at[c])
      BY <2>1
    <2>5. at' \in [Conns -> [Goroutines -> {"none", "register", "read", "done"} \union Leaving]]
      BY <1>0, <2>1 DEF TypeOK
    <2>6. Steps'
      BY <1>0, <2>1, <2>4 DEF Steps, Untouched, Outside, Goroutines
    <2>7. \A d \in Conns, h \in Goroutines : at'[d][h] = "done" => d \notin hub' /\ d \in closed'
      BY <1>0, <2>1, <2>4 DEF TypeOK
    <2> QED BY <1>0, <2>1, <2>2, <2>3, <2>5, <2>6, <2>7 DEF Typed, TypeOK
  <1>13. CASE UNCHANGED vars
    BY <1>0, <1>13 DEF vars, Typed, TypeOK, Steps, Untouched, Outside
  <1> QED
    BY <1>1, <1>2, <1>3, <1>4, <1>5, <1>6, <1>7, <1>8, <1>9, <1>10, <1>11, <1>12, <1>13 DEF Next, Run

LEMMA TypedAlways == Spec => []Typed
  BY TypedInit, TypedStep, PTL DEF Spec

\* Every variable keeps its type, and a connection whose unregistration has
\* ended, in either goroutine, is in no hub and is closed, whichever of the
\* writes about it failed (Unregister).
THEOREM TypeCorrect == Spec => []TypeOK
  BY TypedAlways, PTL DEF Typed

-----------------------------------------------------------------------------
(* What is owed is on the way.  ReachesListed speaks of the moment when     *)
(* nothing is; until then a connection that is owed something and is in its *)
(* hub has a message on the way to its node that is about it.  That it      *)
(* stays so needs that nobody is owed anything, and nobody is listed, whose *)
(* connection has not begun: it would come into the hub afterwards.         *)

Known == \A c \in Conns : Untouched(c) => c \notin listed /\ c \notin owed /\ c \notin pumping

OnTheWay(c) == \E m \in wire : m[1] = NodeOf[c] /\ c \in m[2].about

Routed == Known /\ \A c \in owed \intersect hub : OnTheWay(c)

LEMMA RoutedInit == Init => Routed
  BY DEF Init, Routed, Known

LEMMA RoutedStays ==
  ASSUME Typed, Routed, wire \subseteq wire', owed' \intersect hub' \subseteq owed \intersect hub,
         \A c \in Conns : at'[c]["handler"] = "none" => at[c]["handler"] = "none",
         \A c \in Conns : Untouched(c) => /\ c \in listed' => c \in listed
                                          /\ c \in owed' => c \in owed
                                          /\ c \in pumping' => c \in pumping
  PROVE  Routed'
  <1>1. Known'
    BY DEF Routed, Known, Untouched
  <1>2. ASSUME NEW c \in owed' \intersect hub' PROVE \E m \in wire' : m[1] = NodeOf[c] /\ c \in m[2].about
    BY <1>2 DEF Routed, OnTheWay
  <1> QED BY <1>1, <1>2 DEF Routed, OnTheWay

\* A step of a connection touches nobody else.
LEMMA StepTouches ==
  ASSUME Typed, NEW c \in Conns, NEW g \in Goroutines, NEW step, step # "none", Goto(c, g, step)
  PROVE  \A d \in Conns : at'[d]["handler"] = "none" => at[d]["handler"] = "none"
  <1> SUFFICES ASSUME NEW d \in Conns, at[d]["handler"] # "none"
               PROVE  at'[d]["handler"] # "none"
    OBVIOUS
  <1>1. at' = [at EXCEPT ![c] = [at[c] EXCEPT ![g] = step]] /\ at[c] \in [Goroutines -> {"none", "register", "read", "done"} \union Leaving]
    BY DEF Goto, Typed, TypeOK
  <1>2. at \in [Conns -> [Goroutines -> {"none", "register", "read", "done"} \union Leaving]]
    BY DEF Typed, TypeOK
  <1>3. CASE d # c
    BY <1>1, <1>2, <1>3
  <1>4. CASE d = c
    <2>1. at'[c] = [at[c] EXCEPT ![g] = step]
      BY <1>1, <1>2
    <2>2. at'[c]["handler"] = step \/ at'[c]["handler"] = at[c]["handler"]
      BY <2>1, <1>1 DEF Goroutines
    <2> QED BY <2>2, <1>4
  <1> QED BY <1>3, <1>4

LEMMA RoutedStep == Typed /\ Routed /\ [Next]_vars => Routed'
  <1> SUFFICES ASSUME Typed, Routed, [Next]_vars PROVE Routed'
    OBVIOUS
  <1> USE DEF redis, routing
  <1>0. Typed /\ TypeOK /\ Known /\ Steps
    BY DEF Routed, Typed
  <1>1. ASSUME NEW c \in Conns, Connect(c) PROVE Routed'
    <2>1. /\ Goto(c, "handler", "register") /\ hub' = hub \union {c} /\ Untouched(c)
          /\ UNCHANGED <<pumping, listed, wire, owed>>
      BY <1>1 DEF Connect, Untouched
    <2>2. c \notin owed
      BY <1>0, <2>1 DEF Known
    <2>3. owed' \intersect hub' \subseteq owed \intersect hub
      BY <2>1, <2>2
    <2>4. \A d \in Conns : at'[d]["handler"] = "none" => at[d]["handler"] = "none"
      BY <2>1, StepTouches DEF Goroutines
    <2> QED BY <2>1, <2>3, <2>4, RoutedStays
  <1>2. ASSUME NEW c \in Conns, Register(c) PROVE Routed'
    <2>1. PICK step \in {"read", "leave"} : Goto(c, "handler", step)
      BY <1>2 DEF Register
    <2>2. /\ ~ Untouched(c) /\ UNCHANGED <<hub, wire, owed>>
          /\ listed' \subseteq listed \union {c} /\ pumping' \subseteq pumping \union {c}
      BY <1>2 DEF Register, Untouched, WriteState, WriteFails
    <2>3. \A d \in Conns : at'[d]["handler"] = "none" => at[d]["handler"] = "none"
      BY <2>1, StepTouches DEF Goroutines
    <2> QED BY <2>2, <2>3, RoutedStays
  <1>3. ASSUME NEW c \in Conns, Ping(c) \/ Receive(c) PROVE Routed'
    <2>1. ~ Untouched(c)
      BY <1>0, <1>3 DEF Ping, Receive, Untouched, Known
    <2>2. /\ UNCHANGED <<at, hub, wire, owed>> /\ pumping' \subseteq pumping
          /\ listed' \subseteq listed \union {c}
      BY <1>3 DEF Ping, Receive, Touch, WriteState, WriteFails
    <2> QED BY <2>1, <2>2, RoutedStays
  <1>4. ASSUME NEW c \in Conns, PumpFails(c) PROVE Routed'
    BY <1>4, RoutedStays DEF PumpFails
  <1>5. ASSUME NEW c \in Conns, NEW g \in Goroutines,
               ReadFails(c) \/ LeaveHub(c, g) \/ Remove(c, g) \/ Finish(c, g) \/ RemoveFails(c, g)
        PROVE  Routed'
    <2>1. /\ hub' \subseteq hub /\ listed' \subseteq listed /\ UNCHANGED <<pumping, wire, owed>>
          /\ \E h \in Goroutines, step \in {"leave", "remove", "clear", "refresh", "done"} : Goto(c, h, step)
      BY <1>5 DEF ReadFails, LeaveHub, Remove, Finish, RemoveFails, WriteFails, Goroutines
    <2>2. PICK h \in Goroutines, step \in {"leave", "remove", "clear", "refresh", "done"} : Goto(c, h, step)
      BY <2>1
    <2>3. \A d \in Conns : at'[d]["handler"] = "none" => at[d]["handler"] = "none"
      BY <2>2, StepTouches
    <2> QED BY <2>1, <2>3, RoutedStays
  <1>6. CASE KeyExpires \/ CleanupExpired
    BY <1>6, RoutedStays DEF KeyExpires, CleanupExpired
  <1>7. ASSUME NEW r \in Requests, Route(r) PROVE Routed'
    <2>1. PICK listing \in {listed, {}} :
             /\ Tell(r, IF Router \in Destinations(r, listing) THEN At(Router, r) ELSE {})
             /\ wire' = {<<n, r>> : n \in Destinations(r, listing) \ {Router}}
             /\ owed' = {c \in r.about \intersect listing : NodeOf[c] # Router}
      BY <1>7 DEF Route
    <2>2. UNCHANGED <<hub, closed, pumping, redis>>
      BY <1>7 DEF Route
    <2>3. \E clients \in SUBSET hub : Kick(clients) \/ UNCHANGED at
      BY <2>1, AtHub DEF Tell
    <2>4. \A d \in Conns : at'[d]["handler"] = at[d]["handler"]
      BY <2>2, <2>3, KickTyped
    <2>5. \A c \in owed' : c \in listed /\ c \in r.about /\ NodeOf[c] \in Destinations(r, listing) \ {Router}
      BY <2>1 DEF Destinations
    <2>6. Known'
      BY <1>0, <2>2, <2>4, <2>5 DEF Known, Untouched
    <2>7. ASSUME NEW c \in owed' PROVE \E m \in wire' : m[1] = NodeOf[c] /\ c \in m[2].about
      <3>1. <<NodeOf[c], r>> \in wire' /\ c \in r.about
        BY <2>1, <2>5
      <3> QED BY <3>1
    <2> QED BY <2>6, <2>7 DEF Routed, OnTheWay
  <1>8. ASSUME NEW n \in Nodes, NEW r \in Requests, Dispatch(n, r) PROVE Routed'
    <2>1. /\ wire' = wire \ {<<n, r>>} /\ owed' = owed \ At(n, r) /\ Tell(r, At(n, r))
          /\ UNCHANGED <<hub, closed, pumping, redis>>
      BY <1>8 DEF Dispatch
    <2>2. \A d \in Conns : at'[d]["handler"] = at[d]["handler"]
      BY <2>1, KickTyped, AtHub DEF Tell
    <2>3. Known'
      BY <1>0, <2>1, <2>2 DEF Known, Untouched
    <2>4. ASSUME NEW c \in owed' \intersect hub' PROVE \E m \in wire' : m[1] = NodeOf[c] /\ c \in m[2].about
      <3>1. c \in owed \intersect hub /\ c \notin At(n, r)
        BY <2>1
      <3>2. PICK m \in wire : m[1] = NodeOf[c] /\ c \in m[2].about
        BY <3>1 DEF Routed, OnTheWay
      <3>3. m # <<n, r>>
        BY <3>1, <3>2 DEF At
      <3> QED BY <2>1, <3>2, <3>3
    <2> QED BY <2>3, <2>4 DEF Routed, OnTheWay
  <1>9. ASSUME NEW n \in Nodes, NEW r \in Requests, LoseMessage(n, r) PROVE Routed'
    <2>1. /\ wire' = wire \ {<<n, r>>} /\ owed' = {c \in owed : NodeOf[c] # n}
          /\ UNCHANGED <<at, hub, pumping, listed>>
      BY <1>9 DEF LoseMessage
    <2>2. Known'
      BY <1>0, <2>1 DEF Known, Untouched
    <2>3. ASSUME NEW c \in owed' \intersect hub' PROVE \E m \in wire' : m[1] = NodeOf[c] /\ c \in m[2].about
      <3>1. PICK m \in wire : m[1] = NodeOf[c] /\ c \in m[2].about
        BY <2>1 DEF Routed, OnTheWay
      <3>2. m # <<n, r>>
        BY <2>1, <3>1
      <3> QED BY <2>1, <3>1, <3>2
    <2> QED BY <2>2, <2>3 DEF Routed, OnTheWay
  <1>10. ASSUME NEW n \in Nodes, CloseAll(n) PROVE Routed'
    <2>1. \A d \in Conns : at'[d]["handler"] = at[d]["handler"]
      BY <1>10, KickTyped DEF CloseAll
    <2> QED BY <1>10, <2>1, RoutedStays DEF CloseAll
  <1>11. ASSUME NEW n \in Nodes, NodeDies(n) PROVE Routed'
    <2> DEFINE lost == {c \in Conns : NodeOf[c] = n /\ at[c]["handler"] # "none"}
    <2>1. /\ at' = [c \in Conns |-> IF c \in lost THEN [g \in Goroutines |-> "done"] ELSE at[c]]
          /\ hub' = hub \ lost /\ pumping' = pumping \ lost
          /\ wire' = {m \in wire : m[1] # n} /\ owed' = owed \ lost /\ UNCHANGED redis
      BY <1>11 DEF NodeDies
    <2>2. \A c \in Conns : at'[c] = [g \in Goroutines |-> "done"] \/ at'[c] = at[c]
      BY <2>1
    <2>3. \A c \in Conns : at'[c]["handler"] = "none" => at[c]["handler"] = "none"
      BY <2>2 DEF Goroutines
    <2>4. Known'
      BY <1>0, <2>1, <2>3 DEF Known, Untouched
    <2>5. ASSUME NEW c \in owed' \intersect hub' PROVE \E m \in wire' : m[1] = NodeOf[c] /\ c \in m[2].about
      <3>1. c \in Conns /\ c \in owed \intersect hub /\ c \notin lost
        BY <1>0, <2>1 DEF TypeOK
      <3>2. at[c]["handler"] # "none"
        BY <1>0, <3>1 DEF Steps, Untouched
      <3>3. NodeOf[c] # n
        BY <3>1, <3>2
      <3>4. PICK m \in wire : m[1] = NodeOf[c] /\ c \in m[2].about
        BY <3>1 DEF Routed, OnTheWay
      <3> QED BY <2>1, <3>3, <3>4
    <2> QED BY <2>4, <2>5 DEF Routed, OnTheWay
  <1>12. CASE UNCHANGED vars
    BY <1>12, RoutedStays DEF vars
  <1> QED
    BY <1>1, <1>2, <1>3, <1>4, <1>5, <1>6, <1>7, <1>8, <1>9, <1>10, <1>11, <1>12
       DEF Next, Run, Goroutines

\* When nothing is on the way any more, every connection of another node that
\* was listed for what was routed has been reached, has left its hub, or lost
\* its message (SendEventToUserContext, dispatch).
THEOREM ListedIsReached == Spec => []ReachesListed
  <1>1. Routed => ReachesListed
    BY DEF Routed, OnTheWay, ReachesListed
  <1> QED BY <1>1, TypedInit, TypedStep, RoutedInit, RoutedStep, PTL DEF Spec
=============================================================================
