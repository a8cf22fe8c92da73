------------------------------- MODULE WsHub -------------------------------
(***************************************************************************)
(* The real-time rooms of one project on several API nodes.  Each node's   *)
(* WebSocketHub keeps the set of sockets of the room and one background    *)
(* listener task that is subscribed to the project's Redis channel; an     *)
(* event published by any node reaches every subscribed listener, which    *)
(* sends it to the sockets of its room one await at a time.  The event     *)
(* loop of a node switches tasks only at an await, so the code between two *)
(* awaits is one step.                                                     *)
(***************************************************************************)
EXTENDS Naturals, FiniteSets, SequencesExt

CONSTANTS Node,         \* API nodes, each with its room of the project
          Socket,       \* WebSocket connections, each used once
          Listener,     \* listener tasks, each started once
          MaxEvents,    \* how many events are published (a bound of the model)
          None

ASSUME ConstantsAssumption ==
  /\ MaxEvents \in Nat
  /\ None \notin Node \cup Socket \cup Listener
  /\ \A S \in SUBSET Socket : S # None

VARIABLES
  rooms,      \* hub.rooms: the node's set of sockets, or None without a room
  task,       \* hub._listener_tasks: the room's listener, or None
  lst,        \* each listener task
  sock,       \* each connection: new, accepted, open, gone or left
  home,       \* the node a connection is on
  inbox,      \* the events a connection was sent, in order
  published   \* the number of events published so far; event i is the number i

vars == <<rooms, task, lst, sock, home, inbox, published>>

Idle == [st |-> "unused", node |-> None, queue |-> <<>>, cur |-> 0,
         todo |-> {}, dead |-> {}, cancelled |-> FALSE]

Init ==
  /\ rooms = [n \in Node |-> None]
  /\ task = [n \in Node |-> None]
  /\ lst = [l \in Listener |-> Idle]
  /\ sock = [s \in Socket |-> "new"]
  /\ home = [s \in Socket |-> None]
  /\ inbox = [s \in Socket |-> <<>>]
  /\ published = 0

----------------------------------------------------------------------------
(* Connections. *)

\* The endpoint has authenticated the caller and awaits websocket.accept().
Accept(s, n) ==
  /\ sock[s] = "new"
  /\ sock' = [sock EXCEPT ![s] = "accepted"]
  /\ home' = [home EXCEPT ![s] = n]
  /\ UNCHANGED <<rooms, task, lst, inbox, published>>

NeedsListenerAlways(n) == TRUE

\* connect starts a listener only with a new room.
NeedsListener(n) == rooms[n] = None

\* The rest of connect, up to the endpoint's first receive: no await.
Join(s) ==
  LET n == home[s]
  IN /\ sock[s] = "accepted"
     /\ IF NeedsListener(n)
        THEN \E l \in Listener :
                /\ lst[l].st = "unused"
                /\ lst' = [lst EXCEPT ![l] = [Idle EXCEPT !.st = "starting", !.node = n]]
                /\ task' = [task EXCEPT ![n] = l]
                /\ rooms' = [rooms EXCEPT ![n] = (IF @ = None THEN {} ELSE @) \cup {s}]
        ELSE /\ rooms' = [rooms EXCEPT ![n] = @ \cup {s}]
             /\ UNCHANGED <<lst, task>>
     /\ sock' = [sock EXCEPT ![s] = "open"]
     /\ UNCHANGED <<home, inbox, published>>

\* The client goes away: sends to it fail from here on.
Drop(s) ==
  /\ sock[s] = "open"
  /\ sock' = [sock EXCEPT ![s] = "gone"]
  /\ UNCHANGED <<rooms, task, lst, home, inbox, published>>

CancelNothing(n, old) == old

\* Cancelling the task that is listed for the room.
CancelListed(n, old) ==
  IF task[n] = None THEN old ELSE [old EXCEPT ![task[n]].cancelled = TRUE]

DisconnectKeepsRoom(n, S, old) ==
  IF rooms[n] = None
  THEN lst' = old /\ UNCHANGED <<rooms, task>>
  ELSE rooms' = [rooms EXCEPT ![n] = @ \ S] /\ lst' = old /\ UNCHANGED task

DisconnectCancelsEarly(n, S, old) ==
  IF rooms[n] = None
  THEN lst' = old /\ UNCHANGED <<rooms, task>>
  ELSE IF rooms[n] \subseteq S
  THEN /\ rooms' = [rooms EXCEPT ![n] = None]
       /\ task' = [task EXCEPT ![n] = None]
       /\ lst' = CancelListed(n, old)
  ELSE /\ rooms' = [rooms EXCEPT ![n] = @ \ S]
       /\ lst' = CancelListed(n, old)
       /\ UNCHANGED task

\* disconnect, for the sockets S in turn, on a hub whose listeners are `old`.
\* It does nothing for a socket that is no longer in the room.
Disconnect(n, S, old) ==
  IF rooms[n] = None
  THEN lst' = old /\ UNCHANGED <<rooms, task>>
  ELSE IF rooms[n] \subseteq S
  THEN /\ rooms' = [rooms EXCEPT ![n] = None]
       /\ task' = [task EXCEPT ![n] = None]
       /\ lst' = CancelListed(n, old)
  ELSE /\ rooms' = [rooms EXCEPT ![n] = @ \ S]
       /\ lst' = old
       /\ UNCHANGED task

\* The endpoint's receive raises WebSocketDisconnect.
Leave(s) ==
  /\ sock[s] = "gone"
  /\ Disconnect(home[s], {s}, lst)
  /\ sock' = [sock EXCEPT ![s] = "left"]
  /\ UNCHANGED <<home, inbox, published>>

\* The receive raises anything else: the endpoint ends without disconnect, the
\* server closes the connection and sends to it fail.
EndpointDies(s) ==
  /\ sock[s] \in {"open", "gone"}
  /\ sock' = [sock EXCEPT ![s] = "left"]
  /\ UNCHANGED <<rooms, task, lst, home, inbox, published>>

----------------------------------------------------------------------------
(* The listener task: _listen_redis_channel. *)

Subscribed(l) == lst[l].st \in {"listening", "sending"}

\* broadcast_to_room on some node: Redis queues the event for every subscriber.
Publish ==
  /\ published < MaxEvents
  /\ published' = published + 1
  /\ lst' = [l \in Listener |->
               IF Subscribed(l) THEN [lst[l] EXCEPT !.queue = Append(@, published + 1)]
                                ELSE lst[l]]
  /\ UNCHANGED <<rooms, task, sock, home, inbox>>

\* At an await of the task the pending cancellation is raised; finally
\* unsubscribes and the task ends.
Cancelled(l) ==
  /\ lst[l].st \in {"starting", "listening", "sending"} /\ lst[l].cancelled
  /\ lst' = [lst EXCEPT ![l] = [Idle EXCEPT !.st = "ended"]]
  /\ UNCHANGED <<rooms, task, sock, home, inbox, published>>

Subscribe(l) ==
  /\ lst[l].st = "starting" /\ ~lst[l].cancelled
  /\ lst' = [lst EXCEPT ![l].st = "listening"]
  /\ UNCHANGED <<rooms, task, sock, home, inbox, published>>

\* get_message returns an event; the loop runs over a copy of the room.  (The loop
\* also ends when the room is gone, but then the task has been cancelled.)
Take(l) ==
  LET n == lst[l].node
  IN /\ lst[l].st = "listening" /\ ~lst[l].cancelled
     /\ lst[l].queue # <<>> /\ rooms[n] # None
     /\ lst' = [lst EXCEPT ![l] =
                  [@ EXCEPT !.st = "sending", !.queue = Tail(lst[l].queue),
                            !.cur = Head(lst[l].queue), !.todo = rooms[n], !.dead = {}]]
     /\ UNCHANGED <<rooms, task, sock, home, inbox, published>>

SendUntilFailure(l) ==
  /\ lst[l].st = "sending" /\ ~lst[l].cancelled
  /\ \E s \in lst[l].todo :
        \/ /\ sock[s] = "open"
           /\ inbox' = [inbox EXCEPT ![s] = Append(@, lst[l].cur)]
           /\ lst' = [lst EXCEPT ![l].todo = @ \ {s}]
        \/ /\ sock[s] # "open"
           /\ lst' = [lst EXCEPT ![l].todo = {}, ![l].dead = @ \cup {s}]
           /\ UNCHANGED inbox
  /\ UNCHANGED <<rooms, task, sock, home, published>>

\* await ws.send_text for one socket of the copy; a failure is remembered.
Send(l) ==
  /\ lst[l].st = "sending" /\ ~lst[l].cancelled
  /\ \E s \in lst[l].todo :
        \/ /\ sock[s] = "open"
           /\ inbox' = [inbox EXCEPT ![s] = Append(@, lst[l].cur)]
           /\ lst' = [lst EXCEPT ![l].todo = @ \ {s}]
        \/ /\ sock[s] # "open"
           /\ lst' = [lst EXCEPT ![l] = [@ EXCEPT !.todo = lst[l].todo \ {s},
                                                 !.dead = lst[l].dead \cup {s}]]
           /\ UNCHANGED inbox
  /\ UNCHANGED <<rooms, task, sock, home, published>>

ReapForgets(l) ==
  /\ lst[l].st = "sending" /\ ~lst[l].cancelled /\ lst[l].todo = {}
  /\ lst' = [lst EXCEPT ![l] = [@ EXCEPT !.st = "listening", !.cur = 0, !.dead = {}]]
  /\ UNCHANGED <<rooms, task, sock, home, inbox, published>>

\* After the loop: the sockets whose send failed are disconnected, which may
\* cancel this very task; then it waits for the next event.
Reap(l) ==
  /\ lst[l].st = "sending" /\ ~lst[l].cancelled /\ lst[l].todo = {}
  /\ LET rest == [lst EXCEPT ![l] = [@ EXCEPT !.st = "listening", !.cur = 0, !.dead = {}]]
     IN IF lst[l].dead = {} THEN lst' = rest /\ UNCHANGED <<rooms, task>>
                            ELSE Disconnect(lst[l].node, lst[l].dead, rest)
  /\ UNCHANGED <<sock, home, inbox, published>>

\* subscribe or get_message raises a Redis error: the task ends with it, the room
\* and its entry in _listener_tasks stay.
RedisError(l) ==
  /\ lst[l].st \in {"starting", "listening"} /\ ~lst[l].cancelled
  /\ lst' = [lst EXCEPT ![l] = [Idle EXCEPT !.st = "failed"]]
  /\ UNCHANGED <<rooms, task, sock, home, inbox, published>>

\* Nothing left to do: the nodes wait.
Quiet ==
  /\ published = MaxEvents
  /\ UNCHANGED vars

Work(l) == Cancelled(l) \/ Subscribe(l) \/ Take(l) \/ Send(l) \/ Reap(l)

Next ==
  \/ \E s \in Socket, n \in Node : Accept(s, n)
  \/ \E s \in Socket : Join(s) \/ Drop(s) \/ Leave(s) \/ EndpointDies(s)
  \/ \E l \in Listener : Work(l) \/ RedisError(l)
  \/ Publish
  \/ Quiet

Spec == Init /\ [][Next]_vars

\* The event loop runs every task that can proceed, and an endpoint notices that
\* its client has gone; nothing makes clients come or go or events happen.
FairSpec ==
  /\ Spec
  /\ \A l \in Listener : WF_vars(Work(l))
  /\ \A s \in Socket : WF_vars(Join(s)) /\ WF_vars(Leave(s))

----------------------------------------------------------------------------
(* Properties.                                                             *)

ListenerState ==
  [st : {"unused", "starting", "listening", "sending", "ended", "failed"},
   node : Node \cup {None}, queue : Seq(Nat), cur : Nat,
   todo : SUBSET Socket, dead : SUBSET Socket, cancelled : BOOLEAN]

\* Every variable has its type, and no node keeps an empty room (disconnect).
TypeOK ==
  /\ rooms \in [Node -> {None} \cup SUBSET Socket]
  /\ task \in [Node -> Listener \cup {None}]
  /\ lst \in [Listener -> ListenerState]
  /\ sock \in [Socket -> {"new", "accepted", "open", "gone", "left"}]
  /\ home \in [Socket -> Node \cup {None}]
  /\ inbox \in [Socket -> Seq(Nat)]
  /\ published \in 0..MaxEvents
  /\ \A n \in Node : rooms[n] # {}

Alive(l) == lst[l].st \in {"starting", "listening", "sending"} /\ ~lst[l].cancelled

\* A room that exists has its own listener, which is at work unless a Redis error
\* has ended it, in any order of joins, leaves and failed sends: no room loses its
\* listener to the tear-down of the room before it (connect, disconnect).
NoDeafRoom ==
  \A n \in Node : rooms[n] # None =>
     /\ task[n] # None
     /\ lst[task[n]].st = "failed" \/ (Alive(task[n]) /\ lst[task[n]].node = n)

\* A listener at work is the one listed for a room that exists: no room is served
\* twice and no listener outlives its room uncancelled, also when listeners die
\* of Redis errors.
ListenerListed ==
  \A l \in Listener : Alive(l) => task[lst[l].node] = l /\ rooms[lst[l].node] # None

\* Every socket gets the events in the order of publication, none of them twice.
InOrderOnce ==
  \A s \in Socket : \A i, j \in DOMAIN inbox[s] : i < j => inbox[s][i] < inbox[s][j]

\* An event that is queued for the room of a socket reaches the socket, unless
\* its client goes away or a Redis error ends the listener; sends that fail to
\* other sockets of the room are no excuse (_listen_redis_channel).
Delivered ==
  \A s \in Socket, l \in Listener, e \in 1..MaxEvents :
     (sock[s] = "open" /\ task[home[s]] = l /\ e \in ToSet(lst[l].queue))
     ~> (e \in ToSet(inbox[s]) \/ sock[s] # "open" \/ lst[l].st = "failed")

\* A dead socket that is still in a room is out of it once an event that is queued
\* for the room has been sent, unless a Redis error ends the listener: a socket
\* whose endpoint died without disconnect is reaped, also when it dies while the
\* event is being sent to others (_listen_redis_channel, websocket_endpoint).
DeadReaped ==
  \A n \in Node, s \in Socket, l \in Listener :
     LET InRoom == rooms[n] # None /\ s \in rooms[n]
     IN (InRoom /\ sock[s] # "open" /\ task[n] = l /\ lst[l].queue # <<>>)
        ~> (~InRoom \/ lst[l].st = "failed")
=============================================================================
