---------------------------- MODULE WsHubProofs ----------------------------
(***************************************************************************)
(* Theorems about WsHub, for any number of nodes, sockets, listeners and   *)
(* events.                                                                 *)
(***************************************************************************)
EXTENDS WsHub, TLAPS

----------------------------------------------------------------------------
(* The inductive invariant.                                                *)

\* A connection is on a node and gets nothing before it is open; the sockets of a
\* room, and those that a listener still has to serve, are on its node.
HomeInv ==
  /\ \A s \in Socket :
        /\ sock[s] # "new" => home[s] \in Node
        /\ sock[s] \in {"new", "accepted"} => inbox[s] = <<>>
  /\ \A n \in Node : rooms[n] # None => \A s \in rooms[n] : sock[s] # "new" /\ home[s] = n
  /\ \A l \in Listener :
        /\ lst[l].st \in {"starting", "listening", "sending"} => lst[l].node \in Node
        /\ \A s \in lst[l].todo : sock[s] # "new" /\ home[s] = lst[l].node

\* A room and its entry in _listener_tasks come and go together.
RosterInv == /\ \A n \in Node : rooms[n] = None <=> task[n] = None
             /\ NoDeafRoom /\ ListenerListed

\* What waits for a listener is in the order of publication, after the event that
\* it is sending.
Increasing(q) == \A i, j \in DOMAIN q : i < j => q[i] < q[j]

QueueInv ==
  \A l \in Listener :
     /\ Increasing(lst[l].queue)
     /\ \A i \in DOMAIN lst[l].queue : lst[l].queue[i] <= published
     /\ lst[l].st = "sending" =>
          /\ lst[l].cur <= published
          /\ \A i \in DOMAIN lst[l].queue : lst[l].cur < lst[l].queue[i]

\* Everything that an open socket has got is older than what its room's listener
\* has in its queue, and than what it is about to send to the socket.
Older(s, l) ==
  \A i \in DOMAIN inbox[s] :
     /\ \A j \in DOMAIN lst[l].queue : inbox[s][i] < lst[l].queue[j]
     /\ lst[l].st = "sending" /\ s \in lst[l].todo => inbox[s][i] < lst[l].cur

OrderInv ==
  /\ \A s \in Socket : \A i \in DOMAIN inbox[s] : inbox[s][i] <= published
  /\ \A s \in Socket, l \in Listener :
        Alive(l) /\ sock[s] = "open" /\ home[s] = lst[l].node => Older(s, l)
  /\ InOrderOnce

IInv == TypeOK /\ HomeInv /\ RosterInv /\ QueueInv /\ OrderInv

----------------------------------------------------------------------------
(* Sequences of events.                                                    *)

\* The new last element of a sequence, and the others.
LEMMA AppendFacts ==
  ASSUME NEW q \in Seq(Nat), NEW x \in Nat
  PROVE  /\ Append(q, x) \in Seq(Nat)
         /\ DOMAIN Append(q, x) = 1..(Len(q) + 1) /\ DOMAIN q = 1..Len(q) /\ Len(q) \in Nat
         /\ Append(q, x)[Len(q) + 1] = x
         /\ \A i \in DOMAIN q : Append(q, x)[i] = q[i] /\ q[i] \in Nat
  OBVIOUS

\* An element that is larger than all the others can be appended to an increasing
\* sequence.
LEMMA AppendIncreasing ==
  ASSUME NEW q \in Seq(Nat), NEW x \in Nat, Increasing(q), \A i \in DOMAIN q : q[i] < x
  PROVE  Increasing(Append(q, x))
  <1> DEFINE p == Append(q, x)
  <1>1. /\ DOMAIN p = 1..(Len(q) + 1) /\ DOMAIN q = 1..Len(q) /\ Len(q) \in Nat
        /\ p[Len(q) + 1] = x
        /\ \A i \in DOMAIN q : p[i] = q[i]
    BY AppendFacts
  <1> HIDE DEF p
  <1> SUFFICES ASSUME NEW i \in DOMAIN p, NEW j \in DOMAIN p, i < j PROVE p[i] < p[j]
    BY DEF Increasing, p
  <1>2. i \in DOMAIN q
    BY <1>1
  <1>3. CASE j \in DOMAIN q
    BY <1>1, <1>2, <1>3 DEF Increasing
  <1>4. CASE j = Len(q) + 1
    BY <1>1, <1>2, <1>4
  <1> QED
    BY <1>1, <1>3, <1>4

\* The first element of an increasing sequence, and the others.
LEMMA TailFacts ==
  ASSUME NEW q \in Seq(Nat), q # <<>>
  PROVE  /\ Head(q) \in Nat /\ Tail(q) \in Seq(Nat)
         /\ 1 \in DOMAIN q /\ Head(q) = q[1]
         /\ \A i \in DOMAIN Tail(q) : i \in Nat /\ i + 1 \in DOMAIN q /\ Tail(q)[i] = q[i + 1]
         /\ Increasing(q) => /\ Increasing(Tail(q))
                             /\ \A i \in DOMAIN Tail(q) : Head(q) < Tail(q)[i]
  <1>1. /\ Head(q) \in Nat /\ Tail(q) \in Seq(Nat) /\ 1 \in DOMAIN q /\ Head(q) = q[1]
        /\ \A i \in DOMAIN Tail(q) : i \in Nat \ {0} /\ i + 1 \in DOMAIN q /\ Tail(q)[i] = q[i + 1]
    OBVIOUS
  <1>2. ASSUME Increasing(q) PROVE Increasing(Tail(q))
    <2> SUFFICES ASSUME NEW i \in DOMAIN Tail(q), NEW j \in DOMAIN Tail(q), i < j
                 PROVE  Tail(q)[i] < Tail(q)[j]
      BY DEF Increasing
    <2>1. i + 1 < j + 1
      BY <1>1
    <2> QED
      BY <1>1, <1>2, <2>1 DEF Increasing
  <1>3. ASSUME Increasing(q), NEW i \in DOMAIN Tail(q) PROVE Head(q) < Tail(q)[i]
    <2>1. 1 < i + 1
      BY <1>1
    <2> QED
      BY <1>1, <1>3, <2>1 DEF Increasing
  <1> QED
    BY <1>1, <1>2, <1>3

----------------------------------------------------------------------------
(* What the steps do to the listeners.                                     *)

\* A listener task that has been created, has ended or has failed.
LEMMA IdleFacts ==
  /\ Idle \in ListenerState
  /\ \A n \in Node :
        LET new == [Idle EXCEPT !.st = "starting", !.node = n]
        IN /\ new \in ListenerState /\ new.st = "starting" /\ new.node = n /\ new.queue = <<>>
           /\ new.todo = {} /\ new.cancelled = FALSE
  /\ \A st \in {"ended", "failed"} :
        LET new == [Idle EXCEPT !.st = st]
        IN new \in ListenerState /\ new.st = st /\ new.queue = <<>> /\ new.todo = {}
  <1>1. Idle \in ListenerState /\ Idle.queue = <<>> /\ Idle.todo = {} /\ Idle.cancelled = FALSE
    BY DEF Idle, ListenerState
  <1>2. ASSUME NEW n \in Node
        PROVE  LET new == [Idle EXCEPT !.st = "starting", !.node = n]
               IN /\ new \in ListenerState /\ new.st = "starting" /\ new.node = n
                  /\ new.queue = <<>> /\ new.todo = {} /\ new.cancelled = FALSE
    BY <1>1 DEF ListenerState
  <1>3. ASSUME NEW st \in {"ended", "failed"}
        PROVE  LET new == [Idle EXCEPT !.st = st]
               IN new \in ListenerState /\ new.st = st /\ new.queue = <<>> /\ new.todo = {}
    BY <1>1 DEF ListenerState
  <1> QED
    BY <1>1, <1>2, <1>3

\* What the cancellation of a task changes.
LEMMA CancelFacts ==
  ASSUME NEW old \in [Listener -> ListenerState], NEW c \in Listener,
         lst' = [old EXCEPT ![c].cancelled = TRUE]
  PROVE  /\ lst' \in [Listener -> ListenerState]
         /\ lst'[c].cancelled = TRUE
         /\ \A l \in Listener \ {c} : lst'[l] = old[l]
         /\ lst'[c].st = old[c].st /\ lst'[c].node = old[c].node /\ lst'[c].queue = old[c].queue
         /\ lst'[c].cur = old[c].cur /\ lst'[c].todo = old[c].todo
  <1> DEFINE b == [old[c] EXCEPT !.cancelled = TRUE]
  <1>1. old[c] \in ListenerState
    OBVIOUS
  <1>2. /\ b \in ListenerState /\ b.cancelled = TRUE
        /\ b.st = old[c].st /\ b.node = old[c].node /\ b.queue = old[c].queue
        /\ b.cur = old[c].cur /\ b.todo = old[c].todo
    BY <1>1 DEF ListenerState
  <1>3. lst' = [old EXCEPT ![c] = b]
    OBVIOUS
  <1> HIDE DEF b
  <1> QED
    BY <1>2, <1>3

\* What disconnect does: nothing to the listeners, unless the room is left empty.
LEMMA DisconnectFacts ==
  ASSUME TypeOK, RosterInv, NEW n \in Node, NEW S \in SUBSET Socket,
         NEW old \in [Listener -> ListenerState], Disconnect(n, S, old)
  PROVE  /\ rooms' \in [Node -> {None} \cup SUBSET Socket] /\ \A m \in Node : rooms'[m] # {}
         /\ \/ /\ lst' = old /\ task' = task
               /\ \A m \in Node : /\ rooms'[m] = None <=> rooms[m] = None
                                  /\ rooms[m] # None => rooms'[m] \subseteq rooms[m]
            \/ /\ rooms[n] # None /\ task[n] \in Listener
               /\ rooms' = [rooms EXCEPT ![n] = None] /\ task' = [task EXCEPT ![n] = None]
               /\ lst' = [old EXCEPT ![task[n]].cancelled = TRUE]
  <1>0. \A X \in SUBSET Socket : X # None
    BY ConstantsAssumption
  <1>1. CASE rooms[n] = None
    BY <1>1 DEF Disconnect, TypeOK
  <1>2. CASE rooms[n] # None /\ rooms[n] \subseteq S
    <2>1. task[n] \in Listener
      BY <1>2 DEF RosterInv, TypeOK
    <2>2. /\ rooms' = [rooms EXCEPT ![n] = None] /\ task' = [task EXCEPT ![n] = None]
          /\ lst' = [old EXCEPT ![task[n]].cancelled = TRUE]
      BY <1>2 DEF Disconnect, CancelListed, RosterInv
    <2>3. rooms' \in [Node -> {None} \cup SUBSET Socket] /\ \A m \in Node : rooms'[m] # {}
      BY <1>0, <2>2 DEF TypeOK
    <2> QED
      BY <1>2, <2>1, <2>2, <2>3
  <1>3. CASE rooms[n] # None /\ ~(rooms[n] \subseteq S)
    <2>1. lst' = old /\ task' = task /\ rooms' = [rooms EXCEPT ![n] = rooms[n] \ S]
      BY <1>3 DEF Disconnect
    <2>2. rooms[n] \in SUBSET Socket /\ rooms[n] \ S # {} /\ rooms[n] \ S \in SUBSET Socket
      BY <1>3 DEF TypeOK
    <2> QED
      BY <1>0, <1>3, <2>1, <2>2 DEF TypeOK
  <1> QED
    BY <1>1, <1>2, <1>3

\* A task that goes on takes no new event: it has the queue and the room that it had
\* and no new socket to serve.
Active == {"starting", "listening", "sending"}

Keeps(l, old) ==
  /\ old[l].st = lst[l].st \/ (lst[l].st \in Active /\ old[l].st \in Active)
  /\ old[l].node = lst[l].node /\ old[l].queue = lst[l].queue
  /\ old[l].todo \subseteq lst[l].todo
  /\ old[l].st = "sending" => lst[l].st = "sending" /\ old[l].cur = lst[l].cur
  /\ old[l].cancelled \in {lst[l].cancelled, TRUE}

\* A task that ends was cancelled, or a Redis error has ended it.
Ends(l) ==
  /\ lst[l].st \in Active /\ lst'[l].st \in {"ended", "failed"}
  /\ lst'[l].queue = <<>> /\ lst'[l].todo = {}
  /\ lst'[l].st = "failed" \/ lst[l].cancelled = TRUE

\* A listener that stays as it is.
LEMMA SameKeeps ==
  ASSUME NEW old, NEW l \in Listener, old[l] = lst[l]
  PROVE  Keeps(l, old)
  BY DEF Keeps

\* Subscribe is a step of a task that goes on.
LEMMA SubscribeFacts ==
  ASSUME TypeOK, NEW l \in Listener, Subscribe(l)
  PROVE  /\ lst' \in [Listener -> ListenerState]
         /\ \A k \in Listener : Keeps(k, lst') /\ lst'[k].cancelled = lst[k].cancelled
  <1> DEFINE b == [lst[l] EXCEPT !.st = "listening"]
  <1>1. lst[l] \in ListenerState /\ lst[l].st = "starting"
    BY DEF TypeOK, Subscribe
  <1>2. /\ b \in ListenerState /\ b.st = "listening" /\ b.node = lst[l].node
        /\ b.queue = lst[l].queue /\ b.todo = lst[l].todo /\ b.cancelled = lst[l].cancelled
    BY <1>1 DEF ListenerState
  <1>3. lst' = [lst EXCEPT ![l] = b]
    BY DEF Subscribe
  <1> HIDE DEF b
  <1>4. lst'[l] = b /\ \A k \in Listener \ {l} : lst'[k] = lst[k]
    BY <1>3 DEF TypeOK
  <1>5. lst' \in [Listener -> ListenerState]
    BY <1>2, <1>3 DEF TypeOK
  <1>6. Keeps(l, lst')
    BY <1>1, <1>2, <1>4 DEF Keeps, Active
  <1> QED
    BY <1>2, <1>4, <1>5, <1>6, SameKeeps

\* So is the send to one socket, which gets the event if it is open.
LEMMA SendFacts ==
  ASSUME TypeOK, NEW l \in Listener, Send(l)
  PROVE  /\ lst' \in [Listener -> ListenerState]
         /\ \A k \in Listener : Keeps(k, lst') /\ lst'[k].cancelled = lst[k].cancelled
         /\ \E s \in lst[l].todo :
               /\ s \notin lst'[l].todo
               /\ \/ sock[s] = "open" /\ inbox' = [inbox EXCEPT ![s] = Append(@, lst[l].cur)]
                  \/ UNCHANGED inbox
  <1>0. lst[l] \in ListenerState /\ lst[l].st = "sending"
    BY DEF TypeOK, Send
  <1>1. PICK s \in lst[l].todo :
          \/ /\ sock[s] = "open" /\ inbox' = [inbox EXCEPT ![s] = Append(@, lst[l].cur)]
             /\ lst' = [lst EXCEPT ![l].todo = @ \ {s}]
          \/ /\ lst' = [lst EXCEPT ![l] = [@ EXCEPT !.todo = lst[l].todo \ {s},
                                                   !.dead = lst[l].dead \cup {s}]]
             /\ UNCHANGED inbox
    BY DEF Send
  <1>2. PICK b \in ListenerState :
          /\ b.st = "sending" /\ b.node = lst[l].node /\ b.queue = lst[l].queue
          /\ b.cur = lst[l].cur /\ b.todo = lst[l].todo \ {s} /\ b.cancelled = lst[l].cancelled
          /\ lst' = [lst EXCEPT ![l] = b]
    <2>1. CASE lst' = [lst EXCEPT ![l].todo = @ \ {s}]
      <3> DEFINE c == [lst[l] EXCEPT !.todo = lst[l].todo \ {s}]
      <3>1. lst' = [lst EXCEPT ![l] = c]
        BY <2>1
      <3>2. /\ c \in ListenerState /\ c.st = "sending" /\ c.node = lst[l].node
            /\ c.queue = lst[l].queue /\ c.cur = lst[l].cur /\ c.todo = lst[l].todo \ {s}
            /\ c.cancelled = lst[l].cancelled
        BY <1>0 DEF ListenerState
      <3> HIDE DEF c
      <3> QED
        BY <3>1, <3>2
    <2>2. CASE lst' = [lst EXCEPT ![l] = [@ EXCEPT !.todo = lst[l].todo \ {s},
                                                   !.dead = lst[l].dead \cup {s}]]
      <3> DEFINE c == [lst[l] EXCEPT !.todo = lst[l].todo \ {s}, !.dead = lst[l].dead \cup {s}]
      <3>1. lst' = [lst EXCEPT ![l] = c]
        BY <2>2
      <3>2. lst[l].dead \cup {s} \in SUBSET Socket /\ lst[l].todo \ {s} \in SUBSET Socket
        BY <1>0 DEF ListenerState
      <3>3. /\ c \in ListenerState /\ c.st = "sending" /\ c.node = lst[l].node
            /\ c.queue = lst[l].queue /\ c.cur = lst[l].cur /\ c.todo = lst[l].todo \ {s}
            /\ c.cancelled = lst[l].cancelled
        BY <1>0, <3>2 DEF ListenerState
      <3> HIDE DEF c
      <3> QED
        BY <3>1, <3>3
    <2> QED
      BY <1>1, <2>1, <2>2
  <1>3. lst'[l] = b /\ \A k \in Listener \ {l} : lst'[k] = lst[k]
    BY <1>2 DEF TypeOK
  <1>4. lst' \in [Listener -> ListenerState]
    BY <1>2 DEF TypeOK
  <1>5. Keeps(l, lst')
    BY <1>0, <1>2, <1>3 DEF Keeps, Active
  <1> QED
    BY <1>1, <1>2, <1>3, <1>4, <1>5, SameKeeps

\* After the loop the task goes on, or has cancelled itself with its room.
LEMMA ReapFacts ==
  ASSUME TypeOK, NEW l \in Listener, Reap(l)
  PROVE  \E old \in [Listener -> ListenerState] :
            /\ \A k \in Listener : Keeps(k, old) /\ old[k].cancelled = lst[k].cancelled
            /\ \/ lst' = old /\ UNCHANGED <<rooms, task>>
               \/ Disconnect(lst[l].node, lst[l].dead, old)
  <1> DEFINE b == [lst[l] EXCEPT !.st = "listening", !.cur = 0, !.dead = {}]
             rest == [lst EXCEPT ![l] = b]
  <1>1. lst[l] \in ListenerState /\ lst[l].st = "sending"
    BY DEF TypeOK, Reap
  <1>2. /\ b \in ListenerState /\ b.st = "listening" /\ b.node = lst[l].node
        /\ b.queue = lst[l].queue /\ b.todo = lst[l].todo /\ b.cancelled = lst[l].cancelled
    BY <1>1 DEF ListenerState
  <1>3. \/ lst' = rest /\ UNCHANGED <<rooms, task>>
        \/ Disconnect(lst[l].node, lst[l].dead, rest)
    BY DEF Reap
  <1> HIDE DEF b
  <1>4. rest \in [Listener -> ListenerState] /\ rest[l] = b
        /\ \A k \in Listener \ {l} : rest[k] = lst[k]
    BY <1>2 DEF TypeOK
  <1> HIDE DEF rest
  <1>5. Keeps(l, rest)
    BY <1>1, <1>2, <1>4 DEF Keeps, Active
  <1>6. \A k \in Listener : Keeps(k, rest) /\ rest[k].cancelled = lst[k].cancelled
    BY <1>2, <1>4, <1>5, SameKeeps
  <1> QED
    BY <1>3, <1>4, <1>6

\* The end of a task, after a cancellation or a Redis error.
LEMMA EndFacts ==
  ASSUME TypeOK, NEW l \in Listener, Cancelled(l) \/ RedisError(l)
  PROVE  /\ lst' \in [Listener -> ListenerState]
         /\ Ends(l) /\ \A k \in Listener \ {l} : lst'[k] = lst[k]
  <1>1. PICK st \in {"ended", "failed"} :
          /\ lst' = [lst EXCEPT ![l] = [Idle EXCEPT !.st = st]]
          /\ lst[l].st \in Active
          /\ st = "failed" \/ lst[l].cancelled
    BY DEF Cancelled, RedisError, Active
  <1> DEFINE b == [Idle EXCEPT !.st = st]
  <1>2. b \in ListenerState /\ b.st = st /\ b.queue = <<>> /\ b.todo = {}
    BY IdleFacts
  <1>3. lst' = [lst EXCEPT ![l] = b]
    BY <1>1
  <1> HIDE DEF b
  <1>4. lst'[l] = b /\ \A k \in Listener \ {l} : lst'[k] = lst[k]
    BY <1>3 DEF TypeOK
  <1>5. lst' \in [Listener -> ListenerState]
    BY <1>2, <1>3 DEF TypeOK
  <1>6. lst[l].cancelled \in BOOLEAN
    BY DEF TypeOK, ListenerState
  <1> QED
    BY <1>1, <1>2, <1>4, <1>5, <1>6 DEF Ends

\* A task takes the oldest event of its queue, for the sockets that are in the room.
LEMMA TakeFacts ==
  ASSUME TypeOK, NEW l \in Listener, Take(l), lst[l].node \in Node
  PROVE  /\ lst' \in [Listener -> ListenerState]
         /\ \A k \in Listener \ {l} : lst'[k] = lst[k]
         /\ lst[l].st = "listening" /\ lst[l].queue # <<>> /\ rooms[lst[l].node] # None
         /\ lst'[l].st = "sending" /\ lst'[l].node = lst[l].node
         /\ lst'[l].queue = Tail(lst[l].queue) /\ lst'[l].cur = Head(lst[l].queue)
         /\ lst'[l].todo = rooms[lst[l].node] /\ lst'[l].cancelled = lst[l].cancelled
  <1>1. /\ lst[l] \in ListenerState /\ lst[l].queue # <<>> /\ rooms[lst[l].node] # None
        /\ lst[l].st = "listening" /\ rooms[lst[l].node] \in SUBSET Socket
    BY DEF TypeOK, Take
  <1> DEFINE h == Head(lst[l].queue)
             t == Tail(lst[l].queue)
             R == rooms[lst[l].node]
  <1>2. lst[l].queue \in Seq(Nat) /\ h \in Nat /\ t \in Seq(Nat)
    BY <1>1, TailFacts DEF ListenerState
  <1>3. lst' = [lst EXCEPT ![l] = [lst[l] EXCEPT !.st = "sending", !.queue = t, !.cur = h,
                                                 !.todo = R, !.dead = {}]]
    BY DEF Take
  <1> HIDE DEF h, t, R
  <1> DEFINE b == [lst[l] EXCEPT !.st = "sending", !.queue = t, !.cur = h, !.todo = R, !.dead = {}]
  <1>4. /\ b \in ListenerState /\ b.st = "sending" /\ b.node = lst[l].node
        /\ b.queue = t /\ b.cur = h /\ b.todo = R /\ b.cancelled = lst[l].cancelled
    BY <1>1, <1>2 DEF ListenerState, R
  <1> HIDE DEF b
  <1>5. lst' = [lst EXCEPT ![l] = b]
    BY <1>3 DEF b
  <1>6. lst'[l] = b /\ \A k \in Listener \ {l} : lst'[k] = lst[k]
    BY <1>5 DEF TypeOK
  <1>7. lst' \in [Listener -> ListenerState]
    BY <1>4, <1>5 DEF TypeOK
  <1> QED
    BY <1>1, <1>4, <1>6, <1>7 DEF h, t, R

\* An event joins the queue of every task that is subscribed.
LEMMA PublishFacts ==
  ASSUME TypeOK, Publish
  PROVE  /\ lst' \in [Listener -> ListenerState]
         /\ published \in Nat /\ published' = published + 1 /\ published' \in 0..MaxEvents
         /\ \A l \in Listener :
               /\ lst'[l].st = lst[l].st /\ lst'[l].node = lst[l].node /\ lst'[l].cur = lst[l].cur
               /\ lst'[l].todo = lst[l].todo /\ lst'[l].cancelled = lst[l].cancelled
               /\ lst'[l].queue \in {lst[l].queue, Append(lst[l].queue, published + 1)}
  <1>0. /\ published \in Nat /\ published + 1 \in Nat /\ published' = published + 1
        /\ published' \in 0..MaxEvents
    BY ConstantsAssumption DEF TypeOK, Publish
  <1>1. ASSUME NEW l \in Listener
        PROVE  /\ lst'[l] \in ListenerState
               /\ lst'[l].st = lst[l].st /\ lst'[l].node = lst[l].node /\ lst'[l].cur = lst[l].cur
               /\ lst'[l].todo = lst[l].todo /\ lst'[l].cancelled = lst[l].cancelled
               /\ lst'[l].queue \in {lst[l].queue, Append(lst[l].queue, published + 1)}
    <2>1. lst[l] \in ListenerState
      BY DEF TypeOK
    <2> DEFINE q == Append(lst[l].queue, published + 1)
    <2>2. q \in Seq(Nat)
      BY <1>0, <2>1, AppendFacts DEF ListenerState
    <2>3. lst'[l] = lst[l] \/ lst'[l] = [lst[l] EXCEPT !.queue = q]
      BY DEF Publish
    <2> HIDE DEF q
    <2>4. /\ lst'[l] \in ListenerState
          /\ lst'[l].st = lst[l].st /\ lst'[l].node = lst[l].node /\ lst'[l].cur = lst[l].cur
          /\ lst'[l].todo = lst[l].todo /\ lst'[l].cancelled = lst[l].cancelled
          /\ lst'[l].queue \in {lst[l].queue, q}
      BY <2>1, <2>2, <2>3 DEF ListenerState
    <2> QED
      BY <2>4 DEF q
  <1>2. lst' = [l \in Listener |-> lst'[l]]
    BY DEF Publish
  <1>3. lst' \in [Listener -> ListenerState]
    BY <1>1, <1>2
  <1> QED
    BY <1>0, <1>1, <1>3

\* A task that is created for the room of n.
Fresh(l, n) ==
  /\ lst[l].st = "unused"
  /\ lst'[l].st = "starting" /\ lst'[l].node = n /\ lst'[l].queue = <<>>
  /\ lst'[l].todo = {} /\ lst'[l].cancelled = FALSE

\* A socket joins the room of its node; the first one brings a new listener.
LEMMA JoinFacts ==
  ASSUME TypeOK, NEW s \in Socket, Join(s), home[s] \in Node
  PROVE  LET n == home[s]
         IN /\ sock[s] = "accepted" /\ sock' = [sock EXCEPT ![s] = "open"]
            /\ rooms' \in [Node -> {None} \cup SUBSET Socket] /\ rooms'[n] # None
            /\ \A m \in Node : rooms'[m] # {}
            /\ \A m \in Node : m # n => rooms'[m] = rooms[m]
            /\ \A x \in rooms'[n] : x = s \/ (rooms[n] # None /\ x \in rooms[n])
            /\ task' \in [Node -> Listener \cup {None}] /\ lst' \in [Listener -> ListenerState]
            /\ \/ rooms[n] # None /\ lst' = lst /\ task' = task
               \/ /\ rooms[n] = None
                  /\ \E l \in Listener :
                        /\ Fresh(l, n) /\ task' = [task EXCEPT ![n] = l]
                        /\ \A k \in Listener : k # l => lst'[k] = lst[k]
  <1> DEFINE n == home[s]
  <1>0. \A X \in SUBSET Socket : X # None
    BY ConstantsAssumption
  <1>1. sock[s] = "accepted" /\ sock' = [sock EXCEPT ![s] = "open"]
    BY DEF Join
  <1>2. CASE rooms[n] # None
    <2>1. /\ rooms' = [rooms EXCEPT ![n] = rooms[n] \cup {s}] /\ lst' = lst /\ task' = task
      BY <1>2 DEF Join, NeedsListener
    <2>2. rooms[n] \in SUBSET Socket /\ rooms[n] \cup {s} \in SUBSET Socket
      BY <1>2 DEF TypeOK
    <2> QED
      BY <1>0, <1>1, <1>2, <2>1, <2>2 DEF TypeOK
  <1>3. CASE rooms[n] = None
    <2>1. PICK l \in Listener :
            /\ lst[l].st = "unused"
            /\ lst' = [lst EXCEPT ![l] = [Idle EXCEPT !.st = "starting", !.node = n]]
            /\ task' = [task EXCEPT ![n] = l]
            /\ rooms' = [rooms EXCEPT ![n] = {s}]
      BY <1>3 DEF Join, NeedsListener
    <2> DEFINE b == [Idle EXCEPT !.st = "starting", !.node = n]
    <2>2. /\ b \in ListenerState /\ b.st = "starting" /\ b.node = n /\ b.queue = <<>>
          /\ b.todo = {} /\ b.cancelled = FALSE
      BY IdleFacts
    <2>3. lst' = [lst EXCEPT ![l] = b]
      BY <2>1
    <2> HIDE DEF b
    <2>4. lst'[l] = b /\ \A k \in Listener \ {l} : lst'[k] = lst[k]
      BY <2>3 DEF TypeOK
    <2>5. lst' \in [Listener -> ListenerState] /\ task' \in [Node -> Listener \cup {None}]
      BY <2>1, <2>2, <2>3 DEF TypeOK
    <2>6. /\ rooms' \in [Node -> {None} \cup SUBSET Socket] /\ rooms'[n] = {s}
          /\ \A m \in Node \ {n} : rooms'[m] = rooms[m]
      BY <2>1 DEF TypeOK
    <2>7. \A m \in Node : rooms'[m] # {}
      BY <2>6 DEF TypeOK
    <2>8. Fresh(l, n)
      BY <2>1, <2>2, <2>4 DEF Fresh
    <2>9. rooms'[n] # None /\ \A x \in rooms'[n] : x = s
      BY <1>0, <2>6
    <2> QED
      BY <1>1, <1>3, <2>1, <2>4, <2>5, <2>6, <2>7, <2>8, <2>9
  <1> QED
    BY <1>2, <1>3

\* A disconnect lets every task go on, if only to its cancellation.
LEMMA DisconnectKeeps ==
  ASSUME TypeOK, RosterInv, NEW n \in Node, NEW S \in SUBSET Socket,
         NEW old \in [Listener -> ListenerState], \A k \in Listener : Keeps(k, old),
         Disconnect(n, S, old)
  PROVE  lst' \in [Listener -> ListenerState] /\ \A k \in Listener : Keeps(k, lst')
  <1>1. CASE lst' = old
    BY <1>1
  <1>2. CASE task[n] \in Listener /\ lst' = [old EXCEPT ![task[n]].cancelled = TRUE]
    <2>1. /\ lst' \in [Listener -> ListenerState]
          /\ \A l \in Listener : /\ lst'[l].st = old[l].st /\ lst'[l].node = old[l].node
                                 /\ lst'[l].queue = old[l].queue /\ lst'[l].cur = old[l].cur
                                 /\ lst'[l].todo = old[l].todo
                                 /\ lst'[l].cancelled \in {old[l].cancelled, TRUE}
      BY <1>2, CancelFacts
    <2> QED
      BY <2>1 DEF Keeps
  <1> QED
    BY <1>1, <1>2, DisconnectFacts

\* What the steps do to the tasks: all go on, one of them ends, an event is
\* published or taken, or a socket joins.
LEMMA ListenerCases ==
  ASSUME TypeOK, HomeInv, RosterInv, [Next]_vars
  PROVE  /\ lst' \in [Listener -> ListenerState]
         /\ \/ \A k \in Listener : Keeps(k, lst') \/ Ends(k)
            \/ Publish
            \/ \E l \in Listener : Take(l) /\ lst[l].node \in Node
            \/ \E s \in Socket : Join(s) /\ home[s] \in Node
  <1>1. ASSUME UNCHANGED lst
        PROVE  lst' \in [Listener -> ListenerState] /\ \A k \in Listener : Keeps(k, lst')
    BY <1>1, SameKeeps DEF TypeOK
  <1>2. ASSUME NEW s \in Socket, Leave(s)
        PROVE  lst' \in [Listener -> ListenerState] /\ \A k \in Listener : Keeps(k, lst')
    <2>1. home[s] \in Node /\ {s} \in SUBSET Socket /\ lst \in [Listener -> ListenerState]
      BY <1>2 DEF Leave, HomeInv, TypeOK
    <2>2. \A k \in Listener : Keeps(k, lst)
      BY SameKeeps
    <2>3. Disconnect(home[s], {s}, lst)
      BY <1>2 DEF Leave
    <2> QED
      BY <2>1, <2>2, <2>3, DisconnectKeeps
  <1>3. ASSUME NEW l \in Listener, Reap(l)
        PROVE  lst' \in [Listener -> ListenerState] /\ \A k \in Listener : Keeps(k, lst')
    <2>1. lst[l].node \in Node /\ lst[l].dead \in SUBSET Socket
      BY <1>3 DEF Reap, HomeInv, TypeOK, ListenerState
    <2>2. PICK old \in [Listener -> ListenerState] :
            /\ \A k \in Listener : Keeps(k, old)
            /\ \/ lst' = old
               \/ Disconnect(lst[l].node, lst[l].dead, old)
      BY <1>3, ReapFacts
    <2> QED
      BY <2>1, <2>2, DisconnectKeeps
  <1>4. ASSUME NEW l \in Listener, Subscribe(l) \/ Send(l)
        PROVE  lst' \in [Listener -> ListenerState] /\ \A k \in Listener : Keeps(k, lst')
    BY <1>4, SubscribeFacts, SendFacts
  <1>5. ASSUME NEW l \in Listener, Cancelled(l) \/ RedisError(l)
        PROVE  lst' \in [Listener -> ListenerState]
               /\ \A k \in Listener : Keeps(k, lst') \/ Ends(k)
    BY <1>5, EndFacts, SameKeeps
  <1>6. ASSUME NEW l \in Listener, Take(l)
        PROVE  lst' \in [Listener -> ListenerState] /\ lst[l].node \in Node
    <2>1. lst[l].node \in Node
      BY <1>6 DEF Take, HomeInv
    <2> QED
      BY <1>6, <2>1, TakeFacts
  <1>7. ASSUME NEW s \in Socket, Join(s)
        PROVE  lst' \in [Listener -> ListenerState] /\ home[s] \in Node
    <2>1. home[s] \in Node
      BY <1>7 DEF Join, HomeInv
    <2> QED
      BY <1>7, <2>1, JoinFacts
  <1>8. ASSUME Publish PROVE lst' \in [Listener -> ListenerState]
    BY <1>8, PublishFacts
  <1> QED
    BY <1>1, <1>2, <1>3, <1>4, <1>5, <1>6, <1>7, <1>8
    DEF Next, Work, Accept, Drop, EndpointDies, Quiet, vars

----------------------------------------------------------------------------
(* Types and homes.                                                        *)

\* The hub without rooms satisfies the invariant.
LEMMA InvInit == Init => IInv
  <1> SUFFICES ASSUME Init PROVE IInv
    OBVIOUS
  <1>0. /\ \A l \in Listener : lst[l] = Idle
        /\ Idle \in ListenerState /\ Idle.st = "unused" /\ Idle.queue = <<>> /\ Idle.todo = {}
    BY IdleFacts DEF Init, Idle
  <1>1. TypeOK
    <2>1. None # {}
      BY ConstantsAssumption
    <2> QED
      BY <1>0, <2>1, ConstantsAssumption DEF Init, TypeOK
  <1>2. HomeInv
    BY <1>0 DEF Init, HomeInv
  <1>3. RosterInv
    BY <1>0 DEF Init, RosterInv, NoDeafRoom, ListenerListed, Alive
  <1>4. QueueInv
    BY <1>0 DEF QueueInv, Increasing
  <1>5. OrderInv
    BY <1>0 DEF Init, OrderInv, InOrderOnce, Alive
  <1> QED
    BY <1>1, <1>2, <1>3, <1>4, <1>5 DEF IInv

\* Every step leaves the state well typed.
LEMMA TypeStep == TypeOK /\ HomeInv /\ RosterInv /\ [Next]_vars => TypeOK'
  <1> SUFFICES ASSUME TypeOK, HomeInv, RosterInv, [Next]_vars PROVE TypeOK'
    OBVIOUS
  <1>0. lst' \in [Listener -> ListenerState]
    BY ListenerCases
  <1>1. ASSUME NEW s \in Socket, NEW n \in Node, Accept(s, n) PROVE TypeOK'
    BY <1>0, <1>1 DEF Accept, TypeOK
  <1>2. ASSUME NEW s \in Socket, Drop(s) \/ EndpointDies(s) PROVE TypeOK'
    BY <1>0, <1>2 DEF Drop, EndpointDies, TypeOK
  <1>3. ASSUME NEW s \in Socket, Join(s) PROVE TypeOK'
    <2>1. home[s] \in Node
      BY <1>3 DEF Join, HomeInv
    <2>2. /\ rooms' \in [Node -> {None} \cup SUBSET Socket] /\ \A m \in Node : rooms'[m] # {}
          /\ task' \in [Node -> Listener \cup {None}]
      BY <1>3, <2>1, JoinFacts
    <2> QED
      BY <1>0, <1>3, <2>2 DEF Join, TypeOK
  <1>4. ASSUME NEW n \in Node, NEW S \in SUBSET Socket, NEW old \in [Listener -> ListenerState],
               Disconnect(n, S, old), sock' \in [Socket -> {"new", "accepted", "open", "gone", "left"}],
               UNCHANGED <<home, inbox, published>>
        PROVE  TypeOK'
    <2>1. /\ rooms' \in [Node -> {None} \cup SUBSET Socket] /\ \A m \in Node : rooms'[m] # {}
          /\ task' = task \/ task' = [task EXCEPT ![n] = None]
      BY <1>4, DisconnectFacts
    <2>2. task' \in [Node -> Listener \cup {None}]
      BY <2>1 DEF TypeOK
    <2> QED
      BY <1>0, <1>4, <2>1, <2>2 DEF TypeOK
  <1>5. ASSUME NEW s \in Socket, Leave(s) PROVE TypeOK'
    <2>1. /\ home[s] \in Node /\ {s} \in SUBSET Socket /\ lst \in [Listener -> ListenerState]
          /\ sock' \in [Socket -> {"new", "accepted", "open", "gone", "left"}]
      BY <1>5 DEF Leave, HomeInv, TypeOK
    <2> QED
      BY <1>4, <1>5, <2>1 DEF Leave
  <1>6. ASSUME NEW l \in Listener, Reap(l) PROVE TypeOK'
    <2>1. lst[l].node \in Node /\ lst[l].dead \in SUBSET Socket
      BY <1>6 DEF Reap, HomeInv, TypeOK, ListenerState
    <2>2. PICK old \in [Listener -> ListenerState] :
            \/ UNCHANGED <<rooms, task>>
            \/ Disconnect(lst[l].node, lst[l].dead, old)
      BY <1>6, ReapFacts
    <2>3. UNCHANGED <<sock, home, inbox, published>>
      BY <1>6 DEF Reap
    <2>4. CASE UNCHANGED <<rooms, task>>
      BY <1>0, <2>3, <2>4 DEF TypeOK
    <2>5. CASE Disconnect(lst[l].node, lst[l].dead, old)
      BY <1>4, <2>1, <2>3, <2>5 DEF TypeOK
    <2> QED
      BY <2>2, <2>4, <2>5
  <1>7. ASSUME NEW l \in Listener, Send(l) PROVE TypeOK'
    <2>1. PICK s \in lst[l].todo : \/ inbox' = [inbox EXCEPT ![s] = Append(@, lst[l].cur)]
                                   \/ UNCHANGED inbox
      BY <1>7, SendFacts
    <2>2. s \in Socket /\ lst[l].cur \in Nat /\ inbox[s] \in Seq(Nat)
      BY DEF TypeOK, ListenerState
    <2>3. Append(inbox[s], lst[l].cur) \in Seq(Nat)
      BY <2>2, AppendFacts
    <2>4. inbox' \in [Socket -> Seq(Nat)]
      BY <2>1, <2>2, <2>3 DEF TypeOK
    <2> QED
      BY <1>0, <1>7, <2>4 DEF Send, TypeOK
  <1>8. ASSUME NEW l \in Listener, Cancelled(l) \/ Subscribe(l) \/ Take(l) \/ RedisError(l)
        PROVE  TypeOK'
    BY <1>0, <1>8 DEF Cancelled, Subscribe, Take, RedisError, TypeOK
  <1>9. CASE Publish
    BY <1>0, <1>9, PublishFacts DEF Publish, TypeOK
  <1>10. CASE UNCHANGED vars
    BY <1>10 DEF TypeOK, vars
  <1> QED
    BY <1>1, <1>2, <1>3, <1>5, <1>6, <1>7, <1>8, <1>9, <1>10 DEF Next, Work, Quiet

\* A connection never starts again, never moves to another node, and gets nothing
\* before it is open.
LEMMA SocketsStay ==
  ASSUME TypeOK, HomeInv, [Next]_vars, NEW s \in Socket
  PROVE  /\ sock[s] # "new" => sock'[s] # "new" /\ home'[s] = home[s]
         /\ sock'[s] # "new" => home'[s] \in Node
         /\ sock'[s] = "open" => sock[s] \in {"accepted", "open"}
         /\ sock'[s] \in {"new", "accepted"} =>
              sock[s] \in {"new", "accepted"} /\ inbox'[s] = inbox[s]
  <1>1. ASSUME NEW x \in Socket, NEW n \in Node, Accept(x, n)
        PROVE  /\ sock[s] # "new" => sock'[s] # "new" /\ home'[s] = home[s]
               /\ sock'[s] # "new" => home'[s] \in Node
               /\ sock'[s] = "open" => sock[s] \in {"accepted", "open"}
               /\ sock'[s] \in {"new", "accepted"} =>
                    sock[s] \in {"new", "accepted"} /\ inbox'[s] = inbox[s]
    BY <1>1 DEF Accept, TypeOK, HomeInv
  <1>2. ASSUME NEW x \in Socket, Join(x) \/ Drop(x) \/ Leave(x) \/ EndpointDies(x)
        PROVE  /\ sock[s] # "new" => sock'[s] # "new"
               /\ sock'[s] # "new" => sock[s] # "new"
               /\ sock'[s] = "open" => sock[s] \in {"accepted", "open"}
               /\ sock'[s] \in {"new", "accepted"} => sock[s] \in {"new", "accepted"}
               /\ home' = home /\ inbox' = inbox
    BY <1>2 DEF Join, Drop, Leave, EndpointDies, TypeOK
  <1>3. ASSUME NEW l \in Listener, Send(l)
        PROVE  /\ home' = home /\ sock' = sock
               /\ sock[s] \in {"new", "accepted"} => inbox'[s] = inbox[s]
    <2>1. PICK x \in lst[l].todo :
            \/ sock[x] = "open" /\ inbox' = [inbox EXCEPT ![x] = Append(@, lst[l].cur)]
            \/ UNCHANGED inbox
      BY <1>3, SendFacts
    <2> QED
      BY <1>3, <2>1 DEF Send, TypeOK
  <1>4. CASE UNCHANGED <<sock, home, inbox>>
    BY <1>4 DEF HomeInv
  <1> QED
    BY <1>1, <1>2, <1>3, <1>4
    DEF Next, Work, Cancelled, Subscribe, Take, Reap, RedisError, Publish, Quiet, vars, HomeInv

\* Only a socket of the node enters its room.
LEMMA RoomsStay ==
  ASSUME TypeOK, HomeInv, RosterInv, [Next]_vars, NEW n \in Node, rooms'[n] # None,
         NEW s \in rooms'[n]
  PROVE  \/ rooms[n] # None /\ s \in rooms[n]
         \/ s \in Socket /\ sock[s] = "accepted" /\ home[s] = n
  <1>1. ASSUME NEW x \in Socket, Join(x)
        PROVE  (rooms[n] # None /\ s \in rooms[n]) \/ (s = x /\ sock[s] = "accepted" /\ home[s] = n)
    <2>1. home[x] \in Node
      BY <1>1 DEF Join, HomeInv
    <2>2. CASE home[x] = n
      BY <1>1, <2>1, <2>2, JoinFacts
    <2>3. CASE home[x] # n
      <3>1. rooms'[n] = rooms[n]
        BY <1>1, <2>1, <2>3, JoinFacts
      <3> QED
        BY <3>1
    <2> QED
      BY <2>2, <2>3
  <1>2. ASSUME NEW m \in Node, NEW S \in SUBSET Socket, NEW old \in [Listener -> ListenerState],
               Disconnect(m, S, old)
        PROVE  rooms[n] # None /\ s \in rooms[n]
    BY <1>2, DisconnectFacts DEF TypeOK
  <1>3. ASSUME NEW x \in Socket, Leave(x) PROVE rooms[n] # None /\ s \in rooms[n]
    <2>1. /\ home[x] \in Node /\ {x} \in SUBSET Socket /\ lst \in [Listener -> ListenerState]
          /\ Disconnect(home[x], {x}, lst)
      BY <1>3 DEF Leave, HomeInv, TypeOK
    <2> QED
      BY <1>2, <2>1
  <1>4. ASSUME NEW l \in Listener, Reap(l) PROVE rooms[n] # None /\ s \in rooms[n]
    <2>1. lst[l].node \in Node /\ lst[l].dead \in SUBSET Socket
      BY <1>4 DEF Reap, HomeInv, TypeOK, ListenerState
    <2> QED
      BY <1>2, <1>4, <2>1, ReapFacts
  <1>5. CASE UNCHANGED rooms
    BY <1>5
  <1> QED
    BY <1>1, <1>3, <1>4, <1>5
    DEF Next, Work, Accept, Drop, EndpointDies, Cancelled, Subscribe, Take, Send, RedisError,
        Publish, Quiet, vars

\* Every step leaves sockets, rooms and tasks on their nodes.
LEMMA HomeStep == TypeOK /\ HomeInv /\ RosterInv /\ [Next]_vars => HomeInv'
  <1> SUFFICES ASSUME TypeOK, HomeInv, RosterInv, [Next]_vars PROVE HomeInv'
    OBVIOUS
  <1>1. \A s \in Socket :
          /\ sock'[s] # "new" => home'[s] \in Node
          /\ sock'[s] \in {"new", "accepted"} => inbox'[s] = <<>>
    BY SocketsStay DEF HomeInv
  <1>2. ASSUME NEW n \in Node, rooms'[n] # None, NEW s \in rooms'[n]
        PROVE  sock'[s] # "new" /\ home'[s] = n
    <2>1. s \in Socket /\ sock[s] # "new" /\ home[s] = n
      BY <1>2, RoomsStay DEF HomeInv, TypeOK
    <2> QED
      BY <2>1, SocketsStay
  <1>3. ASSUME NEW l \in Listener
        PROVE  /\ lst'[l].st \in {"starting", "listening", "sending"} => lst'[l].node \in Node
               /\ \A s \in lst'[l].todo : sock'[s] # "new" /\ home'[s] = lst'[l].node
    <2>0. ASSUME NEW s \in lst[l].todo PROVE sock'[s] # "new" /\ home'[s] = lst[l].node
      <3>1. s \in Socket
        BY DEF TypeOK, ListenerState
      <3> QED
        BY <3>1, SocketsStay DEF HomeInv
    <2>1. CASE Keeps(l, lst')
      BY <2>0, <2>1 DEF Keeps, Active, HomeInv
    <2>2. CASE Ends(l)
      BY <2>2 DEF Ends
    <2>3. CASE Publish
      BY <2>0, <2>3, PublishFacts DEF HomeInv
    <2>4. ASSUME NEW k \in Listener, Take(k), lst[k].node \in Node
          PROVE  /\ lst'[l].st \in {"starting", "listening", "sending"} => lst'[l].node \in Node
                 /\ \A s \in lst'[l].todo : sock'[s] # "new" /\ home'[s] = lst'[l].node
      <3>1. CASE l # k
        BY <2>0, <2>4, <3>1, TakeFacts DEF HomeInv
      <3>2. CASE l = k
        <4>1. /\ lst'[l].node = lst[l].node /\ rooms[lst[l].node] # None
              /\ lst'[l].todo = rooms[lst[l].node]
          BY <2>4, <3>2, TakeFacts
        <4>2. ASSUME NEW s \in rooms[lst[l].node] PROVE sock'[s] # "new" /\ home'[s] = lst[l].node
          <5>1. s \in Socket /\ sock[s] # "new" /\ home[s] = lst[l].node
            BY <2>4, <3>2, <4>1 DEF HomeInv, TypeOK
          <5> QED
            BY <5>1, SocketsStay
        <4> QED
          BY <2>4, <3>2, <4>1, <4>2
      <3> QED
        BY <3>1, <3>2
    <2>5. ASSUME NEW x \in Socket, Join(x), home[x] \in Node
          PROVE  /\ lst'[l].st \in {"starting", "listening", "sending"} => lst'[l].node \in Node
                 /\ \A s \in lst'[l].todo : sock'[s] # "new" /\ home'[s] = lst'[l].node
      <3>1. lst'[l] = lst[l] \/ Fresh(l, home[x])
        BY <2>5, JoinFacts
      <3>2. CASE lst'[l] = lst[l]
        BY <2>0, <3>2 DEF HomeInv
      <3>3. CASE Fresh(l, home[x])
        BY <2>5, <3>3 DEF Fresh
      <3> QED
        BY <3>1, <3>2, <3>3
    <2> QED
      BY <2>1, <2>2, <2>3, <2>4, <2>5, ListenerCases
  <1> QED
    BY <1>1, <1>2, <1>3 DEF HomeInv

----------------------------------------------------------------------------
(* Rooms and their listeners.                                              *)

\* A task that is at work, or not, as before.
AsBefore(l, old) ==
  /\ old[l].st \in Active <=> lst[l].st \in Active
  /\ old[l].st = "failed" <=> lst[l].st = "failed"
  /\ old[l].cancelled = lst[l].cancelled /\ old[l].node = lst[l].node

\* A task that goes on uncancelled is one.
LEMMA KeepsAsBefore ==
  ASSUME NEW l \in Listener, NEW old, Keeps(l, old), old[l].cancelled = lst[l].cancelled
  PROVE  AsBefore(l, old)
  BY DEF Keeps, AsBefore, Active

\* Steps that leave rooms and tasks as they are leave them matched, also when a task
\* ends.
LEMMA RosterKept ==
  ASSUME TypeOK, HomeInv, RosterInv, UNCHANGED task,
         \A n \in Node : rooms'[n] = None <=> rooms[n] = None,
         \A l \in Listener : AsBefore(l, lst') \/ Ends(l)
  PROVE  RosterInv'
  <1>1. \A n \in Node : rooms'[n] = None <=> task'[n] = None
    BY DEF RosterInv
  <1>2. NoDeafRoom'
    <2> SUFFICES ASSUME NEW n \in Node, rooms'[n] # None
                 PROVE  /\ task'[n] # None
                        /\ \/ lst'[task[n]].st = "failed"
                           \/ Alive(task[n])' /\ lst'[task[n]].node = n
      BY DEF NoDeafRoom
    <2>1. /\ rooms[n] # None /\ task[n] # None /\ task[n] \in Listener
          /\ lst[task[n]].st = "failed" \/ (Alive(task[n]) /\ lst[task[n]].node = n)
      BY DEF RosterInv, NoDeafRoom, TypeOK
    <2>2. CASE AsBefore(task[n], lst')
      BY <2>1, <2>2 DEF AsBefore, Alive, Active
    <2>3. CASE Ends(task[n])
      BY <2>1, <2>3 DEF Ends, Alive, Active
    <2> QED
      BY <2>1, <2>2, <2>3
  <1>3. ListenerListed'
    <2> SUFFICES ASSUME NEW l \in Listener, Alive(l)'
                 PROVE  task'[lst'[l].node] = l /\ rooms'[lst'[l].node] # None
      BY DEF ListenerListed
    <2>1. AsBefore(l, lst')
      BY DEF Ends, Alive
    <2>2. Alive(l) /\ lst'[l].node = lst[l].node
      BY <2>1 DEF AsBefore, Alive, Active
    <2>3. task[lst[l].node] = l /\ rooms[lst[l].node] # None
      BY <2>2 DEF RosterInv, ListenerListed
    <2>4. lst[l].node \in Node
      BY <2>2 DEF HomeInv, Alive
    <2> QED
      BY <2>2, <2>3, <2>4
  <1> QED
    BY <1>1, <1>2, <1>3 DEF RosterInv

\* A disconnect that leaves the room empty cancels the listener of the room, and no
\* other.
LEMMA RosterDisconnect ==
  ASSUME TypeOK, HomeInv, RosterInv, NEW n \in Node, NEW S \in SUBSET Socket,
         NEW old \in [Listener -> ListenerState], \A l \in Listener : AsBefore(l, old),
         Disconnect(n, S, old)
  PROVE  RosterInv'
  <1>1. CASE lst' = old /\ task' = task /\ \A m \in Node : rooms'[m] = None <=> rooms[m] = None
    BY <1>1, RosterKept
  <1>2. CASE /\ rooms[n] # None /\ task[n] \in Listener
             /\ rooms' = [rooms EXCEPT ![n] = None] /\ task' = [task EXCEPT ![n] = None]
             /\ lst' = [old EXCEPT ![task[n]].cancelled = TRUE]
    <2> DEFINE c == task[n]
    <2>1. /\ rooms'[n] = None /\ \A m \in Node : m # n => rooms'[m] = rooms[m]
          /\ task'[n] = None /\ \A m \in Node : m # n => task'[m] = task[m]
      BY <1>2 DEF TypeOK
    <2>2. /\ lst'[c].cancelled = TRUE /\ lst'[c].st = old[c].st
          /\ \A l \in Listener : l # c => lst'[l] = old[l]
      BY <1>2, CancelFacts
    <2>3. \A m \in Node : rooms'[m] = None <=> task'[m] = None
      BY <2>1 DEF RosterInv
    <2>4. ASSUME NEW m \in Node, rooms'[m] # None
          PROVE  /\ task'[m] # None
                 /\ \/ lst'[task'[m]].st = "failed"
                    \/ Alive(task[m])' /\ lst'[task'[m]].node = m
      <3>1. /\ m # n /\ rooms[m] # None /\ task'[m] = task[m] /\ task[m] \in Listener
            /\ lst[task[m]].st = "failed" \/ (Alive(task[m]) /\ lst[task[m]].node = m)
        BY <2>1, <2>4 DEF RosterInv, NoDeafRoom, TypeOK
      <3>2. CASE task[m] # c
        <4>1. lst'[task[m]] = old[task[m]] /\ AsBefore(task[m], old)
          BY <2>2, <3>1, <3>2
        <4> QED
          BY <3>1, <4>1, ConstantsAssumption DEF AsBefore, Alive, Active
      <3>3. CASE task[m] = c
        <4>1. lst[c].st = "failed"
          BY <1>2, <3>1, <3>3 DEF RosterInv, NoDeafRoom
        <4>2. old[c].st = "failed"
          BY <1>2, <4>1 DEF AsBefore
        <4> QED
          BY <2>2, <3>1, <3>3, <4>2, ConstantsAssumption
      <3> QED
        BY <3>2, <3>3
    <2>5. NoDeafRoom'
      BY <2>4 DEF NoDeafRoom
    <2>6. ASSUME NEW l \in Listener, Alive(l)'
          PROVE  task'[lst'[l].node] = l /\ rooms'[lst'[l].node] # None
      <3>1. l # c
        BY <2>2, <2>6 DEF Alive
      <3>2. lst'[l] = old[l] /\ AsBefore(l, old)
        BY <2>2, <3>1
      <3>3. Alive(l) /\ lst'[l].node = lst[l].node
        BY <2>6, <3>2 DEF AsBefore, Alive, Active
      <3>4. /\ lst[l].node \in Node /\ task[lst[l].node] = l /\ rooms[lst[l].node] # None
        BY <3>3 DEF HomeInv, Alive, RosterInv, ListenerListed
      <3> QED
        BY <2>1, <3>1, <3>3, <3>4
    <2>7. ListenerListed'
      BY <2>6 DEF ListenerListed
    <2> QED
      BY <2>3, <2>5, <2>7 DEF RosterInv
  <1> QED
    BY <1>1, <1>2, DisconnectFacts

\* Every step leaves each room with its listener and each listener with its room.
LEMMA RosterStep == TypeOK /\ HomeInv /\ RosterInv /\ [Next]_vars => RosterInv'
  <1> SUFFICES ASSUME TypeOK, HomeInv, RosterInv, [Next]_vars PROVE RosterInv'
    OBVIOUS
  <1>0. \A l \in Listener : lst'[l] = lst[l] => AsBefore(l, lst')
    BY DEF AsBefore
  <1>1. ASSUME NEW s \in Socket, Join(s) PROVE RosterInv'
    <2> DEFINE n == home[s]
    <2>1. n \in Node
      BY <1>1 DEF Join, HomeInv
    <2>2. rooms'[n] # None /\ \A m \in Node : m # n => rooms'[m] = rooms[m]
      BY <1>1, <2>1, JoinFacts
    <2>3. CASE rooms[n] # None /\ lst' = lst /\ task' = task
      BY <1>0, <2>2, <2>3, RosterKept
    <2>4. ASSUME rooms[n] = None, NEW l \in Listener, Fresh(l, n), task' = [task EXCEPT ![n] = l],
                 \A k \in Listener : k # l => lst'[k] = lst[k]
          PROVE  RosterInv'
      <3>1. task'[n] = l /\ \A m \in Node : m # n => task'[m] = task[m]
        BY <2>1, <2>4 DEF TypeOK
      <3>2. \A m \in Node : rooms'[m] = None <=> task'[m] = None
        BY <2>1, <2>2, <3>1, ConstantsAssumption DEF RosterInv
      <3>3. Alive(l)' /\ lst'[l].node = n /\ ~Alive(l) /\ lst[l].st # "failed"
        BY <2>4 DEF Fresh, Alive
      <3>4. ASSUME NEW m \in Node, rooms'[m] # None
            PROVE  /\ task'[m] # None
                   /\ \/ lst'[task'[m]].st = "failed"
                      \/ Alive(task[m])' /\ lst'[task'[m]].node = m
        <4>1. CASE m = n
          BY <3>1, <3>3, <4>1, ConstantsAssumption DEF Alive
        <4>2. CASE m # n
          <5>1. /\ task'[m] = task[m] /\ rooms[m] # None /\ task[m] \in Listener
                /\ lst[task[m]].st = "failed" \/ (Alive(task[m]) /\ lst[task[m]].node = m)
            BY <2>2, <3>1, <3>4, <4>2 DEF RosterInv, NoDeafRoom, TypeOK
          <5>2. task[m] # l
            BY <3>3, <5>1
          <5> QED
            BY <2>4, <5>1, <5>2, ConstantsAssumption DEF Alive
        <4> QED
          BY <4>1, <4>2
      <3>5. ASSUME NEW k \in Listener, Alive(k)'
            PROVE  task'[lst'[k].node] = k /\ rooms'[lst'[k].node] # None
        <4>1. CASE k = l
          BY <2>2, <3>1, <3>3, <4>1
        <4>2. CASE k # l
          <5>1. lst'[k] = lst[k] /\ Alive(k)
            BY <2>4, <3>5, <4>2 DEF Alive
          <5>2. lst[k].node \in Node /\ task[lst[k].node] = k /\ rooms[lst[k].node] # None
            BY <5>1 DEF HomeInv, Alive, RosterInv, ListenerListed
          <5> QED
            BY <2>2, <2>4, <3>1, <5>1, <5>2
        <4> QED
          BY <4>1, <4>2
      <3> QED
        BY <3>2, <3>4, <3>5 DEF RosterInv, NoDeafRoom, ListenerListed
    <2> QED
      BY <1>1, <2>1, <2>3, <2>4, JoinFacts
  <1>2. ASSUME NEW s \in Socket, Leave(s) PROVE RosterInv'
    <2>1. /\ home[s] \in Node /\ {s} \in SUBSET Socket /\ lst \in [Listener -> ListenerState]
          /\ Disconnect(home[s], {s}, lst)
      BY <1>2 DEF Leave, HomeInv, TypeOK
    <2>2. \A l \in Listener : AsBefore(l, lst)
      BY DEF AsBefore
    <2> QED
      BY <2>1, <2>2, RosterDisconnect
  <1>3. ASSUME NEW l \in Listener, Reap(l) PROVE RosterInv'
    <2>1. lst[l].node \in Node /\ lst[l].dead \in SUBSET Socket
      BY <1>3 DEF Reap, HomeInv, TypeOK, ListenerState
    <2>2. PICK old \in [Listener -> ListenerState] :
            /\ \A k \in Listener : Keeps(k, old) /\ old[k].cancelled = lst[k].cancelled
            /\ \/ lst' = old /\ UNCHANGED <<rooms, task>>
               \/ Disconnect(lst[l].node, lst[l].dead, old)
      BY <1>3, ReapFacts
    <2>3. \A k \in Listener : AsBefore(k, old)
      BY <2>2, KeepsAsBefore
    <2>4. CASE lst' = old /\ UNCHANGED <<rooms, task>>
      BY <2>3, <2>4, RosterKept
    <2> QED
      BY <2>1, <2>2, <2>3, <2>4, RosterDisconnect
  <1>4. ASSUME NEW l \in Listener, Subscribe(l) \/ Send(l) PROVE RosterInv'
    <2>1. \A k \in Listener : AsBefore(k, lst')
      BY <1>4, SubscribeFacts, SendFacts, KeepsAsBefore
    <2> QED
      BY <1>4, <2>1, RosterKept DEF Subscribe, Send
  <1>5. ASSUME NEW l \in Listener, Take(l) PROVE RosterInv'
    <2>1. lst[l].node \in Node
      BY <1>5 DEF Take, HomeInv
    <2>2. \A k \in Listener : AsBefore(k, lst')
      BY <1>0, <1>5, <2>1, TakeFacts DEF AsBefore, Active
    <2> QED
      BY <1>5, <2>2, RosterKept DEF Take
  <1>6. ASSUME NEW l \in Listener, Cancelled(l) \/ RedisError(l) PROVE RosterInv'
    <2>1. \A k \in Listener : AsBefore(k, lst') \/ Ends(k)
      BY <1>0, <1>6, EndFacts
    <2> QED
      BY <1>6, <2>1, RosterKept DEF Cancelled, RedisError
  <1>7. CASE Publish
    <2>1. \A k \in Listener : AsBefore(k, lst')
      BY <1>7, PublishFacts DEF AsBefore
    <2> QED
      BY <1>7, <2>1, RosterKept DEF Publish
  <1>8. CASE UNCHANGED <<rooms, task, lst>>
    BY <1>0, <1>8, RosterKept
  <1> QED
    BY <1>1, <1>2, <1>3, <1>4, <1>5, <1>6, <1>7, <1>8
    DEF Next, Work, Accept, Drop, EndpointDies, Quiet, vars

----------------------------------------------------------------------------
(* The order of the events.                                                *)

\* Only Publish counts an event.
LEMMA PublishedStays ==
  ASSUME [Next]_vars
  PROVE  Publish \/ published' = published
  BY DEF Next, Work, Accept, Join, Drop, Leave, EndpointDies, Cancelled, Subscribe, Take, Send,
         Reap, RedisError, Quiet, vars

\* Every step leaves the queues in order.
LEMMA QueueStep == TypeOK /\ HomeInv /\ RosterInv /\ QueueInv /\ [Next]_vars => QueueInv'
  <1> SUFFICES ASSUME TypeOK, HomeInv, RosterInv, QueueInv, [Next]_vars, NEW l \in Listener
               PROVE  /\ Increasing(lst'[l].queue)
                      /\ \A i \in DOMAIN lst'[l].queue : lst'[l].queue[i] <= published'
                      /\ lst'[l].st = "sending" =>
                           /\ lst'[l].cur <= published'
                           /\ \A i \in DOMAIN lst'[l].queue : lst'[l].cur < lst'[l].queue[i]
    BY DEF QueueInv, Increasing
  <1> DEFINE Ordered == /\ Increasing(lst'[l].queue)
                        /\ \A i \in DOMAIN lst'[l].queue : lst'[l].queue[i] <= published'
                        /\ lst'[l].st = "sending" =>
                             /\ lst'[l].cur <= published'
                             /\ \A i \in DOMAIN lst'[l].queue : lst'[l].cur < lst'[l].queue[i]
             q == lst[l].queue
  <1>0. /\ q \in Seq(Nat) /\ lst[l].cur \in Nat /\ published \in Nat
        /\ \A i \in DOMAIN q : q[i] \in Nat /\ q[i] <= published
        /\ Increasing(q)
        /\ lst[l].st = "sending" => /\ lst[l].cur <= published
                                   /\ \A i \in DOMAIN q : lst[l].cur < q[i]
    BY DEF TypeOK, ListenerState, QueueInv
  <1>1. ASSUME published' = published, lst'[l].queue = q,
               lst'[l].st = "sending" => lst[l].st = "sending" /\ lst'[l].cur = lst[l].cur
        PROVE  Ordered
    BY <1>0, <1>1
  <1>2. ASSUME lst'[l].queue = <<>>, lst'[l].st # "sending" PROVE Ordered
    BY <1>2 DEF Increasing
  <1>3. CASE Publish
    <2>1. /\ published' = published + 1 /\ published + 1 \in Nat
          /\ lst'[l].st = lst[l].st /\ lst'[l].cur = lst[l].cur
          /\ lst'[l].queue \in {q, Append(q, published + 1)}
      BY <1>3, PublishFacts
    <2>2. CASE lst'[l].queue = q
      BY <1>0, <2>1, <2>2
    <2>3. CASE lst'[l].queue = Append(q, published + 1)
      <3> DEFINE p == Append(q, published + 1)
      <3>1. Increasing(p)
        BY <1>0, <2>1, AppendIncreasing
      <3>2. \A i \in DOMAIN p : p[i] = published + 1 \/ (i \in DOMAIN q /\ p[i] = q[i])
        BY <1>0, <2>1, AppendFacts
      <3> HIDE DEF p
      <3>3. lst'[l].queue = p
        BY <2>3 DEF p
      <3>4. \A i \in DOMAIN p : p[i] <= published + 1
        BY <1>0, <3>2
      <3>5. lst[l].st = "sending" => lst[l].cur <= published + 1 /\ \A i \in DOMAIN p : lst[l].cur < p[i]
        BY <1>0, <3>2
      <3> QED
        BY <2>1, <3>1, <3>3, <3>4, <3>5
    <2> QED
      BY <2>1, <2>2, <2>3
  <1>4. ASSUME NEW k \in Listener, Take(k), lst[k].node \in Node PROVE Ordered
    <2>0. published' = published
      BY <1>4 DEF Take
    <2>1. CASE k # l
      BY <1>1, <1>4, <2>0, <2>1, TakeFacts
    <2>2. CASE k = l
      <3>1. q # <<>> /\ lst'[l].queue = Tail(q) /\ lst'[l].cur = Head(q)
        BY <1>4, <2>2, TakeFacts
      <3>2. /\ Increasing(Tail(q)) /\ \A i \in DOMAIN Tail(q) : Head(q) < Tail(q)[i]
            /\ Head(q) <= published
            /\ \A i \in DOMAIN Tail(q) : Tail(q)[i] <= published
        BY <1>0, <3>1, TailFacts
      <3> QED
        BY <2>0, <3>1, <3>2
    <2> QED
      BY <2>1, <2>2
  <1>5. ASSUME NEW s \in Socket, Join(s), home[s] \in Node PROVE Ordered
    <2>0. published' = published
      BY <1>5 DEF Join
    <2>1. lst'[l] = lst[l] \/ Fresh(l, home[s])
      BY <1>5, JoinFacts
    <2>2. CASE Fresh(l, home[s])
      BY <1>2, <2>2 DEF Fresh
    <2> QED
      BY <1>1, <2>0, <2>1, <2>2
  <1>6. CASE ~Publish /\ Keeps(l, lst')
    BY <1>1, <1>6, PublishedStays DEF Keeps
  <1>7. CASE Ends(l)
    BY <1>2, <1>7 DEF Ends
  <1> QED
    BY <1>3, <1>4, <1>5, <1>6, <1>7, ListenerCases

\* Only a send puts an event into an inbox.
LEMMA InboxStays ==
  ASSUME [Next]_vars
  PROVE  (\E l \in Listener : Send(l)) \/ inbox' = inbox
  BY DEF Next, Work, Accept, Join, Drop, Leave, EndpointDies, Cancelled, Subscribe, Take,
         Reap, RedisError, Publish, Quiet, vars

\* A listener at work sends to a socket of its own room what the socket has not got.
LEMMA SendOrder ==
  ASSUME TypeOK, HomeInv, QueueInv, OrderInv, NEW l \in Listener, Send(l),
         NEW x \in lst[l].todo, sock[x] = "open"
  PROVE  /\ x \in Socket /\ home[x] = lst[l].node /\ Alive(l) /\ lst[l].node \in Node
         /\ lst[l].cur \in Nat /\ lst[l].cur <= published
         /\ inbox[x] \in Seq(Nat) /\ \A i \in DOMAIN inbox[x] : inbox[x][i] < lst[l].cur
         /\ \A j \in DOMAIN lst[l].queue : lst[l].cur < lst[l].queue[j]
  <1>1. lst[l].st = "sending" /\ ~lst[l].cancelled /\ lst[l].cur \in Nat /\ x \in Socket
    BY DEF Send, TypeOK, ListenerState
  <1>2. Alive(l) /\ home[x] = lst[l].node /\ lst[l].node \in Node
    BY <1>1 DEF Alive, HomeInv
  <1>3. Older(x, l)
    BY <1>1, <1>2 DEF OrderInv
  <1> QED
    BY <1>1, <1>2, <1>3 DEF Older, QueueInv, TypeOK

\* Every step leaves what a socket has got in order and before what waits for it.
LEMMA OrderStep ==
  TypeOK /\ HomeInv /\ RosterInv /\ QueueInv /\ OrderInv /\ [Next]_vars => OrderInv'
  <1> SUFFICES ASSUME TypeOK, HomeInv, RosterInv, QueueInv, OrderInv, [Next]_vars
               PROVE  OrderInv'
    OBVIOUS
  <1>0. /\ published \in Nat /\ published' \in Nat /\ published <= published'
        /\ \A s \in Socket : inbox[s] \in Seq(Nat) /\ \A i \in DOMAIN inbox[s] : inbox[s][i] \in Nat
    BY PublishedStays, PublishFacts DEF TypeOK
  <1>1. ASSUME NEW s \in Socket
        PROVE  Increasing(inbox'[s]) /\ \A i \in DOMAIN inbox'[s] : inbox'[s][i] <= published'
    <2>0. Increasing(inbox[s]) /\ \A i \in DOMAIN inbox[s] : inbox[s][i] <= published
      BY DEF OrderInv, InOrderOnce, Increasing
    <2>1. CASE inbox'[s] = inbox[s]
      BY <1>0, <2>0, <2>1
    <2>2. ASSUME NEW l \in Listener, Send(l), inbox'[s] # inbox[s]
          PROVE  Increasing(inbox'[s]) /\ \A i \in DOMAIN inbox'[s] : inbox'[s][i] <= published'
      <3>1. PICK x \in lst[l].todo :
              sock[x] = "open" /\ inbox' = [inbox EXCEPT ![x] = Append(@, lst[l].cur)]
        BY <2>2, SendFacts
      <3>2. x = s /\ inbox'[s] = Append(inbox[s], lst[l].cur)
        BY <2>2, <3>1 DEF TypeOK
      <3>3. /\ lst[l].cur \in Nat /\ lst[l].cur <= published
            /\ inbox[s] \in Seq(Nat) /\ \A i \in DOMAIN inbox[s] : inbox[s][i] < lst[l].cur
        BY <2>2, <3>1, <3>2, SendOrder
      <3> DEFINE p == Append(inbox[s], lst[l].cur)
      <3>4. Increasing(p)
        BY <2>0, <3>3, AppendIncreasing
      <3>5. \A i \in DOMAIN p : p[i] = lst[l].cur \/ (i \in DOMAIN inbox[s] /\ p[i] = inbox[s][i])
        BY <3>3, AppendFacts
      <3>6. inbox'[s] = p
        BY <3>2
      <3> HIDE DEF p
      <3>7. \A i \in DOMAIN p : p[i] <= published'
        BY <1>0, <2>0, <3>3, <3>5
      <3> QED
        BY <3>4, <3>6, <3>7
    <2> QED
      BY <2>1, <2>2, InboxStays
  <1>2. ASSUME NEW s \in Socket, NEW k \in Listener,
               Alive(k)', sock'[s] = "open", home'[s] = lst'[k].node
        PROVE  Older(s, k)'
    <2> DEFINE q == lst[k].queue
    <2>0. q \in Seq(Nat) /\ Increasing(q) /\ \A j \in DOMAIN q : q[j] \in Nat
      BY DEF TypeOK, ListenerState, QueueInv
    <2>1. CASE inbox'[s] = <<>>
      BY <2>1 DEF Older
    <2>2. CASE inbox'[s] # <<>>
      <3>1. home'[s] = home[s] /\ sock[s] \in {"accepted", "open"}
        <4>1. sock[s] \in {"accepted", "open"}
          BY <1>2, SocketsStay
        <4> QED
          BY <4>1, SocketsStay
      <3>2. sock[s] = "open"
        <4>1. CASE inbox' = inbox
          BY <2>2, <3>1, <4>1 DEF HomeInv
        <4>2. ASSUME NEW l \in Listener, Send(l) PROVE sock[s] = "open"
          BY <1>2, <4>2 DEF Send
        <4> QED
          BY <4>1, <4>2, InboxStays
      <3>3. ASSUME lst[k].node = lst'[k].node, Alive(k) PROVE Older(s, k)
        BY <1>2, <3>1, <3>2, <3>3 DEF OrderInv
      <3>4. CASE Publish
        <4>1. /\ inbox' = inbox /\ published + 1 \in Nat
              /\ lst'[k].st = lst[k].st /\ lst'[k].node = lst[k].node /\ lst'[k].cur = lst[k].cur
              /\ lst'[k].todo = lst[k].todo /\ lst'[k].cancelled = lst[k].cancelled
              /\ lst'[k].queue \in {q, Append(q, published + 1)}
          BY <3>4, PublishFacts DEF Publish
        <4>2. Older(s, k)
          BY <1>2, <3>3, <4>1 DEF Alive
        <4>3. \A i \in DOMAIN inbox[s] : inbox[s][i] < published + 1
          BY <1>0 DEF OrderInv
        <4>4. \A j \in DOMAIN lst'[k].queue :
                lst'[k].queue[j] = published + 1 \/ (j \in DOMAIN q /\ lst'[k].queue[j] = q[j])
          <5> DEFINE p == Append(q, published + 1)
          <5>1. \A j \in DOMAIN p : p[j] = published + 1 \/ (j \in DOMAIN q /\ p[j] = q[j])
            <6>1. published + 1 \in Nat
              BY <4>1
            <6>2. /\ DOMAIN p = 1..(Len(q) + 1) /\ DOMAIN q = 1..Len(q) /\ Len(q) \in Nat
                  /\ p[Len(q) + 1] = published + 1 /\ \A i \in DOMAIN q : p[i] = q[i]
              BY <2>0, <6>1, AppendFacts
            <6> HIDE DEF p, q
            <6> QED
              BY <6>2
          <5>2. lst'[k].queue = q \/ lst'[k].queue = p
            BY <4>1
          <5> HIDE DEF p, q
          <5> QED
            BY <5>1, <5>2
        <4> QED
          BY <4>1, <4>2, <4>3, <4>4 DEF Older
      <3>5. ASSUME NEW l \in Listener, Take(l), lst[l].node \in Node PROVE Older(s, k)'
        <4>0. inbox' = inbox
          BY <3>5 DEF Take
        <4>1. CASE k # l
          <5>1. lst'[k] = lst[k]
            BY <3>5, <4>1, TakeFacts
          <5>2. Older(s, k)
            BY <1>2, <3>3, <5>1 DEF Alive
          <5> QED
            BY <4>0, <5>1, <5>2 DEF Older
        <4>2. CASE k = l
          <5>1. /\ lst[k].st = "listening" /\ q # <<>> /\ lst'[k].node = lst[k].node
                /\ lst'[k].queue = Tail(q) /\ lst'[k].cur = Head(q)
                /\ lst'[k].cancelled = lst[k].cancelled
            BY <3>5, <4>2, TakeFacts
          <5>2. Older(s, k)
            BY <1>2, <3>3, <5>1 DEF Alive
          <5>3. /\ 1 \in DOMAIN q /\ Head(q) = q[1]
                /\ \A i \in DOMAIN Tail(q) : i + 1 \in DOMAIN q /\ Tail(q)[i] = q[i + 1]
            BY <2>0, <5>1, TailFacts
          <5> QED
            BY <4>0, <5>1, <5>2, <5>3 DEF Older
        <4> QED
          BY <4>1, <4>2
      <3>6. ASSUME NEW x \in Socket, Join(x), home[x] \in Node PROVE Older(s, k)'
        <4>0. inbox' = inbox
          BY <3>6 DEF Join
        <4>1. lst'[k] = lst[k] \/ Fresh(k, home[x])
          BY <3>6, JoinFacts
        <4>2. CASE lst'[k] = lst[k]
          <5>1. Older(s, k)
            BY <1>2, <3>3, <4>2 DEF Alive
          <5> QED
            BY <4>0, <4>2, <5>1 DEF Older
        <4>3. CASE Fresh(k, home[x])
          BY <4>3 DEF Fresh, Older
        <4> QED
          BY <4>1, <4>2, <4>3
      <3>7. CASE Ends(k)
        BY <1>2, <3>7 DEF Ends, Alive
      <3>8. CASE Keeps(k, lst')
        <4>1. Alive(k) /\ lst'[k].node = lst[k].node /\ lst'[k].queue = q
          BY <1>2, <3>8 DEF Keeps, Alive, Active
        <4>2. Older(s, k)
          BY <3>3, <4>1
        <4>3. CASE inbox'[s] = inbox[s]
          BY <3>8, <4>2, <4>3 DEF Older, Keeps
        <4>4. ASSUME NEW l \in Listener, Send(l), inbox'[s] # inbox[s] PROVE Older(s, k)'
          <5>1. PICK x \in lst[l].todo :
                  /\ x \notin lst'[l].todo /\ sock[x] = "open"
                  /\ inbox' = [inbox EXCEPT ![x] = Append(@, lst[l].cur)]
            BY <4>4, SendFacts
          <5>2. x = s /\ inbox'[s] = Append(inbox[s], lst[l].cur)
            BY <4>4, <5>1 DEF TypeOK
          <5>3. /\ home[s] = lst[l].node /\ Alive(l) /\ lst[l].cur \in Nat
                /\ inbox[s] \in Seq(Nat)
                /\ \A j \in DOMAIN lst[l].queue : lst[l].cur < lst[l].queue[j]
            BY <4>4, <5>1, <5>2, SendOrder
          <5>4. k = l
            <6>1. lst[k].node = lst[l].node
              BY <1>2, <3>1, <4>1, <5>3
            <6>2. task[lst[k].node] = k
              BY <4>1 DEF RosterInv, ListenerListed
            <6>3. task[lst[l].node] = l
              BY <5>3 DEF RosterInv, ListenerListed
            <6> QED
              BY <6>1, <6>2, <6>3
          <5>5. \A i \in DOMAIN inbox'[s] : \/ inbox'[s][i] = lst[l].cur
                                            \/ i \in DOMAIN inbox[s] /\ inbox'[s][i] = inbox[s][i]
            BY <5>2, <5>3, AppendFacts
          <5>6. s \notin lst'[k].todo
            BY <5>1, <5>2, <5>4
          <5> QED
            BY <4>1, <4>2, <5>3, <5>4, <5>5, <5>6 DEF Older
        <4> QED
          BY <4>3, <4>4, InboxStays
      <3> QED
        BY <3>4, <3>5, <3>6, <3>7, <3>8, ListenerCases
    <2> QED
      BY <2>1, <2>2
  <1> QED
    BY <1>1, <1>2 DEF OrderInv, InOrderOnce, Increasing

----------------------------------------------------------------------------
(* The theorems.                                                           *)

\* The inductive invariant holds in every reachable state.
THEOREM Invariance == Spec => []IInv
  <1>1. IInv /\ [Next]_vars => IInv'
    BY TypeStep, HomeStep, RosterStep, QueueStep, OrderStep DEF IInv
  <1> QED
    BY InvInit, <1>1, PTL DEF Spec

\* Every variable of the hubs has its type, and no node keeps an empty room.
THEOREM TypeCorrect == Spec => []TypeOK
  <1>1. IInv => TypeOK
    BY DEF IInv
  <1> QED
    BY Invariance, <1>1, PTL

\* A listener at work is the one that is listed for a room that exists: no room is
\* served twice, and no listener outlives its room uncancelled.
THEOREM ListenersListed == Spec => []ListenerListed
  <1>1. IInv => ListenerListed
    BY DEF IInv, RosterInv
  <1> QED
    BY Invariance, <1>1, PTL

\* A room has its own listener, which is at work unless a Redis error has ended it,
\* in any order of connect, disconnect and failed sends.
THEOREM RoomsServed == Spec => []NoDeafRoom
  <1>1. IInv => NoDeafRoom
    BY DEF IInv, RosterInv
  <1> QED
    BY Invariance, <1>1, PTL

\* Every socket gets the events in the order of publication and none of them twice,
\* however its room was torn down and set up before.
THEOREM EventsInOrder == Spec => []InOrderOnce
  <1>1. IInv => InOrderOnce
    BY DEF IInv, OrderInv
  <1> QED
    BY Invariance, <1>1, PTL
=============================================================================
