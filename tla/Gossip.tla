------------------------------- MODULE Gossip -------------------------------
(***************************************************************************)
(* Gossip among several nodes on the one topic that every node subscribes  *)
(* to (/ursa/global): the command GossipsubMessage publishes, gossipsub    *)
(* (external, as ursa-network/src/gossipsub.rs configures it) sends to the *)
(* connected subscribers, and what arrives passes the behaviour's queue    *)
(* and the network loop to the subscriber of UrsaEvent.                    *)
(*                                                                         *)
(* Three settings matter.  message_id_fn makes the data the identity of a  *)
(* message, whoever publishes it.  duplicate_cache_time forgets it after a *)
(* minute.  validate_messages leaves forwarding to the application, which  *)
(* never calls report_message_validation_result: a message that was        *)
(* received is neither forwarded nor offered to others.                    *)
(***************************************************************************)
EXTENDS Naturals, Sequences

CONSTANTS
  Nodes,        \* the nodes
  Edges,        \* who connects to whom, both ways
  Data,         \* the data that may be published
  MaxDrops,     \* bound on the connections that are lost
  MaxForgets    \* bound on the entries that a duplicate cache forgets

ASSUME EdgesAssumption == \A e \in Edges : e \in Nodes \X Nodes /\ <<e[2], e[1]>> \in Edges
ASSUME BoundsAssumption == MaxDrops \in Nat /\ MaxForgets \in Nat

VARIABLES
  links,     \* the pairs of connected nodes, both ways
  known,     \* per node, the connected peers it knows to subscribe
  cache,     \* per node, the duplicate cache
  own,       \* per node, what it has published
  underway,  \* the messages under way
  queues,    \* per node, Behaviour::events
  shown,     \* per node and data, how often it was put in the event channel
  unheard,   \* what a loop dropped because its sender was gone (history)
  forgets,   \* per node and data, how often the cache forgot it (bound)
  drops      \* how many connections were lost (bound)

gossipVars == <<links, known, cache, own, underway, queues, shown, unheard, forgets, drops>>
history == <<unheard, forgets, drops>>

Message == [from : Nodes, to : Nodes, data : Data]

GossipTypeOK ==
  /\ links \in SUBSET Edges
  /\ known \in [Nodes -> SUBSET Nodes]
  /\ cache \in [Nodes -> SUBSET Data]
  /\ own \in [Nodes -> SUBSET Data]
  /\ underway \in SUBSET Message
  /\ queues \in [Nodes -> Seq([peer : Nodes, data : Data])]
  /\ shown \in [Nodes -> [Data -> Nat]]
  /\ unheard \in SUBSET (Nodes \X Data)
  /\ forgets \in [Nodes -> [Data -> 0 .. MaxForgets]]
  /\ drops \in 0 .. MaxDrops

GossipInit ==
  /\ links = Edges
  /\ known = [n \in Nodes |-> {}]
  /\ cache = [n \in Nodes |-> {}]
  /\ own = [n \in Nodes |-> {}]
  /\ underway = {}
  /\ queues = [n \in Nodes |-> <<>>]
  /\ shown = [n \in Nodes |-> [d \in Data |-> 0]]
  /\ unheard = {}
  /\ forgets = [n \in Nodes |-> [d \in Data |-> 0]]
  /\ drops = 0

To(n, peers, d) == {[from |-> n, to |-> p, data |-> d] : p \in peers}

\* The author tells messages apart as well, as gossipsub does by itself.
IdWithAuthor(n, d) == <<n, d>>

\* message_id_fn: the hash of the data; n is the author.
MessageId(n, d) == d

-----------------------------------------------------------------------------
Connect(n, m) ==
  /\ <<n, m>> \in Edges \ links
  /\ links' = links \cup {<<n, m>>, <<m, n>>}
  /\ UNCHANGED <<known, cache, own, underway, queues, shown, history>>

\* What was under way on the connection is lost.
Disconnect(n, m) ==
  /\ <<n, m>> \in links
  /\ drops < MaxDrops
  /\ drops' = drops + 1
  /\ links' = links \ {<<n, m>>, <<m, n>>}
  /\ known' = [known EXCEPT ![n] = @ \ {m}, ![m] = @ \ {n}]
  /\ underway' = {w \in underway : {w.from, w.to} # {n, m}}
  /\ UNCHANGED <<cache, own, queues, shown, unheard, forgets>>

\* The subscription that m made at start reaches n (GossipsubEvent::Subscribed
\* is ignored by the behaviour).
Subscribed(n, m) ==
  /\ <<n, m>> \in links
  /\ m \notin known[n]
  /\ known' = [known EXCEPT ![n] = @ \cup {m}]
  /\ UNCHANGED <<links, cache, own, underway, queues, shown, history>>

\* Behaviour::publish, to every subscriber (flood_publish); data that is in the
\* cache is refused, and so is any without a subscriber.
Flood(n, d) ==
  /\ MessageId(n, d) \notin cache[n]
  /\ known[n] # {}
  /\ cache' = [cache EXCEPT ![n] = @ \cup {MessageId(n, d)}]
  /\ own' = [own EXCEPT ![n] = @ \cup {d}]
  /\ underway' = underway \cup To(n, known[n], d)

\* UrsaCommand::GossipsubMessage.  If publish fails there is a warning, and
\* nothing has changed.
Publish(n, d) ==
  /\ Flood(n, d)
  /\ UNCHANGED <<links, known, queues, shown, unheard, forgets, drops>>

\* A heartbeat advertises a node's own messages, valid by definition; a peer
\* that has not seen one asks for it.
Heartbeat(n, m, d) ==
  /\ d \in own[n]
  /\ m \in known[n]
  /\ MessageId(n, d) \notin cache[m]
  /\ underway' = underway \cup To(n, {m}, d)
  /\ UNCHANGED <<links, known, cache, own, queues, shown, unheard, forgets, drops>>

\* A message arrives; a duplicate is dropped, another queued by
\* handle_gossipsub.  Nobody validates it, so it is not forwarded.
Receive(w) ==
  /\ w \in underway
  /\ underway' = underway \ {w}
  /\ IF MessageId(w.from, w.data) \in cache[w.to]
       THEN UNCHANGED <<cache, queues>>
       ELSE /\ cache' = [cache EXCEPT ![w.to] = @ \cup {MessageId(w.from, w.data)}]
            /\ queues' = [queues EXCEPT ![w.to] = Append(@, [peer |-> w.from, data |-> w.data])]
  /\ UNCHANGED <<links, known, own, shown, history>>

\* The loop asks for a subscription of the peer instead of a connection.
HandleFromSubscribers(n) ==
  /\ queues[n] # <<>>
  /\ queues' = [queues EXCEPT ![n] = Tail(@)]
  /\ LET e == Head(queues[n])
     IN  IF e.peer \in known[n]
           THEN shown' = [shown EXCEPT ![n][e.data] = @ + 1]
           ELSE UNCHANGED shown
  /\ UNCHANGED <<links, known, cache, own, underway, history>>

\* BehaviourEvent::GossipMessage: only from a peer that is still connected.
Handle(n) ==
  /\ queues[n] # <<>>
  /\ queues' = [queues EXCEPT ![n] = Tail(@)]
  /\ LET e == Head(queues[n])
     IN  IF <<n, e.peer>> \in links
           THEN shown' = [shown EXCEPT ![n][e.data] = @ + 1] /\ UNCHANGED unheard
           ELSE unheard' = unheard \cup {<<n, e.data>>} /\ UNCHANGED shown
  /\ UNCHANGED <<links, known, cache, own, underway, forgets, drops>>

\* A minute has passed.
Forget(n, d) ==
  /\ MessageId(n, d) \in cache[n]
  /\ \A m \in Nodes : forgets[m][d] < MaxForgets
  /\ forgets' = [forgets EXCEPT ![n][d] = @ + 1]
  /\ cache' = [cache EXCEPT ![n] = @ \ {MessageId(n, d)}]
  /\ own' = [own EXCEPT ![n] = @ \ {d}]
  /\ UNCHANGED <<links, known, underway, queues, shown, unheard, drops>>

GossipNext ==
  \/ \E n, m \in Nodes : \/ Connect(n, m) \/ Disconnect(n, m) \/ Subscribed(n, m)
                         \/ \E d \in Data : Heartbeat(n, m, d)
  \/ \E n \in Nodes, d \in Data : Publish(n, d) \/ Forget(n, d)
  \/ \E w \in underway : Receive(w)
  \/ \E n \in Nodes : Handle(n)

(***************************************************************************)
(* A connection delivers what was sent on it, unless it breaks, and the    *)
(* loop of a node is always scheduled.                                     *)
(***************************************************************************)
GossipSpec ==
  /\ GossipInit /\ [][GossipNext]_gossipVars
  /\ WF_gossipVars(\E w \in underway : Receive(w))
  /\ \A n \in Nodes : WF_gossipVars(Handle(n))

-----------------------------------------------------------------------------
(***************************************************************************)
(* A subscriber is shown the same data once a minute at most, however many *)
(* peers publish it and however copies, heartbeats and lost connections    *)
(* interleave.                                                             *)
(***************************************************************************)
ShownOncePerMinute ==
  \A n \in Nodes, d \in Data : shown[n][d] <= 1 + forgets[n][d]

(***************************************************************************)
(* What is published to a connected peer is shown there, unless it has     *)
(* published the same data, the connection breaks, or the copy that came   *)
(* first was from another peer that has disconnected before the loop       *)
(* looked at it: that copy is dropped, and has made this one a duplicate.  *)
(***************************************************************************)
PublishedIsShown ==
  \A n, m \in Nodes, d \in Data :
     [from |-> n, to |-> m, data |-> d] \in underway
       ~> \/ shown[m][d] > 0 \/ d \in own[m]
          \/ <<n, m>> \notin links
          \/ <<m, d>> \in unheard

=============================================================================
