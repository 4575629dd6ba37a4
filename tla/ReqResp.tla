------------------------------ MODULE ReqResp ------------------------------
(***************************************************************************)
(* The request/response protocol /ursa/txrx (ursa-network/src/behaviour.rs *)
(* and service.rs): a caller sends a SendRequest command with a oneshot    *)
(* sender; the network loop hands the request to libp2p-request-response   *)
(* (external) and keeps the sender in pending_responses until the response *)
(* or a failure comes.  At the peer, the request passes the behaviour's    *)
(* queue and the event channel to a subscriber, if there is one.           *)
(*                                                                         *)
(* A node of this code never answers (SendResponse is `todo!()`, which     *)
(* ends the loop, and nothing else can use the response channel); peers of *)
(* other implementations may, well or badly: UrsaExchangeCodec unwraps the *)
(* JSON it reads, in the task of the connection.                           *)
(***************************************************************************)
EXTENDS Naturals, Sequences, Functions

CONSTANT Requests       \* the SendRequest commands

VARIABLES
  caller,    \* what the caller of each request knows
  commands,  \* the command channel
  pending,   \* Behaviour::pending_responses
  wire,      \* what libp2p knows of each request (external)
  loop,      \* the network loop of the asking node
  events,    \* Behaviour::events of the peer
  inbox,     \* the event channel of the peer
  peerLoop   \* the network loop of the peer

vars == <<caller, commands, pending, wire, loop, events, inbox, peerLoop>>
peer == <<events, inbox, peerLoop>>

TypeOK ==
  /\ caller \in [Requests -> {"idle", "waiting", "gone", "ok", "failed", "canceled"}]
  /\ commands \in Seq(Requests)
  /\ pending \in SUBSET Requests
  /\ wire \in [Requests -> {"none", "sent", "arrived", "replied", "lost", "over"}]
  /\ loop \in {"running", "stopped"}
  /\ events \in Seq(Requests)
  /\ inbox \in Seq(Requests)
  /\ peerLoop \in {"running", "stopped"}

Init ==
  /\ caller = [r \in Requests |-> "idle"]
  /\ commands = <<>>
  /\ pending = {}
  /\ wire = [r \in Requests |-> "none"]
  /\ loop = "running"
  /\ events = <<>>
  /\ inbox = <<>>
  /\ peerLoop = "running"

-----------------------------------------------------------------------------
\* The sender is used: the caller, if it still waits, gets the outcome.
Tell(r, outcome) ==
  caller' = [caller EXCEPT ![r] = IF @ = "waiting" THEN outcome ELSE @]

\* The command is sent; the channel is closed once the loop has ended.
Ask(r) ==
  /\ caller[r] = "idle"
  /\ IF loop = "running"
       THEN /\ caller' = [caller EXCEPT ![r] = "waiting"]
            /\ commands' = Append(commands, r)
       ELSE /\ caller' = [caller EXCEPT ![r] = "failed"]
            /\ UNCHANGED commands
  /\ UNCHANGED <<pending, wire, loop, peer>>

\* The caller drops its receiver: a later send on the oneshot only warns.
GiveUp(r) ==
  /\ caller[r] = "waiting"
  /\ caller' = [caller EXCEPT ![r] = "gone"]
  /\ UNCHANGED <<commands, pending, wire, loop, peer>>

\* The request is sent but its sender is dropped.
TakeRequestUnregistered ==
  /\ loop = "running"
  /\ commands # <<>>
  /\ commands' = Tail(commands)
  /\ wire' = [wire EXCEPT ![Head(commands)] = "sent"]
  /\ UNCHANGED <<caller, pending, loop, peer>>

\* UrsaCommand::SendRequest: send_request of the behaviour.
TakeRequest ==
  /\ loop = "running"
  /\ commands # <<>>
  /\ commands' = Tail(commands)
  /\ wire' = [wire EXCEPT ![Head(commands)] = "sent"]
  /\ pending' = pending \cup {Head(commands)}
  /\ UNCHANGED <<caller, loop, peer>>

\* Response: the sender registered for the request, if any, is used.
Response(r) ==
  /\ loop = "running"
  /\ wire[r] = "replied"
  /\ wire' = [wire EXCEPT ![r] = "over"]
  /\ IF r \in pending
       THEN pending' = pending \ {r} /\ Tell(r, "ok")
       ELSE UNCHANGED <<pending, caller>>
  /\ UNCHANGED <<commands, loop, peer>>

\* A failure is only logged.
OutboundFailureLogged(r) ==
  /\ loop = "running"
  /\ wire[r] \in {"sent", "arrived", "replied"}
  /\ wire' = [wire EXCEPT ![r] = "over"]
  /\ UNCHANGED <<caller, commands, pending, loop, peer>>

\* OutboundFailure: the peer cannot be reached, closes, answers with nothing
\* or too much, or 60 s have passed, also while its response is on the way; a
\* response after it is dropped.
OutboundFailure(r) ==
  /\ loop = "running"
  /\ wire[r] \in {"sent", "arrived", "replied"}
  /\ wire' = [wire EXCEPT ![r] = "over"]
  /\ IF r \in pending
       THEN pending' = pending \ {r} /\ Tell(r, "failed")
       ELSE UNCHANGED <<pending, caller>>
  /\ UNCHANGED <<commands, loop, peer>>

\* read_response panics on a response that does not parse.  The task of the
\* connection is gone and so are the timers of all requests on it, without a
\* failure that anybody would report.
Unparsable(S) ==
  /\ loop = "running"
  /\ \A r \in S : wire[r] \in {"sent", "arrived", "replied"}
  /\ \E r \in S : wire[r] = "arrived"
  /\ wire' = [r \in Requests |-> IF r \in S THEN "lost" ELSE wire[r]]
  /\ UNCHANGED <<caller, commands, pending, loop, peer>>

\* The loop ends: the service is dropped, with the senders it holds.
LoopEnds ==
  /\ loop = "running"
  /\ loop' = "stopped"
  /\ caller' = [r \in Requests |-> IF r \in pending /\ caller[r] = "waiting"
                                     THEN "canceled" ELSE caller[r]]
  /\ pending' = {}
  /\ wire' = [r \in Requests |-> IF wire[r] = "none" THEN "none" ELSE "over"]
  /\ UNCHANGED <<commands, peer>>

-----------------------------------------------------------------------------
(***************************************************************************)
(* The peer.                                                               *)
(***************************************************************************)
\* handle_request_response queues an event.
Arrive(r) ==
  /\ peerLoop = "running"
  /\ wire[r] = "sent"
  /\ wire' = [wire EXCEPT ![r] = "arrived"]
  /\ events' = Append(events, r)
  /\ UNCHANGED <<caller, commands, pending, loop, inbox, peerLoop>>

\* BehaviourEvent::RequestMessage: the loop passes it to the event channel.
Forward ==
  /\ peerLoop = "running"
  /\ events # <<>>
  /\ events' = Tail(events)
  /\ inbox' = Append(inbox, Head(events))
  /\ UNCHANGED <<caller, commands, pending, wire, loop, peerLoop>>

\* The subscriber answers with UrsaCommand::SendResponse: `todo!()`.
SendResponse ==
  /\ peerLoop = "running"
  /\ inbox # <<>>
  /\ peerLoop' = "stopped"
  /\ events' = <<>>
  /\ UNCHANGED <<caller, commands, pending, wire, loop, inbox>>

\* A peer of another implementation responds.
Reply(r) ==
  /\ wire[r] = "arrived"
  /\ wire' = [wire EXCEPT ![r] = "replied"]
  /\ UNCHANGED <<caller, commands, pending, loop, peer>>

Next ==
  \/ \E r \in Requests : \/ Ask(r) \/ GiveUp(r)
                         \/ Response(r) \/ OutboundFailure(r)
                         \/ Arrive(r) \/ Reply(r)
  \/ \E S \in SUBSET Requests : Unparsable(S)
  \/ TakeRequest
  \/ Forward
  \/ SendResponse
  \/ LoopEnds

Safety == Init /\ [][Next]_vars

(***************************************************************************)
(* The loop is scheduled and select! starves neither source; libp2p ends   *)
(* every request, by its timeout if by nothing else.  The peer owes        *)
(* nothing.                                                                *)
(***************************************************************************)
Spec ==
  /\ Safety
  /\ WF_vars(TakeRequest)
  /\ \A r \in Requests : WF_vars(Response(r) \/ OutboundFailure(r))

-----------------------------------------------------------------------------
Queued(r) == r \in Range(commands)
Outstanding(r) == wire[r] \in {"sent", "arrived", "replied", "lost"}

(***************************************************************************)
(* pending_responses neither leaks nor forgets: it holds the senders of    *)
(* exactly the requests that libp2p has not ended yet, whichever of        *)
(* response, failure and timeout comes first, also when the caller has     *)
(* given up or libp2p itself has lost track of the request.                *)
(***************************************************************************)
PendingIsOutstanding == \A r \in Requests : r \in pending <=> Outstanding(r)

(***************************************************************************)
(* The sender of a waiting caller is in one place, the command channel or  *)
(* pending_responses, and a caller that has its outcome has no sender      *)
(* anywhere.                                                               *)
(***************************************************************************)
SenderIsKept ==
  \A r \in Requests :
     /\ caller[r] = "waiting" => (Queued(r) <=> r \notin pending)
     /\ caller[r] \in {"idle", "ok", "failed", "canceled"} => ~Queued(r) /\ r \notin pending

(***************************************************************************)
(* The bookkeeping that makes the two above inductive: a command is queued *)
(* once, and it, like a request nobody has made, is unknown to libp2p.     *)
(***************************************************************************)
Bookkeeping ==
  /\ IsInjective(commands)
  /\ \A r \in Requests :
        /\ Queued(r) => wire[r] = "none" /\ caller[r] \in {"waiting", "gone"}
        /\ caller[r] = "idle" => wire[r] = "none"

(***************************************************************************)
(* Every caller gets an outcome, although the peer may never answer or may *)
(* stop; only a command still in the channel when the loop ended waits for *)
(* ever, and a request whose connection was lost with its task.            *)
(***************************************************************************)
RequestsEnd ==
  \A r \in Requests :
     caller[r] = "waiting"
       ~> caller[r] # "waiting" \/ (loop = "stopped" /\ Queued(r)) \/ wire[r] = "lost"

=============================================================================
