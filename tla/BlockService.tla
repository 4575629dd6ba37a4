---------------------------- MODULE BlockService ----------------------------
(***************************************************************************)
(* What the node promises to a caller of get and get_data, with no queue,  *)
(* query, thread or peer in sight.  A call is granted only when the block  *)
(* it names is stored, and it is granted or refused at most once.  A       *)
(* granted call for one block is always served.  A granted call for a      *)
(* whole DAG is served too, unless a block of the DAG is missing at that   *)
(* moment: then it breaks.                                                 *)
(***************************************************************************)
EXTENDS Dag

CONSTANTS Cids, Calls, Links

VARIABLES
  req,      \* what each call asks
  stored,   \* the blocks of the node
  status    \* "asked", then "refused", or "granted" and "served" or "broken"

vars == <<req, stored, status>>

Init ==
  /\ req \in [Calls -> [kind : {"get", "sync"}, cid : Cids]]
  /\ stored \in SUBSET Cids
  /\ status = [c \in Calls |-> "asked"]

\* Blocks arrive and are never removed.
Store ==
  /\ \E b \in Cids : stored' = stored \cup {b}
  /\ UNCHANGED <<req, status>>

\* What a call asks for is in the store when its result is read.
Servable(c) ==
  IF req[c].kind = "get" THEN req[c].cid \in stored
                         ELSE Reach(Links, req[c].cid) \subseteq stored

Move(c, from, to) ==
  /\ status[c] = from
  /\ status' = [status EXCEPT ![c] = to]
  /\ UNCHANGED <<req, stored>>

Grant(c)  == req[c].cid \in stored /\ Move(c, "asked", "granted")
Refuse(c) == Move(c, "asked", "refused")
Serve(c)  == Servable(c) /\ Move(c, "granted", "served")
Break(c)  == ~Servable(c) /\ Move(c, "granted", "broken")

(***************************************************************************)
(* When the node's loop ends, every call that it holds is refused at once. *)
(***************************************************************************)
RefuseMany ==
  /\ \E R \in SUBSET {c \in Calls : status[c] = "asked"} :
        status' = [c \in Calls |-> IF c \in R THEN "refused" ELSE status[c]]
  /\ UNCHANGED <<req, stored>>

Next ==
  \/ Store
  \/ RefuseMany
  \/ \E c \in Calls : Grant(c) \/ Refuse(c) \/ Serve(c) \/ Break(c)

Spec == Init /\ [][Next]_vars

=============================================================================
