-------------------------- MODULE DeliveryContract --------------------------
(***************************************************************************)
(* What the broadcast hub promises the rest of the gateway when no file    *)
(* store is configured (hub.py:1-10): a published message stays            *)
(* outstanding until some subscriber was sent it, and the step that ends   *)
(* that, which happens once, gives its SIM slots to the delete hook.       *)
(* Queues, threads, cursors and the replay ring are the business of module *)
(* Hub, which implements this specification.                               *)
(***************************************************************************)
EXTENDS Sequences

CONSTANT MessageIds  \* the ids a stream may hand out

VARIABLES published,     \* ids handed out in the current stream
          outstanding,   \* ids offered to every new subscriber
          delivered,     \* ids written to at least one subscriber's socket
          released       \* ids given to the delete hook, in order

vars == <<published, outstanding, delivered, released>>

Init == published = {} /\ outstanding = {} /\ delivered = {} /\ released = <<>>

Publish(id) == /\ id \notin published
               /\ published' = published \cup {id}
               /\ outstanding' = outstanding \cup {id}
               /\ UNCHANGED <<delivered, released>>

\* Any subscriber may be sent any published message, any number of times.
Deliver(id) == /\ id \in published
               /\ delivered' = delivered \cup {id}
               /\ UNCHANGED <<published, outstanding, released>>

Release(id) == /\ id \in outstanding \cap delivered
               /\ outstanding' = outstanding \ {id}
               /\ released' = Append(released, id)
               /\ UNCHANGED <<published, delivered>>

\* The process restarts: everything was in memory.
Restart == published' = {} /\ outstanding' = {} /\ delivered' = {} /\ released' = <<>>

Next == \/ \E id \in MessageIds : Publish(id)
        \/ \E id \in published : Deliver(id) \/ Release(id)
        \/ Restart

Spec == Init /\ [][Next]_vars
=============================================================================
