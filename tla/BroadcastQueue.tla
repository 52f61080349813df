--------------------------- MODULE BroadcastQueue ---------------------------
(***************************************************************************)
(* What MessageQueue promises its callers: one writer enqueues, and every  *)
(* reader dequeues the whole log in the writer's order, each message once. *)
(* The readers of the writer's own node (Readers) bound how far the writer *)
(* may run ahead; the readers of other nodes (Remotes) do not.  A local    *)
(* reader leaves for good when its dequeue is cancelled by shutdown.       *)
(***************************************************************************)
EXTENDS Naturals, Sequences

CONSTANTS Readers, Remotes, Messages, Capacity

VARIABLES log, received, gone

qvars == <<log, received, gone>>

Init == /\ log = <<>>
        /\ received = [r \in Readers \cup Remotes |-> <<>>]
        /\ gone = {}

enqueue(m) == /\ \A r \in Readers : Len(log) < Len(received[r]) + Capacity
              /\ log' = Append(log, m)
              /\ UNCHANGED <<received, gone>>

dequeue(r) == /\ r \notin gone
              /\ Len(received[r]) < Len(log)
              /\ received' = [received EXCEPT
                                ![r] = Append(@, log[Len(@) + 1])]
              /\ UNCHANGED <<log, gone>>

leave(r) == /\ r \in Readers \ gone
            /\ gone' = gone \cup {r}
            /\ UNCHANGED <<log, received>>

Next == \/ \E m \in Messages : enqueue(m)
        \/ \E r \in Readers \cup Remotes : dequeue(r)
        \/ \E r \in Readers : leave(r)

Spec == /\ Init
        /\ [][Next]_qvars
        /\ \A r \in Readers \cup Remotes : WF_qvars(dequeue(r))

=============================================================================
