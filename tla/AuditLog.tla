------------------------------ MODULE AuditLog ------------------------------
(***************************************************************************)
(* What an audit ledger promises the code that records events in it        *)
(* (LedgerBackend.append as its callers see it): a log that only grows at  *)
(* its end, by the one event a client asked for, at most once per request, *)
(* and whose acknowledged positions stay acknowledged.                     *)
(*                                                                         *)
(* A request can be turned down, and it can be stored without the client   *)
(* hearing of it; it can never be acknowledged without being stored.       *)
(***************************************************************************)
EXTENDS Naturals, Sequences

CONSTANTS Clients,   \* the threads that record events
          Events,    \* what can be recorded
          NoEvent    \* "this client has no request open"

VARIABLES log,       \* the sequence of the events stored
          request,   \* the event each client is trying to record
          acked      \* the positions of log that a client was told of

vars == <<log, request, acked>>

Init ==
    /\ log = <<>>
    /\ request = [c \in Clients |-> NoEvent]
    /\ acked = {}

Submit(c, e) ==
    /\ request[c] = NoEvent
    /\ request' = [request EXCEPT ![c] = e]
    /\ UNCHANGED <<log, acked>>

\* The event reaches the log and its position reaches the client.
Accept(c) ==
    /\ request[c] # NoEvent
    /\ log' = Append(log, request[c])
    /\ request' = [request EXCEPT ![c] = NoEvent]
    /\ acked' = acked \cup {Len(log) + 1}

\* The event reaches the log, and the answer is lost on its way back.
AcceptSilently(c) ==
    /\ request[c] # NoEvent
    /\ log' = Append(log, request[c])
    /\ request' = [request EXCEPT ![c] = NoEvent]
    /\ UNCHANGED acked

\* Requests are dropped; those of a whole process when it restarts.
Refuse(C) ==
    /\ request' = [c \in Clients |-> IF c \in C THEN NoEvent ELSE request[c]]
    /\ UNCHANGED <<log, acked>>

Next ==
    \/ \E c \in Clients :
          \/ \E e \in Events : Submit(c, e)
          \/ Accept(c)
          \/ AcceptSilently(c)
    \/ \E C \in SUBSET Clients : Refuse(C)

Spec == Init /\ [][Next]_vars
=============================================================================
