---------------------------- MODULE OutboxTable ----------------------------
(***************************************************************************)
(* The committed rows of outbox_events (app/repositories/models.py), the   *)
(* one piece of state the API process and the worker processes share.      *)
(*                                                                         *)
(* An order and its outbox event are created by one HTTP request, which    *)
(* draws a fresh uuid4 for each.  A request creates at most one of each,   *)
(* so the request itself stands for both identifiers: outbox[r] is the row *)
(* of the event that request r wrote, and "absent" says that no committed  *)
(* row exists.  The payload is not modelled: the worker only forwards it.  *)
(***************************************************************************)
EXTENDS Naturals, FiniteSets

CONSTANTS
    Requests,   \* the POST /orders requests, and so the identities of rows
    Times       \* the values datetime.now() can return

ASSUME TimesAssumption == Times \subseteq Nat

VARIABLES
    outbox,     \* the status column of every row
    created_at  \* the created_at column, the sort key of the worker's query

Statuses == {"pending", "processed", "failed"}

OutboxTypeOK ==
    /\ outbox \in [Requests -> Statuses \cup {"absent"}]
    /\ created_at \in [Requests -> Nat]

OutboxInit ==
    /\ outbox = [r \in Requests |-> "absent"]
    /\ created_at = [r \in Requests |-> 0]

Stored == {e \in Requests : outbox[e] # "absent"}

Pending == {e \in Requests : outbox[e] = "pending"}

\* The rows of S an ORDER BY created_at ASC may put first.
Oldest(S) == {e \in S : \A f \in S : created_at[e] <= created_at[f]}
=============================================================================
