------------------------------ MODULE AuditTrail ------------------------------
(***************************************************************************)
(* What the backend promises about its audit tables, whatever the order    *)
(* its requests run in: a record is written at most once for a request,    *)
(* only after the operation it tells of was tried, only into the table of  *)
(* the environment provider the request is about, and a request that must  *)
(* be audited is answered with success only once its record is there.      *)
(* SdkRequests is the detailed specification that implements this one.     *)
(***************************************************************************)
CONSTANTS Requests, Providers, None

VARIABLES subject,   \* the provider each request is about, None before it comes
          tried,     \* the requests whose operation has been tried
          trail,     \* for each provider, the requests its audit table tells of
          confirmed  \* the audited requests that were answered with success

vars == <<subject, tried, trail, confirmed>>

TypeOK ==
  /\ subject \in [Requests -> Providers \cup {None}]
  /\ tried \in SUBSET Requests
  /\ trail \in [Providers -> SUBSET Requests]
  /\ confirmed \in SUBSET Requests

Init ==
  /\ subject = [r \in Requests |-> None]
  /\ tried = {}
  /\ trail = [p \in Providers |-> {}]
  /\ confirmed = {}

Recorded(r) == \E p \in Providers : r \in trail[p]

Begin(r) ==
  /\ subject[r] = None
  /\ \E p \in Providers : subject' = [subject EXCEPT ![r] = p]
  /\ UNCHANGED <<tried, trail, confirmed>>

Try(r) ==
  /\ subject[r] # None
  /\ ~Recorded(r)
  /\ tried' = tried \cup {r}
  /\ UNCHANGED <<subject, trail, confirmed>>

\* The record is written; the answer may leave in the same step.
Record(r) ==
  /\ r \in tried
  /\ ~Recorded(r)
  /\ trail' = [trail EXCEPT ![subject[r]] = @ \cup {r}]
  /\ confirmed' \in {confirmed, confirmed \cup {r}}
  /\ UNCHANGED <<subject, tried>>

Confirm(r) ==
  /\ Recorded(r)
  /\ confirmed' = confirmed \cup {r}
  /\ UNCHANGED <<subject, tried, trail>>

Next == \E r \in Requests : Begin(r) \/ Try(r) \/ Record(r) \/ Confirm(r)

Spec == Init /\ [][Next]_vars
===============================================================================
