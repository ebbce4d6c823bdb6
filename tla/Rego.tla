-------------------------------- MODULE Rego --------------------------------
(***************************************************************************)
(* The rules of internal/policy/rego, which the process does not load: the *)
(* statement of what the engine enforces, to compare Policy with.  They    *)
(* know no rate, no expiry and no flow of sensitive data as such, and the  *)
(* matched grant of their input is the one the engine found.               *)
(***************************************************************************)
EXTENDS Policy

Destination(r) ==
  IF r.to # NoAddr THEN r.to
  ELSE IF r.resource.scheme = "email" THEN [r.resource EXCEPT !.scheme = ""]
  ELSE r.resource

IsMail(r) == r.tool = "email" /\ r.op = "send"

Unrevoked(view, r) == {i \in DOMAIN view : ~view[i].revoked /\ MatchesToolOp(view[i], r)}

OutOfScope(view, r) == \A i \in Unrevoked(view, r) : r.resource \notin view[i].pattern

NotOnAllowlist(match, r) ==
  IsMail(r) /\ match.allow # {} /\ Destination(r) \notin match.allow

\* A resource is sensitive if it is in the database or if the payload is.
UntrustedTarget(r) ==
  /\ Untrusted(r)
  /\ \/ r.op = "write" /\ (r.resource.scheme = "db" \/ IsSensitive(r))
     \/ IsMail(r) /\ IsSensitive(r)

CapsReached(match, count) ==
  \/ match.maxCalls > 0 /\ count.calls >= match.maxCalls
  \/ match.maxRecords > 0 /\ count.records >= match.maxRecords

RegoDenies(view, count, r, t) ==
  \/ OutOfScope(view, r)
  \/ NotOnAllowlist(Match(view, r, t), r)
  \/ UntrustedTarget(r)
  \/ CapsReached(Match(view, r, t), count)

RequireElevation(r) ==
  \/ <<r.tool, r.op>> \in {<<"payments", "charge">>, <<"db", "delete">>}
  \/ IsMail(r) /\ ~Destination(r).ours

----------------------------------------------------------------------------
(* Where the engine is the less strict of the two *)

\* The engine counts as targets of untrusted content the database, payments and
\* what leaves, the files also any write with a sensitive payload.
Scratch(r) == r.op = "write" /\ IsSensitive(r) /\ ~IsEgressOp(r)

\* The engine asks a url for the destination of a mail and calls one without a
\* destination no egress; the files know the recipient and the resource.
OneDestination(r) == DestinationOf(r) = Destination(r) /\ Destination(r) # NoAddr

\* The engine judges the risk of a mail by its resource, the files by its
\* recipient.
OneRecipient(r) ==
  r.resource.name # "" /\ (r.to # NoAddr /\ r.resource.ours => r.to.ours)
=============================================================================
