------------------------------- MODULE Policy -------------------------------
(***************************************************************************)
(* The pure rules one call is judged by: internal/policy, the destination  *)
(* and provenance rules of internal/injection, the matching rules of       *)
(* internal/capability/grant.go and the counts of internal/store.          *)
(*                                                                         *)
(* Data abstraction.  A resource or destination is an address              *)
(* [scheme, name, ours]; `ours' stands for the "@ourco.com" suffix test.   *)
(* A resource pattern and a destination allowlist are the sets of          *)
(* addresses they match (an empty set of destinations is "no allowlist").  *)
(* The arguments of a call are the facts the rules read from them.         *)
(***************************************************************************)
EXTENDS Integers, Sequences, FiniteSets, FiniteSetsExt

CONSTANT Controls            \* the defences switched on (controls.go)

ControlName == {"least_privilege", "resource_scope", "rate_count", "elevation",
                "provenance", "egress", "dataflow", "revocation", "single_use",
                "signature", "guard"}

ASSUME ControlsAssumption == Controls \subseteq ControlName

On(c) == c \in Controls

NoAddr == [scheme |-> "", name |-> "", ours |-> FALSE]

Addr == [scheme : STRING, name : STRING, ours : BOOLEAN]

GrantOf(ids, owners) ==
  [id : ids, task : owners, tool : STRING, op : STRING, pattern : SUBSET Addr,
   maxCalls : Nat, maxRecords : Nat, rateLimit : Nat, rateWindow : Nat,
   allow : SUBSET Addr, elevate : BOOLEAN, ttl : Nat, expires : Nat,
   revoked : BOOLEAN]

----------------------------------------------------------------------------
(* Grants against calls *)

MatchesToolOp(g, r) == g.tool = r.tool /\ g.op = r.op

\* CanAttenuateTo for a resource without wildcards.
CanAttenuateTo(g, r) == MatchesToolOp(g, r) /\ r.resource \in g.pattern

DestinationAllowed(g, d) == g.allow = {} \/ d \in g.allow

InScope(g, r) == On("resource_scope") => r.resource \in g.pattern

UnexpiredAt(g, t) == g.expires = 0 \/ t <= g.expires

\* The grant the engine invents when least privilege is switched off.
Ablated(r) ==
  [id |-> "ablated", task |-> r.task, tool |-> r.tool, op |-> r.op,
   pattern |-> {r.resource}, maxCalls |-> 0, maxRecords |-> 0, rateLimit |-> 0,
   rateWindow |-> 0, allow |-> {}, elevate |-> FALSE, ttl |-> 0, expires |-> 0,
   revoked |-> FALSE]

----------------------------------------------------------------------------
(* Provenance: Effective is the first of the least trusted labels. *)

Rank(source) ==
  IF source = "user" THEN 0 ELSE IF source = "tool" THEN 1
  ELSE IF source = "doc" THEN 2 ELSE 3

\* service.go fills in a blank source before the label is used.
Labels(r) == <<IF r.source = "" THEN "user" ELSE r.source>> \o r.chain

Effective(labels) ==
  LET worst == {i \in DOMAIN labels :
                  \A j \in DOMAIN labels : Rank(labels[j]) <= Rank(labels[i])}
      label == labels[Min(worst)]
  IN  IF label = "" THEN "user" ELSE label

Untrusted_WebOnly(r) ==            \* variant: documents are trusted
  Effective(Labels(r)) = "web"

Untrusted(r) == Effective(Labels(r)) \in {"web", "doc"}

----------------------------------------------------------------------------
(* What a call does *)

DestinationOf(r) ==
  IF r.to # NoAddr THEN r.to
  ELSE IF r.url # NoAddr THEN r.url
  ELSE IF r.resource.scheme = "email" THEN [r.resource EXCEPT !.scheme = ""]
  ELSE r.resource

IsSensitive(r) == r.sensitive \/ r.bodyLooks \/ r.valueLooks

IsEgressOp(r) == <<r.tool, r.op>> \in
  {<<"email", "send">>, <<"http", "post">>, <<"http", "write">>,
   <<"files", "write_shared">>}

HighRiskOp(r) ==
  \/ <<r.tool, r.op>> \in {<<"payments", "charge">>, <<"db", "delete">>}
  \/ /\ <<r.tool, r.op>> = <<"email", "send">>
     /\ r.resource.name # "" /\ ~r.resource.ours

ProvenanceViolation(r) ==
  /\ Untrusted(r)
  /\ \/ /\ r.resource.scheme \in {"db", "payments"}
        /\ r.op \in {"write", "delete", "charge"}
     \/ IsEgressOp(r) /\ IsSensitive(r)
     \/ /\ IsEgressOp(r)
        /\ DestinationOf(r) # NoAddr /\ ~DestinationOf(r).ours

\* The rules-based guard, and the calls on which the broker heeds it.
GuardFlags(r) ==
  \/ /\ <<r.tool, r.op>> = <<"email", "send">>
     /\ \/ r.to # NoAddr /\ ~r.to.ours /\ (Untrusted(r) \/ r.bodyLooks)
        \/ r.phrase
  \/ <<r.tool, r.op>> = <<"payments", "charge">> /\ Untrusted(r)

GuardDenies(r) ==
  On("guard") /\ GuardFlags(r) /\ (IsEgressOp(r) \/ r.tool = "payments")

----------------------------------------------------------------------------
(* Counts over a call history *)

ForGrant(hist, id) == {c \in hist : c.grant = id}

CountForGrant(hist, id) == Cardinality(ForGrant(hist, id))

RecordsForGrant(hist, id) ==
  MapThenSumSet(LAMBDA c : c.records, ForGrant(hist, id))

WindowCount_OpenEdge(hist, id, window, t) ==  \* variant: an exclusive edge
  Cardinality({c \in ForGrant(hist, id) : c.at > t - window})

\* A grant without a window has its rate counted as zero (service.go:220).
WindowCount(hist, id, window, t) ==
  IF window = 0 THEN 0
  ELSE Cardinality({c \in ForGrant(hist, id) : c.at >= t - window})

----------------------------------------------------------------------------
(* Decisions *)

Denied(control) == [action |-> "deny", control |-> control, grant |-> ""]
Elevate_NoGrant(id) ==                        \* variant: forgets the grant
  [action |-> "require_elevation", control |-> "elevation", grant |-> ""]
Elevate(id) == [action |-> "require_elevation", control |-> "elevation", grant |-> id]
Allowed(id) == [action |-> "allow", control |-> "", grant |-> id]

\* The grant the broker counts calls for: the first that is in scope and not
\* revoked, in the order the store returned them, whether or not it expired.
MatchId(view, r) ==
  LET hits == {i \in DOMAIN view : /\ MatchesToolOp(view[i], r)
                                   /\ InScope(view[i], r) /\ ~view[i].revoked}
  IN  IF hits = {} THEN "" ELSE view[Min(hits)].id

Exhausted_OneMore(g, count) ==                \* variant: off by one
  \/ g.maxCalls > 0 /\ count.calls > g.maxCalls
  \/ g.maxRecords > 0 /\ count.records > g.maxRecords

\* A caveat of the grant that the counted calls have used up.
Exhausted(g, count) ==
  \/ g.maxCalls > 0 /\ count.calls >= g.maxCalls
  \/ g.maxRecords > 0 /\ count.records >= g.maxRecords
  \/ g.rateLimit > 0 /\ count.window >= g.rateLimit

\* The engine looks among the grants that have not expired.
Live(view, r, t) ==
  {i \in DOMAIN view : UnexpiredAt(view[i], t) /\ MatchesToolOp(view[i], r)}

Hits(view, r, t) ==
  {i \in Live(view, r, t) : InScope(view[i], r) /\ ~view[i].revoked}

Match(view, r, t) ==
  IF Hits(view, r, t) = {} THEN Ablated(r) ELSE view[Min(Hits(view, r, t))]

\* The rules in their order, each with the control that it denies for.
NoMatchRules(view, r, t) ==
  LET none == Hits(view, r, t) = {}
      revokedHit == \E i \in Live(view, r, t) : InScope(view[i], r) /\ view[i].revoked
      toolOpHit == \E i \in Live(view, r, t) : ~InScope(view[i], r) /\ ~view[i].revoked
  IN  << <<none /\ revokedHit /\ On("revocation"), "revocation">>,
         <<none /\ ~toolOpHit /\ On("least_privilege"), "least_privilege">>,
         <<none /\ toolOpHit /\ On("resource_scope"), "resource_scope">>,
         <<none /\ On("least_privilege"), "least_privilege">> >>

Leaves(r) == IsEgressOp(r) /\ DestinationOf(r) # NoAddr

Unlisted_Strangers(match, r) ==    \* variant: an address of ours is always listed
  ~DestinationOf(r).ours /\ ~DestinationAllowed(match, DestinationOf(r))

Unlisted(match, r) == ~DestinationAllowed(match, DestinationOf(r))

Leaks_WithoutList(match, r) ==     \* variant: no allowlist means no limit
  IsSensitive(r) /\ Unlisted(match, r)

\* Sensitive data needs a destination that is listed.
Leaks(match, r) == IsSensitive(r) /\ (match.allow = {} \/ Unlisted(match, r))

MatchRules(match, count, r) ==
  << <<On("rate_count") /\ Exhausted(match, count), "rate_count">>,
     <<On("egress") /\ Leaves(r) /\ Unlisted(match, r), "egress">>,
     <<On("dataflow") /\ Leaves(r) /\ Leaks(match, r), "dataflow">>,
     <<On("provenance") /\ ProvenanceViolation(r), "provenance">> >>

Broken(rules) == {i \in DOMAIN rules : rules[i][1]}

\* `count' has the calls, records and windowed calls counted for MatchId.
Evaluate(view, count, r, t) ==
  LET match == Match(view, r, t)
      rules == NoMatchRules(view, r, t) \o MatchRules(match, count, r)
  IN  IF Broken(rules) # {} THEN Denied(rules[Min(Broken(rules))][2])
      ELSE IF On("elevation") /\ (match.elevate \/ HighRiskOp(r)) THEN Elevate(match.id)
      ELSE Allowed(match.id)

\* What the broker acts on: the engine's decision, overruled by the guard.
Decision(view, count, r, t) ==
  LET d == Evaluate(view, count, r, t)
  IN  IF GuardDenies(r) /\ d.action # "deny" THEN Denied("guard") ELSE d
=============================================================================
