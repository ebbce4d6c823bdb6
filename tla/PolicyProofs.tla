---------------------------- MODULE PolicyProofs ----------------------------
(***************************************************************************)
(* Lemmas about the rules one call is judged by, for any grants, history   *)
(* and call.                                                               *)
(***************************************************************************)
EXTENDS Rego, SequenceTheorems, FiniteSetTheorems, TLAPS

\* The natural numbers are well founded, so that Min is what its name says.
LEMMA MinInSet ==
  ASSUME NEW S, S \in SUBSET Nat, S # {}
  PROVE  Min(S) \in S /\ \A y \in S : Min(S) <= y
<1> DEFINE Less == {p \in Nat \X Nat : p[1] < p[2]}
<1>1. IsWellFoundedOn(Less, Nat)
  BY NatLessThanWellFounded, Zenon DEF OpToRel
<1>2. \A a, b \in Nat : a < b => <<a, b>> \in Less
  OBVIOUS
<1> HIDE DEF Less
<1>3. PICK x \in S : \A y \in S : ~(<<y, x>> \in Less)
  BY <1>1, WFMin
<1>4. ASSUME NEW y \in S PROVE x <= y
  <2>1. x \in Nat /\ y \in Nat /\ ~(y < x)
    BY <1>2, <1>3
  <2> QED
    BY <2>1
<1> QED
  BY <1>4 DEF Min

\* The grant that is used is one of the view, in scope and not revoked, or
\* the one the engine invents when none is.
LEMMA MatchOutcome ==
  ASSUME NEW S, NEW view \in Seq(S), NEW r, NEW t
  PROVE  \/ Match(view, r, t) = Ablated(r) /\ Hits(view, r, t) = {}
         \/ \E i \in DOMAIN view :
              /\ Match(view, r, t) = view[i] /\ view[i] \in S
              /\ ~view[i].revoked /\ InScope(view[i], r)
              /\ MatchesToolOp(view[i], r) /\ UnexpiredAt(view[i], t)
<1>1. CASE Hits(view, r, t) # {}
  <2> DEFINE i == Min(Hits(view, r, t))
  <2>1. Hits(view, r, t) \subseteq DOMAIN view /\ DOMAIN view = 1 .. Len(view)
    BY LenProperties DEF Hits, Live
  <2>2. i \in Hits(view, r, t)
    BY <1>1, <2>1, MinInSet
  <2>3. i \in 1 .. Len(view) /\ view[i] \in S
    BY <2>1, <2>2, ElementOfSeq
  <2>4. Match(view, r, t) = view[i]
    BY <1>1 DEF Match
  <2> QED
    BY <2>1, <2>2, <2>3, <2>4 DEF Hits, Live
<1> QED
  BY <1>1 DEF Match

\* Evaluate denies, or asks for or allows the call under the grant it matched
\* (engine.go:38-131).
LEMMA EvaluateCases ==
  ASSUME NEW view, NEW count, NEW r, NEW t
  PROVE  \/ \E c : Evaluate(view, count, r, t) = Denied(c)
         \/ Evaluate(view, count, r, t) = Elevate(Match(view, r, t).id)
         \/ Evaluate(view, count, r, t) = Allowed(Match(view, r, t).id)
BY Zenon DEF Evaluate

----------------------------------------------------------------------------
(* What a call that is not denied has passed *)

\* A call that is not denied got past every rule that is on.
LEMMA NotDenied ==
  ASSUME NEW view, NEW count, NEW r, NEW t,
         Decision(view, count, r, t).action # "deny"
  PROVE  /\ Decision(view, count, r, t) = Evaluate(view, count, r, t)
         /\ On("least_privilege") => Hits(view, r, t) # {}
         /\ On("rate_count") => ~Exhausted(Match(view, r, t), count)
         /\ On("egress") => ~(Leaves(r) /\ Unlisted(Match(view, r, t), r))
         /\ On("dataflow") => ~(Leaves(r) /\ Leaks(Match(view, r, t), r))
         /\ On("provenance") => ~ProvenanceViolation(r)
<1> DEFINE m == Match(view, r, t)
           e == Evaluate(view, count, r, t)
           d == Decision(view, count, r, t)
           rules == NoMatchRules(view, r, t) \o MatchRules(m, count, r)
<1>1. d = e \/ d = Denied("guard")
  BY DEF Decision
<1>2. \A c : Denied(c).action = "deny"
  BY DEF Denied
<1>3. d = e /\ e.action # "deny"
  <2>1. d.action # "deny"
    OBVIOUS
  <2> HIDE DEF d, e
  <2> QED
    BY <1>1, <1>2, <2>1
<1>4. Broken(rules) # {} => \E c : e = Denied(c)
  BY Zenon DEF Evaluate
<1>5. Broken(rules) = {}
  <2> HIDE DEF d, e, rules
  <2> QED
    BY <1>2, <1>3, <1>4
<1> DEFINE none == Hits(view, r, t) = {}
           revokedHit == \E i \in Live(view, r, t) : InScope(view[i], r) /\ view[i].revoked
           toolOpHit == \E i \in Live(view, r, t) : ~InScope(view[i], r) /\ ~view[i].revoked
           a1 == none /\ revokedHit /\ On("revocation")
           a2 == none /\ ~toolOpHit /\ On("least_privilege")
           a3 == none /\ toolOpHit /\ On("resource_scope")
           a4 == none /\ On("least_privilege")
           b1 == On("rate_count") /\ Exhausted(m, count)
           b2 == On("egress") /\ Leaves(r) /\ Unlisted(m, r)
           b3 == On("dataflow") /\ Leaves(r) /\ Leaks(m, r)
           b4 == On("provenance") /\ ProvenanceViolation(r)
<1> DEFINE S == << <<a1, "revocation">>, <<a2, "least_privilege">>, <<a3, "resource_scope">>,
                   <<a4, "least_privilege">> >>
           T == << <<b1, "rate_count">>, <<b2, "egress">>, <<b3, "dataflow">>,
                   <<b4, "provenance">> >>
<1>6. rules = S \o T
  <2>1. NoMatchRules(view, r, t) = S
    BY Zenon DEF NoMatchRules
  <2>2. MatchRules(m, count, r) = T
    BY Zenon DEF MatchRules
  <2> QED
    BY <2>1, <2>2, Zenon
<1> HIDE DEF rules, a1, a2, a3, a4, b1, b2, b3, b4, m, d, e
<1>7. /\ DOMAIN rules = 1 .. 8
      /\ rules[1] = <<a1, "revocation">> /\ rules[2] = <<a2, "least_privilege">>
      /\ rules[3] = <<a3, "resource_scope">> /\ rules[4] = <<a4, "least_privilege">>
      /\ rules[5] = <<b1, "rate_count">> /\ rules[6] = <<b2, "egress">>
      /\ rules[7] = <<b3, "dataflow">> /\ rules[8] = <<b4, "provenance">>
  <2>1. Len(S) = 4 /\ Len(T) = 4
    OBVIOUS
  <2>2. rules = [i \in 1 .. 8 |-> IF i <= 4 THEN S[i] ELSE T[i - 4]]
    BY <1>6, <2>1
  <2> QED
    BY <2>2
<1>8. ~a1 /\ ~a2 /\ ~a3 /\ ~a4 /\ ~b1 /\ ~b2 /\ ~b3 /\ ~b4
  <2>1. \A i \in 1 .. 8 : ~rules[i][1]
    BY <1>5, <1>7 DEF Broken
  <2> QED
    BY <1>7, <2>1
<1> QED
  BY <1>3, <1>8, Zenon DEF a4, b1, b2, b3, b4, m, d, e

\* With elevation on, the policy allows no call outright that is of high risk
\* or within a grant that asks for approvals.
LEMMA AllowedIsPlain ==
  ASSUME On("elevation"), NEW view, NEW count, NEW r, NEW t,
         Decision(view, count, r, t).action = "allow"
  PROVE  /\ Decision(view, count, r, t).grant = Match(view, r, t).id
         /\ ~Match(view, r, t).elevate /\ ~HighRiskOp(r)
<1> DEFINE m == Match(view, r, t)
           e == Evaluate(view, count, r, t)
           d == Decision(view, count, r, t)
           plain == ~m.elevate /\ ~HighRiskOp(r)
<1>1. (\E c : e = Denied(c)) \/ e = Elevate(m.id) \/ (e = Allowed(m.id) /\ plain)
  BY Zenon DEF Evaluate
<1>2. d = e \/ d = Denied("guard")
  BY DEF Decision
<1>3. \A c : Denied(c).action = "deny"
  BY DEF Denied
<1>4. \A id : Elevate(id).action = "require_elevation" /\ Allowed(id).grant = id
  BY DEF Elevate, Allowed
<1>5. d.action = "allow"
  OBVIOUS
<1> HIDE DEF m, e, d, plain
<1>6. d = Allowed(m.id) /\ plain
  BY <1>1, <1>2, <1>3, <1>4, <1>5
<1>7. d.grant = m.id
  BY <1>4, <1>6
<1> QED
  BY <1>6, <1>7 DEF d, m, plain

\* A call that is not denied is decided on the grant it matches.
LEMMA DecidedOnMatch ==
  ASSUME NEW view, NEW count, NEW r, NEW t,
         Decision(view, count, r, t).action # "deny"
  PROVE  Decision(view, count, r, t).grant = Match(view, r, t).id
<1> DEFINE m == Match(view, r, t)
           e == Evaluate(view, count, r, t)
           d == Decision(view, count, r, t)
<1>1. d = e /\ d.action # "deny"
  BY NotDenied
<1>2. (\E c : e = Denied(c)) \/ e = Elevate(m.id) \/ e = Allowed(m.id)
  BY EvaluateCases
<1>3. \A c : Denied(c).action = "deny"
  BY DEF Denied
<1>4. \A id : Elevate(id).grant = id /\ Allowed(id).grant = id
  BY DEF Elevate, Allowed
<1> HIDE DEF m, e, d
<1>5. d.grant = m.id
  BY <1>1, <1>2, <1>3, <1>4
<1> QED
  BY <1>5 DEF d, m

----------------------------------------------------------------------------
(* The engine and the Rego files *)

\* With every control on the engine denies what the files deny, rule by rule,
\* and asks for the approvals that they ask for.
LEMMA EngineStrict ==
  ASSUME Controls = ControlName, NEW view, NEW count, NEW r, NEW t, NEW Scheme,
         r.resource \in [scheme : Scheme, name : STRING, ours : BOOLEAN]
  PROVE  LET d == Decision(view, count, r, t)
             match == Match(view, r, t)
         IN  /\ OutOfScope(view, r) \/ CapsReached(match, count) => d.action = "deny"
             /\ NotOnAllowlist(match, r) /\ OneDestination(r) => d.action = "deny"
             /\ UntrustedTarget(r) /\ ~Scratch(r) => d.action = "deny"
             /\ RequireElevation(r) /\ OneRecipient(r) => d.action # "allow"
<1> DEFINE d == Decision(view, count, r, t)
           m == Match(view, r, t)
<1>1. /\ On("least_privilege") /\ On("resource_scope") /\ On("rate_count") /\ On("egress")
      /\ On("provenance") /\ On("elevation")
  BY DEF On, ControlName
<1>2. d.action # "deny" =>
        /\ Hits(view, r, t) # {} /\ ~Exhausted(m, count)
        /\ ~(Leaves(r) /\ Unlisted(m, r)) /\ ~ProvenanceViolation(r)
  BY <1>1, NotDenied
<1>3. d.action = "allow" => ~HighRiskOp(r)
  BY <1>1, AllowedIsPlain
<1> HIDE DEF d, m
<1>4. OutOfScope(view, r) => Hits(view, r, t) = {}
  BY <1>1 DEF OutOfScope, Unrevoked, Hits, Live, InScope
<1>5. CapsReached(m, count) => Exhausted(m, count)
  BY DEF CapsReached, Exhausted
<1>6. IsMail(r) => IsEgressOp(r)
  BY DEF IsMail, IsEgressOp
<1>7. NotOnAllowlist(m, r) /\ OneDestination(r) => Leaves(r) /\ Unlisted(m, r)
  BY <1>6 DEF NotOnAllowlist, OneDestination, Leaves, Unlisted, DestinationAllowed
<1>8. UntrustedTarget(r) /\ ~Scratch(r) => ProvenanceViolation(r)
  BY <1>6 DEF UntrustedTarget, Scratch, ProvenanceViolation
<1>9. RequireElevation(r) /\ OneRecipient(r) => HighRiskOp(r)
  <2>1. IsMail(r) /\ ~Destination(r).ours /\ OneRecipient(r) => ~r.resource.ours
    BY DEF Destination, OneRecipient
  <2> QED
    BY <2>1 DEF RequireElevation, OneRecipient, IsMail, HighRiskOp
<1>10. "allow" # "deny"
  OBVIOUS
<1> QED
  BY <1>2, <1>3, <1>4, <1>5, <1>7, <1>8, <1>9, Zenon DEF d, m
=============================================================================
