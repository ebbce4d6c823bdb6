----------------------------- MODULE MCPattern -----------------------------
(***************************************************************************)
(* Every pair of words up to a length, a letter at a time: one that a      *)
(* grant has for its pattern and one that a call requests.                 *)
(***************************************************************************)
EXTENDS Pattern

CONSTANTS
  Letter,        \* letters of words, "*" and "/" among them
  MaxLen,        \* bound: letters in a word
  MaxValue       \* bound: letters in a resource that patterns are compared by

VARIABLES granted, requested

vars == <<granted, requested>>

Init == granted = <<>> /\ requested = <<>>

Grant(a) == Len(granted) < MaxLen /\ granted' = Append(granted, a) /\ UNCHANGED requested

Request(a) ==
  Len(requested) < MaxLen /\ requested' = Append(requested, a) /\ UNCHANGED granted

Next == \E a \in Letter : Grant(a) \/ Request(a)

Spec == Init /\ [][Next]_vars

Value == BoundedSeq(Letter \ {"*"}, MaxValue)

----------------------------------------------------------------------------
(* What a pattern means: each of its letters stands for a piece of the value *)

\* Stars pair up from the left of a run; a slash after a pair belongs to it.
RunBefore(p, i) == {k \in 1 .. i : \A j \in k .. i - 1 : p[j] = "*"}

IsPair(p, i) ==
  /\ i + 1 \in DOMAIN p /\ p[i] = "*" /\ p[i + 1] = "*"
  /\ (Cardinality(RunBefore(p, i)) - 1) % 2 = 0

InPair(p, i) ==
  i > 1 /\ (IsPair(p, i - 1) \/ (i > 2 /\ IsPair(p, i - 2) /\ p[i] = "/"))

StandsFor(p, i, piece) ==
  IF IsPair(p, i) THEN TRUE
  ELSE IF InPair(p, i) THEN piece = <<>>
  ELSE IF p[i] = "*" THEN ~Contains(piece, "/")
  ELSE piece = <<p[i]>>

Cuts(p, v) ==
  {c \in [0 .. Len(p) -> 0 .. Len(v)] :
     /\ c[0] = 0 /\ c[Len(p)] = Len(v)
     /\ \A i \in DOMAIN p : c[i - 1] <= c[i]}

Denotes(p, v) ==
  \E c \in Cuts(p, v) : \A i \in DOMAIN p : StandsFor(p, i, SubSeq(v, c[i - 1] + 1, c[i]))

Means(p, v) ==
  \/ v = p \/ p \in {Star, DoubleStar} \/ Denotes(p, v)
  \/ \E prefix \in Prefixes(p) :
       p = prefix \o Below /\ (v = prefix \/ IsPrefix(prefix \o Slash, v))

----------------------------------------------------------------------------
(* Properties *)

\* The matcher's walk over both strings finds a match exactly if the pattern
\* denotes the value, is the value, is one of the patterns for everything, or
\* ends in "/*" below a prefix taken as it is written (pattern.go:9-15).
MatchIsMeaning == MatchPattern(granted, requested) <=> Means(granted, requested)

Narrows(q, p) == \A v \in Value : MatchPattern(q, v) => MatchPattern(p, v)

\* What the mint accepts as narrower matches nothing that the grant does not
\* (grant.go:49, "the requested resource must be equal to or narrower than the
\* grant. Broadening fails").
RequestsOnlyNarrow == IsNarrowerOrEqual(requested, granted) => Narrows(requested, granted)

\* The grants of the repository: a resource, or everything below a prefix.
PlainGrant == ~HasWildcard(TrimSuffix(granted, Below))

\* For these the promise is kept, whatever pattern is requested.
PlainGrantsOnlyNarrow == PlainGrant => RequestsOnlyNarrow

\* The engine takes the requested resource for a value, the mint for a
\* pattern: with a plain grant they agree, so that no call is found in scope,
\* uses up its approval and is then refused by the mint (engine.go:58,
\* service.go:276, grant.go:56).
ScopeAgreesWithMint ==
  PlainGrant => (MatchPattern(granted, requested) <=> IsNarrowerOrEqual(requested, granted))
=============================================================================
