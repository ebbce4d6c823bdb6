------------------------------ MODULE Pattern ------------------------------
(***************************************************************************)
(* Resource patterns (internal/capability/pattern.go): which resources a   *)
(* pattern matches, and which patterns a request may narrow it to.         *)
(*                                                                         *)
(* A string is a sequence of letters.  The word "probe", which the code    *)
(* puts in the place of a wildcard, is a letter too, so that words with    *)
(* the probe in them are short.                                            *)
(***************************************************************************)
EXTENDS Integers, Sequences, FiniteSets, SequencesExt

Star == <<"*">>
DoubleStar == <<"*", "*">>
Slash == <<"/">>
Below == <<"/", "*">>

TrimSuffix(w, s) == IF IsSuffix(s, w) THEN SubSeq(w, 1, Len(w) - Len(s)) ELSE w

HasWildcard(w) == Contains(w, "*")

----------------------------------------------------------------------------
(* Matching *)

NoSlashBefore_NotLast(value, j) ==     \* variant: `*' leaves a letter over
  {k \in j .. Len(value) : ~Contains(SubSeq(value, j, k - 1), "/")}

\* Where what follows a `*' may begin, if the `*' begins at j.
NoSlashBefore(value, j) ==
  {k \in j .. Len(value) + 1 : ~Contains(SubSeq(value, j, k - 1), "/")}

\* What follows the pair of stars at i, without the slash after them.
AfterPair(pattern, i) ==
  IF i + 2 <= Len(pattern) /\ pattern[i + 2] = "/" THEN i + 3 ELSE i + 2

PairAt(pattern, i) == i < Len(pattern) /\ pattern[i] = "*" /\ pattern[i + 1] = "*"

\* The positions of the value from which it matches all that the pattern has
\* from i on, where matches[k] has them for each later position k.
MatchesFrom(pattern, value, i, matches) ==
  LET end == Len(pattern) + 1 IN
  IF i = end THEN {Len(value) + 1}
  ELSE IF PairAt(pattern, i)
  THEN LET rest == AfterPair(pattern, i)
       IN  {j \in 1 .. Len(value) + 1 :
              \/ rest = end \/ j \in matches[rest]
              \/ \E k \in j .. Len(value) :
                   \/ value[k] = "/" /\ k + 1 \in matches[rest]
                   \/ k \in matches[rest]}
  ELSE IF pattern[i] = "*"
  THEN {j \in 1 .. Len(value) + 1 : NoSlashBefore(value, j) \cap matches[i + 1] # {}}
  ELSE {j \in 1 .. Len(value) : value[j] = pattern[i] /\ j + 1 \in matches[i + 1]}

Glob(pattern, value) ==
  LET matches[i \in 1 .. Len(pattern) + 1] == MatchesFrom(pattern, value, i, matches)
  IN  1 \in matches[1]

IsBelow(prefix, value) == value = prefix \/ IsPrefix(prefix \o Slash, value)

MatchPattern(pattern, value) ==
  \/ pattern = value \/ pattern \in {Star, DoubleStar}
  \/ IsSuffix(Below, pattern) /\ IsBelow(TrimSuffix(pattern, Below), value)
  \/ Glob(pattern, value)

----------------------------------------------------------------------------
(* Narrowing *)

Count(w, a) == Cardinality({i \in DOMAIN w : w[i] = a})

\* Go's len counts the five letters of "probe".
Size(w) == Len(w) + 4 * Count(w, "probe")

Stars(w) == Count(w, "*")

\* What becomes of w from i on, where probed[k] is what becomes of it from k on.
ProbedFrom(w, i, probed) ==
  IF i > Len(w) THEN <<>>
  ELSE IF PairAt(w, i) THEN <<"probe">> \o probed[i + 2]
  ELSE <<IF w[i] = "*" THEN "probe" ELSE w[i]>> \o probed[i + 1]

Probed(w) ==
  LET probed[i \in 1 .. Len(w) + 1] == ProbedFrom(w, i, probed) IN probed[1]

MoreSpecific(requested, granted) ==
  \/ Stars(requested) < Stars(granted)
  \/ /\ Size(requested) > Size(granted)
     /\ IsPrefix(TrimSuffix(granted, Below), TrimSuffix(requested, Below))
  \/ requested # granted /\ MatchPattern(granted, ReplaceAll(requested, "*", "x"))

NarrowerPattern_Sibling(requested, granted) ==   \* variant: the slash is forgotten
  IsPrefix(TrimSuffix(granted, Below), TrimSuffix(requested, Below))

\* Two patterns are compared by their prefixes or else by one probe.
NarrowerPattern(requested, granted) ==
  \/ /\ IsSuffix(Below, granted)
     /\ IsBelow(TrimSuffix(granted, Below), TrimSuffix(requested, Below))
  \/ /\ HasWildcard(granted)
     /\ MatchPattern(granted, Probed(requested)) /\ MoreSpecific(requested, granted)

IsNarrowerOrEqual_NoPattern(requested, granted) == \* variant: no patterns in a request
  granted = requested \/ (~HasWildcard(requested) /\ MatchPattern(granted, requested))

IsNarrowerOrEqual(requested, granted) ==
  \/ granted = requested \/ granted \in {Star, DoubleStar}
  \/ IF HasWildcard(requested) THEN NarrowerPattern(requested, granted)
     ELSE MatchPattern(granted, requested)
=============================================================================
