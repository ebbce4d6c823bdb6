---------------------------- MODULE ToolsProofs ----------------------------
(***************************************************************************)
(* Proofs about the tools: labels are kept through any sequence of writes  *)
(* and reads, and what ran answers for what it carried.                    *)
(***************************************************************************)
EXTENDS Tools, PolicyProofs

Provenance(S) == Seq(S) \ {<<>>}

NoBlank(S) == "" \notin S

----------------------------------------------------------------------------
(* Labels *)

\* Labels rank from 0 to 3 (provenance.go:17-30).
LEMMA RankType == \A source : Rank(source) \in 0 .. 3
BY DEF Rank

\* Effective is one of the labels and none is less trusted.
LEMMA EffectiveIsWorst ==
  ASSUME NEW S, NoBlank(S), NEW labels \in Provenance(S)
  PROVE  /\ Effective(labels) \in S
         /\ \A i \in DOMAIN labels : Rank(labels[i]) <= Rank(Effective(labels))
<1> DEFINE worst == {i \in DOMAIN labels :
                       \A j \in DOMAIN labels : Rank(labels[j]) <= Rank(labels[i])}
<1>1. labels \in Seq(S) /\ labels # <<>>
  BY DEF Provenance
<1>2. DOMAIN labels = 1 .. Len(labels) /\ Len(labels) \in Nat \ {0}
  BY <1>1
<1>3. \A i \in DOMAIN labels : labels[i] \in S /\ Rank(labels[i]) \in 0 .. 3
  BY <1>1, <1>2, RankType
<1>4. worst # {}
  <2> DEFINE Has(n) == \E i \in DOMAIN labels : Rank(labels[i]) = n
  <2>1. Has(3) \/ Has(2) \/ Has(1) \/ Has(0)
    <3>1. 1 \in DOMAIN labels
      BY <1>2
    <3>2. Rank(labels[1]) \in 0 .. 3
      BY <1>3, <3>1
    <3> QED
      BY <3>1, <3>2
  <2>2. \A i \in DOMAIN labels : Rank(labels[i]) \in {0, 1, 2, 3}
    BY <1>3
  <2>3. CASE Has(3)
    BY <2>2, <2>3
  <2>4. CASE ~Has(3) /\ Has(2)
    BY <2>2, <2>4
  <2>5. CASE ~Has(3) /\ ~Has(2) /\ Has(1)
    BY <2>2, <2>5
  <2>6. CASE ~Has(3) /\ ~Has(2) /\ ~Has(1) /\ Has(0)
    BY <2>2, <2>6
  <2> QED
    BY <2>1, <2>3, <2>4, <2>5, <2>6
<1>5. Min(worst) \in worst
  BY <1>2, <1>4, MinInSet
<1>6. Effective(labels) = labels[Min(worst)]
  <2>1. labels[Min(worst)] # ""
    BY <1>3, <1>5 DEF NoBlank
  <2> QED
    BY <2>1 DEF Effective
<1> QED
  BY <1>3, <1>5, <1>6

\* A label put in front is not better than what the whole counts for.
LEMMA HeadCounts ==
  ASSUME NEW S, NoBlank(S), NEW a \in S, NEW rest \in Seq(S)
  PROVE  /\ <<a>> \o rest \in Provenance(S)
         /\ Rank(a) <= Rank(Effective(<<a>> \o rest))
<1>1. <<a>> \o rest \in Seq(S) /\ Len(<<a>> \o rest) = 1 + Len(rest) /\ Len(rest) \in Nat
  OBVIOUS
<1>2. <<a>> \o rest # <<>> /\ 1 \in DOMAIN (<<a>> \o rest) /\ (<<a>> \o rest)[1] = a
  BY <1>1
<1>3. <<a>> \o rest \in Provenance(S)
  BY <1>1, <1>2 DEF Provenance
<1> QED
  BY <1>2, <1>3, EffectiveIsWorst

\* Worst is one of the two and no better than either.
LEMMA WorstOfTwo ==
  ASSUME NEW S, NEW a \in S, NEW b \in S
  PROVE  Worst(a, b) \in S /\ Rank(a) <= Rank(Worst(a, b)) /\ Rank(b) <= Rank(Worst(a, b))
<1>1. Rank(a) \in Nat /\ Rank(b) \in Nat
  BY RankType
<1> QED
  BY <1>1 DEF Worst

\* A chain is its first label and the others.
LEMMA HeadAndTail ==
  ASSUME NEW S, NEW labels \in Provenance(S)
  PROVE  /\ Head(labels) \in S /\ Tail(labels) \in Seq(S)
         /\ <<Head(labels)>> \o Tail(labels) = labels
<1>1. labels \in Seq(S) /\ labels # <<>>
  BY DEF Provenance
<1> QED
  BY <1>1, HeadTailProperties

\* A tool's own label before a chain makes it no better.
LEMMA InheritKeeps ==
  ASSUME NEW S, NoBlank(S), "tool" \in S, NEW labels \in Provenance(S)
  PROVE  /\ Inherit(labels, "tool") \in Provenance(S)
         /\ Rank(Effective(labels)) <= Rank(Effective(Inherit(labels, "tool")))
<1> DEFINE e == Effective(labels)
           w == Worst(e, "tool")
           rest == Tail(labels) \o <<Head(labels)>>
           i == Effective(Inherit(labels, "tool"))
<1>1. e \in S
  BY EffectiveIsWorst
<1>2. w \in S /\ Rank(e) <= Rank(w)
  BY <1>1, WorstOfTwo
<1>3. Tail(labels) \in Seq(S) /\ <<Head(labels)>> \in Seq(S) /\ rest \in Seq(S)
  <2>1. Head(labels) \in S /\ Tail(labels) \in Seq(S)
    BY HeadAndTail
  <2>2. \A a \in S : <<a>> \in Seq(S)
    OBVIOUS
  <2>3. \A b, c \in Seq(S) : b \o c \in Seq(S)
    OBVIOUS
  <2> QED
    BY <2>1, <2>2, <2>3
<1>4. Inherit(labels, "tool") = <<w>> \o rest
  <2>1. \A a, b, c \in Seq(S) : (a \o b) \o c = a \o (b \o c)
    OBVIOUS
  <2>2. <<w>> \in Seq(S)
    BY <1>2
  <2> HIDE DEF w
  <2>3. Inherit(labels, "tool") = (<<w>> \o Tail(labels)) \o <<Head(labels)>>
    BY DEF Inherit, w
  <2> QED
    BY <1>3, <2>1, <2>2, <2>3
<1> HIDE DEF w, rest
<1>5. Inherit(labels, "tool") \in Provenance(S) /\ Rank(w) <= Rank(i)
  BY <1>2, <1>3, <1>4, HeadCounts
<1>6. Rank(e) \in Nat /\ Rank(w) \in Nat /\ Rank(i) \in Nat
  BY RankType
<1> HIDE DEF e, i
<1>7. Rank(e) <= Rank(i)
  BY <1>2, <1>5, <1>6
<1> QED
  BY <1>5, <1>7 DEF e, i

\* What is kept of the labels of a content that is read, written over a row, or
\* written to a file.
LEMMA ReadKeeps ==
  ASSUME NEW S, NoBlank(S), NEW rec \in Provenance(S), NEW labels \in Provenance(S),
         NEW read, read = <<Worst(Effective(rec), Effective(labels))>> \o Tail(rec)
                            \o <<Effective(labels)>>
  PROVE  read \in Provenance(S) /\ Rank(Effective(rec)) <= Rank(Effective(read))
<1> DEFINE a == Effective(rec)
           b == Effective(labels)
           w == Worst(a, b)
           rest == Tail(rec) \o <<b>>
           n == Effective(read)
<1>1. a \in S /\ b \in S
  BY EffectiveIsWorst
<1>2. w \in S /\ Rank(a) <= Rank(w)
  BY <1>1, WorstOfTwo
<1>3. Tail(rec) \in Seq(S)
  BY HeadAndTail
<1> HIDE DEF a, b, w
<1>4. rest \in Seq(S) /\ <<w>> \in Seq(S) /\ <<b>> \in Seq(S)
  BY <1>1, <1>2, <1>3
<1>5. read = <<w>> \o rest
  <2>1. read = (<<w>> \o Tail(rec)) \o <<b>>
    BY DEF a, b, w
  <2>2. \A x, y, z \in Seq(S) : (x \o y) \o z = x \o (y \o z)
    OBVIOUS
  <2> QED
    BY <1>3, <1>4, <2>1, <2>2
<1> HIDE DEF rest
<1>6. read \in Provenance(S) /\ Rank(w) <= Rank(n)
  BY <1>2, <1>4, <1>5, HeadCounts
<1>7. Rank(a) \in Nat /\ Rank(w) \in Nat /\ Rank(n) \in Nat
  BY RankType
<1> HIDE DEF n
<1>8. Rank(a) <= Rank(n)
  BY <1>2, <1>6, <1>7
<1> QED
  BY <1>6, <1>8 DEF a, n

\* What a row is labelled when it is written, over a row or not, is no better than
\* what was written (mock_db.go:64-80).
LEMMA WrittenKeeps ==
  ASSUME NEW S, NoBlank(S), "tool" \in S, NEW r \in Rows, NEW c,
         c.labels \in Provenance(S),
         rows[r] # Nothing => rows[r].labels \in Provenance(S)
  PROVE  /\ WrittenLabels(r, c) \in Provenance(S)
         /\ Rank(Effective(c.labels)) <= Rank(Effective(WrittenLabels(r, c)))
<1> DEFINE new == Inherit(c.labels, "tool")
           e == Effective(c.labels)
           f == Effective(new)
<1>1. new \in Provenance(S) /\ Rank(e) <= Rank(f)
  BY InheritKeeps
<1>2. CASE rows[r] = Nothing
  <2>1. WrittenLabels(r, c) = new
    BY <1>2 DEF WrittenLabels
  <2> QED
    BY <1>1, <2>1
<1>3. CASE rows[r] # Nothing
  <2> DEFINE old == rows[r].labels
             over == Worst(Effective(old), f)
             last == Effective(<<over>> \o Tail(new))
             rest == Tail(old) \o <<last>>
             w == WrittenLabels(r, c)
             g == Effective(w)
  <2>1. old \in Provenance(S)
    BY <1>3
  <2>2. Effective(old) \in S /\ f \in S
    BY <1>1, <2>1, EffectiveIsWorst
  <2>3. over \in S /\ Rank(f) <= Rank(over)
    BY <2>2, WorstOfTwo
  <2>4. Tail(new) \in Seq(S) /\ Tail(old) \in Seq(S)
    BY <1>1, <2>1, HeadAndTail
  <2>5. last \in S
    BY <2>3, <2>4, HeadCounts, EffectiveIsWorst
  <2>6. w = <<over>> \o Tail(old) \o <<last>>
    BY <1>3, Zenon DEF WrittenLabels
  <2> HIDE DEF over, last, old, new, w
  <2>7. rest \in Seq(S) /\ <<over>> \in Seq(S) /\ <<last>> \in Seq(S)
    BY <2>3, <2>4, <2>5
  <2>8. w = <<over>> \o rest
    BY <2>4, <2>6, <2>7
  <2> HIDE DEF rest
  <2>9. w \in Provenance(S) /\ Rank(over) <= Rank(g)
    BY <2>3, <2>7, <2>8, HeadCounts
  <2>10. Rank(e) \in Nat /\ Rank(f) \in Nat /\ Rank(over) \in Nat /\ Rank(g) \in Nat
    BY RankType
  <2>11. Rank(e) <= Rank(g)
    <3> HIDE DEF e, f, g
    <3> QED
      BY <1>1, <2>3, <2>9, <2>10
  <2> QED
    BY <2>9, <2>11 DEF w
<1> QED
  BY <1>2, <1>3

\* What a file is labelled is no better than what was written to it.
LEMMA FiledKeeps ==
  ASSUME NEW S, NoBlank(S), "tool" \in S, NEW c, c.labels \in Provenance(S)
  PROVE  /\ FiledLabels(c) \in Provenance(S)
         /\ Rank(Effective(c.labels)) <= Rank(Effective(FiledLabels(c)))
<1>1. Inherit(c.labels, "tool") \in Provenance(S)
  BY InheritKeeps
<1>2. Tail(Inherit(c.labels, "tool")) \in Seq(S) /\ Effective(c.labels) \in S
  BY <1>1, HeadAndTail, EffectiveIsWorst
<1> QED
  BY <1>2, HeadCounts DEF FiledLabels

----------------------------------------------------------------------------
(* Contents *)

Body == [from : SUBSET Outside, secret : BOOLEAN, looks : BOOLEAN, filed : BOOLEAN]

Content == [labels : Provenance(Sources), sensitive : BOOLEAN, body : Body]

\* The label is not better than the one the words came with, and a customer's
\* record is flagged unless a file dropped the flag.
LabelKept(c) == \A source \in c.body.from : Rank(source) <= Rank(Effective(c.labels))
FlagKept(c) == c.body.secret => c.sensitive \/ c.body.filed

Good == {c \in Content : LabelKept(c) /\ FlagKept(c)}

ContentInv ==
  /\ held \subseteq Good
  /\ rows \in [Rows -> Good \cup {Nothing}]
  /\ files \in [Files -> Good \cup {Nothing}]

CountInv ==
  /\ count \in Nat /\ count <= MaxCalls
  /\ IsFiniteSet(acted) /\ Cardinality(acted) <= count

\* No source is blank, and the code's own are among them.
LEMMA SourcesNamed == NoBlank(Sources) /\ {"user", "tool", "web", "doc"} \subseteq Sources
<1>1. "" \notin DocLabel
  BY ToolsAssumption
<1> QED
  BY <1>1 DEF NoBlank, Sources

\* A chain of one label counts as that label.
LEMMA OneLabel ==
  ASSUME NEW S, NoBlank(S), NEW a \in S
  PROVE  <<a>> \in Provenance(S) /\ Effective(<<a>>) = a
<1>1. <<a>> \in Seq(S) /\ <<a>> # <<>> /\ DOMAIN <<a>> = {1} /\ <<a>>[1] = a
  OBVIOUS
<1>2. <<a>> \in Provenance(S)
  BY <1>1 DEF Provenance
<1>3. Min({1}) = 1
  BY MinInSet
<1>4. {i \in DOMAIN <<a>> : \A j \in DOMAIN <<a>> : Rank(<<a>>[j]) <= Rank(<<a>>[i])} = {1}
  <2>1. Rank(a) \in Nat
    BY RankType
  <2> QED
    BY <1>1, <2>1
<1>5. a # ""
  BY DEF NoBlank
<1> QED
  BY <1>1, <1>2, <1>3, <1>4, <1>5 DEF Effective

\* A body of the tool's own words has nothing from outside.
LEMMA PlainBody == Plain \in Body /\ Plain.from = {} /\ ~Plain.secret
BY DEF Plain, Body

\* What is true of a good content, part by part.
LEMMA GoodParts ==
  ASSUME NEW c \in Good
  PROVE  /\ c = [labels |-> c.labels, sensitive |-> c.sensitive, body |-> c.body]
         /\ c.labels \in Provenance(Sources) /\ c.sensitive \in BOOLEAN /\ c.body \in Body
         /\ LabelKept(c) /\ FlagKept(c)
BY DEF Good, Content

\* A content is good if its label is no better than that of a good content its
\* words come from and its flag is no lower.
LEMMA MadeGood ==
  ASSUME NEW c \in Good, NEW labels \in Provenance(Sources), NEW flag \in BOOLEAN,
         NEW body \in Body, body.from \subseteq c.body.from,
         Rank(Effective(c.labels)) <= Rank(Effective(labels)),
         body.secret => flag \/ body.filed
  PROVE  [labels |-> labels, sensitive |-> flag, body |-> body] \in Good
<1> DEFINE n == [labels |-> labels, sensitive |-> flag, body |-> body]
<1>1. n \in Content /\ n.labels = labels /\ n.sensitive = flag /\ n.body = body
  BY DEF Content
<1> HIDE DEF n
<1>2. ASSUME NEW source \in body.from PROVE Rank(source) <= Rank(Effective(labels))
  <2>1. Rank(source) <= Rank(Effective(c.labels))
    BY <1>2, GoodParts DEF LabelKept
  <2>2. /\ Rank(source) \in Nat /\ Rank(Effective(c.labels)) \in Nat
        /\ Rank(Effective(labels)) \in Nat
    BY RankType
  <2> QED
    BY <2>1, <2>2
<1> QED
  BY <1>1, <1>2 DEF Good, LabelKept, FlagKept, n

\* A content without words from outside or from a record.
LEMMA EmptyGood ==
  ASSUME NEW labels \in Provenance(Sources), NEW flag \in BOOLEAN
  PROVE  [labels |-> labels, sensitive |-> flag, body |-> Plain] \in Good
BY PlainBody DEF Good, Content, LabelKept, FlagKept

\* The client's own words are the only ones at the start, and good.
LEMMA ContentInit == Init => ContentInv
<1> SUFFICES ASSUME Init PROVE ContentInv
  OBVIOUS
<1>1. Words \in Good
  BY SourcesNamed, OneLabel, EmptyGood DEF Words
<1>2. ASSUME NEW label \in DocLabel PROVE Document(label) \in Good
  <2> DEFINE b == [Plain EXCEPT !.from = {label}]
             d == Document(label)
  <2>1. label \in Sources /\ label \in Outside
    BY DEF Sources, Outside
  <2>2. <<label>> \in Provenance(Sources) /\ Effective(<<label>>) = label
    BY <2>1, SourcesNamed, OneLabel
  <2>3. b \in Body /\ b.from = {label} /\ ~b.secret
    BY <2>1 DEF Plain, Body
  <2> HIDE DEF b
  <2>4. d = [labels |-> <<label>>, sensitive |-> FALSE, body |-> b]
    BY DEF Document, b
  <2>5. d \in Content /\ d.labels = <<label>> /\ d.body = b
    BY <2>2, <2>3, <2>4 DEF Content
  <2> HIDE DEF d
  <2>6. LabelKept(d)
    <3>1. Rank(label) \in Nat
      BY RankType
    <3> QED
      BY <2>2, <2>3, <2>5, <3>1 DEF LabelKept
  <2> QED
    BY <2>3, <2>5, <2>6 DEF Good, FlagKept, d
<1>3. [labels |-> <<"tool">>, sensitive |-> TRUE, body |-> Record] \in Good
  <2>1. Record \in Body /\ Record.from = {}
    BY DEF Record, Plain, Body
  <2>2. <<"tool">> \in Provenance(Sources)
    BY SourcesNamed, OneLabel
  <2> HIDE DEF Record
  <2> QED
    BY <2>1, <2>2 DEF Good, Content, LabelKept, FlagKept
<1>4. held \subseteq Good
  BY <1>1, <1>2 DEF Init
<1> QED
  BY <1>3, <1>4 DEF Init, ContentInv

\* What the tools store is good.
LEMMA StoredGood ==
  /\ ContentInv => \A r \in Rows : rows[r] # Nothing => rows[r] \in Good
  /\ ContentInv => \A f \in Files : files[f] # Nothing => files[f] \in Good
BY DEF ContentInv

\* A row that is read comes back with its labels (mock_db.go).
LEMMA ReadGood ==
  ASSUME ContentInv, NEW c \in held, NEW r \in Rows, DBRead(r, c)
  PROVE  ContentInv'
<1> DEFINE rec == rows[r]
           read == <<Worst(Effective(rec.labels), Effective(c.labels))>> \o Tail(rec.labels)
                     \o <<Effective(c.labels)>>
<1>1. c \in Good /\ rec \in Good
  BY StoredGood DEF ContentInv, DBRead
<1>2. /\ rec.labels \in Provenance(Sources) /\ c.labels \in Provenance(Sources)
      /\ rec.sensitive \in BOOLEAN /\ rec.body \in Body /\ FlagKept(rec)
  BY <1>1, GoodParts
<1>3. held' = held \cup {[labels |-> read, sensitive |-> rec.sensitive, body |-> rec.body]}
  BY Zenon DEF DBRead, Returns
<1>4. /\ read \in Provenance(Sources)
      /\ Rank(Effective(rec.labels)) <= Rank(Effective(read))
  BY <1>2, SourcesNamed, ReadKeeps
<1> HIDE DEF read, rec
<1>5. [labels |-> read, sensitive |-> rec.sensitive, body |-> rec.body] \in Good
  BY <1>1, <1>2, <1>4, MadeGood DEF FlagKept
<1> QED
  BY <1>3, <1>5 DEF DBRead, ContentInv

\* A row that is written or written over is good.
LEMMA WriteGood ==
  ASSUME ContentInv, NEW c \in held, NEW r \in Rows, DBWrite(r, c)
  PROVE  ContentInv'
<1> DEFINE w == WrittenLabels(r, c)
<1>1. c \in Good /\ (rows[r] # Nothing => rows[r] \in Good)
  BY StoredGood DEF ContentInv
<1>2. c.labels \in Provenance(Sources) /\ c.body \in Body
  BY <1>1, GoodParts
<1>3. rows[r] # Nothing => rows[r].labels \in Provenance(Sources)
  BY <1>1, GoodParts
<1>4. w \in Provenance(Sources) /\ Rank(Effective(c.labels)) <= Rank(Effective(w))
  BY <1>2, <1>3, SourcesNamed, WrittenKeeps
<1> HIDE DEF w
<1>5. [labels |-> w, sensitive |-> TRUE, body |-> c.body] \in Good
  BY <1>1, <1>2, <1>4, MadeGood
<1>6. [labels |-> w, sensitive |-> TRUE, body |-> Plain] \in Good
  BY <1>4, EmptyGood
<1>7. /\ rows' = [rows EXCEPT ![r] = [labels |-> w, sensitive |-> TRUE, body |-> c.body]]
      /\ held' = held \cup {[labels |-> w, sensitive |-> TRUE, body |-> Plain]}
      /\ files' = files
  BY Zenon DEF DBWrite, Returns, w
<1> QED
  BY <1>5, <1>6, <1>7 DEF ContentInv

\* A deleted row leaves an answer of the tool.
LEMMA DeleteGood ==
  ASSUME ContentInv, NEW c \in held, NEW r \in Rows, DBDelete(r, c)
  PROVE  ContentInv'
<1>1. <<"tool">> \in Provenance(Sources)
  BY SourcesNamed, OneLabel
<1>2. [labels |-> <<"tool">>, sensitive |-> FALSE, body |-> Plain] \in Good
  BY <1>1, EmptyGood
<1>3. /\ rows' = [rows EXCEPT ![r] = Nothing] /\ files' = files
      /\ held' = held \cup {[labels |-> <<"tool">>, sensitive |-> FALSE, body |-> Plain]}
  BY DEF DBDelete, Returns
<1> QED
  BY <1>2, <1>3 DEF ContentInv

\* A file keeps the labels of what was written and drops only the flag
\* (mock_files.go:36).
LEMMA FileWriteGood ==
  ASSUME ContentInv, NEW c \in held, NEW f \in Files, NEW op, FileWrite(f, op, c)
  PROVE  ContentInv'
<1> DEFINE w == FiledLabels(c)
           flag == c.body.looks \/ Effective(c.labels) = "web"
           body == [c.body EXCEPT !.filed = @ \/ (c.sensitive /\ ~flag)]
<1>1. c \in Good
  BY DEF ContentInv
<1>2. /\ c.labels \in Provenance(Sources) /\ c.body \in Body
      /\ c.body.looks \in BOOLEAN /\ FlagKept(c)
  BY <1>1, GoodParts DEF Body
<1>3. w \in Provenance(Sources) /\ Rank(Effective(c.labels)) <= Rank(Effective(w))
  BY <1>2, SourcesNamed, FiledKeeps
<1>4. flag \in BOOLEAN
  BY <1>2
<1>5. /\ files' = [files EXCEPT ![f] = [labels |-> w, sensitive |-> flag, body |-> body]]
      /\ held' = held \cup {[labels |-> w, sensitive |-> flag, body |-> Plain]}
      /\ rows' = rows
  BY Zenon DEF FileWrite, Returns
<1> HIDE DEF w, flag
<1>6. /\ body \in Body /\ body.from = c.body.from
      /\ body.secret => flag \/ body.filed
  BY <1>2, <1>4 DEF Body, FlagKept
<1> HIDE DEF body
<1>7. [labels |-> w, sensitive |-> flag, body |-> body] \in Good
  BY <1>1, <1>3, <1>4, <1>6, MadeGood
<1>8. [labels |-> w, sensitive |-> flag, body |-> Plain] \in Good
  BY <1>3, <1>4, EmptyGood
<1> QED
  BY <1>5, <1>7, <1>8 DEF ContentInv

\* A page is labelled as what it is, whoever fetched it.
LEMMA FetchGood ==
  ASSUME ContentInv, NEW c \in held, NEW p \in Page, Fetch(p, c)
  PROVE  ContentInv'
<1> DEFINE web == <<"web", "web">>
           b == WebPage(p)
<1>1. web \in Provenance(Sources) /\ Rank("web") <= Rank(Effective(web))
  <2>1. "web" \in Sources /\ <<"web">> \in Seq(Sources) /\ web = <<"web">> \o <<"web">>
    BY SourcesNamed
  <2> QED
    BY <2>1, SourcesNamed, HeadCounts
<1>2. b \in Body /\ b.from = {"web"} /\ ~b.secret /\ b.looks \in BOOLEAN
  BY DEF WebPage, Plain, Body, Outside, Known
<1>3. /\ held' = held \cup {[labels |-> web, sensitive |-> b.looks, body |-> b]}
      /\ rows' = rows /\ files' = files
  BY Zenon DEF Fetch, Returns
<1> HIDE DEF web, b
<1>4. [labels |-> web, sensitive |-> b.looks, body |-> b] \in Good
  BY <1>1, <1>2 DEF Good, Content, LabelKept, FlagKept
<1> QED
  BY <1>3, <1>4 DEF ContentInv

\* What a mail or a charge answers.
LEMMA EchoGood ==
  ASSUME ContentInv, NEW c \in held, NEW flag \in BOOLEAN
  PROVE  [labels |-> Inherit(c.labels, "tool"), sensitive |-> flag, body |-> Echo(c)] \in Good
<1> DEFINE w == Inherit(c.labels, "tool")
<1>1. c \in Good
  BY DEF ContentInv
<1>2. c.labels \in Provenance(Sources) /\ c.body \in Body
  BY <1>1, GoodParts
<1>3. w \in Provenance(Sources) /\ Rank(Effective(c.labels)) <= Rank(Effective(w))
  BY <1>2, SourcesNamed, InheritKeeps
<1>4. Echo(c) \in Body /\ Echo(c).from = c.body.from /\ ~Echo(c).secret
  BY <1>2 DEF Echo, Body
<1> HIDE DEF w
<1> QED
  BY <1>1, <1>3, <1>4, MadeGood DEF w

\* Words that were put differently keep their labels.
LEMMA RetellGood ==
  ASSUME ContentInv, NEW c \in held, Retell(c)
  PROVE  ContentInv'
<1> DEFINE b == [c.body EXCEPT !.looks = FALSE]
           n == [labels |-> c.labels, sensitive |-> c.sensitive, body |-> b]
<1>1. c \in Good
  BY DEF ContentInv
<1>2. /\ c = [labels |-> c.labels, sensitive |-> c.sensitive, body |-> c.body]
      /\ c.labels \in Provenance(Sources) /\ c.sensitive \in BOOLEAN /\ c.body \in Body
      /\ FlagKept(c)
  BY <1>1, GoodParts
<1>3. /\ b \in Body /\ b.from = c.body.from /\ b.secret = c.body.secret
      /\ b.filed = c.body.filed
  BY <1>2 DEF Body
<1>4. [c EXCEPT !.body.looks = FALSE] = n
  <2>1. c \in Content
    BY <1>1 DEF Good
  <2>2. [c EXCEPT !.body.looks = FALSE] = [c EXCEPT !.body = b]
    BY <2>1 DEF Content, Body
  <2> HIDE DEF b
  <2>3. [c EXCEPT !.body = b] = n
    BY <2>1 DEF Content
  <2> QED
    BY <2>2, <2>3
<1> HIDE DEF b
<1>5. Rank(Effective(c.labels)) <= Rank(Effective(c.labels))
  BY RankType
<1>6. n \in Good
  BY <1>1, <1>2, <1>3, <1>5, MadeGood DEF FlagKept
<1> HIDE DEF n
<1> QED
  BY <1>4, <1>6 DEF Retell, ContentInv

\* Every tool call leaves good contents.
LEMMA ContentStep == ContentInv /\ [Next]_vars => ContentInv'
<1> SUFFICES ASSUME ContentInv, [Next]_vars PROVE ContentInv'
  OBVIOUS
<1>1. CASE UNCHANGED vars
  BY <1>1 DEF vars, ContentInv
<1>2. ASSUME NEW c \in held, NEW f \in Files, FileRead(f, c) PROVE ContentInv'
  BY <1>2, StoredGood DEF FileRead, ContentInv
<1>3. ASSUME NEW c \in held, NEW to \in Mailbox, Send(to, c) PROVE ContentInv'
  <2>1. held' = held \cup
          {[labels |-> Inherit(c.labels, "tool"), sensitive |-> FALSE, body |-> Echo(c)]}
    BY <1>3, Zenon DEF Send, Returns
  <2> QED
    BY <1>3, <2>1, EchoGood DEF Send, ContentInv
<1>4. ASSUME NEW c \in held, NEW a \in Account, Charge(a, c) PROVE ContentInv'
  <2>1. held' = held \cup
          {[labels |-> Inherit(c.labels, "tool"), sensitive |-> TRUE, body |-> Echo(c)]}
    BY <1>4, Zenon DEF Charge, Returns
  <2> QED
    BY <1>4, <2>1, EchoGood DEF Charge, ContentInv
<1> QED
  BY <1>1, <1>2, <1>3, <1>4, ReadGood, WriteGood, DeleteGood, FileWriteGood, FetchGood,
     RetellGood DEF Next

\* Rows, files, mail and the client's hands hold good contents only.
LEMMA ContentsGood == ContentInv => Contents \subseteq Good
BY StoredGood DEF ContentInv, Contents, Stored

----------------------------------------------------------------------------
(* Calls that ran *)

ToolCall(req, c) ==
  \/ \E r \in Rows, op \in {"read", "write", "delete"} :
       req = CallOf("db", op, r, NoAddr, c)
  \/ \E f \in Files, op \in {"read", "write", "write_shared"} :
       req = CallOf("files", op, f, NoAddr, c)
  \/ \E p \in Page : req = CallOf("http", "fetch", p, NoAddr, c)
  \/ \E to \in Mailbox : req = CallOf("email", "send", [to EXCEPT !.scheme = "email"], to, c)
  \/ \E a \in Account : req = CallOf("payments", "charge", a, NoAddr, c)

RunsTool(c) == \E req : ToolCall(req, c) /\ Runs(req, c)

\* Every step but retelling runs a call that the client makes with a content it
\* holds.
LEMMA NextRuns ==
  ASSUME Next
  PROVE  \E c \in held : RunsTool(c) \/ Retell(c)
<1>1. PICK c \in held :
        \/ \E r \in Rows : DBRead(r, c) \/ DBWrite(r, c) \/ DBDelete(r, c)
        \/ \E f \in Files, op \in {"write", "write_shared"} : FileWrite(f, op, c)
        \/ \E f \in Files : FileRead(f, c)
        \/ \E p \in Page : Fetch(p, c)
        \/ \E to \in Mailbox : Send(to, c)
        \/ \E a \in Account : Charge(a, c)
        \/ Retell(c)
  BY Zenon DEF Next
<1>2. ASSUME NEW r \in Rows, DBRead(r, c) \/ DBWrite(r, c) \/ DBDelete(r, c)
      PROVE  RunsTool(c)
  <2>1. PICK op \in {"read", "write", "delete"} : Runs(CallOf("db", op, r, NoAddr, c), c)
    BY <1>2, Zenon DEF DBRead, DBWrite, DBDelete
  <2> QED
    BY <2>1, Zenon DEF RunsTool, ToolCall
<1>3. ASSUME NEW f \in Files, NEW op \in {"write", "write_shared"}, FileWrite(f, op, c)
      PROVE  RunsTool(c)
  <2>1. Runs(CallOf("files", op, f, NoAddr, c), c)
    BY <1>3, Zenon DEF FileWrite
  <2>2. op \in {"read", "write", "write_shared"}
    OBVIOUS
  <2> QED
    BY <2>1, <2>2, Zenon DEF RunsTool, ToolCall
<1>4. ASSUME NEW f \in Files, FileRead(f, c) PROVE RunsTool(c)
  <2>1. Runs(CallOf("files", "read", f, NoAddr, c), c)
    BY <1>4, Zenon DEF FileRead
  <2> QED
    BY <2>1, Zenon DEF RunsTool, ToolCall
<1>5. ASSUME NEW p \in Page, Fetch(p, c) PROVE RunsTool(c)
  <2>1. Runs(CallOf("http", "fetch", p, NoAddr, c), c)
    BY <1>5, Zenon DEF Fetch
  <2> QED
    BY <2>1, Zenon DEF RunsTool, ToolCall
<1>6. ASSUME NEW to \in Mailbox, Send(to, c) PROVE RunsTool(c)
  <2>1. Runs(CallOf("email", "send", [to EXCEPT !.scheme = "email"], to, c), c)
    BY <1>6, Zenon DEF Send
  <2> QED
    BY <2>1, Zenon DEF RunsTool, ToolCall
<1>7. ASSUME NEW a \in Account, Charge(a, c) PROVE RunsTool(c)
  <2>1. Runs(CallOf("payments", "charge", a, NoAddr, c), c)
    BY <1>7, Zenon DEF Charge
  <2> QED
    BY <2>1, Zenon DEF RunsTool, ToolCall
<1> QED
  BY <1>1, <1>2, <1>3, <1>4, <1>5, <1>6, <1>7, Zenon

\* What a step adds to the history is at most one call that runs.
LEMMA ActedStep ==
  ASSUME [Next]_vars
  PROVE  \/ acted' = acted /\ count' = count
         \/ \E c \in held : \E req :
              /\ ToolCall(req, c) /\ Runs(req, c)
              /\ acted' = acted \cup {[req |-> req, body |-> c.body]}
<1>1. CASE UNCHANGED vars
  BY <1>1 DEF vars
<1>2. ASSUME NEW c \in held, Retell(c) PROVE acted' = acted /\ count' = count
  BY <1>2 DEF Retell
<1>3. ASSUME NEW c \in held, NEW req, Runs(req, c)
      PROVE  acted' = acted \cup {[req |-> req, body |-> c.body]}
  BY <1>3, Zenon DEF Runs
<1> QED
  BY <1>1, <1>2, <1>3, NextRuns, Zenon DEF RunsTool

\* The bound is a number.
LEMMA MaxCallsType == MaxCalls \in Nat
BY ToolsAssumption

\* No call starts beyond the bound.
LEMMA CountStep == CountInv /\ [Next]_vars => CountInv'
<1> SUFFICES ASSUME CountInv, [Next]_vars PROVE CountInv'
  OBVIOUS
<1>1. CASE acted' = acted /\ count' = count
  BY <1>1 DEF CountInv
<1>2. ASSUME NEW c \in held, NEW req, Runs(req, c) PROVE CountInv'
  <2> DEFINE a == [req |-> req, body |-> c.body]
  <2>1. count < MaxCalls /\ count' = count + 1 /\ acted' = acted \cup {a}
    BY <1>2 DEF Runs
  <2>2. IsFiniteSet(acted') /\ Cardinality(acted') <= Cardinality(acted) + 1
    <3>1. IsFiniteSet(acted) /\ Cardinality(acted) \in Nat
      BY FS_CardinalityType DEF CountInv
    <3> HIDE DEF a
    <3>2. Cardinality(acted \cup {a}) =
            IF a \in acted THEN Cardinality(acted) ELSE Cardinality(acted) + 1
      BY <3>1, FS_AddElement
    <3>3. IsFiniteSet(acted \cup {a})
      BY <3>1, FS_AddElement
    <3> QED
      BY <2>1, <3>1, <3>2, <3>3
  <2>3. Cardinality(acted) \in Nat /\ Cardinality(acted') \in Nat
    BY <2>2, FS_CardinalityType DEF CountInv
  <2>4. MaxCalls \in Nat
    BY MaxCallsType
  <2> QED
    BY <2>1, <2>2, <2>3, <2>4 DEF CountInv
<1> QED
  BY <1>1, <1>2, ActedStep

\* No call was made at the start.
LEMMA CountInit == Init => CountInv
<1>1. IsFiniteSet({}) /\ Cardinality({}) = 0
  BY FS_EmptySet
<1> QED
  BY <1>1, MaxCallsType DEF Init, CountInv

\* Good contents have the types of contents.
LEMMA ContentsTyped == ContentInv /\ CountInv => TypeOK
<1> SUFFICES ASSUME ContentInv, CountInv PROVE TypeOK
  OBVIOUS
<1>1. ASSUME NEW c \in Contents
      PROVE  /\ c.labels # <<>> /\ \A i \in DOMAIN c.labels : c.labels[i] \in Sources
             /\ c.sensitive \in BOOLEAN /\ c.body \in Body
  <2>1. c \in Good
    BY ContentsGood
  <2>2. c.labels \in Provenance(Sources) /\ c.sensitive \in BOOLEAN /\ c.body \in Body
    BY <2>1, GoodParts
  <2>3. c.labels \in Seq(Sources) /\ c.labels # <<>>
    BY <2>2 DEF Provenance
  <2>4. DOMAIN c.labels = 1 .. Len(c.labels)
    BY <2>3, LenProperties
  <2> QED
    BY <2>2, <2>3, <2>4, ElementOfSeq
<1>2. count \in 0 .. MaxCalls /\ Cardinality(acted) <= count
  BY MaxCallsType DEF CountInv
<1> QED
  BY <1>1, <1>2 DEF TypeOK, Body

\* Contents are always good.
LEMMA ContentsAlways == Spec => []ContentInv
BY ContentInit, ContentStep, PTL DEF Spec

\* Whatever the tools did, every content carries a label, no label is blank,
\* and no call ran beyond the bound.
THEOREM ToolsTypeCorrect == Spec => []TypeOK
<1>1. Spec => []CountInv
  BY CountInit, CountStep, PTL DEF Spec
<1> QED
  BY <1>1, ContentsAlways, ContentsTyped, PTL

\* The tools never launder a content, whichever controls are on: its label is
\* at no time better than the one its words came with (provenance.go:82).
THEOREM LabelsAreKept == Spec => []TaintIsKept
<1>1. ContentInv => TaintIsKept
  <2> SUFFICES ASSUME ContentInv, NEW c \in Contents, NEW source \in c.body.from
               PROVE  Rank(Effective(c.labels)) >= Rank(source)
    BY DEF TaintIsKept
  <2>1. Rank(source) <= Rank(Effective(c.labels))
    BY ContentsGood, GoodParts DEF LabelKept
  <2>2. Rank(source) \in Nat /\ Rank(Effective(c.labels)) \in Nat
    BY RankType
  <2> QED
    BY <2>1, <2>2
<1> QED
  BY <1>1, ContentsAlways, PTL

----------------------------------------------------------------------------
(* Words from outside *)

Trusted == {"user", "tool"}

\* Where the words came in under a label of the engine, every label is one.
Named(c) == c.body.from \cap Known # {} => c.labels \in Seq(Trusted \cup Known)

\* Rows are out of reach for such words.
KnownInv ==
  /\ \A c \in held : Named(c)
  /\ \A f \in Files : files[f] # Nothing => Named(files[f])
  /\ \A r \in Rows : rows[r] # Nothing => rows[r].body.from \cap Known = {}

\* None of the labels that the engine knows is blank.
LEMMA KnownNamed == NoBlank(Trusted \cup Known) /\ "tool" \in Trusted \cup Known
BY DEF NoBlank, Trusted, Known

\* Where all labels are known and some words are from outside, the label that
\* counts is one of the outside.
LEMMA KnownIsUntrusted ==
  ASSUME NEW c \in Good, Named(c), c.body.from \cap Known # {}
  PROVE  c.labels \in Provenance(Trusted \cup Known) /\ Effective(c.labels) \in Known
<1> DEFINE e == Effective(c.labels)
<1>1. PICK source \in c.body.from : source \in Known
  OBVIOUS
<1>2. Rank(source) <= Rank(e)
  BY GoodParts DEF LabelKept
<1>3. c.labels \in Provenance(Trusted \cup Known)
  <2>1. c.labels \in Provenance(Sources)
    BY GoodParts
  <2> QED
    BY <2>1 DEF Provenance, Named
<1>4. e \in Trusted \cup Known
  BY <1>3, KnownNamed, EffectiveIsWorst
<1> HIDE DEF e
<1>5. Rank(source) >= 2
  BY <1>1 DEF Known, Rank
<1>6. Rank("user") = 0 /\ Rank("tool") = 1
  BY DEF Rank
<1>7. e \notin Trusted
  <2>1. Rank(e) \in Nat /\ Rank(source) \in Nat
    BY RankType
  <2> QED
    BY <1>2, <1>5, <1>6, <2>1 DEF Trusted
<1> QED
  BY <1>3, <1>4, <1>7 DEF e

\* The labels of a call are those of the content that the client makes it with.
LEMMA CallLabels ==
  ASSUME NEW S, NoBlank(S), NEW c, c.labels \in Provenance(S),
         NEW tool, NEW op, NEW resource, NEW to
  PROVE  Labels(CallOf(tool, op, resource, to, c)) = c.labels
<1> DEFINE r == CallOf(tool, op, resource, to, c)
<1>1. r.source = Head(c.labels) /\ r.chain = Tail(c.labels)
  BY DEF CallOf
<1>2. Head(c.labels) \in S /\ <<Head(c.labels)>> \o Tail(c.labels) = c.labels
  BY HeadAndTail
<1>3. Head(c.labels) # ""
  BY <1>2 DEF NoBlank
<1> HIDE DEF r
<1>4. Labels(r) = <<Head(c.labels)>> \o Tail(c.labels)
  BY <1>1, <1>3, Zenon DEF Labels
<1> QED
  BY <1>2, <1>4 DEF r

\* A call that works from such words is an untrusted one (engine.go:135).
LEMMA UntrustedCall ==
  ASSUME NEW c \in Good, Named(c), c.body.from \cap Known # {},
         NEW tool, NEW op, NEW resource, NEW to
  PROVE  Untrusted(CallOf(tool, op, resource, to, c))
<1> DEFINE r == CallOf(tool, op, resource, to, c)
<1>1. c.labels \in Provenance(Trusted \cup Known) /\ Effective(c.labels) \in Known
  BY KnownIsUntrusted
<1>2. Labels(r) = c.labels
  BY <1>1, KnownNamed, CallLabels
<1> HIDE DEF r
<1> QED
  BY <1>1, <1>2, Zenon DEF Untrusted, Known, r

\* A call that ran broke no rule of provenance.
LEMMA RunsAllowed ==
  ASSUME On("provenance"), NEW req, NEW c, Runs(req, c)
  PROVE  ~ProvenanceViolation(req)
BY NotDenied DEF Runs

\* Rows, files and accounts are named by their prefixes.
LEMMA AddressesTyped ==
  /\ \A r \in Rows : r.scheme = "db"
  /\ \A f \in Files : f.scheme = "files"
  /\ \A a \in Account : a.scheme = "payments"
BY ToolsAssumption

\* A mail and a shared file have an address.
LEMMA MailAddressed ==
  ASSUME NEW to \in Mailbox, NEW resource, NEW c
  PROVE  /\ DestinationOf(CallOf("email", "send", resource, to, c)) = to
         /\ to # NoAddr
<1>1. to # NoAddr
  BY ToolsAssumption
<1>2. CallOf("email", "send", resource, to, c).to = to
  BY DEF CallOf
<1> QED
  BY <1>1, <1>2, Zenon DEF DestinationOf

\* The destination of a file's words is the file.
LEMMA FileAddressed ==
  ASSUME NEW f \in Files, NEW op, NEW c
  PROVE  DestinationOf(CallOf("files", op, f, NoAddr, c)) = f /\ f # NoAddr
<1> DEFINE r == CallOf("files", op, f, NoAddr, c)
<1>1. f.scheme = "files"
  BY AddressesTyped
<1>2. r.to = NoAddr /\ r.url = NoAddr /\ r.resource = f
  BY DEF CallOf
<1>3. NoAddr.scheme = ""
  BY DEF NoAddr
<1> HIDE DEF r
<1>4. f # NoAddr
  BY <1>1, <1>3
<1>5. f.scheme # "email"
  BY <1>1
<1>6. DestinationOf(r) = f
  BY <1>2, <1>5, Zenon DEF DestinationOf
<1> QED
  BY <1>4, <1>6 DEF r

\* A call in the name of words from outside that would have consequences is a
\* violation of provenance.
LEMMA RefusedForOutside ==
  ASSUME On("provenance"), NEW c, NEW req, ToolCall(req, c), Runs(req, c), Untrusted(req)
  PROVE  ~Consequential(req)
<1>1. ~ProvenanceViolation(req)
  BY RunsAllowed
<1>2. IsEgressOp(req) /\ ~DestinationOf(req).ours => DestinationOf(req) = NoAddr
  BY <1>1 DEF ProvenanceViolation
<1>3. ASSUME NEW r \in Rows, NEW op, req = CallOf("db", op, r, NoAddr, c)
      PROVE  ~Consequential(req)
  <2>1. req.tool = "db" /\ req.op = op /\ req.resource = r /\ r.scheme = "db"
    BY <1>3, AddressesTyped DEF CallOf
  <2> QED
    BY <1>1, <2>1 DEF Consequential, ProvenanceViolation, IsEgressOp
<1>4. ASSUME NEW f \in Files, NEW op, req = CallOf("files", op, f, NoAddr, c)
      PROVE  ~Consequential(req)
  <2>1. req.tool = "files"
    BY <1>4 DEF CallOf
  <2>2. DestinationOf(req) # NoAddr
    BY <1>4, FileAddressed
  <2> QED
    BY <1>2, <2>1, <2>2 DEF Consequential
<1>5. ASSUME NEW p, req = CallOf("http", "fetch", p, NoAddr, c) PROVE ~Consequential(req)
  <2>1. req.tool = "http" /\ req.op = "fetch"
    BY <1>5 DEF CallOf
  <2> QED
    BY <2>1 DEF Consequential, IsEgressOp
<1>6. ASSUME NEW to \in Mailbox, NEW resource, req = CallOf("email", "send", resource, to, c)
      PROVE  ~Consequential(req)
  <2>1. req.tool = "email"
    BY <1>6 DEF CallOf
  <2>2. DestinationOf(req) # NoAddr
    BY <1>6, MailAddressed
  <2> QED
    BY <1>2, <2>1, <2>2 DEF Consequential
<1>7. ASSUME NEW a \in Account, req = CallOf("payments", "charge", a, NoAddr, c)
      PROVE  ~Consequential(req)
  <2>1. req.op = "charge" /\ req.resource = a /\ a.scheme = "payments"
    BY <1>7, AddressesTyped DEF CallOf
  <2> QED
    BY <1>1, <2>1 DEF ProvenanceViolation
<1> QED
  BY <1>3, <1>4, <1>5, <1>6, <1>7, Zenon DEF ToolCall

\* A call that works from outside words and ran has no consequence.
LEMMA OutsideRefused ==
  ASSUME On("provenance"), ContentInv, KnownInv, NEW c \in held, c.body.from \cap Known # {},
         NEW req, ToolCall(req, c), Runs(req, c)
  PROVE  ~Consequential(req)
<1>1. c \in Good /\ Named(c)
  BY DEF ContentInv, KnownInv
<1>2. \E tool, op, resource, to : req = CallOf(tool, op, resource, to, c)
  BY Zenon DEF ToolCall
<1>3. Untrusted(req)
  BY <1>1, <1>2, UntrustedCall
<1> QED
  BY <1>3, RefusedForOutside

\* No outside words are around at the start.
LEMMA KnownInit == Init => KnownInv
<1> SUFFICES ASSUME Init PROVE KnownInv
  OBVIOUS
<1>1. Named(Words)
  BY DEF Words, Plain, Named
<1>2. ASSUME NEW label \in DocLabel PROVE Named(Document(label))
  <2>1. Document(label).labels = <<label>> /\ Document(label).body.from = {label}
    BY DEF Document, Plain
  <2>2. label \in Known => <<label>> \in Seq(Trusted \cup Known)
    OBVIOUS
  <2> QED
    BY <2>1, <2>2 DEF Named
<1>3. Record.from = {}
  BY DEF Record, Plain
<1>4. \A r \in Rows : rows[r] # Nothing => rows[r].body.from = {}
  <2>1. ASSUME NEW r \in Rows, rows[r] # Nothing
        PROVE  rows[r] = [labels |-> <<"tool">>, sensitive |-> TRUE, body |-> Record]
    BY <2>1 DEF Init
  <2> QED
    BY <1>3, <2>1
<1>5. \A f \in Files : files[f] = Nothing
  BY DEF Init
<1> QED
  BY <1>1, <1>2, <1>4, <1>5 DEF Init, KnownInv

\* A content that a tool returns or stores keeps to known labels.
LEMMA NamedContent ==
  ASSUME NEW labels, NEW flag, NEW body,
         body.from \cap Known # {} => labels \in Provenance(Trusted \cup Known)
  PROVE  Named([labels |-> labels, sensitive |-> flag, body |-> body])
BY DEF Named, Provenance

\* What the client holds of the outside carries known labels only.
LEMMA NamedLabels ==
  ASSUME ContentInv, KnownInv, NEW c \in held, c.body.from \cap Known # {}
  PROVE  c.labels \in Provenance(Trusted \cup Known)
BY KnownIsUntrusted DEF ContentInv, KnownInv

\* A row that is read brings no words from outside.
LEMMA KnownRead ==
  ASSUME ContentInv, KnownInv, NEW c \in held, NEW r \in Rows, DBRead(r, c)
  PROVE  KnownInv'
<1>1. rows[r].body.from \cap Known = {}
  BY DEF DBRead, KnownInv
<1>2. PICK labels : held' = held \cup {[labels |-> labels, sensitive |-> rows[r].sensitive,
                                        body |-> rows[r].body]}
  BY Zenon DEF DBRead, Returns
<1>3. Named([labels |-> labels, sensitive |-> rows[r].sensitive, body |-> rows[r].body])
  BY <1>1, NamedContent
<1> QED
  BY <1>2, <1>3 DEF DBRead, KnownInv

\* A row is not written with words from outside: that would be a consequence.
LEMMA KnownWrite ==
  ASSUME On("provenance"), ContentInv, KnownInv, NEW c \in held, NEW r \in Rows,
         DBWrite(r, c)
  PROVE  KnownInv'
<1> DEFINE w == WrittenLabels(r, c)
           n == [labels |-> w, sensitive |-> TRUE, body |-> c.body]
<1>1. /\ rows' = [rows EXCEPT ![r] = n] /\ files' = files
      /\ held' = held \cup {[labels |-> w, sensitive |-> TRUE, body |-> Plain]}
  BY Zenon DEF DBWrite, Returns
<1>2. Named([labels |-> w, sensitive |-> TRUE, body |-> Plain])
  BY PlainBody, NamedContent
<1>3. c.body.from \cap Known = {}
  <2> DEFINE req == CallOf("db", "write", r, NoAddr, c)
  <2>1. Runs(req, c) /\ ToolCall(req, c)
    BY Zenon DEF DBWrite, ToolCall
  <2>2. req.tool = "db" /\ req.op = "write"
    BY DEF CallOf
  <2> HIDE DEF req
  <2>3. Consequential(req)
    BY <2>2 DEF Consequential
  <2> QED
    BY <2>1, <2>3, OutsideRefused
<1>4. n.body = c.body
  OBVIOUS
<1>5. rows \in [Rows -> Good \cup {Nothing}]
  BY DEF ContentInv
<1> HIDE DEF w, n
<1> QED
  BY <1>1, <1>2, <1>3, <1>4, <1>5 DEF KnownInv

\* The answer to a delete says what the call said.
LEMMA KnownDelete ==
  ASSUME ContentInv, KnownInv, NEW c \in held, NEW r \in Rows, DBDelete(r, c)
  PROVE  KnownInv'
<1>1. Named([labels |-> <<"tool">>, sensitive |-> FALSE, body |-> Plain])
  BY PlainBody, NamedContent
<1>2. rows \in [Rows -> Good \cup {Nothing}]
  BY DEF ContentInv
<1> QED
  BY <1>1, <1>2 DEF DBDelete, Returns, KnownInv

\* A file keeps the labels of outside words, and what it returns echoes them.
LEMMA KnownFiled ==
  ASSUME ContentInv, KnownInv, NEW c \in held, NEW f \in Files, NEW op, FileWrite(f, op, c)
  PROVE  KnownInv'
<1> DEFINE w == FiledLabels(c)
           flag == c.body.looks \/ Effective(c.labels) = "web"
           body == [c.body EXCEPT !.filed = @ \/ (c.sensitive /\ ~flag)]
           n == [labels |-> w, sensitive |-> flag, body |-> body]
           m == [labels |-> w, sensitive |-> flag, body |-> Plain]
<1>1. files' = [files EXCEPT ![f] = n] /\ held' = held \cup {m} /\ rows' = rows
  BY Zenon DEF FileWrite, Returns
<1> HIDE DEF w, flag
<1>2. c.body \in Body
  BY GoodParts DEF ContentInv
<1>3. body.from = c.body.from
  BY <1>2 DEF Body
<1> HIDE DEF body
<1>4. c.body.from \cap Known # {} => w \in Provenance(Trusted \cup Known)
  BY NamedLabels, KnownNamed, FiledKeeps DEF w
<1>5. Named(n) /\ Named(m)
  BY <1>3, <1>4, PlainBody, NamedContent
<1>6. files \in [Files -> Good \cup {Nothing}]
  BY DEF ContentInv
<1> HIDE DEF n, m
<1> QED
  BY <1>1, <1>5, <1>6 DEF KnownInv

\* A page has known labels if its words are from the web or a document.
LEMMA KnownFetched ==
  ASSUME KnownInv, NEW c \in held, NEW p \in Page, Fetch(p, c)
  PROVE  KnownInv'
<1>1. <<"web", "web">> \in Provenance(Trusted \cup Known)
  BY DEF Provenance, Known
<1>2. Named([labels |-> <<"web", "web">>, sensitive |-> WebPage(p).looks,
             body |-> WebPage(p)])
  BY <1>1, NamedContent
<1> QED
  BY <1>2, Zenon DEF Fetch, Returns, KnownInv

\* What a tool echoes has the labels of the call and the tool's own.
LEMMA KnownEcho ==
  ASSUME ContentInv, KnownInv, NEW c \in held, NEW flag
  PROVE  Named([labels |-> Inherit(c.labels, "tool"), sensitive |-> flag, body |-> Echo(c)])
<1>1. c.body \in Body
  BY GoodParts DEF ContentInv
<1>2. Echo(c).from = c.body.from
  BY <1>1 DEF Echo, Body
<1>3. c.body.from \cap Known # {} => Inherit(c.labels, "tool") \in Provenance(Trusted \cup Known)
  BY NamedLabels, KnownNamed, InheritKeeps
<1> QED
  BY <1>2, <1>3, NamedContent

\* Outside words that were put differently keep their labels.
LEMMA KnownRetold ==
  ASSUME ContentInv, KnownInv, NEW c \in held, Retell(c)
  PROVE  KnownInv'
<1> DEFINE n == [c EXCEPT !.body.looks = FALSE]
<1>1. c \in Content /\ Named(c)
  BY DEF ContentInv, KnownInv, Good
<1>2. n.labels = c.labels /\ n.body.from = c.body.from
  BY <1>1 DEF Content, Body
<1> HIDE DEF n
<1>3. Named(n)
  BY <1>1, <1>2 DEF Named
<1>4. held' = held \cup {n} /\ rows' = rows /\ files' = files
  BY DEF Retell, n
<1> QED
  BY <1>3, <1>4 DEF KnownInv

\* Every tool call keeps outside words under known labels and out of the rows.
LEMMA KnownStep == On("provenance") /\ ContentInv /\ KnownInv /\ [Next]_vars => KnownInv'
<1> SUFFICES ASSUME On("provenance"), ContentInv, KnownInv, [Next]_vars PROVE KnownInv'
  OBVIOUS
<1>1. CASE UNCHANGED vars
  BY <1>1 DEF vars, KnownInv
<1>2. ASSUME NEW c \in held, NEW f \in Files, FileRead(f, c) PROVE KnownInv'
  BY <1>2 DEF FileRead, KnownInv
<1>3. ASSUME NEW c \in held, NEW to \in Mailbox, Send(to, c) PROVE KnownInv'
  <2>1. held' = held \cup
          {[labels |-> Inherit(c.labels, "tool"), sensitive |-> FALSE, body |-> Echo(c)]}
    BY <1>3, Zenon DEF Send, Returns
  <2> QED
    BY <1>3, <2>1, KnownEcho DEF Send, KnownInv
<1>4. ASSUME NEW c \in held, NEW a \in Account, Charge(a, c) PROVE KnownInv'
  <2>1. held' = held \cup
          {[labels |-> Inherit(c.labels, "tool"), sensitive |-> TRUE, body |-> Echo(c)]}
    BY <1>4, Zenon DEF Charge, Returns
  <2> QED
    BY <1>4, <2>1, KnownEcho DEF Charge, KnownInv
<1> QED
  BY <1>1, <1>2, <1>3, <1>4, KnownRead, KnownWrite, KnownDelete, KnownFiled, KnownFetched,
     KnownRetold DEF Next

\* With the provenance rule on, nothing that came from the web or a document
\* writes or deletes a row, is charged or leaves for an address that is not
\* ours, through whatever tools it went (engine.go:135).
THEOREM OutsideStaysOut == On("provenance") => (Spec => []OutsideNeverActs)
<1> SUFFICES ASSUME On("provenance") PROVE Spec => []OutsideNeverActs
  OBVIOUS
<1>1. ASSUME ContentInv, KnownInv, OutsideNeverActs, [Next]_vars PROVE OutsideNeverActs'
  <2>1. CASE acted' = acted
    BY <1>1, <2>1 DEF OutsideNeverActs
  <2>2. ASSUME NEW c \in held, NEW req, ToolCall(req, c), Runs(req, c),
               acted' = acted \cup {[req |-> req, body |-> c.body]}
        PROVE  OutsideNeverActs'
    <3>1. c.body.from \cap Known # {} => ~Consequential(req)
      BY <1>1, <2>2, OutsideRefused
    <3> QED
      BY <1>1, <2>2, <3>1 DEF OutsideNeverActs
  <2> QED
    BY <1>1, <2>1, <2>2, ActedStep
<1>2. Init => OutsideNeverActs
  BY DEF Init, OutsideNeverActs
<1>3. ContentInv /\ KnownInv /\ [Next]_vars => KnownInv'
  BY KnownStep
<1> QED
  BY <1>1, <1>2, <1>3, KnownInit, ContentInit, ContentStep, PTL DEF Spec

----------------------------------------------------------------------------
(* Records and the Rego files *)

\* A call that may leave has a destination (dataflow.go).
LEMMA Addressed ==
  ASSUME NEW req, NEW c, ToolCall(req, c), IsEgressOp(req)
  PROVE  DestinationOf(req) # NoAddr
<1>1. ASSUME NEW r, NEW op \in {"read", "write", "delete"}, req = CallOf("db", op, r, NoAddr, c)
      PROVE  FALSE
  <2>1. req.tool = "db"
    BY <1>1 DEF CallOf
  <2> QED
    BY <2>1 DEF IsEgressOp
<1>2. ASSUME NEW p, req = CallOf("http", "fetch", p, NoAddr, c) PROVE FALSE
  <2>1. req.tool = "http" /\ req.op = "fetch"
    BY <1>2 DEF CallOf
  <2> QED
    BY <2>1 DEF IsEgressOp
<1>3. ASSUME NEW a, req = CallOf("payments", "charge", a, NoAddr, c) PROVE FALSE
  <2>1. req.tool = "payments"
    BY <1>3 DEF CallOf
  <2> QED
    BY <2>1 DEF IsEgressOp
<1>4. ASSUME NEW f \in Files, NEW op, req = CallOf("files", op, f, NoAddr, c)
      PROVE  DestinationOf(req) # NoAddr
  BY <1>4, FileAddressed
<1>5. ASSUME NEW to \in Mailbox, NEW resource, req = CallOf("email", "send", resource, to, c)
      PROVE  DestinationOf(req) # NoAddr
  BY <1>5, MailAddressed
<1> QED
  BY <1>1, <1>2, <1>3, <1>4, <1>5, Zenon DEF ToolCall

\* Every tool call is built from a held content.
LEMMA CallShape ==
  ASSUME NEW req, NEW c, ToolCall(req, c)
  PROVE  \E tool, op, resource, to : req = CallOf(tool, op, resource, to, c)
BY Zenon DEF ToolCall

\* A call carries the flag of the content it works from.
LEMMA CallFlag ==
  ASSUME NEW req, NEW c, ToolCall(req, c)
  PROVE  req.sensitive = c.sensitive
<1>1. \A tool, op, resource, to : CallOf(tool, op, resource, to, c).sensitive = c.sensitive
  BY DEF CallOf
<1>2. PICK tool, op, resource, to : req = CallOf(tool, op, resource, to, c)
  BY CallShape
<1> QED
  BY <1>1, <1>2

\* With the flow of sensitive data checked, a customer's record leaves, in
\* whatever words and through whatever tools, only for an address that a grant
\* lists, but for files that drop the flag of retold words (dataflow.go:30).
THEOREM SecretsStayListed ==
  On("least_privilege") /\ On("dataflow") => (Spec => []SecretsLeaveOnlyListed)
<1> SUFFICES ASSUME On("least_privilege"), On("dataflow")
             PROVE  Spec => []SecretsLeaveOnlyListed
  OBVIOUS
<1>1. ASSUME NEW c \in Good, NEW req, ToolCall(req, c), Runs(req, c),
             IsEgressOp(req), c.body.secret, ~c.body.filed
      PROVE  Listed(req)
  <2> DEFINE m == Match(Grants, req, 0)
  <2>1. Hits(Grants, req, 0) # {} /\ ~(Leaves(req) /\ Leaks(m, req))
    <3>1. Decision(Grants, NoCount, req, 0).action # "deny"
      BY <1>1 DEF Runs
    <3> QED
      BY <3>1, NotDenied
  <2>2. c.sensitive
    BY <1>1, GoodParts DEF FlagKept
  <2>3. IsSensitive(req)
    BY <1>1, <2>2, CallFlag DEF IsSensitive
  <2>4. Leaves(req)
    BY <1>1, Addressed DEF Leaves
  <2>5. m.allow # {} /\ ~Unlisted(m, req)
    BY <2>1, <2>3, <2>4 DEF Leaks
  <2>6. DestinationOf(req) \in m.allow
    BY <2>5 DEF Unlisted, DestinationAllowed
  <2>7. Grants \in Seq(GrantOf(STRING, STRING))
    BY ToolsAssumption
  <2>8. PICK i \in DOMAIN Grants : m = Grants[i] /\ MatchesToolOp(Grants[i], req)
    BY <2>1, <2>7, MatchOutcome, Zenon
  <2> HIDE DEF m
  <2> QED
    BY <2>6, <2>8 DEF Listed
<1>2. ASSUME ContentInv, SecretsLeaveOnlyListed, [Next]_vars PROVE SecretsLeaveOnlyListed'
  <2>1. CASE acted' = acted
    BY <1>2, <2>1 DEF SecretsLeaveOnlyListed
  <2>2. ASSUME NEW c \in held, NEW req, ToolCall(req, c), Runs(req, c),
               acted' = acted \cup {[req |-> req, body |-> c.body]}
        PROVE  SecretsLeaveOnlyListed'
    <3>1. c \in Good
      BY <1>2 DEF ContentInv
    <3>2. IsEgressOp(req) /\ c.body.secret => Listed(req) \/ c.body.filed
      BY <1>1, <2>2, <3>1
    <3> QED
      BY <1>2, <2>2, <3>2 DEF SecretsLeaveOnlyListed
  <2> QED
    BY <1>2, <2>1, <2>2, ActedStep
<1>3. Init => SecretsLeaveOnlyListed
  BY DEF Init, SecretsLeaveOnlyListed
<1> QED
  BY <1>2, <1>3, ContentsAlways, PTL DEF Spec

\* What a tool call names is an address.
LEMMA ResourceTyped ==
  ASSUME NEW req, NEW c, ToolCall(req, c)
  PROVE  req.resource \in [scheme : STRING \cup {"email"}, name : STRING, ours : BOOLEAN]
<1> DEFINE Place == [scheme : STRING \cup {"email"}, name : STRING, ours : BOOLEAN]
<1>1. Rows \cup Files \cup Page \cup Mailbox \cup Account \subseteq Addr
  BY ToolsAssumption
<1>2. Addr \subseteq Place
  BY DEF Addr
<1>3. \A to \in Addr : [to EXCEPT !.scheme = "email"] \in Place
  BY DEF Addr
<1> HIDE DEF Place
<1>4. \A tool, op, resource, to : CallOf(tool, op, resource, to, c).resource = resource
  BY DEF CallOf
<1>5. \/ \E resource \in Rows \cup Files \cup Page \cup Account : \E tool, op, to :
             req = CallOf(tool, op, resource, to, c)
      \/ \E to \in Mailbox : \E tool, op :
             req = CallOf(tool, op, [to EXCEPT !.scheme = "email"], to, c)
  <2>1. ASSUME NEW r \in Rows \cup Files \cup Page \cup Account, NEW tool, NEW op,
               req = CallOf(tool, op, r, NoAddr, c)
        PROVE  \E resource \in Rows \cup Files \cup Page \cup Account : \E t, o, to :
                 req = CallOf(t, o, resource, to, c)
    BY <2>1
  <2>2. /\ \A r \in Rows : r \in Rows \cup Files \cup Page \cup Account
        /\ \A r \in Files : r \in Rows \cup Files \cup Page \cup Account
        /\ \A r \in Page : r \in Rows \cup Files \cup Page \cup Account
        /\ \A r \in Account : r \in Rows \cup Files \cup Page \cup Account
    OBVIOUS
  <2> QED
    BY <2>1, <2>2, Zenon DEF ToolCall
<1>6. ASSUME NEW resource \in Rows \cup Files \cup Page \cup Account, NEW tool, NEW op, NEW to,
             req = CallOf(tool, op, resource, to, c)
      PROVE  req.resource \in Place
  BY <1>1, <1>2, <1>4, <1>6
<1>7. ASSUME NEW to \in Mailbox, NEW tool, NEW op,
             req = CallOf(tool, op, [to EXCEPT !.scheme = "email"], to, c)
      PROVE  req.resource \in Place
  BY <1>1, <1>3, <1>4, <1>7
<1>8. req.resource \in Place
  BY <1>5, <1>6, <1>7, Zenon
<1> QED
  BY <1>8 DEF Place

\* With every control on, what ran is nothing that the Rego files deny, but for
\* writes of sensitive files (provenance.rego:19).
THEOREM RanAsRegoAllows == Controls = ControlName => (Spec => []RegoAllowsWhatRan)
<1> SUFFICES ASSUME Controls = ControlName PROVE Spec => []RegoAllowsWhatRan
  OBVIOUS
<1>1. ASSUME NEW c, NEW req, ToolCall(req, c), Runs(req, c),
             RegoDenies(Grants, NoCount, req, 0)
      PROVE  <<req.tool, req.op>> = <<"files", "write">>
  <2> DEFINE m == Match(Grants, req, 0)
  <2>1. Decision(Grants, NoCount, req, 0).action # "deny"
    BY <1>1 DEF Runs
  <2>2. req.resource \in [scheme : STRING \cup {"email"}, name : STRING, ours : BOOLEAN]
    BY <1>1, ResourceTyped
  <2>3. /\ ~(OutOfScope(Grants, req) \/ CapsReached(m, NoCount))
        /\ ~(NotOnAllowlist(m, req) /\ OneDestination(req))
        /\ ~(UntrustedTarget(req) /\ ~Scratch(req))
    BY <2>1, <2>2, EngineStrict, Zenon
  <2> HIDE DEF m
  <2>4. NotOnAllowlist(m, req) => OneDestination(req)
    <3>1. ASSUME NEW to \in Mailbox, NEW resource,
                 req = CallOf("email", "send", resource, to, c)
          PROVE  OneDestination(req)
      <4>1. DestinationOf(req) = to /\ to # NoAddr
        BY <3>1, MailAddressed
      <4>2. req.to = to
        BY <3>1 DEF CallOf
      <4>3. Destination(req) = to
        BY <4>1, <4>2, Zenon DEF Destination
      <4> QED
        BY <4>1, <4>3 DEF OneDestination
    <3>2. ASSUME NEW tool, tool # "email", NEW op, NEW resource, NEW to,
                 req = CallOf(tool, op, resource, to, c)
          PROVE  ~IsMail(req)
      BY <3>2 DEF CallOf, IsMail
    <3>3. "db" # "email" /\ "files" # "email" /\ "http" # "email" /\ "payments" # "email"
      OBVIOUS
    <3> QED
      BY <1>1, <3>1, <3>2, <3>3, Zenon DEF ToolCall, NotOnAllowlist
  <2>5. UntrustedTarget(req) /\ Scratch(req)
    BY <1>1, <2>3, <2>4, Zenon DEF RegoDenies, m
  <2>6. On("provenance")
    BY DEF On, ControlName
  <2>7. ~ProvenanceViolation(req) /\ Untrusted(req) /\ req.op = "write"
    BY <1>1, <2>5, <2>6, RunsAllowed DEF UntrustedTarget, Scratch
  <2>8. ~(req.resource.scheme = "db")
    BY <2>7 DEF ProvenanceViolation
  <2>9. ASSUME NEW r \in Rows, NEW op, req = CallOf("db", op, r, NoAddr, c) PROVE FALSE
    BY <2>8, <2>9, AddressesTyped DEF CallOf
  <2>10. ASSUME NEW f \in Files, NEW op, req = CallOf("files", op, f, NoAddr, c)
         PROVE  req.tool = "files"
    BY <2>10 DEF CallOf
  <2>11. ASSUME NEW tool, NEW op \in {"fetch", "send", "charge"}, NEW resource, NEW to,
                req = CallOf(tool, op, resource, to, c)
         PROVE  FALSE
    BY <2>7, <2>11 DEF CallOf
  <2>12. req.tool = "files"
    BY <1>1, <2>9, <2>10, <2>11, Zenon DEF ToolCall
  <2> QED
    BY <2>7, <2>12
<1>2. ASSUME RegoAllowsWhatRan, [Next]_vars PROVE RegoAllowsWhatRan'
  <2>1. CASE acted' = acted
    BY <1>2, <2>1 DEF RegoAllowsWhatRan
  <2>2. ASSUME NEW c \in held, NEW req, ToolCall(req, c), Runs(req, c),
               acted' = acted \cup {[req |-> req, body |-> c.body]}
        PROVE  RegoAllowsWhatRan'
    <3>1. RegoDenies(Grants, NoCount, req, 0) => <<req.tool, req.op>> = <<"files", "write">>
      BY <1>1, <2>2
    <3> QED
      BY <1>2, <2>2, <3>1 DEF RegoAllowsWhatRan
  <2> QED
    BY <1>2, <2>1, <2>2, ActedStep
<1>3. Init => RegoAllowsWhatRan
  BY DEF Init, RegoAllowsWhatRan
<1> QED
  BY <1>2, <1>3, PTL DEF Spec
=============================================================================
