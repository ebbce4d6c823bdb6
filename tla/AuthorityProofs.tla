--------------------------- MODULE AuthorityProofs ---------------------------
(***************************************************************************)
(* Proofs about Authority: whatever implements it, an approval and a nonce *)
(* stand behind one execution each.                                        *)
(***************************************************************************)
EXTENDS Authority, SequenceTheorems, TLAPS

\* Where an approval stands once it is spent on w.
SpentOn(w) ==
  /\ w.approval \in DOMAIN asked
  /\ asked[w.approval] =
       [task |-> w.permit.task, call |-> w.permit.call, status |-> "spent"]

Held == warrants \cup ran

\* The inductive invariant: what OneUseEach says of the executions holds of
\* the warrants outstanding as well, and a nonce in use is spent.
Inv ==
  /\ TypeOK
  /\ \A x, y \in Held : x.nonce = y.nonce /\ x.nonce # 0 => x = y
  /\ \A x, y \in Held : x.approval = y.approval /\ x.approval # 0 => x = y
  /\ \A x \in Held : x.approval # 0 \/ (x.permit \in Risky /\ ~x.bearer) => SpentOn(x)
  /\ \A x \in Held : x.nonce # 0 => x.nonce \in spent
  /\ \A x \in ran : x.nonce # 0

\* Before anything is asked nothing is held.
LEMMA InitInv == Init => Inv
  BY DEF Init, Inv, TypeOK, Held

\* Changing the status of one request that is not spent.
LEMMA Relabel ==
  ASSUME TypeOK, NEW i \in DOMAIN asked, asked[i].status # "spent",
         NEW v \in {"pending", "approved", "denied", "spent", "lost"},
         asked' = [asked EXCEPT ![i].status = v]
  PROVE  /\ asked' \in Seq([task : {p.task : p \in Permit}, call : {p.call : p \in Permit},
                    status : {"pending", "approved", "denied", "spent", "lost"}])
         /\ DOMAIN asked' = DOMAIN asked
         /\ asked'[i] = [task |-> asked[i].task, call |-> asked[i].call, status |-> v]
         /\ \A w : SpentOn(w) => SpentOn(w)' /\ w.approval # i
<1> DEFINE T == [task : {p.task : p \in Permit}, call : {p.call : p \in Permit},
                 status : {"pending", "approved", "denied", "spent", "lost"}]
           e == [asked[i] EXCEPT !.status = v]
<1>1. asked \in Seq(T) /\ DOMAIN asked = 1 .. Len(asked)
  BY DEF TypeOK
<1> HIDE DEF T
<1>2. asked[i] \in T
  BY <1>1
<1> USE DEF T
<1>3. e \in T /\ e = [task |-> asked[i].task, call |-> asked[i].call, status |-> v]
  BY <1>2
<1>4. asked' = [asked EXCEPT ![i] = e]
  OBVIOUS
<1> HIDE DEF T, e
<1>5. asked' \in Seq(T) /\ DOMAIN asked' = DOMAIN asked /\ asked'[i] = e
      /\ \A j \in DOMAIN asked : j # i => asked'[j] = asked[j]
  <2> DEFINE t == [asked EXCEPT ![i] = e]
  <2>1. /\ t \in Seq(T) /\ Len(t) = Len(asked)
        /\ \A j \in 1 .. Len(asked) : t[j] = IF j = i THEN e ELSE asked[j]
    BY <1>1, <1>3, ExceptSeq
  <2> HIDE DEF t
  <2>2. DOMAIN t = 1 .. Len(t)
    BY <2>1
  <2>3. asked' = t
    BY <1>4 DEF t
  <2> QED
    BY <1>1, <2>1, <2>2, <2>3
<1>6. ASSUME NEW w, SpentOn(w) PROVE SpentOn(w)' /\ w.approval # i
  <2>1. w.approval \in DOMAIN asked /\ asked[w.approval].status = "spent"
    BY <1>6 DEF SpentOn
  <2>2. w.approval # i
    BY <2>1
  <2> QED
    BY <1>5, <1>6, <2>1, <2>2 DEF SpentOn
<1> QED
  BY <1>3, <1>5, <1>6 DEF T

\* Held only shrinks or stays and requests that are spent stay so.
LEMMA FewerHeld ==
  ASSUME Inv, TypeOK', Held' \subseteq Held, ran' \subseteq Held, spent \subseteq spent',
         \A w \in Held : SpentOn(w) => SpentOn(w)',
         \A w \in ran' : w.nonce # 0
  PROVE  Inv'
  BY DEF Inv

\* A new request is held by no warrant.
LEMMA AskInv == ASSUME Inv, NEW p \in Permit, Ask(p) PROVE Inv'
<1> DEFINE T == [task : {q.task : q \in Permit}, call : {q.call : q \in Permit},
                 status : {"pending", "approved", "denied", "spent", "lost"}]
           e == [task |-> p.task, call |-> p.call, status |-> "pending"]
<1>1. asked \in Seq(T) /\ e \in T
  BY DEF Inv, TypeOK
<1>2. asked' = Append(asked, e) /\ Held' = Held
  BY DEF Ask, Held
<1> HIDE DEF T, e
<1>3. asked' \in Seq(T) /\ DOMAIN asked \subseteq DOMAIN asked'
      /\ \A i \in DOMAIN asked : asked'[i] = asked[i]
  BY <1>1, <1>2, AppendProperties
<1>4. TypeOK'
  BY <1>3 DEF T, Inv, TypeOK, Ask
<1>5. \A w : SpentOn(w) => SpentOn(w)'
  BY <1>3 DEF SpentOn
<1> QED
  BY <1>2, <1>4, <1>5, FewerHeld DEF Ask, Inv, Held

\* A request that is not spent may be answered, spent or lost: no warrant has it.
LEMMA RelabelInv ==
  ASSUME Inv, NEW i \in DOMAIN asked, asked[i].status # "spent",
         NEW v \in {"pending", "approved", "denied", "spent", "lost"},
         asked' = [asked EXCEPT ![i].status = v],
         UNCHANGED <<warrants, spent, ran>>
  PROVE  Inv'
<1>1. TypeOK
  BY DEF Inv
<1>2. TypeOK'
  BY <1>1, Relabel DEF TypeOK
<1>3. \A w : SpentOn(w) => SpentOn(w)'
  BY <1>1, Relabel
<1> QED
  BY <1>2, <1>3, FewerHeld DEF Inv, Held

\* A new warrant spends an approval that no other has.
LEMMA WarrantInv == ASSUME Inv, NEW w, Warrant(w) PROVE Inv'
<1>1. w \in Fresh /\ w.nonce = 0 /\ warrants' = warrants \cup {w}
      /\ ran' = ran /\ spent' = spent /\ Held' = Held \cup {w}
  BY DEF Warrant, Fresh, Held
<1>2. CASE w.permit \in Risky /\ ~w.bearer
  <2>1. w.approval \in DOMAIN asked /\ asked[w.approval].status = "approved"
        /\ asked[w.approval].task = w.permit.task /\ asked[w.approval].call = w.permit.call
        /\ asked' = [asked EXCEPT ![w.approval].status = "spent"]
    BY <1>2 DEF Warrant, Approved
  <2>2. TypeOK
    BY DEF Inv
  <2> DEFINE R == [run : Nat, permit : Permit, bearer : BOOLEAN, approval : Nat,
                   nonce : Nat]
  <2>0. w \in R
    BY DEF Warrant, Fresh
  <2> HIDE DEF R
  <2>3. (warrants \cup ran)' \subseteq R
    BY <1>1, <2>0, <2>2 DEF TypeOK, R
  <2>8. TypeOK'
    BY <1>1, <2>1, <2>2, <2>3, Relabel DEF TypeOK, R
  <2>4. \A x : SpentOn(x) => SpentOn(x)' /\ x.approval # w.approval
    BY <2>1, <2>2, Relabel
  <2>5. SpentOn(w)'
    BY <2>1, <2>2, Relabel DEF SpentOn
  <2>6. \A x \in Held : x.approval # w.approval \/ x.approval = 0
    BY <2>4 DEF Inv
  <2>7. w.approval # 0
    BY <2>1, <2>2 DEF TypeOK
  <2> QED
    BY <1>1, <2>4, <2>5, <2>6, <2>8 DEF Inv
<1>3. CASE ~(w.permit \in Risky /\ ~w.bearer)
  <2>1. w.approval = 0 /\ asked' = asked
    BY <1>3 DEF Warrant
  <2>2. TypeOK'
    BY <1>1, <2>1 DEF Inv, TypeOK, Fresh
  <2>3. \A x : SpentOn(x) <=> SpentOn(x)'
    BY <2>1 DEF SpentOn
  <2> QED
    BY <1>1, <1>3, <2>1, <2>2, <2>3 DEF Inv
<1> QED
  BY <1>2, <1>3

\* A nonce that was not spent is in no other hands.
LEMMA RedeemInv == ASSUME Inv, NEW w \in warrants, NEW n, Redeem(w, n) PROVE Inv'
<1> DEFINE v == [w EXCEPT !.nonce = n]
<1>1. w.nonce = 0 /\ n \in Nat /\ n # 0 /\ n \notin spent
      /\ spent' = spent \cup {n} /\ warrants' = (warrants \ {w}) \cup {v}
      /\ ran' = ran /\ asked' = asked
  BY DEF Redeem
<1>2. w \in [run : Nat, permit : Permit, bearer : BOOLEAN, approval : Nat, nonce : Nat]
  BY DEF Inv, TypeOK
<1>3. /\ v \in [run : Nat, permit : Permit, bearer : BOOLEAN, approval : Nat, nonce : Nat]
      /\ v.nonce = n /\ v.approval = w.approval /\ v.permit = w.permit /\ v.bearer = w.bearer
  BY <1>1, <1>2
<1> HIDE DEF v
<1>4. TypeOK'
  BY <1>1, <1>3 DEF Inv, TypeOK
<1>5. Held' \subseteq (Held \ {w}) \cup {v}
  BY <1>1 DEF Held, Inv
<1>6. \A x : SpentOn(x) <=> SpentOn(x)'
  BY <1>1 DEF SpentOn
<1>7. SpentOn(w) => SpentOn(v)
  BY <1>3 DEF SpentOn
<1>8. w \in Held
  BY DEF Held
<1> QED
  BY <1>1, <1>3, <1>4, <1>5, <1>6, <1>7, <1>8 DEF Inv

\* A warrant that is used moves to what ran, one that is dropped is gone.
LEMMA UseInv == ASSUME Inv, NEW w \in warrants, Use(w) \/ Drop(w) PROVE Inv'
<1>1. Held' \subseteq Held /\ ran' \subseteq Held /\ spent' = spent /\ asked' = asked
      /\ warrants' \subseteq warrants
  BY DEF Use, Drop, Held
<1>2. TypeOK'
  BY <1>1 DEF Inv, TypeOK, Use, Drop, Held
<1>3. \A x : SpentOn(x) => SpentOn(x)'
  BY <1>1 DEF SpentOn
<1>4. \A x \in ran' : x.nonce # 0
  BY DEF Inv, Use, Drop
<1> QED
  BY <1>1, <1>2, <1>3, <1>4, FewerHeld

\* A restart leaves no warrant, so that what was spent may be forgotten.
LEMMA ResetInv == ASSUME Inv, Reset PROVE Inv'
<1> DEFINE T == [task : {q.task : q \in Permit}, call : {q.call : q \in Permit},
                 status : {"pending", "approved", "denied", "spent", "lost"}]
<1>1. asked \in Seq(T)
  BY DEF Inv, TypeOK
<1>2. DOMAIN asked = 1 .. Len(asked) /\ Len(asked) \in Nat
  BY <1>1
<1> HIDE DEF T
<1>3. \A i \in 1 .. Len(asked) : asked[i] \in T
  BY <1>1
<1> USE DEF T
<1>4. \A x \in T : [x EXCEPT !.status = "lost"] \in T
  OBVIOUS
<1> HIDE DEF T
<1>5. asked' \in [1 .. Len(asked) -> T]
  BY <1>2, <1>3, <1>4 DEF Reset
<1>6. asked' \in Seq(T)
  BY <1>2, <1>5
<1>7. TypeOK'
  BY <1>6 DEF T, TypeOK, Reset
<1> QED
  BY <1>7 DEF Inv, Reset, Held

\* Every step keeps one use for each nonce and approval.
LEMMA NextInv == ASSUME Inv, [Next]_vars PROVE Inv'
<1>1. ASSUME NEW p \in Permit, Ask(p) PROVE Inv'
  BY <1>1, AskInv
<1>2. ASSUME NEW i \in DOMAIN asked,
             Answer(i, "approved") \/ Answer(i, "denied") \/ Waste(i)
      PROVE Inv'
  <2>1. asked[i].status # "spent" /\ UNCHANGED <<warrants, spent, ran>>
    BY <1>2 DEF Answer, Waste
  <2> QED
    BY <1>2, <2>1, RelabelInv DEF Answer, Waste
<1>3. ASSUME NEW w, Warrant(w) PROVE Inv'
  BY <1>3, WarrantInv
<1>4. ASSUME NEW w \in warrants, NEW n, Redeem(w, n) PROVE Inv'
  BY <1>4, RedeemInv
<1>5. ASSUME NEW w \in warrants, Use(w) \/ Drop(w) PROVE Inv'
  BY <1>5, UseInv
<1>6. ASSUME UNCHANGED <<asked, warrants, spent, ran>> PROVE Inv'
  BY <1>6 DEF Inv, TypeOK, Held, SpentOn
<1>7. ASSUME NEW g, Revoke(g) PROVE Inv'
  BY <1>6, <1>7 DEF Revoke
<1>8. CASE Reset
  BY <1>8, ResetInv
<1>9. CASE UNCHANGED vars
  BY <1>6, <1>9 DEF vars
<1> QED
  BY <1>1, <1>2, <1>3, <1>4, <1>5, <1>7, <1>8, <1>9 DEF Next

\* Under Authority no nonce and no approval stands behind two executions, and
\* every risky execution spent an approval of its own call: with the
\* refinement, the promise of verify.go:27 and approval.go:101 for all values
\* of the constants.
THEOREM OneUseEachHolds == Spec => []OneUseEach
<1>1. Init => Inv
  BY InitInv
<1>2. Inv /\ [Next]_vars => Inv'
  BY NextInv
<1>3. Inv => OneUseEach
  BY DEF Inv, Held, OneUseEach, SpentOn
<1> QED
  BY <1>1, <1>2, <1>3, PTL DEF Spec
=============================================================================
