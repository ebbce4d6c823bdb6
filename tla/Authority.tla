----------------------------- MODULE Authority -----------------------------
(***************************************************************************)
(* What the broker promises, without how it keeps it.  A tool runs on a    *)
(* warrant.  A warrant is given in one step: a grant of the task permits   *)
(* the call, the grant is not revoked at that instant, and if the call is  *)
(* risky an approval given for it is spent in the same step.  A warrant is *)
(* redeemed with a nonce nobody redeemed before and is good for one use.   *)
(***************************************************************************)
EXTENDS Naturals, Sequences

CONSTANTS
  Permit,       \* what the issued grants allow: records [task, grant, call]
  Risky         \* those of them whose calls need an approval

VARIABLES
  asked,        \* the approval requests, in the order they were queued
  revoked,      \* revoked grants
  warrants,     \* warrants given and neither used nor dropped
  spent,        \* redeemed nonces
  ran           \* the warrants that ran their tool since the last reset

vars == <<asked, revoked, warrants, spent, ran>>

Init ==
  /\ asked = <<>> /\ revoked = {} /\ warrants = {} /\ spent = {} /\ ran = {}

\* Only for a call that a grant permits and that needs it.
Ask(p) ==
  /\ p \in Risky
  /\ asked' = Append(asked, [task |-> p.task, call |-> p.call, status |-> "pending"])
  /\ UNCHANGED <<revoked, warrants, spent, ran>>

Answer(i, verdict) ==
  /\ asked[i].status = "pending"
  /\ asked' = [asked EXCEPT ![i].status = verdict]
  /\ UNCHANGED <<revoked, warrants, spent, ran>>

Approved(i, p) ==
  /\ i \in DOMAIN asked
  /\ asked[i] = [task |-> p.task, call |-> p.call, status |-> "approved"]

\* A call that is denied after its approval was taken has wasted it.
Waste(i) ==
  /\ asked[i].status = "approved"
  /\ asked' = [asked EXCEPT ![i].status = "spent"]
  /\ UNCHANGED <<revoked, warrants, spent, ran>>

Fresh == [run : Nat, permit : Permit, bearer : BOOLEAN, approval : Nat, nonce : {0}]

\* The bearer of a credential that was issued before is not asked for an
\* approval again.
Warrant(w) ==
  /\ w \in Fresh
  /\ warrants' = warrants \cup {w}
  /\ w.permit.grant \notin revoked
  /\ IF w.permit \in Risky /\ ~w.bearer
     THEN /\ Approved(w.approval, w.permit)
          /\ asked' = [asked EXCEPT ![w.approval].status = "spent"]
     ELSE w.approval = 0 /\ UNCHANGED asked
  /\ UNCHANGED <<revoked, spent, ran>>

Redeem(w, n) ==
  /\ w.nonce = 0 /\ n \in Nat \ ({0} \cup spent)
  /\ spent' = spent \cup {n}
  /\ warrants' = (warrants \ {w}) \cup {[w EXCEPT !.nonce = n]}
  /\ UNCHANGED <<asked, revoked, ran>>

Use(w) ==
  /\ w.nonce # 0
  /\ ran' = ran \cup {w}
  /\ warrants' = warrants \ {w}
  /\ UNCHANGED <<asked, revoked, spent>>

Drop(w) ==
  /\ warrants' = warrants \ {w}
  /\ UNCHANGED <<asked, revoked, spent, ran>>

Revoke(g) ==
  /\ revoked' = revoked \cup {g}
  /\ UNCHANGED <<asked, warrants, spent, ran>>

\* A restart voids what was given and forgets what was asked and revoked.
Reset ==
  /\ asked' = [i \in DOMAIN asked |-> [asked[i] EXCEPT !.status = "lost"]]
  /\ revoked' = {} /\ warrants' = {} /\ spent' = {} /\ ran' = {}

Next ==
  \/ \E p \in Permit : Ask(p)
  \/ \E i \in DOMAIN asked : Answer(i, "approved") \/ Answer(i, "denied") \/ Waste(i)
  \/ \E w \in warrants' \ warrants : Warrant(w)
  \/ \E w \in warrants : Use(w) \/ Drop(w) \/ \E n \in spent' \ spent : Redeem(w, n)
  \/ \E g \in revoked' \ revoked : Revoke(g)
  \/ Reset

Spec == Init /\ [][Next]_vars

----------------------------------------------------------------------------
(* What follows for the executions *)

TypeOK ==
  /\ asked \in Seq([task : {p.task : p \in Permit}, call : {p.call : p \in Permit},
                    status : {"pending", "approved", "denied", "spent", "lost"}])
  /\ warrants \cup ran \subseteq
       [run : Nat, permit : Permit, bearer : BOOLEAN, approval : Nat, nonce : Nat]
  /\ spent \subseteq Nat

\* No nonce and no approval ever stands behind two executions, and a risky
\* execution has one of its own, given for its task and its call
\* (verify.go:27, approval.go:101).
OneUseEach ==
  /\ \A x, y \in ran : x.nonce = y.nonce => x = y
  /\ \A x, y \in ran : x.approval = y.approval /\ x.approval # 0 => x = y
  /\ \A x \in ran :
       x.permit \in Risky /\ ~x.bearer =>
         /\ x.approval \in DOMAIN asked
         /\ asked[x.approval] =
              [task |-> x.permit.task, call |-> x.permit.call, status |-> "spent"]
=============================================================================
