--------------------------- MODULE BrokerAuthority ---------------------------
(***************************************************************************)
(* The broker with its controls on implements Authority.  A handler holds  *)
(* a warrant from its last look at the ledger until its tool ran, and an   *)
(* approval it consumed counts as spent only once it holds the warrant:    *)
(* the handler's steps before that look change nothing Authority can see.  *)
(***************************************************************************)
EXTENDS BrokerProps

Covers(g, call) == g.tool = call[1] /\ g.op = call[2] /\ call[3] \in g.pattern

PermitOf(task, grant, c) == [task |-> task, grant |-> grant, call |-> CallKey(c)]

Permitted ==
  {p \in [task : TaskId, grant : GrantId, call : {CallKey(r) : r \in Request}] :
     \E g \in TaskReq[p.task] : g.id = p.grant /\ Covers(g, p.call)}

RiskyPermitted ==
  {p \in Permitted :
     \/ \E r \in Request : CallKey(r) = p.call /\ HighRiskOp(r)
     \/ \E g \in TaskReq[p.task] : g.id = p.grant /\ g.elevate}

----------------------------------------------------------------------------
(* The refinement mapping *)

Bearer(x) == x.path = "presented"

\* The permit a credential stands for in a call of its own or a later one.
CredPermit(x) ==
  IF Bearer(x) THEN PermitOf(x.cred.task, x.cred.grant, x.cred)
  ELSE PermitOf(x.req.task, x.cred.grant, x.req)

\* Until its credential is minted a handler knows the grant by its id.
FramePermit(f) ==
  IF f.gid # "" THEN PermitOf(f.req.task, f.gid, f.req) ELSE CredPermit(f)

WarrantOf(x, permit, nonce) ==
  [run |-> x.run, permit |-> permit, bearer |-> Bearer(x),
   approval |-> IF permit \in RiskyPermitted /\ ~Bearer(x) THEN x.elev ELSE 0,
   nonce |-> nonce]

FrameWarrant(f) ==
  WarrantOf(f, FramePermit(f), IF f.pc = "exec" THEN f.cred.nonce ELSE 0)

\* A rewritten credential is no warrant: its signature is about to fail.
Warranted(f) ==
  IF Bearer(f) THEN f.pc \in {"verify", "exec"} /\ f.cred.signed
  ELSE f.pc \in {"mint", "verify", "exec"}

\* Consumed by a handler that has not looked at the ledger yet.
InHand(i) ==
  \E s \in Slot : h[s].pc \in {"fetch", "recheck"} /\ FrameWarrant(h[s]).approval = i

AbstractStatus(i) ==
  IF InHand(i) THEN "approved"
  ELSE IF elev[i].status = "consumed" THEN "spent" ELSE elev[i].status

Asked ==
  [i \in DOMAIN elev |->
     [task |-> elev[i].task, call |-> elev[i].key, status |-> AbstractStatus(i)]]

Warrants == {FrameWarrant(h[s]) : s \in {t \in Slot : Warranted(h[t])}}

Ran == {WarrantOf(x, CredPermit(x), x.cred.nonce) : x \in {e \in execs : e.boot = boots}}

A == INSTANCE Authority WITH
  Permit <- Permitted, Risky <- RiskyPermitted, asked <- Asked, revoked <- ledger,
  warrants <- Warrants, spent <- used, ran <- Ran

\* Step by step the broker does only what Authority allows: a tool runs on a
\* warrant given at one instant, at which a grant of the task permitted the
\* call, no revocation of it was complete and, if it is risky, an approval of
\* that very call was there to be spent (service.go:180-298).
ImplementsAuthority == A!Spec
=============================================================================
