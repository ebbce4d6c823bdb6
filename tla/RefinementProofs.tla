-------------------------- MODULE RefinementProofs --------------------------
(***************************************************************************)
(* Proof that the broker with all its controls implements Authority: each  *)
(* step is one that Authority allows, or changes nothing it can see.       *)
(***************************************************************************)
EXTENDS CredentialProofs, BrokerAuthority

----------------------------------------------------------------------------
(* What a signature says *)

\* A credential whose signature is good was minted for a call that was made
\* and for the task of a stored grant.
Genuine(c) ==
  c.signed => c.nonce > 0 /\ c.task \in TaskId /\ \E r \in Request : CallKey(c) = CallKey(r)

FrameGenuine(f) == f.pc \in CredPc => Genuine(f.cred) /\ f.gid = ""

\* What handlers that need an approval know before they have it.
GenuineInv ==
  /\ \A c \in released : Genuine(c)
  /\ \A s \in Slot : FrameGenuine(h[s])
  /\ \A s \in Slot : h[s].pc = "elevate" => Risky(h[s].req, h[s].gid)

\* A credential that is minted for a known task is one the mapping knows.
LEMMA MintedGenuine ==
  ASSUME TypeOK, NEW g, g.task \in TaskId, NEW r \in Request
  PROVE  Genuine(Credential(g, r))
<1> DEFINE c == Credential(g, r)
<1>1. /\ c.nonce = minted + 1 /\ c.task = g.task /\ c.tool = r.tool /\ c.op = r.op
      /\ c.resource = r.resource
  BY DEF Credential
<1> HIDE DEF c
<1>2. c.nonce > 0
  BY <1>1 DEF TypeOK
<1>3. CallKey(c) = CallKey(r)
  BY <1>1 DEF CallKey
<1> QED
  BY <1>1, <1>2, <1>3 DEF Genuine, c

\* A call that is to wait for an approval is one that needs it.
LEMMA ElevatedIsRisky ==
  ASSUME TypeOK, IssuedInv, NEW s \in Slot, NEW count, On("least_privilege"),
         Decision(h[s].view, count, h[s].req, now).action = "require_elevation"
  PROVE  Risky(h[s].req, Decision(h[s].view, count, h[s].req, now).grant)
<1> DEFINE f == h[s]
           m == Match(f.view, f.req, now)
           d == Decision(f.view, count, f.req, now)
<1>1. d.grant = m.id /\ (m.elevate \/ HighRiskOp(f.req))
  BY DEF Decision, Evaluate, Denied, Elevate, Allowed
<1>2. Hits(f.view, f.req, now) # {}
  BY NotDenied
<1>3. f.view \in Seq(Grant)
  BY FrameParts
<1>4. PICK i \in DOMAIN f.view : m = f.view[i]
  BY <1>2, <1>3, MatchOutcome
<1>5. m.task = f.req.task /\ FromOperator(m)
  BY <1>4 DEF IssuedInv, FrameIssued
<1> HIDE DEF m, d
<1>6. PICK k \in TaskReq[f.req.task] : k.id = m.id /\ k.elevate = m.elevate
  BY <1>5, Zenon DEF FromOperator
<1> QED
  BY <1>1, <1>6, Zenon DEF Risky, d

\* A handler gives out credentials it minted only (service.go:276).
LEMMA GenuineServe ==
  ASSUME Controls = ControlName, TypeOK, IssuedInv, FreshInv, WithinInv, GenuineInv,
         NEW s \in Slot, Serve(s)
  PROVE  GenuineInv'
<1> DEFINE f == h[s]
<1>0. /\ ServesCreds(s) /\ FrameGenuine(f) /\ PathKnown(f) /\ FrameWithin(f)
      /\ \A q \in Slot \ {s} : h'[q] = h[q]
  BY ServeCreds DEF ServesCreds, WithinInv, FreshInv, GenuineInv
<1>1. ASSUME FrameGenuine(h'[s]), h'[s].pc = "elevate" => Risky(h'[s].req, h'[s].gid),
             \A c \in released' \ released : Genuine(c)
      PROVE  GenuineInv'
  BY <1>0, <1>1 DEF GenuineInv
<1>2. ASSUME CredKept, h'[s].pc \notin CredPc, h'[s].pc # "elevate" PROVE GenuineInv'
  BY <1>1, <1>2 DEF CredKept, FrameGenuine
<1>3. ASSUME CredKept, NEW from, Ends(s, from) PROVE GenuineInv'
  BY <1>2, <1>3, IdleRun DEF Ends, CredPc
<1>4. ASSUME CredKept, NEW from, NEW to, Moves(s, from, to), CredsKept(s), h'[s].gid = h[s].gid,
             from \in CredPc, to \in CredPc
      PROVE  GenuineInv'
  <2>1. FrameGenuine(h'[s])
    BY <1>0, <1>4 DEF Moves, CredsKept, FrameGenuine
  <2>2. h'[s].pc # "elevate"
    BY <1>4 DEF Moves, CredPc
  <2> QED
    BY <1>1, <1>4, <2>1, <2>2 DEF CredKept
<1>5. CASE ReadGrants(s) \/ CheckLedger(s) \/ ReadHistory(s)
  BY <1>2, <1>5, ReadGrantsEffect, CheckLedgerEffect, ReadHistoryEffect DEF Moves, CredPc
<1>6. CASE Decide(s)
  <2> DEFINE d == Decision(f.view, Counts(f), f.req, now)
  <2>1. /\ CredKept
        /\ \/ Ends(s, "decide") \/ Moves(s, "decide", "fetch")
           \/ /\ d.action = "require_elevation" /\ h'[s].gid = d.grant
              /\ Moves(s, "decide", "elevate")
    BY <1>6, DecideEffect
  <2>2. CASE d.action = "require_elevation" /\ h'[s].gid = d.grant
             /\ Moves(s, "decide", "elevate")
    <3>1. On("least_privilege")
      BY DEF On, ControlName
    <3>2. Risky(f.req, d.grant)
      BY <2>2, <3>1, ElevatedIsRisky
    <3> HIDE DEF d
    <3>3. Risky(h'[s].req, h'[s].gid) /\ FrameGenuine(h'[s])
      BY <2>2, <3>2 DEF Moves, FrameGenuine, CredPc
    <3> QED
      BY <1>1, <2>1, <3>3 DEF CredKept
  <2> HIDE DEF d
  <2> QED
    BY <1>2, <1>3, <2>1, <2>2 DEF Moves, CredPc
<1>7. CASE Enqueue(s) \/ RefuseElevation(s) \/ RefuseMint(s)
  BY <1>3, <1>7, EnqueueEffect, RefuseEffect
<1>8. CASE ConsumeElevation(s)
  BY <1>2, <1>8, ConsumeEffect DEF Moves, CredPc
<1>9. CASE FetchGrant(s)
  BY <1>2, <1>3, <1>9, FetchEffect DEF Moves, CredPc
<1>10. CASE Recheck(s)
  BY <1>2, <1>3, <1>10, RecheckEffect DEF Moves, CredPc
<1>11. CASE MintCredential(s)
  <2>1. /\ released' = released /\ Moves(s, "mint", "verify") /\ h'[s].gid = ""
        /\ h'[s].cred = Credential(f.got, f.req)
    BY <1>11, MintEffect
  <2>2. f.got.task \in TaskId /\ f.req \in Request
    BY <1>0, <2>1, FrameParts DEF Moves, FrameWithin, FrameOK
  <2>3. FrameGenuine(h'[s])
    BY <2>1, <2>2, MintedGenuine DEF FrameGenuine
  <2> QED
    BY <1>1, <2>1, <2>3 DEF Moves
<1>12. CASE CheckPresented(s)
  BY <1>3, <1>4, <1>12, CheckPresentedEffect DEF CredPc
<1>13. CASE AcceptCredential(s)
  <2>1. /\ released' = released /\ Moves(s, "verify", "exec") /\ CredsKept(s)
        /\ h'[s].gid = f.gid
    BY <1>13, AcceptEffect
  <2>2. FrameGenuine(h'[s])
    BY <1>0, <2>1 DEF Moves, CredsKept, FrameGenuine, CredPc
  <2> QED
    BY <1>1, <2>1, <2>2 DEF Moves
<1>14. CASE RefuseCredential(s) \/ RecordCall(s)
  <2>1. /\ Ends(s, "verify") \/ Ends(s, "record")
        /\ released' \subseteq released \cup {f.cred}
    BY <1>14, RefuseCredentialEffect, RecordEffect
  <2>2. Genuine(f.cred) /\ h'[s].pc = "idle"
    BY <1>0, <2>1, IdleRun DEF Ends, FrameGenuine, CredPc
  <2>3. FrameGenuine(h'[s])
    BY <2>2 DEF FrameGenuine, CredPc
  <2> QED
    BY <1>1, <2>1, <2>2, <2>3
<1>15. CASE Execute(s)
  BY <1>4, <1>15, ExecuteEffect DEF CredPc
<1>16. CASE LogExecution(s)
  BY <1>3, <1>4, <1>16, LogExecutionEffect DEF CredPc
<1> QED
  BY <1>5, <1>6, <1>7, <1>8, <1>9, <1>10, <1>11, <1>12, <1>13, <1>14, <1>15, <1>16 DEF Serve

\* No step makes a credential verify that the broker did not mint.
LEMMA GenuineStep ==
  ASSUME Controls = ControlName
  PROVE  TypeOK /\ IssuedInv /\ FreshInv /\ WithinInv /\ GenuineInv /\ [Next]_vars => GenuineInv'
<1> SUFFICES ASSUME TypeOK, IssuedInv, FreshInv, WithinInv, GenuineInv, [Next]_vars
             PROVE  GenuineInv'
  OBVIOUS
<1>1. ASSUME h' = h, CredKept PROVE GenuineInv'
  BY <1>1 DEF GenuineInv, CredKept
<1>2. ASSUME NEW s \in Slot, NewCall(s) \/ PresentMalformed(s) PROVE GenuineInv'
  <2>1. CASE PresentMalformed(s) \/ \E r \in Request : RefuseUnknownTask(s, r)
    BY <1>1, <2>1, TurnedAwayEffect
  <2>2. ASSUME NEW r \in Request, NEW e, Arrive(s, r, e) PROVE GenuineInv'
    <3>1. CredKept /\ Begins(s, "grants", "minted", r)
      BY <2>2, ArriveEffect
    <3>2. FrameGenuine(h'[s]) /\ h'[s].pc # "elevate"
      BY <3>1 DEF Begins, FrameGenuine, CredPc
    <3> QED
      BY <3>1, <3>2 DEF Begins, GenuineInv, CredKept
  <2>3. ASSUME NEW r \in Request, NEW c \in released, Present(s, r, c) PROVE GenuineInv'
    <3>1. /\ CredKept /\ Begins(s, "presented", "presented", r)
          /\ h'[s].cred \in Presented(c, r)
      BY <2>3, PresentEffect
    <3>2. h'[s].cred = c \/ ~h'[s].cred.signed
      BY <3>1 DEF Presented, TypeOK, CredentialType
    <3>3. Genuine(h'[s].cred)
      BY <3>2 DEF Genuine, GenuineInv
    <3>4. FrameGenuine(h'[s]) /\ h'[s].pc # "elevate"
      BY <3>1, <3>3 DEF Begins, FrameGenuine
    <3> QED
      BY <3>1, <3>4 DEF Begins, GenuineInv, CredKept
  <2> QED
    BY <1>2, <2>1, <2>2, <2>3 DEF NewCall
<1>3. ASSUME NEW r \in Request, MintOnly(r) PROVE GenuineInv'
  <2>1. PICK i \in TaskGrants(r.task) : released' = released \cup {Credential(grants[i], r)}
    BY <1>3 DEF MintOnly
  <2>2. grants[i].task \in TaskId
    BY DEF TaskGrants, TypeOK, Grant, GrantOf
  <2>3. Genuine(Credential(grants[i], r))
    BY <2>2, MintedGenuine
  <2> DEFINE c == Credential(grants[i], r)
  <2> HIDE DEF c
  <2>4. released' = released \cup {c} /\ h' = h /\ Genuine(c)
    BY <1>3, <2>1, <2>3 DEF MintOnly, c
  <2> QED
    BY <2>4 DEF GenuineInv
<1>4. CASE Operator
  <2>1. (\E r \in Request : MintOnly(r)) \/ (h' = h /\ CredKept)
    BY <1>4 DEF Operator, CreateTask, RevokeMark, RevokeCommit, Approve, DenyElevation,
                Resolve, credVars, CredKept
  <2> QED
    BY <1>1, <1>3, <2>1
<1>5. CASE Tick \/ UNCHANGED vars
  BY <1>1, <1>5 DEF Tick, vars, credVars, CredKept
<1>6. CASE Restart
  <2>1. h' = [s \in Slot |-> Idle] /\ released' \in LoadOrCreateKey
    BY <1>6 DEF Restart
  <2>2. \A c \in released' : Genuine(c)
    <3>1. \A k \in released : ~[k EXCEPT !.signed = FALSE].signed
      BY DEF TypeOK, CredentialType
    <3>2. CASE released' = {[k EXCEPT !.signed = FALSE] : k \in released}
      BY <3>1, <3>2 DEF Genuine
    <3> QED
      BY <2>1, <3>2 DEF LoadOrCreateKey, GenuineInv
  <2>3. \A s \in Slot : FrameGenuine(h'[s]) /\ h'[s].pc # "elevate"
    BY <2>1, IdleRun DEF FrameGenuine, CredPc
  <2> QED
    BY <2>2, <2>3 DEF GenuineInv
<1> QED
  BY <1>2, <1>4, <1>5, <1>6, GenuineServe DEF Next

\* No credential is around at the start.
LEMMA GenuineInit == Init => GenuineInv
BY IdleRun DEF Init, GenuineInv, FrameGenuine, CredPc

----------------------------------------------------------------------------
(* What Authority sees of a handler *)

\* Everything that is known of a state of the broker with its controls on.
Known ==
  /\ TypeOK /\ RunInv /\ IssuedInv /\ FreshInv /\ NonceInv /\ PaidParts /\ WithinInv
  /\ GenuineInv

\* A handler with the call, and from "elevate" on with a grant for it.
Granted(f) ==
  /\ f.path = "minted" /\ f.pc \in Working \cup {"elevate"} /\ f.req \in Request
  /\ f.req.task \in TaskId /\ Authorizes(f.req.task, Under(f), f.req)
  /\ f.pc \in {"verify", "exec"} => f.gid = ""

\* The same for the bearer of a credential with a good signature.
Entitled(f) ==
  /\ f.path = "presented" /\ f.pc \in {"verify", "exec"} /\ f.gid = ""
  /\ f.cred.task \in TaskId /\ Authorizes(f.cred.task, f.cred.grant, f.cred)
  /\ \E r \in Request : CallKey(f.cred) = CallKey(r)

\* It asks Authority for the permit and the approval of its own call.
MintedWarrant(f) ==
  [run |-> f.run, permit |-> PermitOf(f.req.task, Under(f), f.req), bearer |-> FALSE,
   approval |-> IF Risky(f.req, Under(f)) THEN f.elev ELSE 0,
   nonce |-> IF f.pc = "exec" THEN f.cred.nonce ELSE 0]

BearerWarrant(f) ==
  [run |-> f.run, permit |-> PermitOf(f.cred.task, f.cred.grant, f.cred), bearer |-> TRUE,
   approval |-> 0, nonce |-> IF f.pc = "exec" THEN f.cred.nonce ELSE 0]

\* What the operator authorized is a permit: only the call key counts.
LEMMA AuthorizedPermit ==
  ASSUME NEW t \in TaskId, NEW id, NEW c, NEW r \in Request, CallKey(c) = CallKey(r),
         Authorizes(t, id, c)
  PROVE  id \in GrantId /\ PermitOf(t, id, c) \in Permitted
<1> DEFINE p == PermitOf(t, id, c)
<1>1. PICK g \in TaskReq[t] : g.id = id /\ CanAttenuateTo(g, c)
  BY DEF Authorizes
<1>2. id \in GrantId
  <2>1. TaskReq[t] \subseteq Grant
    BY BrokerAssumption
  <2> QED
    BY <1>1, <2>1 DEF Grant, GrantOf
<1>3. p.task = t /\ p.grant = id /\ p.call = CallKey(c)
  BY DEF PermitOf
<1>4. Covers(g, CallKey(c))
  BY <1>1 DEF Covers, CanAttenuateTo, MatchesToolOp, CallKey
<1>5. p \in [task : TaskId, grant : GrantId, call : {CallKey(q) : q \in Request}]
  BY <1>2 DEF PermitOf
<1> HIDE DEF p
<1> QED
  BY <1>1, <1>2, <1>3, <1>4, <1>5 DEF Permitted, p

\* The key of a call says whether it is a risky one.
LEMMA SameKeySameRisk ==
  ASSUME NEW r, NEW q, CallKey(r) = CallKey(q)
  PROVE  HighRiskOp(r) <=> HighRiskOp(q)
<1>1. r.tool = q.tool /\ r.op = q.op /\ r.resource = q.resource
  BY DEF CallKey
<1> QED
  BY <1>1 DEF HighRiskOp

\* A handler past its recheck (service.go:270) shows the warrant of its grant.
LEMMA GrantedWarrant ==
  ASSUME NEW f, Granted(f)
  PROVE  /\ FrameWarrant(f) = MintedWarrant(f) /\ ~Bearer(f)
         /\ Under(f) \in GrantId
         /\ FrameWarrant(f).permit \in Permitted
         /\ FrameWarrant(f).permit \in RiskyPermitted <=> Risky(f.req, Under(f))
<1> DEFINE p == PermitOf(f.req.task, Under(f), f.req)
<1>1. Under(f) \in GrantId /\ p \in Permitted
  BY AuthorizedPermit DEF Granted
<1>2. ~Bearer(f)
  BY DEF Granted, Bearer
<1>3. FramePermit(f) = p
  <2>1. CASE f.pc \in {"verify", "exec"}
    BY <1>2, <2>1 DEF Granted, FramePermit, CredPermit, Under
  <2>2. CASE f.pc \notin {"verify", "exec"}
    BY <1>1, <2>2, BrokerAssumption DEF FramePermit, Under
  <2> QED
    BY <2>1, <2>2
<1>4. p.task = f.req.task /\ p.grant = Under(f) /\ p.call = CallKey(f.req)
  BY DEF PermitOf
<1> HIDE DEF p
<1>5. p \in RiskyPermitted <=> Risky(f.req, Under(f))
  <2>1. (\E r \in Request : CallKey(r) = p.call /\ HighRiskOp(r)) <=> HighRiskOp(f.req)
    BY <1>4, SameKeySameRisk DEF Granted
  <2> QED
    BY <1>1, <1>4, <2>1 DEF RiskyPermitted, Risky
<1>6. FrameWarrant(f) = MintedWarrant(f)
  <2>1. Bearer(f) = FALSE
    BY <1>2 DEF Bearer
  <2>2. (IF p \in RiskyPermitted /\ ~Bearer(f) THEN f.elev ELSE 0) =
          (IF Risky(f.req, Under(f)) THEN f.elev ELSE 0)
    BY <1>2, <1>5
  <2> QED
    BY <1>3, <2>1, <2>2, Zenon DEF FrameWarrant, WarrantOf, MintedWarrant, p
<1>7. FrameWarrant(f).permit = p
  BY <1>6 DEF MintedWarrant, p
<1> QED
  BY <1>1, <1>2, <1>5, <1>6, <1>7

\* A handler with a presented credential shows the warrant of its bearer.
LEMMA EntitledWarrant ==
  ASSUME NEW f, Entitled(f)
  PROVE  /\ FrameWarrant(f) = BearerWarrant(f) /\ Bearer(f)
         /\ FrameWarrant(f).permit \in Permitted
         /\ FrameWarrant(f).permit.grant = f.cred.grant
<1> DEFINE p == PermitOf(f.cred.task, f.cred.grant, f.cred)
<1>1. p \in Permitted
  BY AuthorizedPermit DEF Entitled
<1>2. Bearer(f)
  BY DEF Entitled, Bearer
<1>3. FramePermit(f) = p
  BY <1>2 DEF Entitled, FramePermit, CredPermit
<1> HIDE DEF p
<1>4. FrameWarrant(f) = BearerWarrant(f)
  BY <1>2, <1>3 DEF FrameWarrant, WarrantOf, BearerWarrant, p
<1>5. FrameWarrant(f).permit = p /\ p.grant = f.cred.grant
  BY <1>4 DEF BearerWarrant, p, PermitOf
<1> QED
  BY <1>1, <1>2, <1>4, <1>5

\* The handlers of a known state are such ones.
LEMMA HandlersGranted ==
  ASSUME Known, NEW s \in Slot
  PROVE  /\ h[s].path = "minted" /\ h[s].pc \in Working \cup {"elevate"} => Granted(h[s])
         /\ h[s].path # "minted" /\ h[s].pc \in {"verify", "exec"} /\ h[s].cred.signed
              => Entitled(h[s])
         /\ h[s].pc \in EarlyPc => h[s].path = "minted"
<1> DEFINE f == h[s]
<1>1. /\ FrameWithin(f) /\ FrameGenuine(f) /\ FrameOK(f) /\ f \in Frame /\ PathKnown(f)
      /\ FrameIssued(f)
  BY FrameParts DEF Known, WithinInv, GenuineInv, FreshInv, IssuedInv
<1> HIDE DEF f
<1>2. ASSUME f.path = "minted", f.pc \in Working \cup {"elevate"} PROVE Granted(f)
  <2>1. f.req \in Request /\ f.req.task \in TaskId
    BY <1>1, <1>2 DEF FrameOK, FrameIssued, Working
  <2>2. CASE f.pc \in {"verify", "exec"}
    BY <1>1, <1>2, <2>1, <2>2 DEF Granted, FrameWithin, FrameGenuine, CredPc, Under
  <2>3. CASE f.pc \notin {"verify", "exec"}
    BY <1>1, <1>2, <2>1, <2>3 DEF Granted, FrameWithin, Under, Working
  <2> QED
    BY <2>2, <2>3
<1>3. ASSUME f.path # "minted", f.pc \in {"verify", "exec"}, f.cred.signed PROVE Entitled(f)
  <2>1. f.pc \in CredPc /\ f.pc # "idle"
    BY <1>3 DEF CredPc
  <2>2. f.path = "presented"
    BY <1>1, <1>3, <2>1 DEF FrameOK, Frame
  <2> QED
    BY <1>1, <1>3, <2>1, <2>2 DEF Entitled, FrameWithin, FrameGenuine, Genuine
<1> QED
  BY <1>1, <1>2, <1>3 DEF f, PathKnown

----------------------------------------------------------------------------
(* How the mapped state changes *)

Shown(f) == IF Warranted(f) THEN {FrameWarrant(f)} ELSE {}

Hand(f, i) == f.pc \in {"fetch", "recheck"} /\ FrameWarrant(f).approval = i

OthersStay(s) == \A q \in Slot \ {s} : h'[q] = h[q]

\* Before the approval is taken and after the tool ran nothing is seen.
LEMMA Hidden ==
  ASSUME NEW f, f.pc \notin Working
  PROVE  Shown(f) = {} /\ \A i : ~Hand(f, i)
BY DEF Shown, Warranted, Hand, Working

\* When one handler moves, the warrants change by what it shows before and after.
LEMMA WarrantsMove ==
  ASSUME Known, NEW s \in Slot, OthersStay(s)
  PROVE  Warrants' = (Warrants \ Shown(h[s])) \cup Shown(h'[s]) /\ Shown(h[s]) \subseteq Warrants
<1> DEFINE rest == {FrameWarrant(h[q]) : q \in {t \in Slot \ {s} : Warranted(h[t])}}
<1>1. \A f : FrameWarrant(f).run = f.run
  BY DEF FrameWarrant, WarrantOf
<1>2. Warranted(h[s]) => h[s].pc # "idle"
  BY DEF Warranted
<1>3. \A q \in Slot \ {s} : Warranted(h[s]) => FrameWarrant(h[q]) # FrameWarrant(h[s])
  BY <1>1, <1>2 DEF Known, RunInv, FramesRun
<1>4. Warrants = rest \cup Shown(h[s])
  BY DEF Warrants, Shown
<1>5. Shown(h[s]) \cap rest = {}
  BY <1>3 DEF Shown
<1>6. Warrants' = rest \cup Shown(h'[s])
  BY DEF Warrants, Shown, OthersStay
<1> HIDE DEF rest
<1> QED
  BY <1>4, <1>5, <1>6

\* A call that has shown no warrant has none: runs are not shared.
LEMMA NewWarrant ==
  ASSUME Known, NEW s \in Slot, ~Warranted(h[s]), h[s].pc # "idle", NEW w, w.run = h[s].run
  PROVE  w \notin Warrants
<1>1. \A f : FrameWarrant(f).run = f.run
  BY DEF FrameWarrant, WarrantOf
<1> QED
  BY <1>1 DEF Warrants, Known, RunInv, FramesRun

\* An approval in hand is consumed, was given for the call, and is in no
\* other hands.
LEMMA HeldApproval ==
  ASSUME Known, NEW s \in Slot, NEW i \in DOMAIN elev, Hand(h[s], i)
  PROVE  /\ Risky(h[s].req, h[s].gid) /\ h[s].elev = i /\ elev[i].status = "consumed"
         /\ elev[i].task = h[s].req.task /\ elev[i].key = CallKey(h[s].req)
         /\ \A q \in Slot \ {s} : ~Hand(h[q], i)
<1>1. i # 0
  <2>1. elev \in Seq(ElevationType)
    BY DEF Known, TypeOK
  <2> QED
    BY <2>1
<1>2. ASSUME NEW q \in Slot, Hand(h[q], i)
      PROVE  Backed(h[q]) /\ h[q].elev = i /\ Risky(h[q].req, h[q].gid)
  <2>1. h[q].pc \in EarlyPc /\ h[q].pc \in Working /\ h[q].pc \notin {"verify", "exec"}
    BY <1>2 DEF Hand, EarlyPc, Working
  <2>2. h[q].path = "minted" /\ Granted(h[q])
    BY <2>1, HandlersGranted
  <2>3. MintedWarrant(h[q]).approval = i
    BY <1>2, <2>2, GrantedWarrant DEF Hand
  <2> QED
    BY <1>1, <2>1, <2>2, <2>3 DEF MintedWarrant, Backed, Under
<1>3. Given(h[s].elev, h[s].req, {"consumed"})
  BY <1>2 DEF Known, PaidParts
<1>4. \A q \in Slot \ {s} : ~Hand(h[q], i)
  BY <1>2 DEF Known, PaidParts
<1> QED
  BY <1>2, <1>3, <1>4 DEF Given

\* An approval is in hand if some handler has it.
LEMMA InHandIs == \A i : InHand(i) <=> \E s \in Slot : Hand(h[s], i)
BY DEF InHand, Hand

\* Requests look the same if they and the approvals in hand do.
LEMMA AskedKept ==
  ASSUME elev' = elev, \A i \in DOMAIN elev : InHand(i)' <=> InHand(i)
  PROVE  Asked' = Asked
BY DEF Asked, AbstractStatus

\* What ran looks the same if the executions and the boot do.
LEMMA RanKept == ASSUME execs' = execs, boots' = boots PROVE Ran' = Ran
BY DEF Ran

\* A step of one handler that shows and holds what it did before.
LEMMA Unseen ==
  ASSUME Known, NEW s \in Slot, OthersStay(s), Shown(h'[s]) = Shown(h[s]),
         \A i \in DOMAIN elev : Hand(h'[s], i) <=> Hand(h[s], i),
         elev' = elev, ledger' = ledger, used' = used, execs' = execs, boots' = boots
  PROVE  UNCHANGED A!vars
<1>1. Warrants' = Warrants
  BY WarrantsMove
<1>2. \A i \in DOMAIN elev : InHand(i)' <=> InHand(i)
  BY DEF InHand, Hand, OthersStay
<1>3. Asked' = Asked /\ Ran' = Ran
  BY <1>2, AskedKept, RanKept
<1> QED
  BY <1>1, <1>3 DEF A!vars

\* One that has nothing to show, before and after.
LEMMA UnseenHidden ==
  ASSUME Known, NEW s \in Slot, OthersStay(s), h[s].pc \notin Working,
         h'[s].pc \notin Working, AuthKept, used' = used, execs' = execs, boots' = boots
  PROVE  UNCHANGED A!vars
<1>1. Shown(h'[s]) = Shown(h[s]) /\ \A i \in DOMAIN elev : Hand(h'[s], i) <=> Hand(h[s], i)
  BY Hidden
<1> QED
  BY <1>1, Unseen DEF AuthKept

\* A step that changes nothing the mapping reads is a stutter.
LEMMA UnseenAll ==
  ASSUME h' = h, elev' = elev, ledger' = ledger, used' = used, execs' = execs, boots' = boots
  PROVE  UNCHANGED A!vars
<1>1. Warrants' = Warrants /\ \A i \in DOMAIN elev : InHand(i)' <=> InHand(i)
  BY DEF Warrants, InHand
<1>2. Asked' = Asked /\ Ran' = Ran
  BY <1>1, AskedKept, RanKept
<1> QED
  BY <1>1, <1>2 DEF A!vars

----------------------------------------------------------------------------
(* Each step is one of Authority's *)

\* The decision (service.go:227) is not seen: no warrant is given before the
\* recheck.
LEMMA DecideSeen ==
  ASSUME Controls = ControlName, Known, NEW s \in Slot, Decide(s)
  PROVE  UNCHANGED A!vars
<1> DEFINE f == h[s]
           d == Decision(f.view, Counts(f), f.req, now)
<1>0. TypeOK /\ IssuedInv
  BY DEF Known
<1>1. /\ AuthKept /\ CredKept /\ EnvKept /\ execs' = execs
      /\ \/ Ends(s, "decide") \/ Moves(s, "decide", "elevate")
         \/ d.action = "allow" /\ Moves(s, "decide", "fetch") /\ h'[s].gid = d.grant
  BY <1>0, DecideEffect
<1>2. OthersStay(s) /\ f.pc \notin Working
  BY <1>1 DEF Ends, Moves, OthersStay, Working
<1>3. CASE h'[s].pc \notin Working
  BY <1>1, <1>2, <1>3, UnseenHidden DEF CredKept, EnvKept
<1>4. CASE d.action = "allow" /\ Moves(s, "decide", "fetch") /\ h'[s].gid = d.grant
  <2>1. f.pc = "decide" /\ f.pc \in EarlyPc
    BY <1>4 DEF Moves, EarlyPc
  <2>2. f.path = "minted" /\ f.req.task \in TaskId
    BY <2>1, HandlersGranted DEF Known, IssuedInv, FrameIssued
  <2>3. f.req \in Request
    BY <1>0, <2>1, FrameParts DEF FrameOK
  <2>4. Confining /\ On("elevation")
    BY DEF Confining, On, ControlName
  <2>5. Authorizes(f.req.task, d.grant, f.req)
    BY <1>0, <1>4, <2>4, DecidedWithin
  <2>6. ~Risky(f.req, d.grant)
    BY <1>0, <1>4, <2>2, <2>4, DecidedIsPlain
  <2> HIDE DEF d
  <2>7. h'[s].pc = "fetch" /\ h'[s].path = f.path /\ h'[s].req = f.req /\ h'[s].gid = d.grant
    BY <1>4 DEF Moves
  <2>8. Under(h'[s]) = d.grant
    BY <2>7 DEF Under
  <2>9. Granted(h'[s])
    BY <2>2, <2>3, <2>5, <2>7, <2>8 DEF Granted, Working
  <2>10. FrameWarrant(h'[s]).approval = 0
    BY <2>6, <2>7, <2>8, <2>9, GrantedWarrant DEF MintedWarrant
  <2>11. \A i \in DOMAIN elev : ~Hand(h'[s], i)
    <3>1. elev \in Seq(ElevationType)
      BY <1>0 DEF TypeOK
    <3> QED
      BY <2>10, <3>1 DEF Hand
  <2>12. Shown(h'[s]) = {} /\ Shown(f) = {} /\ \A i : ~Hand(f, i)
    BY <1>2, <2>2, <2>7, Hidden DEF Shown, Warranted, Bearer
  <2> QED
    BY <1>1, <1>2, <2>11, <2>12, Unseen DEF AuthKept, CredKept, EnvKept
<1>5. CASE Ends(s, "decide") \/ Moves(s, "decide", "elevate")
  BY <1>3, <1>5, IdleRun DEF Ends, Moves, Working
<1> QED
  BY <1>1, <1>4, <1>5

\* Queueing a request (service.go:249) asks for an approval.
LEMMA EnqueueSeen ==
  ASSUME Known, NEW s \in Slot, Enqueue(s)
  PROVE  \E p \in RiskyPermitted : A!Ask(p)
<1> DEFINE f == h[s]
           p == FrameWarrant(f).permit
           e == [task |-> f.req.task, key |-> CallKey(f.req), status |-> "pending"]
<1>0. TypeOK /\ GenuineInv
  BY DEF Known
<1>1. /\ ledger' = ledger /\ used' = used /\ boots' = boots /\ execs' = execs
      /\ Ends(s, "elevate") /\ elev' = Append(elev, e)
  BY <1>0, EnqueueEffect DEF CredKept, EnvKept
<1>2. f.pc = "elevate" /\ f.pc \notin Working /\ h'[s].pc \notin Working /\ OthersStay(s)
  BY <1>1, IdleRun DEF Ends, OthersStay, Working
<1>3. Granted(f) /\ Risky(f.req, Under(f))
  <2>1. f.pc \in EarlyPc /\ Under(f) = f.gid
    BY <1>2 DEF EarlyPc, Under
  <2> QED
    BY <1>0, <1>2, <2>1, HandlersGranted DEF GenuineInv
<1>4. p \in RiskyPermitted /\ p.task = f.req.task /\ p.call = CallKey(f.req)
  BY <1>3, GrantedWarrant DEF MintedWarrant, PermitOf
<1>5. Warrants' = Warrants
  BY <1>2, Hidden, WarrantsMove
<1>6. Ran' = Ran
  BY <1>1, RanKept
<1>7. \A i : InHand(i)' <=> InHand(i)
  <2>1. \A i : ~Hand(f, i) /\ ~Hand(h'[s], i)
    BY <1>2, Hidden
  <2> QED
    BY <1>2, <2>1 DEF InHand, Hand, OthersStay
<1>8. /\ elev \in Seq(ElevationType) /\ e \in ElevationType /\ Len(elev) \in Nat
      /\ DOMAIN elev = 1 .. Len(elev)
  <2>1. elev \in Seq(ElevationType)
    BY <1>0 DEF TypeOK
  <2>2. f.req \in Request /\ f.req.task \in TaskId
    BY <1>3 DEF Granted
  <2>3. f.req \in RequestType
    BY <2>2, BrokerAssumption
  <2>4. e \in ElevationType
    BY <2>2, <2>3 DEF ElevationType, TaskRef, CallKey, RequestType
  <2> QED
    BY <2>1, <2>4
<1>9. ~InHand(Len(elev) + 1)
  <2> SUFFICES ASSUME NEW q \in Slot, Hand(h[q], Len(elev) + 1) PROVE FALSE
    BY InHandIs
  <2>1. h[q].pc \in EarlyPc /\ h[q].pc \in Working
    BY DEF Hand, EarlyPc, Working
  <2>2. Granted(h[q])
    BY <2>1, HandlersGranted
  <2>3. h[q].elev = Len(elev) + 1 \/ Len(elev) + 1 = 0
    BY <2>2, GrantedWarrant DEF MintedWarrant, Hand
  <2>4. h[q].elev # 0 => h[q].elev \in DOMAIN elev
    BY DEF Known, PaidParts, FrameLinked
  <2> QED
    BY <1>8, <2>3, <2>4
<1> HIDE DEF e, p
<1>10. /\ DOMAIN elev' = 1 .. Len(elev) + 1 /\ elev'[Len(elev) + 1] = e
       /\ \A i \in DOMAIN elev : elev'[i] = elev[i]
  BY <1>1, <1>8, AppendProperties
<1>11. Asked' = Append(Asked, [task |-> p.task, call |-> p.call, status |-> "pending"])
  <2> DEFINE n == Len(elev)
             a == [task |-> p.task, call |-> p.call, status |-> "pending"]
  <2>1. \A i \in DOMAIN elev : AbstractStatus(i)' = AbstractStatus(i)
    BY <1>7, <1>10 DEF AbstractStatus
  <2>2. ASSUME NEW i, i = n + 1 PROVE AbstractStatus(i)' = "pending"
    <3>1. e.status = "pending" /\ elev'[i] = e /\ ~InHand(i)'
      BY <1>7, <1>9, <1>10, <2>2 DEF e
    <3> QED
      BY <3>1 DEF AbstractStatus
  <2>3. e.task = p.task /\ e.key = p.call
    BY <1>4 DEF e
  <2>4. \A i \in 1 .. n : Asked'[i] = Asked[i] /\ i \in DOMAIN elev /\ i \in DOMAIN elev'
    BY <1>8, <1>10, <2>1 DEF Asked
  <2>5. Asked'[n + 1] = a
    BY <1>8, <1>10, <2>2, <2>3 DEF Asked
  <2>6. Len(Asked) = n /\ DOMAIN Asked = 1 .. n
    BY <1>8 DEF Asked
  <2>7. DOMAIN Asked' = 1 .. n + 1
    BY <1>8, <1>10 DEF Asked
  <2>8. Asked' = [i \in 1 .. n + 1 |-> Asked'[i]]
    BY <2>7 DEF Asked
  <2>9. \A i \in 1 .. n + 1 : Asked'[i] = IF i \in 1 .. n THEN Asked[i] ELSE a
    BY <1>8, <2>4, <2>5
  <2> HIDE DEF a, n
  <2>10. Asked' = [i \in 1 .. n + 1 |-> IF i \in 1 .. n THEN Asked[i] ELSE a]
    BY <2>8, <2>9
  <2> QED
    BY <2>10, <2>6, <1>8 DEF n, a
<1> QED
  BY <1>1, <1>4, <1>5, <1>6, <1>11 DEF A!Ask

\* Consuming an approval (service.go:253) is not seen: it goes from the queue to
\* the handler's hands.
LEMMA ConsumeSeen ==
  ASSUME Known, NEW s \in Slot, ConsumeElevation(s)
  PROVE  UNCHANGED A!vars
<1> DEFINE f == h[s]
<1>0. TypeOK /\ GenuineInv /\ elev \in Seq(ElevationType)
  BY DEF Known, TypeOK
<1>1. /\ ledger' = ledger /\ used' = used /\ boots' = boots /\ execs' = execs
      /\ Moves(s, "elevate", "fetch") /\ h'[s].gid = f.gid /\ f.elev # 0
      /\ Consumable(f.elev, f.req) /\ elev' = [elev EXCEPT ![f.elev].status = "consumed"]
  BY <1>0, ConsumeEffect DEF CredKept, EnvKept
<1>2. /\ f.pc = "elevate" /\ h'[s].pc = "fetch" /\ h'[s].path = f.path /\ h'[s].req = f.req
      /\ h'[s].elev = f.elev /\ OthersStay(s)
  BY <1>1 DEF Moves, OthersStay
<1>3. f.elev \in DOMAIN elev
  BY <1>1 DEF Known, PaidParts, FrameLinked
<1>4. Granted(f) /\ Risky(f.req, Under(f)) /\ Under(f) = f.gid
  <2>1. f.pc \in EarlyPc /\ Under(f) = f.gid
    BY <1>2 DEF EarlyPc, Under
  <2> QED
    BY <1>0, <1>2, <2>1, HandlersGranted DEF GenuineInv
<1>5. Granted(h'[s]) /\ Under(h'[s]) = f.gid
  BY <1>1, <1>2, <1>4 DEF Granted, Under, Working
<1>6. FrameWarrant(h'[s]).approval = f.elev
  BY <1>2, <1>4, <1>5, GrantedWarrant DEF MintedWarrant
<1>7. \A i : ~Hand(f, i) /\ (Hand(h'[s], i) <=> i = f.elev)
  BY <1>2, <1>6, Hidden DEF Hand, Working
<1>8. Shown(f) = {} /\ Shown(h'[s]) = {}
  BY <1>2, <1>4, GrantedWarrant DEF Shown, Warranted, Bearer
<1>9. Warrants' = Warrants /\ Ran' = Ran
  BY <1>1, <1>2, <1>8, WarrantsMove, RanKept
<1>10. elev[f.elev].status = "approved"
  BY <1>1 DEF Consumable
<1>11. \A i : InHand(i)' <=> InHand(i) \/ i = f.elev
  BY <1>2, <1>7 DEF InHand, Hand, OthersStay
<1>12. ~InHand(f.elev)
  BY <1>3, <1>10, HeldApproval, InHandIs
<1>13. /\ DOMAIN elev' = DOMAIN elev
       /\ \A i \in DOMAIN elev : elev'[i].task = elev[i].task /\ elev'[i].key = elev[i].key
       /\ \A i \in DOMAIN elev : i # f.elev => elev'[i] = elev[i]
       /\ elev'[f.elev].status = "consumed"
  <2>1. \A i \in DOMAIN elev : elev[i] \in ElevationType
    BY <1>0
  <2> QED
    BY <1>1, <1>3, <2>1 DEF ElevationType
<1>14. \A i \in DOMAIN elev : AbstractStatus(i)' = AbstractStatus(i)
  BY <1>10, <1>11, <1>12, <1>13 DEF AbstractStatus
<1>15. Asked' = Asked
  BY <1>13, <1>14 DEF Asked
<1> QED
  BY <1>1, <1>9, <1>15 DEF A!vars

\* A handler that lets go of its approval without a warrant.
LEMMA LetGo ==
  ASSUME Known, NEW s \in Slot, NEW i \in DOMAIN elev, Hand(h[s], i), OthersStay(s),
         ~Hand(h'[s], i), \A k \in DOMAIN elev : k # i => ~Hand(h'[s], k), elev' = elev
  PROVE  /\ Asked[i] = [task |-> h[s].req.task, call |-> CallKey(h[s].req),
                        status |-> "approved"]
         /\ Asked' = [Asked EXCEPT ![i].status = "spent"]
<1>1. /\ elev[i].status = "consumed" /\ elev[i].task = h[s].req.task
      /\ elev[i].key = CallKey(h[s].req) /\ \A q \in Slot \ {s} : ~Hand(h[q], i)
  BY HeldApproval
<1>2. InHand(i) /\ ~InHand(i)'
  <2>1. ~InHand(i)'
    BY <1>1 DEF InHand, Hand, OthersStay
  <2> QED
    BY <2>1, InHandIs
<1>3. \A k \in DOMAIN elev : k # i => (InHand(k)' <=> InHand(k))
  <2>1. \A k : Hand(h[s], k) => k = i
    BY DEF Hand
  <2> QED
    BY <2>1 DEF InHand, Hand, OthersStay
<1>4. AbstractStatus(i) = "approved" /\ AbstractStatus(i)' = "spent"
  BY <1>1, <1>2 DEF AbstractStatus
<1>5. \A k \in DOMAIN elev : k # i => AbstractStatus(k)' = AbstractStatus(k)
  BY <1>3 DEF AbstractStatus
<1> QED
  BY <1>1, <1>4, <1>5 DEF Asked

\* A handler that had an approval in hand and returns has wasted it.
LEMMA ReturnsBefore ==
  ASSUME Known, NEW s \in Slot, NEW from \in {"fetch", "recheck"}, Ends(s, from),
         AuthKept, used' = used, execs' = execs, boots' = boots
  PROVE  A!Next \/ UNCHANGED A!vars
<1>1. /\ h[s].pc = from /\ h'[s].pc = "idle" /\ OthersStay(s)
  BY IdleRun DEF Ends, OthersStay
<1>2. Shown(h'[s]) = {} /\ \A i : ~Hand(h'[s], i)
  BY <1>1, Hidden DEF Working
<1>3. Shown(h[s]) = {}
  <2>1. h[s].path = "minted"
    BY <1>1, HandlersGranted DEF EarlyPc
  <2> QED
    BY <1>1, <2>1 DEF Shown, Warranted, Bearer
<1>4. CASE \A i \in DOMAIN elev : ~Hand(h[s], i)
  BY <1>1, <1>2, <1>3, <1>4, Unseen DEF AuthKept
<1>5. ASSUME NEW i \in DOMAIN elev, Hand(h[s], i) PROVE A!Next
  <2>0. elev' = elev
    BY DEF AuthKept
  <2>1. /\ Asked[i] = [task |-> h[s].req.task, call |-> CallKey(h[s].req),
                       status |-> "approved"]
        /\ Asked' = [Asked EXCEPT ![i].status = "spent"]
    BY <1>1, <1>2, <1>5, <2>0, LetGo
  <2>2. Warrants' = Warrants /\ Ran' = Ran
    BY <1>1, <1>2, <1>3, WarrantsMove, RanKept
  <2>3. A!Waste(i)
    BY <2>1, <2>2 DEF A!Waste, AuthKept
  <2>4. i \in DOMAIN Asked
    BY DEF Asked
  <2> QED
    BY <2>3, <2>4 DEF A!Next
<1> QED
  BY <1>4, <1>5

\* Reading the grant again is not seen, or gives up an approval in hand.
LEMMA FetchSeen ==
  ASSUME Known, NEW s \in Slot, FetchGrant(s)
  PROVE  A!Next \/ UNCHANGED A!vars
<1> DEFINE f == h[s]
<1>1. /\ AuthKept /\ CredKept /\ EnvKept /\ execs' = execs
      /\ \/ Ends(s, "fetch")
         \/ Moves(s, "fetch", "recheck") /\ h'[s].gid = f.gid /\ h'[s].cred = f.cred
  BY FetchEffect DEF Known
<1>2. CASE Ends(s, "fetch")
  BY <1>1, <1>2, ReturnsBefore DEF CredKept, EnvKept
<1>3. CASE Moves(s, "fetch", "recheck") /\ h'[s].gid = f.gid /\ h'[s].cred = f.cred
  <2>1. /\ f.pc = "fetch" /\ h'[s].pc = "recheck" /\ h'[s].path = f.path
        /\ h'[s].req = f.req /\ h'[s].run = f.run /\ h'[s].elev = f.elev /\ OthersStay(s)
    BY <1>3 DEF Moves, OthersStay
  <2>2. f.path = "minted" /\ Granted(f)
    BY <2>1, HandlersGranted DEF EarlyPc, Working
  <2>3. Under(f) = f.gid /\ Under(h'[s]) = f.gid
    BY <1>3, <2>1 DEF Under
  <2>4. Granted(h'[s])
    BY <1>3, <2>1, <2>2, <2>3 DEF Granted, Working
  <2>5. MintedWarrant(h'[s]).approval = MintedWarrant(f).approval
    BY <2>1, <2>3 DEF MintedWarrant
  <2>6. FrameWarrant(h'[s]).approval = FrameWarrant(f).approval
    BY <2>2, <2>4, <2>5, GrantedWarrant
  <2>7. Shown(f) = {} /\ Shown(h'[s]) = {}
    BY <2>1, <2>2 DEF Shown, Warranted, Bearer
  <2>8. \A i : Hand(f, i) <=> Hand(h'[s], i)
    BY <2>1, <2>6 DEF Hand
  <2> QED
    BY <1>1, <2>1, <2>7, <2>8, Unseen DEF AuthKept, CredKept, EnvKept
<1> QED
  BY <1>1, <1>2, <1>3

\* The warrant of a handler that has none yet.
LEMMA WarrantAppears ==
  ASSUME Known, NEW s \in Slot, OthersStay(s), h[s].pc # "idle", h'[s].run = h[s].run,
         ~Warranted(h[s]), Warranted(h'[s])
  PROVE  LET w == FrameWarrant(h'[s])
         IN  Warrants' = Warrants \cup {w} /\ w \in Warrants' \ Warrants /\ w.run = h[s].run
<1> DEFINE w == FrameWarrant(h'[s])
<1>1. w.run = h[s].run
  BY DEF FrameWarrant, WarrantOf
<1>2. Shown(h[s]) = {} /\ Shown(h'[s]) = {w}
  BY DEF Shown
<1> HIDE DEF w
<1>3. w \notin Warrants
  BY <1>1, NewWarrant
<1>4. Warrants' = (Warrants \ Shown(h[s])) \cup Shown(h'[s])
  BY WarrantsMove
<1> QED
  BY <1>1, <1>2, <1>3, <1>4 DEF w

\* The ledger's second answer (service.go:270) gives the warrant or wastes the
\* approval.
LEMMA RecheckSeen ==
  ASSUME Controls = ControlName, Known, NEW s \in Slot, Recheck(s)
  PROVE  A!Next \/ UNCHANGED A!vars
<1> DEFINE f == h[s]
           w == FrameWarrant(h'[s])
<1>1. /\ AuthKept /\ CredKept /\ EnvKept /\ execs' = execs
      /\ \/ Ends(s, "recheck")
         \/ ~RevokedNow(f.got) /\ Moves(s, "recheck", "mint") /\ h'[s].gid = f.gid
  BY RecheckEffect DEF Known
<1>2. CASE Ends(s, "recheck")
  BY <1>1, <1>2, ReturnsBefore DEF CredKept, EnvKept
<1>3. CASE ~RevokedNow(f.got) /\ Moves(s, "recheck", "mint") /\ h'[s].gid = f.gid
  <2>1. /\ f.pc = "recheck" /\ h'[s].pc = "mint" /\ h'[s].path = f.path
        /\ h'[s].req = f.req /\ h'[s].run = f.run /\ h'[s].elev = f.elev /\ OthersStay(s)
    BY <1>3 DEF Moves, OthersStay
  <2>2. f.path = "minted" /\ Granted(f)
    BY <2>1, HandlersGranted DEF EarlyPc, Working
  <2>3. Under(f) = f.gid /\ Under(h'[s]) = f.gid
    BY <1>3, <2>1 DEF Under
  <2>4. Granted(h'[s])
    BY <1>3, <2>1, <2>2, <2>3 DEF Granted, Working
  <2>5. /\ w = [run |-> f.run, permit |-> PermitOf(f.req.task, f.gid, f.req), bearer |-> FALSE,
                approval |-> IF Risky(f.req, f.gid) THEN f.elev ELSE 0, nonce |-> 0]
        /\ w.permit \in Permitted
        /\ w.permit \in RiskyPermitted <=> Risky(f.req, f.gid)
    <3>1. /\ w = MintedWarrant(h'[s]) /\ w.permit \in Permitted
          /\ w.permit \in RiskyPermitted <=> Risky(h'[s].req, Under(h'[s]))
      BY <2>4, GrantedWarrant
    <3>2. (IF h'[s].pc = "exec" THEN h'[s].cred.nonce ELSE 0) = 0
      BY <2>1
    <3> QED
      BY <2>1, <2>3, <3>1, <3>2 DEF MintedWarrant
  <2>6. ~Warranted(f) /\ Warranted(h'[s]) /\ f.pc # "idle"
    BY <2>1, <2>2 DEF Warranted, Bearer
  <2>7. Warrants' = Warrants \cup {w} /\ w \in Warrants' \ Warrants
    BY <2>1, <2>6, WarrantAppears
  <2>8. f.gid \notin ledger
    <3>1. f.got.id = f.gid
      BY <2>1 DEF Known, WithinInv, FrameWithin
    <3> QED
      BY <1>3, <3>1 DEF RevokedNow, On, ControlName
  <2>9. f.run \in Nat /\ f.elev \in Nat
    BY FrameParts DEF Known, Frame
  <2> HIDE DEF w
  <2>10. /\ w.bearer = FALSE /\ w.nonce = 0 /\ w.run \in Nat /\ w.approval \in Nat
         /\ w.permit.grant = f.gid /\ w.permit.task = f.req.task
         /\ w.permit.call = CallKey(f.req)
         /\ w = [run |-> w.run, permit |-> w.permit, bearer |-> FALSE,
                 approval |-> w.approval, nonce |-> 0]
    BY <2>5, <2>9 DEF PermitOf
  <2>11. w \in A!Fresh
    BY <2>5, <2>10 DEF A!Fresh
  <2>12. Ran' = Ran /\ elev' = elev /\ ledger' = ledger /\ used' = used
    BY <1>1, RanKept DEF AuthKept, CredKept, EnvKept
  <2>13. \A k : ~Hand(h'[s], k)
    BY <2>1 DEF Hand
  <2>14. IF w.permit \in RiskyPermitted /\ ~w.bearer
         THEN /\ A!Approved(w.approval, w.permit)
              /\ Asked' = [Asked EXCEPT ![w.approval].status = "spent"]
         ELSE w.approval = 0 /\ Asked' = Asked
    <3>1. CASE Risky(f.req, f.gid)
      <4>1. w.approval = f.elev
        BY <2>5, <3>1
      <4>2. FrameWarrant(f).approval = f.elev
        BY <2>2, <2>3, <3>1, GrantedWarrant DEF MintedWarrant
      <4>3. f.elev \in DOMAIN elev
        <5>1. Backed(f)
          BY <2>1, <2>2, <2>3, <3>1 DEF Backed, Working
        <5> QED
          BY <5>1 DEF Known, PaidParts, Given
      <4>4. Hand(f, f.elev)
        BY <2>1, <4>2 DEF Hand
      <4>5. /\ Asked[f.elev] = [task |-> f.req.task, call |-> CallKey(f.req),
                                status |-> "approved"]
            /\ Asked' = [Asked EXCEPT ![f.elev].status = "spent"]
        BY <2>1, <2>12, <2>13, <4>3, <4>4, LetGo
      <4>6. DOMAIN Asked = DOMAIN elev
        BY DEF Asked
      <4>7. A!Approved(w.approval, w.permit)
        BY <2>10, <4>1, <4>3, <4>5, <4>6 DEF A!Approved
      <4> QED
        BY <2>5, <2>10, <3>1, <4>1, <4>5, <4>7
    <3>2. CASE ~Risky(f.req, f.gid)
      <4>1. w.approval = 0
        BY <2>5, <3>2
      <4>2. FrameWarrant(f).approval = 0
        BY <2>2, <2>3, <3>2, GrantedWarrant DEF MintedWarrant
      <4>3. \A i \in DOMAIN elev : InHand(i)' <=> InHand(i)
        <5>1. 0 \notin DOMAIN elev
          <6>1. elev \in Seq(ElevationType)
            BY DEF Known, TypeOK
          <6> QED
            BY <6>1
        <5>2. \A i \in DOMAIN elev : ~Hand(f, i)
          BY <4>2, <5>1 DEF Hand
        <5> QED
          BY <2>1, <2>13, <5>2 DEF InHand, Hand, OthersStay
      <4> QED
        BY <2>5, <2>12, <3>2, <4>1, <4>3, AskedKept
    <3> QED
      BY <3>1, <3>2
  <2>15. A!Warrant(w)
    BY <2>7, <2>8, <2>10, <2>11, <2>12, <2>14 DEF A!Warrant
  <2> QED
    BY <2>7, <2>15 DEF A!Next
<1> QED
  BY <1>1, <1>2, <1>3

\* A handler that is done with its call, or never came to a warrant.
LEMMA Over ==
  ASSUME Known, NEW s \in Slot, OthersStay(s), h[s].pc \notin {"fetch", "recheck"},
         h'[s].pc \notin Working, AuthKept, used' = used, execs' = execs, boots' = boots
  PROVE  A!Next \/ UNCHANGED A!vars
<1>1. Shown(h'[s]) = {} /\ \A i : ~Hand(h[s], i) /\ ~Hand(h'[s], i)
  BY Hidden DEF Hand
<1>2. CASE ~Warranted(h[s])
  BY <1>1, <1>2, Unseen DEF AuthKept, Shown
<1>3. CASE Warranted(h[s])
  <2> DEFINE w == FrameWarrant(h[s])
  <2>1. Shown(h[s]) = {w}
    BY <1>3 DEF Shown
  <2> HIDE DEF w
  <2>2. Warrants' = Warrants \ {w} /\ w \in Warrants
    BY <1>1, <2>1, WarrantsMove
  <2>3. \A i : InHand(i)' <=> InHand(i)
    BY <1>1 DEF InHand, Hand, OthersStay
  <2>4. Asked' = Asked /\ Ran' = Ran
    BY <2>3, AskedKept, RanKept DEF AuthKept
  <2>5. A!Drop(w)
    BY <2>2, <2>4 DEF A!Drop, AuthKept
  <2> QED
    BY <2>2, <2>5 DEF A!Next
<1> QED
  BY <1>2, <1>3

\* The mint (service.go:276) is not seen: the warrant stays that of its grant.
LEMMA MintSeen ==
  ASSUME Known, NEW s \in Slot, MintCredential(s)
  PROVE  UNCHANGED A!vars
<1> DEFINE f == h[s]
<1>1. /\ AuthKept /\ used' = used /\ EnvKept /\ execs' = execs
      /\ Moves(s, "mint", "verify") /\ h'[s].gid = ""
      /\ h'[s].cred = Credential(f.got, f.req)
  BY MintEffect DEF Known
<1>2. /\ f.pc = "mint" /\ h'[s].pc = "verify" /\ h'[s].path = f.path /\ h'[s].req = f.req
      /\ h'[s].run = f.run /\ h'[s].elev = f.elev /\ OthersStay(s)
  BY <1>1 DEF Moves, OthersStay
<1>3. f.path = "minted" /\ Granted(f)
  BY <1>2, HandlersGranted DEF EarlyPc, Working
<1>4. Under(f) = f.gid /\ Under(h'[s]) = f.gid
  <2>1. f.got.id = f.gid
    BY <1>2 DEF Known, WithinInv, FrameWithin
  <2>2. Credential(f.got, f.req).grant = f.got.id
    BY DEF Credential
  <2>3. h'[s].cred.grant = f.got.id
    BY <1>1, <2>2
  <2> QED
    BY <1>2, <2>1, <2>3 DEF Under
<1>5. Granted(h'[s])
  BY <1>1, <1>2, <1>3, <1>4 DEF Granted, Working
<1>6. FrameWarrant(h'[s]) = FrameWarrant(f)
  <2>1. MintedWarrant(h'[s]) = MintedWarrant(f)
    <3>1. /\ (IF h'[s].pc = "exec" THEN h'[s].cred.nonce ELSE 0) = 0
          /\ (IF f.pc = "exec" THEN f.cred.nonce ELSE 0) = 0
      BY <1>2
    <3> QED
      BY <1>2, <1>4, <3>1 DEF MintedWarrant
  <2> QED
    BY <1>3, <1>5, <2>1, GrantedWarrant
<1>7. Shown(h'[s]) = Shown(f)
  BY <1>2, <1>3, <1>6 DEF Shown, Warranted, Bearer
<1>8. \A i : ~Hand(f, i) /\ ~Hand(h'[s], i)
  BY <1>2 DEF Hand
<1> QED
  BY <1>1, <1>2, <1>7, <1>8, Unseen DEF AuthKept, EnvKept

\* The ledger's answer for a presented credential gives the bearer's warrant.
LEMMA CheckPresentedSeen ==
  ASSUME Controls = ControlName, Known, NEW s \in Slot, CheckPresented(s)
  PROVE  A!Next \/ UNCHANGED A!vars
<1> DEFINE f == h[s]
           w == FrameWarrant(h'[s])
<1>1. /\ AuthKept /\ CredKept /\ EnvKept /\ execs' = execs
      /\ \/ Ends(s, "presented")
         \/ /\ ~RevokedCred(f.cred) /\ Moves(s, "presented", "verify") /\ CredsKept(s)
            /\ h'[s].gid = f.gid
  BY CheckPresentedEffect DEF Known
<1>2. CASE Ends(s, "presented")
  <2>1. /\ f.pc \notin {"fetch", "recheck"} /\ h'[s].pc \notin Working /\ OthersStay(s)
    BY <1>2, IdleRun DEF Ends, OthersStay, Working
  <2> QED
    BY <1>1, <2>1, Over DEF CredKept, EnvKept
<1>3. CASE /\ ~RevokedCred(f.cred) /\ Moves(s, "presented", "verify") /\ CredsKept(s)
           /\ h'[s].gid = f.gid
  <2>1. /\ f.pc = "presented" /\ h'[s].pc = "verify" /\ h'[s].path = f.path
        /\ h'[s].req = f.req /\ h'[s].run = f.run /\ h'[s].cred = f.cred /\ OthersStay(s)
    BY <1>3 DEF Moves, CredsKept, OthersStay
  <2>2. f.path = "presented" /\ f.pc \in CredPc
    BY <2>1 DEF Known, FreshInv, PathKnown, CredPc
  <2>3. \A i : ~Hand(f, i) /\ ~Hand(h'[s], i)
    BY <2>1 DEF Hand
  <2>4. ~Warranted(f) /\ (Warranted(h'[s]) <=> f.cred.signed)
    BY <2>1, <2>2 DEF Warranted, Bearer
  <2>5. CASE ~f.cred.signed
    <3>1. Shown(f) = {} /\ Shown(h'[s]) = {}
      BY <2>4, <2>5 DEF Shown
    <3> QED
      BY <1>1, <2>1, <2>3, <3>1, Unseen DEF AuthKept, CredKept, EnvKept
  <2>6. CASE f.cred.signed
    <3>1. Entitled(h'[s])
      BY <1>3, <2>1, <2>2, <2>6
         DEF Known, WithinInv, FrameWithin, GenuineInv, FrameGenuine, Genuine, Entitled
    <3>2. w = BearerWarrant(h'[s]) /\ w.permit \in Permitted /\ w.permit.grant = f.cred.grant
      BY <2>1, <3>1, EntitledWarrant
    <3>3. (IF h'[s].pc = "exec" THEN h'[s].cred.nonce ELSE 0) = 0
      BY <2>1
    <3>4. Warrants' = Warrants \cup {w} /\ w \in Warrants' \ Warrants
      <4>1. f.pc # "idle"
        BY <2>1
      <4> QED
        BY <2>1, <2>4, <2>6, <4>1, WarrantAppears
    <3>5. f.run \in Nat
      BY FrameParts DEF Known, Frame
    <3> HIDE DEF w
    <3>6. /\ w.run = f.run /\ w.bearer = TRUE /\ w.approval = 0 /\ w.nonce = 0
          /\ w = [run |-> w.run, permit |-> w.permit, bearer |-> TRUE, approval |-> 0,
                  nonce |-> 0]
      BY <2>1, <3>2, <3>3 DEF BearerWarrant
    <3>7. w \in A!Fresh
      <4>1. \A run \in Nat, p \in Permitted :
              [run |-> run, permit |-> p, bearer |-> TRUE, approval |-> 0, nonce |-> 0]
                \in A!Fresh
        BY DEF A!Fresh
      <4>2. w.run \in Nat /\ w.permit \in Permitted
        BY <3>2, <3>5, <3>6
      <4> QED
        BY <3>6, <4>1, <4>2, Zenon
    <3>8. f.cred.grant \notin ledger
      BY <1>3 DEF RevokedCred, On, ControlName
    <3>9. \A i : InHand(i)' <=> InHand(i)
      BY <2>1, <2>3 DEF InHand, Hand, OthersStay
    <3>10. Asked' = Asked /\ Ran' = Ran /\ ledger' = ledger /\ used' = used
      BY <1>1, <3>9, AskedKept, RanKept DEF AuthKept, CredKept, EnvKept
    <3>11. A!Warrant(w)
      BY <3>2, <3>4, <3>6, <3>7, <3>8, <3>10 DEF A!Warrant
    <3> QED
      BY <3>4, <3>11 DEF A!Next
  <2> QED
    BY <2>5, <2>6
<1> QED
  BY <1>1, <1>2, <1>3

\* Acceptance of a credential changes nothing of its warrant but the nonce.
LEMMA AcceptSeen ==
  ASSUME Controls = ControlName, Known, NEW s \in Slot, AcceptCredential(s)
  PROVE  A!Next
<1> DEFINE f == h[s]
           w == FrameWarrant(f)
           n == f.cred.nonce
<1>1. /\ AuthKept /\ EnvKept /\ execs' = execs /\ Moves(s, "verify", "exec") /\ CredsKept(s)
      /\ h'[s].gid = f.gid /\ Verifies(f) /\ ConsumeNonce(f.cred)
  BY AcceptEffect DEF Known
<1>2. /\ f.pc = "verify" /\ h'[s].pc = "exec" /\ h'[s].path = f.path /\ h'[s].req = f.req
      /\ h'[s].run = f.run /\ h'[s].cred = f.cred /\ h'[s].elev = f.elev /\ OthersStay(s)
  BY <1>1 DEF Moves, CredsKept, OthersStay
<1>3. f.cred.signed /\ n \notin used /\ used' = used \cup {n}
  BY <1>1 DEF Verifies, ConsumeNonce, On, ControlName
<1>4. n \in Nat /\ n # 0
  <2>1. f.cred \in CredentialType
    BY <1>2, FrameParts DEF Known, FrameOK
  <2>2. Genuine(f.cred)
    BY <1>2 DEF Known, GenuineInv, FrameGenuine, CredPc
  <2>3. n \in Nat /\ n > 0
    BY <1>3, <2>1, <2>2 DEF CredentialType, Genuine
  <2> QED
    BY <2>3
<1>5. Shown(f) = {w} /\ Shown(h'[s]) = {FrameWarrant(h'[s])}
  BY <1>2, <1>3 DEF Shown, Warranted
<1>6. FrameWarrant(h'[s]) = [w EXCEPT !.nonce = n] /\ w.nonce = 0
  <2>1. FramePermit(h'[s]) = FramePermit(f) /\ (Bearer(h'[s]) <=> Bearer(f))
    BY <1>1, <1>2 DEF FramePermit, CredPermit, Bearer
  <2>2. Bearer(h'[s]) = Bearer(f)
    BY <1>2 DEF Bearer
  <2>3. FrameWarrant(h'[s]) = WarrantOf(h'[s], FramePermit(f), n)
    BY <1>2, <2>1 DEF FrameWarrant
  <2>4. w = WarrantOf(f, FramePermit(f), 0)
    BY <1>2 DEF FrameWarrant
  <2> QED
    BY <1>2, <2>2, <2>3, <2>4 DEF WarrantOf
<1> HIDE DEF w, n
<1>7. Warrants' = (Warrants \ {w}) \cup {[w EXCEPT !.nonce = n]} /\ w \in Warrants
  BY <1>2, <1>5, <1>6, WarrantsMove
<1>8. \A i : InHand(i)' <=> InHand(i)
  <2>1. \A i : ~Hand(f, i) /\ ~Hand(h'[s], i)
    BY <1>2 DEF Hand
  <2> QED
    BY <1>2, <2>1 DEF InHand, Hand, OthersStay
<1>9. Asked' = Asked /\ Ran' = Ran /\ ledger' = ledger
  BY <1>1, <1>8, AskedKept, RanKept DEF AuthKept, EnvKept
<1>10. A!Redeem(w, n) /\ n \in used' \ used
  BY <1>3, <1>4, <1>6, <1>7, <1>9 DEF A!Redeem
<1> QED
  BY <1>7, <1>10 DEF A!Next

\* An execution uses its warrant up, or the tool refuses it.
LEMMA ExecuteSeen ==
  ASSUME Controls = ControlName, Known, NEW s \in Slot, Execute(s)
  PROVE  A!Next \/ UNCHANGED A!vars
<1> DEFINE f == h[s]
           w == FrameWarrant(f)
           x == Execution(f)
<1>1. /\ AuthKept /\ CredKept /\ EnvKept /\ Moves(s, "exec", "log")
      /\ execs' = IF ToolRuns(f) THEN execs \cup {x} ELSE execs
  BY ExecuteEffect DEF Known
<1>2. f.pc = "exec" /\ h'[s].pc = "log" /\ h'[s].pc \notin Working /\ OthersStay(s)
  BY <1>1 DEF Moves, OthersStay, Working
<1>3. CASE ~ToolRuns(f)
  BY <1>1, <1>2, <1>3, Over DEF CredKept, EnvKept
<1>4. CASE ToolRuns(f)
  <2>1. f.cred.signed /\ f.gid = "" /\ Genuine(f.cred) /\ f.cred \in CredentialType
    BY <1>2, FrameParts DEF Known, WithinInv, FrameWithin, GenuineInv, FrameGenuine, CredPc,
                            UsedPc, FrameOK
  <2>2. f.cred.nonce \in Nat /\ f.cred.nonce > 0
    BY <2>1 DEF Genuine, CredentialType
  <2>3. Shown(f) = {w} /\ Shown(h'[s]) = {}
    BY <1>2, <2>1, Hidden DEF Shown, Warranted
  <2>4. /\ x.run = f.run /\ x.path = f.path /\ x.req = f.req /\ x.elev = f.elev
        /\ x.cred = f.cred /\ x.boot = boots
    BY DEF Execution
  <2>5. w = WarrantOf(f, CredPermit(f), f.cred.nonce)
    BY <1>2, <2>1 DEF FrameWarrant, FramePermit
  <2>6. w.nonce # 0
    BY <2>2, <2>5 DEF WarrantOf
  <2> HIDE DEF x
  <2>7. WarrantOf(x, CredPermit(x), x.cred.nonce) = w
    <3>1. CredPermit(x) = CredPermit(f) /\ Bearer(x) = Bearer(f)
      BY <2>4 DEF CredPermit, Bearer
    <3> QED
      BY <2>4, <2>5, <3>1, Zenon DEF WarrantOf
  <2> HIDE DEF w
  <2>8. Ran' = Ran \cup {w}
    <3>1. execs' = execs \cup {x} /\ boots' = boots
      BY <1>1, <1>4 DEF EnvKept
    <3>2. {e \in execs' : e.boot = boots'} = {e \in execs : e.boot = boots} \cup {x}
      BY <2>4, <3>1
    <3> QED
      BY <2>7, <3>2 DEF Ran
  <2>9. Warrants' = Warrants \ {w} /\ w \in Warrants
    BY <1>2, <2>3, WarrantsMove
  <2>10. \A i : InHand(i)' <=> InHand(i)
    <3>1. \A i : ~Hand(f, i) /\ ~Hand(h'[s], i)
      BY <1>2 DEF Hand
    <3> QED
      BY <1>2, <3>1 DEF InHand, Hand, OthersStay
  <2>11. Asked' = Asked /\ ledger' = ledger /\ used' = used
    BY <1>1, <2>10, AskedKept DEF AuthKept, CredKept
  <2>12. A!Use(w)
    BY <2>6, <2>8, <2>9, <2>11 DEF A!Use
  <2> QED
    BY <2>9, <2>12 DEF A!Next
<1> QED
  BY <1>3, <1>4

\* Each step of a handler is one that Authority allows or does not see.
LEMMA ServeSeen ==
  ASSUME Controls = ControlName, Known, NEW s \in Slot, Serve(s)
  PROVE  A!Next \/ UNCHANGED A!vars
<1>0. TypeOK
  BY DEF Known
<1>1. ASSUME NEW from, Ends(s, from), from \notin {"fetch", "recheck"}, AuthKept,
             used' = used, EnvKept, execs' = execs
      PROVE  A!Next \/ UNCHANGED A!vars
  <2>1. OthersStay(s) /\ h[s].pc = from /\ h'[s].pc \notin Working
    BY <1>1, IdleRun DEF Ends, OthersStay, Working
  <2> QED
    BY <1>1, <2>1, Over DEF EnvKept
<1>2. CASE ReadGrants(s) \/ CheckLedger(s) \/ ReadHistory(s)
  <2>1. AuthKept /\ CredKept /\ EnvKept /\ execs' = execs /\ OthersStay(s)
    BY <1>0, <1>2, ReadGrantsEffect, CheckLedgerEffect, ReadHistoryEffect DEF Moves, OthersStay
  <2>2. h[s].pc \notin Working /\ h'[s].pc \notin Working
    BY <1>0, <1>2, ReadGrantsEffect, CheckLedgerEffect, ReadHistoryEffect DEF Moves, Working
  <2> QED
    BY <2>1, <2>2, UnseenHidden DEF CredKept, EnvKept
<1>3. CASE Decide(s)
  BY <1>3, DecideSeen
<1>4. CASE Enqueue(s)
  <2>1. RiskyPermitted \subseteq Permitted
    BY DEF RiskyPermitted
  <2> QED
    BY <1>4, <2>1, EnqueueSeen DEF A!Next
<1>5. CASE ConsumeElevation(s)
  BY <1>5, ConsumeSeen
<1>6. CASE RefuseElevation(s) \/ RefuseMint(s)
  BY <1>0, <1>1, <1>6, RefuseEffect DEF CredKept
<1>7. CASE FetchGrant(s)
  BY <1>7, FetchSeen
<1>8. CASE Recheck(s)
  BY <1>8, RecheckSeen
<1>9. CASE MintCredential(s)
  BY <1>9, MintSeen
<1>10. CASE CheckPresented(s)
  BY <1>10, CheckPresentedSeen
<1>11. CASE AcceptCredential(s)
  BY <1>11, AcceptSeen
<1>12. CASE RefuseCredential(s)
  BY <1>0, <1>1, <1>12, RefuseCredentialEffect
<1>13. CASE Execute(s)
  BY <1>13, ExecuteSeen
<1>14. CASE LogExecution(s)
  <2>1. /\ AuthKept /\ CredKept /\ EnvKept /\ execs' = execs
        /\ Moves(s, "log", "record") \/ Ends(s, "log")
    BY <1>0, <1>14, LogExecutionEffect
  <2>2. CASE Moves(s, "log", "record")
    BY <2>1, <2>2, UnseenHidden DEF Moves, OthersStay, Working, CredKept, EnvKept
  <2> QED
    BY <1>1, <2>1, <2>2 DEF CredKept
<1>15. CASE RecordCall(s)
  BY <1>0, <1>1, <1>15, RecordEffect
<1> QED
  BY <1>2, <1>3, <1>4, <1>5, <1>6, <1>7, <1>8, <1>9, <1>10, <1>11, <1>12, <1>13, <1>14,
     <1>15 DEF Serve

\* The arrival of a call is not seen.
LEMMA NewCallSeen ==
  ASSUME Known, NEW s \in Slot, NewCall(s) \/ PresentMalformed(s)
  PROVE  UNCHANGED A!vars
<1>0. TypeOK
  BY DEF Known
<1>1. CASE PresentMalformed(s) \/ \E r \in Request : RefuseUnknownTask(s, r)
  BY <1>1, UnseenAll, TurnedAwayEffect DEF AuthKept, CredKept
<1>2. ASSUME NEW pc \in {"grants", "presented"}, NEW path, NEW r, Begins(s, pc, path, r),
             AuthKept, CredKept, execs' = execs, boots' = boots
      PROVE  UNCHANGED A!vars
  <2>1. OthersStay(s) /\ h[s].pc \notin Working /\ h'[s].pc \notin Working
    BY <1>2 DEF Begins, OthersStay, Working
  <2> QED
    BY <1>2, <2>1, UnseenHidden DEF CredKept
<1>3. ASSUME NEW r \in Request, NEW e, Arrive(s, r, e) PROVE UNCHANGED A!vars
  BY <1>0, <1>2, <1>3, ArriveEffect
<1>4. ASSUME NEW r \in Request, NEW c, Present(s, r, c) PROVE UNCHANGED A!vars
  BY <1>0, <1>2, <1>4, PresentEffect
<1> QED
  BY <1>1, <1>3, <1>4 DEF NewCall

\* The operator's answer to a pending request is an answer.
LEMMA ResolveSeen ==
  ASSUME Known, NEW i \in DOMAIN elev, NEW v \in {"approved", "denied"}, NEW ref,
         Resolve(i, v, ref)
  PROVE  A!Answer(i, v) /\ i \in DOMAIN Asked
<1>1. /\ elev[i].status = "pending" /\ elev' = [elev EXCEPT ![i].status = v]
      /\ ledger' = ledger /\ used' = used /\ boots' = boots /\ execs' = execs /\ h' = h
  BY DEF Resolve, credVars, envVars
<1>2. Warrants' = Warrants /\ \A k : InHand(k)' <=> InHand(k)
  BY <1>1 DEF Warrants, InHand
<1>3. Ran' = Ran
  BY <1>1, RanKept
<1>4. ~InHand(i)
  BY <1>1, HeldApproval, InHandIs
<1>5. /\ DOMAIN elev' = DOMAIN elev /\ elev'[i].status = v
      /\ \A k \in DOMAIN elev : elev'[k].task = elev[k].task /\ elev'[k].key = elev[k].key
      /\ \A k \in DOMAIN elev : k # i => elev'[k] = elev[k]
  <2>1. elev \in Seq(ElevationType)
    BY DEF Known, TypeOK
  <2>2. \A k \in DOMAIN elev : elev[k] \in ElevationType
    BY <2>1
  <2> QED
    BY <1>1, <2>2 DEF ElevationType
<1>6. AbstractStatus(i) = "pending" /\ AbstractStatus(i)' = v
  BY <1>1, <1>2, <1>4, <1>5 DEF AbstractStatus
<1>7. \A k \in DOMAIN elev : k # i => AbstractStatus(k)' = AbstractStatus(k)
  BY <1>2, <1>5 DEF AbstractStatus
<1>8. Asked[i].status = "pending" /\ Asked' = [Asked EXCEPT ![i].status = v]
  BY <1>5, <1>6, <1>7 DEF Asked
<1>9. i \in DOMAIN Asked
  BY DEF Asked
<1> QED
  BY <1>1, <1>2, <1>3, <1>8, <1>9 DEF A!Answer

\* Creating a task, minting only and marking a grant are not seen, the ledger's
\* entry revokes and answers answer.
LEMMA OperatorSeen ==
  ASSUME Known, Operator
  PROVE  A!Next \/ UNCHANGED A!vars
<1>1. ASSUME NEW g, RevokeCommit(g) PROVE A!Next \/ UNCHANGED A!vars
  <2>1. /\ ledger' = ledger \cup {g} /\ elev' = elev /\ used' = used /\ boots' = boots
        /\ execs' = execs /\ h' = h
    BY <1>1 DEF RevokeCommit, credVars, envVars
  <2>2. CASE g \in ledger
    <3>1. ledger' = ledger
      BY <2>1, <2>2
    <3> QED
      BY <2>1, <3>1, UnseenAll
  <2>3. CASE g \notin ledger
    <3>1. Warrants' = Warrants /\ \A i \in DOMAIN elev : InHand(i)' <=> InHand(i)
      BY <2>1 DEF Warrants, InHand
    <3>2. Asked' = Asked /\ Ran' = Ran
      BY <2>1, <3>1, AskedKept, RanKept
    <3>3. A!Revoke(g) /\ g \in ledger' \ ledger
      BY <2>1, <2>3, <3>1, <3>2 DEF A!Revoke
    <3> QED
      BY <3>3 DEF A!Next
  <2> QED
    BY <2>2, <2>3
<1>2. ASSUME NEW i \in DOMAIN elev, Approve(i) \/ DenyElevation(i) PROVE A!Next
  BY <1>2, ResolveSeen DEF Approve, DenyElevation, A!Next
<1>3. CASE \/ \E t \in TaskId : CreateTask(t)
           \/ \E g \in GrantId : RevokeMark(g)
           \/ \E r \in Request : MintOnly(r)
  BY <1>3, UnseenAll DEF CreateTask, RevokeMark, MintOnly, authVars, credVars, envVars
<1> QED
  BY <1>1, <1>2, <1>3 DEF Operator

\* A restart forgets requests, nonces, warrants and the ledger together.
LEMMA RestartSeen ==
  ASSUME Known, Restart
  PROVE  A!Reset
<1>1. /\ boots' = boots + 1 /\ ledger' = {} /\ used' = {} /\ h' = [s \in Slot |-> Idle]
      /\ elev' = [i \in DOMAIN elev |-> [elev[i] EXCEPT !.status = "lost"]] /\ execs' = execs
  BY DEF Restart
<1>2. \A s \in Slot : h'[s].pc = "idle"
  BY <1>1, IdleRun
<1>3. Warrants' = {} /\ \A i : ~InHand(i)'
  BY <1>2 DEF Warrants, Warranted, InHand
<1>4. Ran' = {}
  <2>1. \A x \in execs : x.boot # boots + 1
    <3>1. \A x \in execs : x.boot \in Nat /\ x.boot <= boots
      BY DEF Known, NonceInv, TypeOK, ExecutionType
    <3>2. boots \in Nat
      BY DEF Known, TypeOK
    <3> QED
      BY <3>1, <3>2
  <2> QED
    BY <1>1, <2>1 DEF Ran
<1>5. /\ DOMAIN elev' = DOMAIN elev
      /\ \A i \in DOMAIN elev : /\ elev'[i].task = elev[i].task /\ elev'[i].key = elev[i].key
                                /\ elev'[i].status = "lost"
  <2>1. elev \in Seq(ElevationType)
    BY DEF Known, TypeOK
  <2>2. \A i \in DOMAIN elev : elev[i] \in ElevationType
    BY <2>1
  <2> QED
    BY <1>1, <2>2 DEF ElevationType
<1>6. \A i \in DOMAIN elev : AbstractStatus(i)' = "lost"
  BY <1>3, <1>5 DEF AbstractStatus
<1>7. Asked' = [i \in DOMAIN Asked |-> [Asked[i] EXCEPT !.status = "lost"]]
  BY <1>5, <1>6 DEF Asked
<1> QED
  BY <1>1, <1>3, <1>4, <1>7 DEF A!Reset

\* Every step of the broker is one of Authority or a stutter.
LEMMA NextSeen ==
  ASSUME Controls = ControlName
  PROVE  Known /\ [Next]_vars => [A!Next]_(A!vars)
<1> SUFFICES ASSUME Known, [Next]_vars PROVE A!Next \/ UNCHANGED A!vars
  OBVIOUS
<1>1. CASE Operator
  BY <1>1, OperatorSeen
<1>2. CASE Tick \/ UNCHANGED vars
  BY <1>2, UnseenAll DEF Tick, vars, authVars, credVars, envVars
<1>3. CASE Restart
  BY <1>3, RestartSeen DEF A!Next
<1> QED
  BY <1>1, <1>2, <1>3, ServeSeen, NewCallSeen DEF Next

\* The broker starts as Authority does.
LEMMA InitSeen == Init => A!Init
<1> SUFFICES ASSUME Init PROVE A!Init
  OBVIOUS
<1>1. /\ elev = <<>> /\ ledger = {} /\ used = {} /\ execs = {} /\ h = [s \in Slot |-> Idle]
  BY DEF Init
<1>2. Warrants = {}
  BY <1>1, IdleRun DEF Warrants, Warranted
<1> QED
  BY <1>1, <1>2 DEF A!Init, Asked, Ran

\* With all its controls on, as the process runs it, the broker does only what
\* Authority allows, step by step, for any number of calls in progress, any
\* grants, requests, presentations, revocations and restarts: a tool runs on a
\* warrant given at one instant (service.go:180-298).
THEOREM BrokerImplementsAuthority == Controls = ControlName => (Spec => ImplementsAuthority)
<1> SUFFICES ASSUME Controls = ControlName PROVE Spec => ImplementsAuthority
  OBVIOUS
<1>1. Confining /\ On("elevation")
  BY DEF Confining, On, ControlName
<1>2. Init => WithinInv
  BY IdleRun DEF Init, WithinInv, FrameWithin, CredPc, UsedPc
<1>3. TypeOK /\ IssuedInv /\ FreshInv /\ WithinInv /\ [Next]_vars => WithinInv'
  BY <1>1, WithinStep
<1>4. PaidInv => PaidParts
  BY <1>1 DEF PaidInv
<1>5. TypeOK /\ IssuedInv /\ FreshInv /\ WithinInv /\ GenuineInv /\ [Next]_vars => GenuineInv'
  BY GenuineStep
<1>6. /\ TypeOK /\ RunInv /\ IssuedInv /\ FreshInv /\ NonceInv /\ PaidParts /\ WithinInv
      /\ GenuineInv
      => Known
  BY DEF Known
<1>7. Known /\ [Next]_vars => [A!Next]_(A!vars)
  BY NextSeen
<1> QED
  BY <1>2, <1>3, <1>4, <1>5, <1>6, <1>7, TypeCorrect, RunInit, RunStep, IssuedInit, IssuedStep,
     FreshInit, FreshStep, NonceInit, NonceStep, PaidInit, PaidStep, GenuineInit, InitSeen,
     PTL DEF Spec, ImplementsAuthority, A!Spec
=============================================================================
