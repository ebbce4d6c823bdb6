---------------------------- MODULE BrokerProofs ----------------------------
(***************************************************************************)
(* Proofs about the broker, for any slots, tasks, grants, calls, controls  *)
(* and bounds: its types, the rules it follows, what each step does to a   *)
(* handler, that a credential is used once in a boot, that a completed     *)
(* revocation stops calls, that every call has a run of its own, that an   *)
(* approval backs one call, and that the audit log accounts for every      *)
(* execution.                                                              *)
(***************************************************************************)
EXTENDS BrokerProps, PolicyProofs

----------------------------------------------------------------------------
(* The rules *)

\* A call that is not denied is decided on a grant of the view, or on the
\* one the engine invents.
LEMMA DecisionOutcome ==
  ASSUME NEW view \in Seq(Grant), NEW count, NEW r, NEW t
  PROVE  LET d == Decision(view, count, r, t)
         IN  \/ d.action = "deny" /\ d.grant = ""
             \/ d.action \in {"allow", "require_elevation"} /\ d.grant \in GrantRef
<1> DEFINE e == Evaluate(view, count, r, t)
           d == Decision(view, count, r, t)
<1>1. Match(view, r, t).id \in GrantRef
  <2>1. CASE Match(view, r, t) = Ablated(r)
    BY <2>1 DEF Ablated, GrantRef
  <2>2. CASE Match(view, r, t) \in Grant
    BY <2>2 DEF GrantRef, Grant, GrantOf
  <2> QED
    BY <2>1, <2>2, MatchOutcome
<1>2. (\E c : e = Denied(c)) \/ e = Elevate(Match(view, r, t).id)
                             \/ e = Allowed(Match(view, r, t).id)
  BY EvaluateCases
<1>3. d = e \/ d = Denied("guard")
  BY DEF Decision
<1> HIDE DEF e, d
<1>4. \A c : Denied(c).action = "deny" /\ Denied(c).grant = ""
  BY DEF Denied
<1>5. \A id : /\ Elevate(id).action = "require_elevation" /\ Elevate(id).grant = id
             /\ Allowed(id).action = "allow" /\ Allowed(id).grant = id
  BY DEF Elevate, Allowed
<1> DEFINE i == Match(view, r, t).id
<1> HIDE DEF i
<1>6. (\E c : d = Denied(c)) \/ d = Elevate(i) \/ d = Allowed(i)
  BY <1>2, <1>3 DEF i
<1>7. i \in GrantRef
  BY <1>1 DEF i
<1>8. CASE \E c : d = Denied(c)
  <2>1. d.action = "deny" /\ d.grant = ""
    BY <1>4, <1>8
  <2> QED
    BY <2>1 DEF d
<1>9. CASE d = Elevate(i)
  <2>1. d.action = "require_elevation" /\ d.grant = i
    BY <1>5, <1>9
  <2> QED
    BY <1>7, <2>1 DEF d
<1>10. CASE d = Allowed(i)
  <2>1. d.action = "allow" /\ d.grant = i
    BY <1>5, <1>10
  <2> QED
    BY <1>7, <2>1 DEF d
<1> QED
  BY <1>6, <1>8, <1>9, <1>10

----------------------------------------------------------------------------
(* Type correctness *)

\* A slot that serves no call holds nothing.
LEMMA IdleType == Idle \in Frame /\ FrameOK(Idle)
BY DEF Idle, Frame, FrameOK, Pc, NoRequest, NoCred, NoGrant

\* A handler that moves on with a well-typed frame leaves the others alone.
LEMMA BecomeType ==
  ASSUME TypeOK, NEW s \in Slot, NEW f \in Frame, FrameOK(f), Become(s, f)
  PROVE  h' \in [Slot -> Frame] /\ \A q \in Slot : FrameOK(h'[q])
<1>1. h' = [h EXCEPT ![s] = f] /\ h \in [Slot -> Frame]
  BY DEF Become, TypeOK
<1>2. h' \in [Slot -> Frame]
  BY <1>1
<1>3. \A q \in Slot : h'[q] = f \/ h'[q] = h[q]
  BY <1>1
<1> QED
  BY <1>2, <1>3 DEF TypeOK

\* A handler that returns leaves its slot idle.
LEMMA ReturnType ==
  ASSUME TypeOK, NEW s \in Slot, Return(s)
  PROVE  h' \in [Slot -> Frame] /\ \A q \in Slot : FrameOK(h'[q])
BY IdleType, BecomeType DEF Return

\* An entry that is appended is an entry (log.go:56).
LEMMA LogType ==
  ASSUME TypeOK,
         NEW kind \in EntryKind, NEW run \in Nat, NEW verdict \in Verdict, NEW grant \in GrantRef \cup {""},
         NEW ref \in Nat, Log(kind, run, verdict, grant, ref)
  PROVE  audit' \subseteq EntryType
<1>1. Entry(kind, run, verdict, grant, ref) \in EntryType
  BY DEF Entry, EntryType
<1> QED
  BY <1>1 DEF Log, TypeOK

\* What is known of a frame in use.
LEMMA FrameParts ==
  ASSUME TypeOK, NEW s \in Slot
  PROVE  /\ h[s] \in Frame /\ FrameOK(h[s]) /\ h[s].run \in Nat
         /\ h[s].gid \in GrantRef \cup {""} /\ h[s].view \in Seq(Grant)
         /\ ~At(s, "idle") => h[s].req \in Request /\ h[s].req \in RequestType
BY BrokerAssumption DEF TypeOK, Frame, FrameOK, At

\* The types hold at the start.
LEMMA TypeInit == Init => TypeOK
<1> SUFFICES ASSUME Init PROVE TypeOK
  OBVIOUS
<1>1. h \in [Slot -> Frame] /\ \A s \in Slot : FrameOK(h[s])
  BY IdleType DEF Init
<1>2. now \in Nat
  <2>1. now \in 0 .. Second - 1 /\ Second \in Nat
    BY BrokerAssumption DEF Init
  <2> QED
    BY <2>1
<1>3. elev \in Seq(ElevationType)
  BY DEF Init
<1> QED
  BY <1>1, <1>2, <1>3 DEF Init, TypeOK

----------------------------------------------------------------------------
(* The orders of a task's grants *)

\* A copy of a task's grants is a sequence of grants (store.go, GrantsFor).
LEMMA OrdersType ==
  ASSUME TypeOK, NEW t, NEW view \in GrantOrders(t)
  PROVE  view \in Seq(Grant)
<1> DEFINE ids == TaskGrants(t)
           n == Cardinality(ids)
<1>1. ids \subseteq GrantId /\ \A g \in ids : grants[g] \in Grant
  BY DEF TaskGrants, TypeOK
<1>2. n \in Nat
  BY <1>1, BrokerAssumption, FS_Subset, FS_CardinalityType
<1>3. PICK o \in [1 .. n -> ids] : view = [i \in 1 .. n |-> grants[o[i]]]
  BY DEF GrantOrders
<1> HIDE DEF n, ids
<1>4. view \in [1 .. n -> Grant]
  BY <1>1, <1>3
<1> QED
  BY <1>2, <1>4

----------------------------------------------------------------------------
(* The steps of a handler *)

HandlersTyped == h \in [Slot -> Frame] /\ \A s \in Slot : FrameOK(h[s])

\* A step that touches the handlers and the audit log only.
LEMMA QuietType ==
  ASSUME TypeOK, HandlersTyped', (audit \subseteq EntryType)',
         UNCHANGED <<storeVars, authVars, credVars, envVars, execs>>
  PROVE  TypeOK'
BY DEF TypeOK, HandlersTyped, storeVars, authVars, credVars, envVars

\* What a handler reads from the stores has its type.
LEMMA ReadType ==
  ASSUME TypeOK, NEW s \in Slot,
         ReadGrants(s) \/ CheckLedger(s) \/ ReadHistory(s) \/ FetchGrant(s)
  PROVE  TypeOK'
<1> DEFINE f == h[s]
<1>0. f \in Frame /\ FrameOK(f)
  BY FrameParts
<1>1. CASE ReadGrants(s)
  <2>1. PICK view \in GrantOrders(h[s].req.task) :
          Become(s, [f EXCEPT !.pc = "ledger", !.view = view])
    BY <1>1 DEF ReadGrants
  <2>2. view \in Seq(Grant)
    BY <2>1, OrdersType
  <2> DEFINE k == [f EXCEPT !.pc = "ledger", !.view = view]
  <2>3. k \in Frame /\ FrameOK(k)
    BY <1>0, <1>1, <2>2 DEF Frame, FrameOK, Pc, ReadGrants, At
  <2> HIDE DEF k
  <2>4. HandlersTyped'
    BY <2>1, <2>3, BecomeType DEF HandlersTyped, k
  <2> QED
    BY <1>1, <2>4, QuietType DEF ReadGrants, TypeOK
<1>2. CASE CheckLedger(s)
  <2> DEFINE i == f.next
             seen == IF On("revocation") THEN f.view[i].revoked \/ f.view[i].id \in ledger
                     ELSE FALSE
             k == [f EXCEPT !.view[i].revoked = seen, !.next = @ + 1]
             l == [f EXCEPT !.pc = "history", !.next = 1]
  <2>1. (i \in DOMAIN f.view /\ Become(s, k)) \/ Become(s, l)
    BY <1>2 DEF CheckLedger
  <2>2. l \in Frame /\ FrameOK(l)
    BY <1>0, <1>2 DEF Frame, FrameOK, Pc, CheckLedger, At
  <2>3. ASSUME i \in DOMAIN f.view PROVE k \in Frame /\ FrameOK(k)
    <3>1. f.view \in Seq(Grant) /\ i \in 1 .. Len(f.view) /\ i \in Nat
      BY <1>0, <2>3, LenProperties DEF Frame
    <3>2. f.view[i] \in Grant
      BY <3>1, ElementOfSeq
    <3>3. seen \in BOOLEAN
      BY <3>2 DEF Grant, GrantOf
    <3> HIDE DEF seen
    <3> DEFINE g == [f.view[i] EXCEPT !.revoked = seen]
               v == [f.view EXCEPT ![i] = g]
    <3>4. g \in Grant
      BY <3>2, <3>3 DEF Grant, GrantOf
    <3>5. v \in Seq(Grant)
      BY <3>1, <3>4, ExceptSeq
    <3>6. k = [f EXCEPT !.view = v, !.next = i + 1]
      BY <1>0, <3>1 DEF Frame
    <3>7. f.pc = "ledger"
      BY <1>2 DEF CheckLedger, At
    <3> HIDE DEF v
    <3> DEFINE n == i + 1
               m == [f EXCEPT !.view = v, !.next = n]
    <3>8. n \in Nat
      BY <3>1
    <3> HIDE DEF n
    <3>9. m \in Frame
      BY <1>0, <3>5, <3>8 DEF Frame
    <3>10. FrameOK(m)
      BY <1>0, <3>7 DEF Frame, FrameOK
    <3> QED
      BY <3>6, <3>9, <3>10 DEF n
  <2> HIDE DEF k, l
  <2>4. HandlersTyped'
    BY <2>1, <2>2, <2>3, BecomeType DEF HandlersTyped
  <2> QED
    BY <1>2, <2>4, QuietType DEF CheckLedger, TypeOK
<1>3. CASE ReadHistory(s)
  <2> DEFINE k == [f EXCEPT !.pc = "decide", !.hist = {c \in calls : c.task = f.req.task}]
  <2>1. Become(s, k)
    BY <1>3 DEF ReadHistory
  <2>2. k \in Frame /\ FrameOK(k)
    BY <1>0, <1>3 DEF Frame, FrameOK, Pc, ReadHistory, At, TypeOK
  <2> HIDE DEF k
  <2>3. HandlersTyped'
    BY <2>1, <2>2, BecomeType DEF HandlersTyped
  <2> QED
    BY <1>3, <2>3, QuietType DEF ReadHistory, TypeOK
<1>4. CASE FetchGrant(s)
  <2> DEFINE g == IF f.gid = "ablated" THEN Ablated(f.req) ELSE grants[f.gid]
             got == GrantForMint(g, f.req)
             k == [f EXCEPT !.pc = "recheck", !.got = got, !.known = ledger]
  <2>1. Return(s) \/ (g # NoGrant /\ Become(s, k))
    BY <1>4 DEF FetchGrant
  <2>2. /\ f.pc = "fetch" /\ f.gid \in GrantRef
        /\ f.req \in Request /\ f.req \in RequestType
    BY <1>0, <1>4, BrokerAssumption DEF FetchGrant, At, FrameOK
  <2>3. ASSUME g # NoGrant PROVE g \in GrantOf(GrantRef, TaskRef)
    <3>1. CASE f.gid = "ablated"
      BY <2>2, <3>1 DEF Ablated, GrantOf, GrantRef, TaskRef, RequestType
    <3>2. CASE f.gid # "ablated"
      <4>1. grants[f.gid] \in Grant
        BY <2>2, <2>3, <3>2 DEF GrantRef, TypeOK
      <4> QED
        BY <3>2, <4>1 DEF Grant, GrantOf, GrantRef, TaskRef
    <3> QED
      BY <3>1, <3>2
  <2> HIDE DEF g
  <2>4. ASSUME g # NoGrant PROVE got \in GrantOf(GrantRef, TaskRef)
    BY <2>2, <2>3, <2>4 DEF GrantForMint, GrantOf, RequestType
  <2> HIDE DEF got
  <2>5. ASSUME g # NoGrant PROVE k \in Frame /\ FrameOK(k)
    BY <1>0, <2>2, <2>4, <2>5 DEF Frame, FrameOK, Pc, TypeOK
  <2> HIDE DEF k
  <2>6. HandlersTyped'
    BY <2>1, <2>5, BecomeType, ReturnType DEF HandlersTyped
  <2> QED
    BY <1>4, <2>6, QuietType DEF FetchGrant, TypeOK
<1> QED
  BY <1>1, <1>2, <1>3, <1>4

\* A handler that goes on after a decision has what its next step needs.
LEMMA DecideType ==
  ASSUME TypeOK, NEW s \in Slot, Decide(s) \/ Recheck(s) \/ RefuseMint(s)
                                 \/ CheckPresented(s) \/ LogExecution(s)
  PROVE  TypeOK'
<1> DEFINE f == h[s]
<1>0. f \in Frame /\ FrameOK(f) /\ f.run \in Nat
  BY FrameParts
<1>1. CASE Decide(s)
  <2> DEFINE d == Decision(f.view, Counts(f), f.req, now)
             pc == IF d.action = "allow" THEN "fetch" ELSE "elevate"
             k == [f EXCEPT !.pc = pc, !.gid = d.grant, !.view = <<>>, !.hist = {}]
  <2>1. /\ Log("decision", f.run, d.action, d.grant, 0)
        /\ IF d.action = "deny" THEN Return(s) ELSE Become(s, k)
    BY <1>1 DEF Decide
  <2>2. f.view \in Seq(Grant)
    BY <1>0 DEF Frame
  <2>3. \/ d.action = "deny" /\ d.grant = ""
        \/ d.action \in {"allow", "require_elevation"} /\ d.grant \in GrantRef
    BY <2>2, DecisionOutcome
  <2>4. f.pc = "decide"
    BY <1>1 DEF Decide, At
  <2> HIDE DEF d
  <2>5. audit' \subseteq EntryType
    <3>1. /\ "decision" \in EntryKind /\ d.action \in Verdict
          /\ d.grant \in GrantRef \cup {""} /\ 0 \in Nat
      BY <2>3 DEF EntryKind, Verdict
    <3> QED
      BY <1>0, <2>1, <3>1, LogType
  <2>6. ASSUME d.action # "deny" PROVE k \in Frame /\ FrameOK(k)
    <3>1. d.grant \in GrantRef /\ pc \in {"fetch", "elevate"}
      BY <2>3, <2>6
    <3> HIDE DEF pc
    <3>2. <<>> \in Seq(Grant)
      OBVIOUS
    <3>3. k \in Frame
      BY <1>0, <3>1, <3>2 DEF Frame, Pc
    <3> QED
      BY <1>0, <2>4, <3>1, <3>3 DEF Frame, FrameOK
  <2> HIDE DEF k
  <2>7. HandlersTyped'
    BY <2>1, <2>6, BecomeType, ReturnType DEF HandlersTyped
  <2> QED
    BY <1>1, <2>5, <2>7, QuietType DEF Decide
<1>2. CASE Recheck(s)
  <2> DEFINE k == [f EXCEPT !.pc = "mint"]
  <2>1. f.pc = "recheck" /\ f.got \in GrantOf(GrantRef, TaskRef)
    BY <1>0, <1>2 DEF Recheck, At, FrameOK
  <2>2. \/ Log("decision", f.run, "deny", f.got.id, 0) /\ Return(s)
        \/ Become(s, k) /\ UNCHANGED audit
    BY <1>2 DEF Recheck
  <2>3. k \in Frame /\ FrameOK(k)
    BY <1>0, <2>1 DEF Frame, FrameOK, Pc
  <2> HIDE DEF k
  <2>4. HandlersTyped'
    BY <2>2, <2>3, BecomeType, ReturnType DEF HandlersTyped
  <2>5. f.got.id \in GrantRef \cup {""}
    BY <2>1 DEF GrantOf
  <2>6. audit' \subseteq EntryType
    BY <1>0, <2>2, <2>5, LogType DEF TypeOK, EntryKind, Verdict
  <2> QED
    BY <1>2, <2>4, <2>6, QuietType DEF Recheck
<1>3. CASE RefuseMint(s)
  <2>1. HandlersTyped'
    BY <1>3, ReturnType DEF RefuseMint, HandlersTyped
  <2>2. audit' \subseteq EntryType
    BY <1>0, <1>3, LogType DEF RefuseMint, EntryKind, Verdict
  <2> QED
    BY <1>3, <2>1, <2>2, QuietType DEF RefuseMint
<1>4. CASE CheckPresented(s)
  <2> DEFINE k == [f EXCEPT !.pc = "verify"]
  <2>1. f.pc = "presented" /\ f.cred \in CredentialType
    BY <1>0, <1>4 DEF CheckPresented, At, FrameOK
  <2>2. \/ Log("decision", f.run, "deny", f.cred.grant, 0) /\ Return(s)
        \/ Become(s, k) /\ UNCHANGED audit
    BY <1>4 DEF CheckPresented
  <2>3. k \in Frame /\ FrameOK(k)
    BY <1>0, <2>1 DEF Frame, FrameOK, Pc
  <2> HIDE DEF k
  <2>4. HandlersTyped'
    BY <2>2, <2>3, BecomeType, ReturnType DEF HandlersTyped
  <2>5. f.cred.grant \in GrantRef \cup {""}
    BY <2>1 DEF CredentialType
  <2>6. audit' \subseteq EntryType
    BY <1>0, <2>2, <2>5, LogType DEF TypeOK, EntryKind, Verdict
  <2> QED
    BY <1>4, <2>4, <2>6, QuietType DEF CheckPresented
<1>5. CASE LogExecution(s)
  <2> DEFINE k == [f EXCEPT !.pc = "record"]
  <2>1. f.pc = "log" /\ f.cred \in CredentialType
    BY <1>0, <1>5 DEF LogExecution, At, FrameOK
  <2>2. /\ Log("exec", f.run, "", f.cred.grant, 0)
        /\ Return(s) \/ Become(s, k)
    BY <1>5 DEF LogExecution
  <2>3. k \in Frame /\ FrameOK(k)
    BY <1>0, <2>1 DEF Frame, FrameOK, Pc
  <2> HIDE DEF k
  <2>4. HandlersTyped'
    BY <2>2, <2>3, BecomeType, ReturnType DEF HandlersTyped
  <2>5. f.cred.grant \in GrantRef \cup {""}
    BY <2>1 DEF CredentialType
  <2>6. audit' \subseteq EntryType
    BY <1>0, <2>2, <2>5, LogType DEF EntryKind, Verdict
  <2> QED
    BY <1>5, <2>4, <2>6, QuietType DEF LogExecution
<1> QED
  BY <1>1, <1>2, <1>3, <1>4, <1>5

\* Queueing, consuming and refusing an approval keep the types.
LEMMA ElevateType ==
  ASSUME TypeOK, NEW s \in Slot, Enqueue(s) \/ ConsumeElevation(s) \/ RefuseElevation(s)
  PROVE  TypeOK'
<1> DEFINE f == h[s]
<1>0. /\ f \in Frame /\ FrameOK(f) /\ f.run \in Nat
      /\ f.pc = "elevate" /\ f.gid \in GrantRef
      /\ f.req \in Request /\ f.req \in RequestType
  BY FrameParts, BrokerAssumption DEF FrameOK, Enqueue, ConsumeElevation, RefuseElevation, At
<1>1. CASE Enqueue(s)
  <2> DEFINE e == [task |-> f.req.task, key |-> CallKey(f.req), status |-> "pending"]
  <2>1. e \in ElevationType
    BY <1>0 DEF ElevationType, CallKey, RequestType, TaskRef
  <2>2. elev' = Append(elev, e) /\ elev \in Seq(ElevationType)
    BY <1>1 DEF Enqueue, TypeOK
  <2> HIDE DEF e
  <2>3. elev' \in Seq(ElevationType) /\ Len(elev') \in Nat
    BY <2>1, <2>2
  <2>4. Log("elevate", f.run, "pending", f.gid, Len(elev'))
    BY <1>1 DEF Enqueue
  <2>5. audit' \subseteq EntryType
    BY <1>0, <2>3, <2>4, LogType DEF EntryKind, Verdict
  <2>6. HandlersTyped'
    BY <1>1, ReturnType DEF Enqueue, HandlersTyped
  <2> QED
    BY <1>1, <2>3, <2>5, <2>6
    DEF Enqueue, TypeOK, HandlersTyped, storeVars, credVars, envVars
<1>2. CASE ConsumeElevation(s)
  <2> DEFINE i == f.elev
             e == [elev[i] EXCEPT !.status = "consumed"]
             k == [f EXCEPT !.pc = "fetch"]
  <2>1. /\ Consumable(i, f.req) /\ i # 0 /\ elev' = [elev EXCEPT ![i] = e]
        /\ Log("elevate", f.run, "consumed", f.gid, 0) /\ Become(s, k)
    BY <1>2 DEF ConsumeElevation
  <2>2. elev' \in Seq(ElevationType)
    <3>1. CASE i \in 1 .. Len(elev)
      <4>1. elev[i] \in ElevationType
        BY <3>1, ElementOfSeq DEF TypeOK
      <4>2. e \in ElevationType
        BY <4>1 DEF ElevationType
      <4> HIDE DEF e
      <4> QED
        BY <2>1, <3>1, <4>2, ExceptSeq DEF TypeOK
    <3>2. CASE i \notin 1 .. Len(elev)
      <4>1. elev' = elev
        BY <2>1, <3>2, LenProperties DEF TypeOK
      <4> QED
        BY <4>1 DEF TypeOK
    <3> QED
      BY <3>1, <3>2
  <2>3. k \in Frame /\ FrameOK(k)
    BY <1>0 DEF Frame, FrameOK, Pc
  <2> HIDE DEF k
  <2>4. HandlersTyped'
    BY <2>1, <2>3, BecomeType DEF HandlersTyped
  <2>5. audit' \subseteq EntryType
    BY <1>0, <2>1, LogType DEF EntryKind, Verdict
  <2> QED
    BY <1>2, <2>2, <2>4, <2>5
    DEF ConsumeElevation, TypeOK, HandlersTyped, storeVars, credVars, envVars
<1>3. CASE RefuseElevation(s)
  <2>1. HandlersTyped'
    BY <1>3, ReturnType DEF RefuseElevation, HandlersTyped
  <2>2. audit' \subseteq EntryType
    BY <1>0, <1>3, LogType DEF RefuseElevation, EntryKind, Verdict
  <2> QED
    BY <1>3, <2>1, <2>2, QuietType DEF RefuseElevation
<1> QED
  BY <1>1, <1>2, <1>3

\* A grant that allows the call gives a well-typed credential.
LEMMA CredentialTyped ==
  ASSUME TypeOK, NEW g \in GrantOf(GrantRef, TaskRef), NEW r \in Request
  PROVE  Credential(g, r) \in CredentialType
<1>1. Lifetime(g) \in Nat
  BY BrokerAssumption DEF Lifetime, GrantOf
<1>2. minted + 1 \in Nat /\ now + Lifetime(g) \in Nat /\ now \in Nat /\ boots \in Nat
  BY <1>1 DEF TypeOK
<1>3. r.tool \in STRING /\ r.op \in STRING /\ r.resource \in Addr
  BY BrokerAssumption DEF RequestType
<1> QED
  BY <1>2, <1>3 DEF Credential, CredentialType, GrantOf

\* A minted credential names a grant or the one the engine invents.
LEMMA CredentialStepType ==
  ASSUME TypeOK, NEW s \in Slot,
         MintCredential(s) \/ AcceptCredential(s) \/ RefuseCredential(s)
  PROVE  TypeOK'
<1> DEFINE f == h[s]
<1>0. /\ f \in Frame /\ FrameOK(f) /\ f.run \in Nat
      /\ f.req \in Request /\ f.req \in RequestType
  BY FrameParts, BrokerAssumption
  DEF FrameOK, MintCredential, AcceptCredential, RefuseCredential, At
<1>1. CASE MintCredential(s)
  <2> DEFINE c == Credential(f.got, f.req)
             k == [f EXCEPT !.pc = "verify", !.cred = c, !.got = NoGrant, !.gid = ""]
  <2>1. f.pc = "mint" /\ f.got \in GrantOf(GrantRef, TaskRef)
    BY <1>0, <1>1 DEF MintCredential, At, FrameOK
  <2>2. /\ minted' = minted + 1 /\ Log("mint", f.run, "", f.got.id, minted')
        /\ Become(s, k)
    BY <1>1 DEF MintCredential
  <2>3. c \in CredentialType
    BY <1>0, <2>1, CredentialTyped
  <2> HIDE DEF c
  <2>4. k \in Frame /\ FrameOK(k)
    BY <1>0, <2>1, <2>3 DEF Frame, FrameOK, Pc
  <2> HIDE DEF k
  <2>5. HandlersTyped'
    BY <2>2, <2>4, BecomeType DEF HandlersTyped
  <2>6. minted' \in Nat /\ f.got.id \in GrantRef
    <3>1. minted' = minted + 1 /\ minted \in Nat
      BY <2>2 DEF TypeOK
    <3>2. f.got.id \in GrantRef
      BY <2>1 DEF GrantOf
    <3> QED
      BY <3>1, <3>2
  <2>7. audit' \subseteq EntryType
    BY <1>0, <2>2, <2>6, LogType DEF EntryKind, Verdict
  <2> QED
    BY <1>1, <2>5, <2>6, <2>7
    DEF MintCredential, TypeOK, HandlersTyped, storeVars, authVars, envVars
<1>2. CASE AcceptCredential(s)
  <2> DEFINE k == [f EXCEPT !.pc = "exec"]
  <2>1. f.pc = "verify" /\ f.cred \in CredentialType
    BY <1>0, <1>2 DEF AcceptCredential, At, FrameOK
  <2>2. ConsumeNonce(f.cred) /\ Become(s, k)
    BY <1>2 DEF AcceptCredential
  <2>3. k \in Frame /\ FrameOK(k)
    BY <1>0, <2>1 DEF Frame, FrameOK, Pc
  <2> HIDE DEF k
  <2>4. HandlersTyped'
    BY <2>2, <2>3, BecomeType DEF HandlersTyped
  <2>5. used' \subseteq Nat
    BY <2>1, <2>2 DEF ConsumeNonce, CredentialType, TypeOK
  <2> QED
    BY <1>2, <2>4, <2>5
    DEF AcceptCredential, TypeOK, HandlersTyped, storeVars, authVars, envVars
<1>3. CASE RefuseCredential(s)
  <2>1. f.cred \in CredentialType
    BY <1>0, <1>3 DEF RefuseCredential, At, FrameOK
  <2>2. HandlersTyped'
    BY <1>3, ReturnType DEF RefuseCredential, HandlersTyped
  <2>3. audit' \subseteq EntryType
    BY <1>0, <1>3, LogType DEF RefuseCredential, EntryKind, Verdict
  <2>4. released' \subseteq CredentialType
    BY <1>3, <2>1 DEF RefuseCredential, TypeOK
  <2> QED
    BY <1>3, <2>2, <2>3, <2>4
    DEF RefuseCredential, TypeOK, HandlersTyped, storeVars, authVars, envVars
<1> QED
  BY <1>1, <1>2, <1>3

\* What ran and what is recorded is of a call with a credential.
LEMMA ExecuteType ==
  ASSUME TypeOK, NEW s \in Slot, Execute(s) \/ RecordCall(s)
  PROVE  TypeOK'
<1> DEFINE f == h[s]
<1>0. /\ f \in Frame /\ FrameOK(f) /\ f.run \in Nat /\ f.cred \in CredentialType
      /\ f.path \in {"minted", "presented"}
      /\ f.req \in Request /\ f.req \in RequestType
  BY FrameParts, BrokerAssumption DEF Frame, FrameOK, Execute, RecordCall, At
<1>1. CASE Execute(s)
  <2> DEFINE k == [f EXCEPT !.pc = "log"]
  <2>1. Become(s, k) /\ (execs' = execs \/ execs' = execs \cup {Execution(f)})
    BY <1>1 DEF Execute
  <2>2. k \in Frame /\ FrameOK(k)
    BY <1>0 DEF Frame, FrameOK, Pc
  <2> HIDE DEF k
  <2>3. HandlersTyped'
    BY <2>1, <2>2, BecomeType DEF HandlersTyped
  <2>4. Execution(f) \in ExecutionType
    BY <1>0 DEF Execution, ExecutionType, Frame, TypeOK
  <2>5. execs' \subseteq ExecutionType
    BY <2>1, <2>4 DEF TypeOK
  <2> QED
    BY <1>1, <2>3, <2>5
    DEF Execute, TypeOK, HandlersTyped, storeVars, authVars, credVars, envVars
<1>2. CASE RecordCall(s)
  <2>1. HandlersTyped'
    BY <1>2, ReturnType DEF RecordCall, HandlersTyped
  <2>2. CallRecord(f) \in CallRecordType
    BY <1>0 DEF CallRecord, CallRecordType, CredentialType, RequestType, TaskRef, TypeOK
  <2>3. calls' \subseteq CallRecordType /\ released' \subseteq CredentialType
    BY <1>0, <1>2, <2>2 DEF RecordCall, TypeOK
  <2> QED
    BY <1>2, <2>1, <2>3
    DEF RecordCall, TypeOK, HandlersTyped, authVars, envVars
<1> QED
  BY <1>1, <1>2

\* Every step of a handler keeps the types.
LEMMA ServeType == ASSUME TypeOK, NEW s \in Slot, Serve(s) PROVE TypeOK'
BY ReadType, DecideType, ElevateType, CredentialStepType, ExecuteType DEF Serve

----------------------------------------------------------------------------
(* The steps of clients, operator and environment *)

\* A call that arrives has a request and, if presented, a credential.
LEMMA ArriveType ==
  ASSUME TypeOK, NEW s \in Slot, NewCall(s) \/ PresentMalformed(s)
  PROVE  TypeOK'
<1>1. ASSUME NEW r \in Request, RefuseUnknownTask(s, r) PROVE TypeOK'
  <2>1. runs' \in Nat
    <3>1. runs' = runs + 1 /\ runs \in Nat
      BY <1>1 DEF RefuseUnknownTask, TypeOK
    <3> QED
      BY <3>1
  <2>2. audit' \subseteq EntryType
    BY <1>1, <2>1, LogType DEF RefuseUnknownTask, EntryKind, Verdict
  <2> QED
    BY <1>1, <2>1, <2>2 DEF RefuseUnknownTask, TypeOK, storeVars, authVars, credVars
<1>2. CASE PresentMalformed(s)
  <2>1. runs' \in Nat
    <3>1. runs' = runs + 1 /\ runs \in Nat
      BY <1>2 DEF PresentMalformed, TypeOK
    <3> QED
      BY <3>1
  <2>2. audit' \subseteq EntryType
    BY <1>2, <2>1, LogType DEF PresentMalformed, EntryKind, Verdict
  <2> QED
    BY <1>2, <2>1, <2>2 DEF PresentMalformed, TypeOK, storeVars, authVars, credVars
<1>3. ASSUME NEW r \in Request, NEW e \in {0} \cup DOMAIN elev, Arrive(s, r, e)
      PROVE  TypeOK'
  <2> DEFINE k == [Idle EXCEPT !.pc = "grants", !.path = "minted", !.run = runs',
                               !.req = r, !.elev = e]
  <2>1. runs' \in Nat /\ Become(s, k)
    BY <1>3 DEF Arrive, TypeOK
  <2>2. e \in Nat
    BY LenProperties DEF TypeOK
  <2>3. k \in Frame /\ FrameOK(k)
    BY <2>1, <2>2, IdleType DEF Frame, FrameOK, Pc
  <2> HIDE DEF k
  <2>4. HandlersTyped'
    BY <2>1, <2>3, BecomeType DEF HandlersTyped
  <2> QED
    BY <1>3, <2>1, <2>4 DEF Arrive, TypeOK, HandlersTyped, storeVars, authVars, credVars
<1>4. ASSUME NEW r \in Request, NEW c \in released, Present(s, r, c) PROVE TypeOK'
  <2>1. PICK wire \in Presented(c, r) :
          Become(s, [Idle EXCEPT !.pc = "presented", !.path = "presented", !.run = runs',
                                 !.req = r, !.cred = wire, !.known = ledger])
    BY <1>4 DEF Present
  <2> DEFINE k == [Idle EXCEPT !.pc = "presented", !.path = "presented", !.run = runs',
                               !.req = r, !.cred = wire, !.known = ledger]
  <2>2. runs' \in Nat /\ ledger \in SUBSET GrantId /\ c \in CredentialType
    BY <1>4 DEF Present, TypeOK
  <2>3. wire \in CredentialType
    BY <2>2, BrokerAssumption DEF Presented, CredentialType, RequestType
  <2>4. k \in Frame /\ FrameOK(k)
    BY <2>2, <2>3, IdleType DEF Frame, FrameOK, Pc
  <2> HIDE DEF k
  <2>5. HandlersTyped'
    BY <2>1, <2>4, BecomeType DEF HandlersTyped, k
  <2> QED
    BY <1>4, <2>2, <2>5 DEF Present, TypeOK, HandlersTyped, storeVars, authVars, credVars
<1> QED
  BY <1>1, <1>2, <1>3, <1>4 DEF NewCall

\* Tasks, revocations, answers and the harness keep the types.
LEMMA OperatorType == ASSUME TypeOK, Operator PROVE TypeOK'
<1>1. ASSUME NEW t \in TaskId, CreateTask(t) PROVE TypeOK'
  <2> DEFINE issued == {[g EXCEPT !.task = t] : g \in TaskReq[t]}
  <2>1. issued \subseteq Grant
    <3>1. TaskReq[t] \subseteq Grant
      BY BrokerAssumption
    <3> QED
      BY <3>1 DEF Grant, GrantOf
  <2>2. /\ tasks' = [tasks EXCEPT ![t] = "live"]
        /\ grants' = [i \in GrantId |-> IF \E g \in issued : g.id = i
                                        THEN CHOOSE g \in issued : g.id = i ELSE grants[i]]
        /\ audit' = audit \cup {Entry("grant", 0, t, g.id, 0) : g \in issued}
                          \cup {Entry("task", 0, t, "", 0)}
    BY <1>1 DEF CreateTask
  <2> HIDE DEF issued
  <2>3. tasks' \in [TaskId -> {"new", "live", "lost"}]
    BY <2>2 DEF TypeOK
  <2>4. grants' \in [GrantId -> Grant \cup {NoGrant}]
    BY <2>1, <2>2 DEF TypeOK
  <2>5. \A g \in issued : Entry("grant", 0, t, g.id, 0) \in EntryType
    <3>1. \A g \in issued : g.id \in GrantRef
      BY <2>1 DEF Grant, GrantOf, GrantRef
    <3> QED
      BY <3>1 DEF Entry, EntryType, EntryKind
  <2>6. Entry("task", 0, t, "", 0) \in EntryType
    BY DEF Entry, EntryType, EntryKind
  <2>7. audit' \subseteq EntryType
    BY <2>2, <2>5, <2>6 DEF TypeOK
  <2> QED
    BY <1>1, <2>3, <2>4, <2>7 DEF CreateTask, TypeOK, authVars, credVars, envVars
<1>2. ASSUME NEW g \in GrantId, RevokeMark(g) PROVE TypeOK'
  <2>1. grants[g] \in Grant /\ grants' = [grants EXCEPT ![g].revoked = TRUE]
    BY <1>2 DEF RevokeMark, TypeOK
  <2>2. [grants[g] EXCEPT !.revoked = TRUE] \in Grant
    BY <2>1 DEF Grant, GrantOf
  <2>3. grants' \in [GrantId -> Grant \cup {NoGrant}]
    BY <2>1, <2>2 DEF TypeOK
  <2> QED
    BY <1>2, <2>3 DEF RevokeMark, TypeOK, credVars, envVars
<1>3. ASSUME NEW g \in GrantId, RevokeCommit(g) PROVE TypeOK'
  <2>1. audit' \subseteq EntryType
    BY <1>3, LogType DEF RevokeCommit, EntryKind, Verdict, GrantRef
  <2> QED
    BY <1>3, <2>1 DEF RevokeCommit, TypeOK, storeVars, credVars, envVars
<1>4. ASSUME NEW i \in DOMAIN elev, Approve(i) \/ DenyElevation(i) PROVE TypeOK'
  <2>1. PICK status \in {"approved", "denied"}, ref \in {0, i} : Resolve(i, status, ref)
    BY <1>4 DEF Approve, DenyElevation
  <2> DEFINE e == [elev[i] EXCEPT !.status = status]
  <2>2. i \in 1 .. Len(elev) /\ i \in Nat
    BY LenProperties DEF TypeOK
  <2>3. elev[i] \in ElevationType
    BY <2>2, ElementOfSeq DEF TypeOK
  <2>4. e \in ElevationType
    BY <2>3 DEF ElevationType
  <2>5. elev' = [elev EXCEPT ![i] = e]
    BY <2>1 DEF Resolve
  <2> HIDE DEF e
  <2>6. elev' \in Seq(ElevationType)
    BY <2>2, <2>4, <2>5, ExceptSeq DEF TypeOK
  <2>7. audit' \subseteq EntryType
    BY <2>1, <2>2, LogType DEF Resolve, EntryKind, Verdict
  <2> QED
    BY <2>1, <2>6, <2>7 DEF Resolve, TypeOK, storeVars, credVars, envVars
<1>5. ASSUME NEW r \in Request, MintOnly(r) PROVE TypeOK'
  <2>1. PICK i \in TaskGrants(r.task) : released' = released \cup {Credential(grants[i], r)}
    BY <1>5 DEF MintOnly
  <2>2. grants[i] \in GrantOf(GrantRef, TaskRef)
    <3>1. grants[i] \in Grant
      BY DEF TaskGrants, TypeOK
    <3> QED
      BY <3>1 DEF Grant, GrantOf, GrantRef, TaskRef
  <2>3. released' \subseteq CredentialType
    BY <2>1, <2>2, CredentialTyped DEF TypeOK
  <2>4. minted' \in Nat
    BY <1>5 DEF MintOnly, TypeOK
  <2> QED
    BY <1>5, <2>3, <2>4 DEF MintOnly, TypeOK, storeVars, authVars, envVars
<1> QED
  BY <1>1, <1>2, <1>3, <1>4, <1>5 DEF Operator

\* Time and restarts keep the types.
LEMMA EnvironmentType == ASSUME TypeOK, Tick \/ Restart PROVE TypeOK'
<1>1. CASE Tick
  <2>1. now' \in Nat
    BY <1>1 DEF Tick, TypeOK
  <2> QED
    BY <1>1, <2>1 DEF Tick, TypeOK, storeVars, authVars, credVars
<1>2. CASE Restart
  <2>1. HandlersTyped'
    BY <1>2, IdleType DEF Restart, HandlersTyped
  <2>2. boots' \in Nat
    BY <1>2 DEF Restart, TypeOK
  <2>3. elev' \in Seq(ElevationType)
    <3>1. /\ elev \in Seq(ElevationType) /\ Len(elev) \in Nat
          /\ elev' = [i \in 1 .. Len(elev) |-> [elev[i] EXCEPT !.status = "lost"]]
      BY <1>2, LenProperties DEF Restart, TypeOK
    <3>2. \A i \in 1 .. Len(elev) : elev[i] \in ElevationType
      BY <3>1, ElementOfSeq
    <3>3. \A i \in 1 .. Len(elev) : [elev[i] EXCEPT !.status = "lost"] \in ElevationType
      BY <3>2 DEF ElevationType
    <3>4. elev' \in [1 .. Len(elev) -> ElevationType]
      BY <3>1, <3>3
    <3> QED
      BY <3>1, <3>4
  <2>4. tasks' \in [TaskId -> {"new", "live", "lost"}]
    BY <1>2 DEF Restart, TypeOK
  <2>5. released' \subseteq CredentialType
    <3>1. \A c \in CredentialType : [c EXCEPT !.signed = FALSE] \in CredentialType
      BY DEF CredentialType
    <3>2. released \subseteq CredentialType
      BY DEF TypeOK
    <3> QED
      BY <1>2, <3>1, <3>2 DEF Restart, LoadOrCreateKey
  <2> QED
    BY <1>2, <2>1, <2>2, <2>3, <2>4, <2>5 DEF Restart, TypeOK, HandlersTyped
<1> QED
  BY <1>1, <1>2

\* Every step keeps every variable in its type, and every handler with what
\* its next step needs.
THEOREM TypeCorrect == Spec => []TypeOK
<1>1. TypeOK /\ [Next]_vars => TypeOK'
  <2> SUFFICES ASSUME TypeOK, [Next]_vars PROVE TypeOK'
    OBVIOUS
  <2>1. CASE UNCHANGED vars
    BY <2>1 DEF vars, TypeOK, storeVars, authVars, credVars, envVars
  <2> QED
    BY <2>1, ServeType, ArriveType, OperatorType, EnvironmentType DEF Next
<1> QED
  BY <1>1, TypeInit, PTL DEF Spec

----------------------------------------------------------------------------
(* The engine and the Rego files *)

\* For any grants, history and call, the engine denies what the rules of the
\* Rego files deny and lets nothing pass without the approval they ask for, but
\* for the scratch files and the mails whose destination the two read
\* differently (engine.go, against elevation.rego and the other files).
THEOREM EngineIsStricterThanRego == Spec => []EngineCoversRego
<1>1. ASSUME TypeOK PROVE EngineCoversRego
  <2> SUFFICES ASSUME Controls = ControlName, NEW s \in Slot, At(s, "decide")
               PROVE  LET f == h[s]
                          d == Decision(f.view, Counts(f), f.req, now)
                          match == Match(f.view, f.req, now)
                      IN  /\ OutOfScope(f.view, f.req) \/ CapsReached(match, Counts(f)) => d.action = "deny"
                          /\ NotOnAllowlist(match, f.req) /\ OneDestination(f.req) => d.action = "deny"
                          /\ UntrustedTarget(f.req) /\ ~Scratch(f.req) => d.action = "deny"
                          /\ RequireElevation(f.req) /\ OneRecipient(f.req) => d.action # "allow"
    BY Zenon DEF EngineCoversRego, Deciding
  <2>1. h[s].req \in RequestType
    BY <1>1, FrameParts DEF At
  <2>2. h[s].req.resource \in [scheme : STRING, name : STRING, ours : BOOLEAN]
    BY <2>1 DEF RequestType, Addr
  <2> QED
    BY <2>2, EngineStrict, Zenon
<1> QED
  BY <1>1, TypeCorrect, PTL

----------------------------------------------------------------------------
(* What each step of a handler does to it *)

\* A handler that moves on stays with its call, and the others are untouched.
Moves(s, from, to) ==
  /\ h[s].pc = from /\ h'[s].pc = to
  /\ h'[s].path = h[s].path /\ h'[s].run = h[s].run
  /\ h'[s].req = h[s].req /\ h'[s].elev = h[s].elev
  /\ \A q \in Slot \ {s} : h'[q] = h[q]

Ends(s, from) ==
  /\ h[s].pc = from /\ h'[s] = Idle
  /\ \A q \in Slot \ {s} : h'[q] = h[q]

\* A call begins in a slot that is free.
Begins(s, pc, path, r) ==
  /\ h[s].pc = "idle" /\ h'[s].pc = pc /\ h'[s].path = path
  /\ runs' = runs + 1 /\ h'[s].run = runs' /\ h'[s].req = r
  /\ h'[s].view = <<>> /\ h'[s].gid = "" /\ h'[s].got = NoGrant
  /\ \A q \in Slot \ {s} : h'[q] = h[q]

StoreKept == tasks' = tasks /\ grants' = grants /\ calls' = calls
AuthKept == revoking' = revoking /\ ledger' = ledger /\ elev' = elev
CredKept == used' = used /\ minted' = minted /\ released' = released
EnvKept == now' = now /\ boots' = boots /\ runs' = runs

CredsKept(s) == h'[s].cred = h[s].cred /\ h'[s].known = h[s].known

\* A handler that moves leaves the other handlers alone.
LEMMA BecomeEffect ==
  ASSUME TypeOK, NEW s \in Slot, NEW f, Become(s, f)
  PROVE  h'[s] = f /\ \A q \in Slot \ {s} : h'[q] = h[q]
BY DEF Become, TypeOK

\* A handler that returns leaves the other handlers alone.
LEMMA ReturnEffect ==
  ASSUME TypeOK, NEW s \in Slot, Return(s)
  PROVE  h'[s] = Idle /\ Idle.pc = "idle" /\ \A q \in Slot \ {s} : h'[q] = h[q]
<1>1. Idle.pc = "idle"
  BY DEF Idle
<1> QED
  BY <1>1, BecomeEffect DEF Return

\* The copy of the grants (service.go:180) changes the view only.
LEMMA ReadGrantsEffect ==
  ASSUME TypeOK, NEW s \in Slot, ReadGrants(s)
  PROVE  /\ Moves(s, "grants", "ledger") /\ CredsKept(s)
         /\ h'[s].view \in GrantOrders(h[s].req.task) /\ h'[s].next = h[s].next
         /\ StoreKept /\ AuthKept /\ CredKept /\ EnvKept /\ audit' = audit /\ execs' = execs
<1>1. PICK view \in GrantOrders(h[s].req.task) :
        Become(s, [h[s] EXCEPT !.pc = "ledger", !.view = view])
  BY DEF ReadGrants
<1> DEFINE k == [h[s] EXCEPT !.pc = "ledger", !.view = view]
<1>2. /\ k.pc = "ledger" /\ k.view = view /\ k.path = h[s].path /\ k.run = h[s].run
      /\ k.req = h[s].req /\ k.elev = h[s].elev /\ k.cred = h[s].cred
      /\ k.known = h[s].known /\ k.next = h[s].next
  BY FrameParts DEF Frame
<1>3. Become(s, k)
  BY <1>1
<1> HIDE DEF k
<1>4. h[s].pc = "grants" /\ StoreKept /\ AuthKept /\ CredKept /\ EnvKept
      /\ audit' = audit /\ execs' = execs
  BY DEF ReadGrants, At, StoreKept, AuthKept, CredKept, EnvKept, storeVars, authVars,
         credVars, envVars
<1> QED
  BY <1>1, <1>2, <1>3, <1>4, BecomeEffect DEF Moves, CredsKept

\* One question to the ledger (service.go:181-190) marks one grant of the view,
\* or the loop is over.
LEMMA CheckLedgerEffect ==
  ASSUME TypeOK, NEW s \in Slot, CheckLedger(s)
  PROVE  /\ StoreKept /\ AuthKept /\ CredKept /\ EnvKept /\ audit' = audit /\ execs' = execs
         /\ CredsKept(s)
         /\ \/ /\ Moves(s, "ledger", "ledger") /\ h[s].next \in DOMAIN h[s].view
               /\ \E seen \in BOOLEAN :
                    h'[s].view = [h[s].view EXCEPT ![h[s].next].revoked = seen]
            \/ Moves(s, "ledger", "history") /\ h'[s].view = h[s].view
<1> DEFINE f == h[s]
           i == f.next
           seen == IF On("revocation") THEN f.view[i].revoked \/ f.view[i].id \in ledger
                   ELSE FALSE
           k == [f EXCEPT !.view[i].revoked = seen, !.next = @ + 1]
           l == [f EXCEPT !.pc = "history", !.next = 1]
<1>1. /\ f.pc = "ledger" /\ StoreKept /\ AuthKept /\ CredKept /\ EnvKept
      /\ audit' = audit /\ execs' = execs
  BY DEF CheckLedger, At, StoreKept, AuthKept, CredKept, EnvKept, storeVars, authVars,
         credVars, envVars
<1>2. (i \in DOMAIN f.view /\ Become(s, k)) \/ Become(s, l)
  BY DEF CheckLedger
<1>3. /\ l.pc = "history" /\ l.path = f.path /\ l.run = f.run /\ l.req = f.req
      /\ l.elev = f.elev /\ l.cred = f.cred /\ l.known = f.known /\ l.view = f.view
  BY FrameParts DEF Frame
<1>4. /\ k.pc = f.pc /\ k.path = f.path /\ k.run = f.run /\ k.req = f.req
      /\ k.elev = f.elev /\ k.cred = f.cred /\ k.known = f.known
      /\ k.view = [f.view EXCEPT ![i].revoked = seen]
  BY FrameParts DEF Frame
<1>5. i \in DOMAIN f.view => seen \in BOOLEAN
  <2> SUFFICES ASSUME i \in DOMAIN f.view PROVE seen \in BOOLEAN
    OBVIOUS
  <2>1. f.view \in Seq(Grant) /\ i \in 1 .. Len(f.view)
    BY FrameParts, LenProperties
  <2>2. f.view[i] \in Grant
    BY <2>1, ElementOfSeq
  <2> QED
    BY <2>2 DEF Grant, GrantOf
<1> HIDE DEF k, l, seen
<1>6. CASE i \in DOMAIN f.view /\ Become(s, k)
  BY <1>1, <1>4, <1>5, <1>6, BecomeEffect DEF Moves, CredsKept
<1>7. CASE Become(s, l)
  BY <1>1, <1>3, <1>7, BecomeEffect DEF Moves, CredsKept
<1> QED
  BY <1>2, <1>6, <1>7

\* The copy of the history (service.go:199) is the task's calls at that instant.
LEMMA ReadHistoryEffect ==
  ASSUME TypeOK, NEW s \in Slot, ReadHistory(s)
  PROVE  /\ StoreKept /\ AuthKept /\ CredKept /\ EnvKept /\ audit' = audit /\ execs' = execs
         /\ Moves(s, "history", "decide") /\ CredsKept(s) /\ h'[s].view = h[s].view
         /\ h'[s].hist = {c \in calls : c.task = h[s].req.task}
<1> DEFINE f == h[s]
           k == [f EXCEPT !.pc = "decide", !.hist = {c \in calls : c.task = f.req.task}]
<1>1. /\ f.pc = "history" /\ StoreKept /\ AuthKept /\ CredKept /\ EnvKept
      /\ audit' = audit /\ execs' = execs
  BY DEF ReadHistory, At, StoreKept, AuthKept, CredKept, EnvKept, storeVars, authVars,
         credVars, envVars
<1>2. Become(s, k)
  BY DEF ReadHistory
<1>3. /\ k.pc = "decide" /\ k.path = f.path /\ k.run = f.run /\ k.req = f.req
      /\ k.elev = f.elev /\ k.cred = f.cred /\ k.known = f.known /\ k.view = f.view
      /\ k.hist = {c \in calls : c.task = f.req.task}
  BY FrameParts DEF Frame
<1> HIDE DEF k
<1> QED
  BY <1>1, <1>2, <1>3, BecomeEffect DEF Moves, CredsKept

\* A decision (service.go:227) is logged and ends the call, lets it go on or asks
\* for an approval.
LEMMA DecideEffect ==
  ASSUME TypeOK, NEW s \in Slot, Decide(s)
  PROVE  LET d == Decision(h[s].view, Counts(h[s]), h[s].req, now)
         IN  /\ StoreKept /\ AuthKept /\ CredKept /\ EnvKept /\ execs' = execs
             /\ Log("decision", h[s].run, d.action, d.grant, 0)
             /\ \/ d.action = "deny" /\ Ends(s, "decide")
                \/ /\ d.action = "allow" /\ Moves(s, "decide", "fetch")
                   /\ CredsKept(s) /\ h'[s].gid = d.grant /\ h'[s].view = <<>>
                \/ /\ d.action = "require_elevation" /\ Moves(s, "decide", "elevate")
                   /\ CredsKept(s) /\ h'[s].gid = d.grant /\ h'[s].view = <<>>
<1> DEFINE f == h[s]
           d == Decision(f.view, Counts(f), f.req, now)
           pc == IF d.action = "allow" THEN "fetch" ELSE "elevate"
           k == [f EXCEPT !.pc = pc, !.gid = d.grant, !.view = <<>>, !.hist = {}]
<1>1. /\ f.pc = "decide" /\ StoreKept /\ AuthKept /\ CredKept /\ EnvKept /\ execs' = execs
  BY DEF Decide, At, StoreKept, AuthKept, CredKept, EnvKept, storeVars, authVars,
         credVars, envVars
<1>2. /\ Log("decision", f.run, d.action, d.grant, 0)
      /\ IF d.action = "deny" THEN Return(s) ELSE Become(s, k)
  BY DEF Decide
<1>3. d.action \in {"deny", "allow", "require_elevation"}
  <2>1. f.view \in Seq(Grant)
    BY FrameParts
  <2> QED
    BY <2>1, DecisionOutcome
<1> HIDE DEF d
<1>4. /\ k.pc = pc /\ k.path = f.path /\ k.run = f.run /\ k.req = f.req
      /\ k.elev = f.elev /\ k.cred = f.cred /\ k.known = f.known /\ k.view = <<>>
      /\ k.gid = d.grant
  BY FrameParts DEF Frame
<1> HIDE DEF k
<1>5. CASE d.action = "deny"
  BY <1>1, <1>2, <1>5, ReturnEffect DEF Ends, d
<1>6. CASE d.action = "allow"
  BY <1>1, <1>2, <1>4, <1>6, BecomeEffect DEF Moves, CredsKept, d
<1>7. CASE d.action = "require_elevation"
  BY <1>1, <1>2, <1>4, <1>7, BecomeEffect DEF Moves, CredsKept, d
<1> QED
  BY <1>3, <1>5, <1>6, <1>7 DEF d

\* A risky call without an approval (service.go:249) leaves a pending request and
\* ends.
LEMMA EnqueueEffect ==
  ASSUME TypeOK, NEW s \in Slot, Enqueue(s)
  PROVE  /\ StoreKept /\ revoking' = revoking /\ ledger' = ledger /\ CredKept /\ EnvKept
         /\ execs' = execs /\ Ends(s, "elevate")
         /\ elev' = Append(elev, [task |-> h[s].req.task, key |-> CallKey(h[s].req),
                                  status |-> "pending"])
         /\ Log("elevate", h[s].run, "pending", h[s].gid, Len(elev'))
<1>1. Return(s) /\ h[s].pc = "elevate"
  BY DEF Enqueue, At
<1> QED
  BY <1>1, ReturnEffect DEF Enqueue, Ends, StoreKept, CredKept, EnvKept, storeVars, credVars,
                            envVars

\* A risky call with an approval (service.go:253) consumes a request of its own
\* task and key.
LEMMA ConsumeEffect ==
  ASSUME TypeOK, NEW s \in Slot, ConsumeElevation(s)
  PROVE  /\ StoreKept /\ revoking' = revoking /\ ledger' = ledger /\ CredKept /\ EnvKept
         /\ execs' = execs /\ Moves(s, "elevate", "fetch") /\ CredsKept(s)
         /\ h'[s].gid = h[s].gid /\ h[s].elev # 0 /\ Consumable(h[s].elev, h[s].req)
         /\ elev' = [elev EXCEPT ![h[s].elev].status = "consumed"]
         /\ Log("elevate", h[s].run, "consumed", h[s].gid, 0)
<1> DEFINE f == h[s]
           k == [f EXCEPT !.pc = "fetch"]
<1>1. /\ f.pc = "elevate" /\ Become(s, k)
  BY DEF ConsumeElevation, At
<1>2. /\ StoreKept /\ revoking' = revoking /\ ledger' = ledger /\ CredKept /\ EnvKept
      /\ execs' = execs /\ f.elev # 0 /\ Consumable(f.elev, f.req)
      /\ elev' = [elev EXCEPT ![f.elev].status = "consumed"]
      /\ Log("elevate", f.run, "consumed", f.gid, 0)
  BY DEF ConsumeElevation, StoreKept, CredKept, EnvKept, storeVars, credVars, envVars
<1>3. /\ k.pc = "fetch" /\ k.path = f.path /\ k.run = f.run /\ k.req = f.req
      /\ k.elev = f.elev /\ k.cred = f.cred /\ k.known = f.known /\ k.gid = f.gid
  BY FrameParts DEF Frame
<1> HIDE DEF k
<1> QED
  BY <1>1, <1>2, <1>3, BecomeEffect DEF Moves, CredsKept

\* A refused approval or mint is logged and ends the call.
LEMMA RefuseEffect ==
  ASSUME TypeOK, NEW s \in Slot, RefuseElevation(s) \/ RefuseMint(s)
  PROVE  /\ StoreKept /\ AuthKept /\ CredKept /\ EnvKept /\ execs' = execs
         /\ Ends(s, "elevate") \/ Ends(s, "mint")
         /\ Log("decision", h[s].run, "deny", "", 0)
<1>1. Return(s) /\ (h[s].pc = "elevate" \/ h[s].pc = "mint")
  BY DEF RefuseElevation, RefuseMint, At
<1> QED
  BY <1>1, ReturnEffect DEF RefuseElevation, RefuseMint, Ends, StoreKept, AuthKept, CredKept,
                            EnvKept, storeVars, authVars, credVars, envVars

\* The grant that was decided on is read again (service.go:261-269), and the
\* ledger's state at that instant noted.
LEMMA FetchEffect ==
  ASSUME TypeOK, NEW s \in Slot, FetchGrant(s)
  PROVE  LET g == IF h[s].gid = "ablated" THEN Ablated(h[s].req) ELSE grants[h[s].gid]
         IN  /\ StoreKept /\ AuthKept /\ CredKept /\ EnvKept /\ audit' = audit /\ execs' = execs
             /\ \/ g = NoGrant /\ Ends(s, "fetch")
                \/ /\ g # NoGrant /\ Moves(s, "fetch", "recheck")
                   /\ h'[s].got = GrantForMint(g, h[s].req) /\ h'[s].gid = h[s].gid
                   /\ h'[s].known = ledger /\ h'[s].cred = h[s].cred
<1> DEFINE f == h[s]
           g == IF f.gid = "ablated" THEN Ablated(f.req) ELSE grants[f.gid]
           got == GrantForMint(g, f.req)
           k == [f EXCEPT !.pc = "recheck", !.got = got, !.known = ledger]
<1>1. /\ f.pc = "fetch" /\ StoreKept /\ AuthKept /\ CredKept /\ EnvKept
      /\ audit' = audit /\ execs' = execs
  BY DEF FetchGrant, At, StoreKept, AuthKept, CredKept, EnvKept, storeVars, authVars,
         credVars, envVars
<1>2. IF g = NoGrant THEN Return(s) ELSE Become(s, k)
  BY DEF FetchGrant
<1> HIDE DEF g, got
<1>3. /\ k.pc = "recheck" /\ k.path = f.path /\ k.run = f.run /\ k.req = f.req
      /\ k.elev = f.elev /\ k.cred = f.cred /\ k.known = ledger /\ k.gid = f.gid
      /\ k.got = got
  BY FrameParts DEF Frame
<1> HIDE DEF k
<1>4. CASE g = NoGrant
  BY <1>1, <1>2, <1>4, ReturnEffect DEF Ends, g
<1>5. CASE g # NoGrant
  BY <1>1, <1>2, <1>3, <1>5, BecomeEffect DEF Moves, CredsKept, g, got
<1> QED
  BY <1>4, <1>5

\* The second question to the ledger (service.go:270) ends the call or changes
\* nothing.
LEMMA RecheckEffect ==
  ASSUME TypeOK, NEW s \in Slot, Recheck(s)
  PROVE  /\ StoreKept /\ AuthKept /\ CredKept /\ EnvKept /\ execs' = execs
         /\ \/ /\ RevokedNow(h[s].got) /\ Ends(s, "recheck")
               /\ Log("decision", h[s].run, "deny", h[s].got.id, 0)
            \/ /\ ~RevokedNow(h[s].got) /\ Moves(s, "recheck", "mint") /\ CredsKept(s)
               /\ h'[s].got = h[s].got /\ h'[s].gid = h[s].gid /\ audit' = audit
<1> DEFINE f == h[s]
           k == [f EXCEPT !.pc = "mint"]
<1>1. /\ f.pc = "recheck" /\ StoreKept /\ AuthKept /\ CredKept /\ EnvKept /\ execs' = execs
  BY DEF Recheck, At, StoreKept, AuthKept, CredKept, EnvKept, storeVars, authVars,
         credVars, envVars
<1>2. IF RevokedNow(f.got)
      THEN Log("decision", f.run, "deny", f.got.id, 0) /\ Return(s)
      ELSE Become(s, k) /\ audit' = audit
  BY DEF Recheck
<1>3. /\ k.pc = "mint" /\ k.path = f.path /\ k.run = f.run /\ k.req = f.req
      /\ k.elev = f.elev /\ k.cred = f.cred /\ k.known = f.known /\ k.gid = f.gid
      /\ k.got = f.got
  BY FrameParts DEF Frame
<1> HIDE DEF k
<1>4. CASE RevokedNow(f.got)
  BY <1>1, <1>2, <1>4, ReturnEffect DEF Ends
<1>5. CASE ~RevokedNow(f.got)
  BY <1>1, <1>2, <1>3, <1>5, BecomeEffect DEF Moves, CredsKept
<1> QED
  BY <1>4, <1>5

\* A mint (service.go:276) counts a nonce, logs it and hands the handler a
\* credential for the grant read again.
LEMMA MintEffect ==
  ASSUME TypeOK, NEW s \in Slot, MintCredential(s)
  PROVE  /\ StoreKept /\ AuthKept /\ used' = used /\ released' = released /\ EnvKept
         /\ execs' = execs /\ minted' = minted + 1
         /\ Moves(s, "mint", "verify") /\ h'[s].known = h[s].known /\ h'[s].gid = ""
         /\ Mintable(h[s].got, h[s].req) /\ h'[s].cred = Credential(h[s].got, h[s].req)
         /\ Log("mint", h[s].run, "", h[s].got.id, minted')
<1> DEFINE f == h[s]
           c == Credential(f.got, f.req)
           k == [f EXCEPT !.pc = "verify", !.cred = c, !.got = NoGrant, !.gid = ""]
<1>1. /\ f.pc = "mint" /\ StoreKept /\ AuthKept /\ used' = used /\ released' = released
      /\ EnvKept /\ execs' = execs /\ minted' = minted + 1 /\ Mintable(f.got, f.req)
      /\ Log("mint", f.run, "", f.got.id, minted')
  BY DEF MintCredential, At, StoreKept, AuthKept, EnvKept, storeVars, authVars, envVars
<1>2. Become(s, k)
  BY DEF MintCredential
<1> HIDE DEF c
<1>3. /\ k.pc = "verify" /\ k.path = f.path /\ k.run = f.run /\ k.req = f.req
      /\ k.elev = f.elev /\ k.cred = c /\ k.known = f.known /\ k.gid = ""
  BY FrameParts DEF Frame
<1> HIDE DEF k
<1> QED
  BY <1>1, <1>2, <1>3, BecomeEffect DEF Moves, c

\* A presented credential (service.go:315) is refused if its grant is revoked.
LEMMA CheckPresentedEffect ==
  ASSUME TypeOK, NEW s \in Slot, CheckPresented(s)
  PROVE  /\ StoreKept /\ AuthKept /\ CredKept /\ EnvKept /\ execs' = execs
         /\ \/ /\ RevokedCred(h[s].cred) /\ Ends(s, "presented")
               /\ Log("decision", h[s].run, "deny", h[s].cred.grant, 0)
            \/ /\ ~RevokedCred(h[s].cred) /\ Moves(s, "presented", "verify")
               /\ CredsKept(s) /\ h'[s].gid = h[s].gid /\ audit' = audit
<1> DEFINE f == h[s]
           k == [f EXCEPT !.pc = "verify"]
<1>1. /\ f.pc = "presented" /\ StoreKept /\ AuthKept /\ CredKept /\ EnvKept /\ execs' = execs
  BY DEF CheckPresented, At, StoreKept, AuthKept, CredKept, EnvKept, storeVars, authVars,
         credVars, envVars
<1>2. IF RevokedCred(f.cred)
      THEN Log("decision", f.run, "deny", f.cred.grant, 0) /\ Return(s)
      ELSE Become(s, k) /\ audit' = audit
  BY DEF CheckPresented
<1>3. /\ k.pc = "verify" /\ k.path = f.path /\ k.run = f.run /\ k.req = f.req
      /\ k.elev = f.elev /\ k.cred = f.cred /\ k.known = f.known /\ k.gid = f.gid
  BY FrameParts DEF Frame
<1> HIDE DEF k
<1>4. CASE RevokedCred(f.cred)
  BY <1>1, <1>2, <1>4, ReturnEffect DEF Ends
<1>5. CASE ~RevokedCred(f.cred)
  BY <1>1, <1>2, <1>3, <1>5, BecomeEffect DEF Moves, CredsKept
<1> QED
  BY <1>4, <1>5

\* A credential that verifies (service.go:288) has its nonce used up first.
LEMMA AcceptEffect ==
  ASSUME TypeOK, NEW s \in Slot, AcceptCredential(s)
  PROVE  /\ StoreKept /\ AuthKept /\ minted' = minted /\ released' = released /\ EnvKept
         /\ audit' = audit /\ execs' = execs
         /\ Moves(s, "verify", "exec") /\ CredsKept(s) /\ h'[s].gid = h[s].gid
         /\ Verifies(h[s]) /\ ConsumeNonce(h[s].cred)
<1> DEFINE f == h[s]
           k == [f EXCEPT !.pc = "exec"]
<1>1. /\ f.pc = "verify" /\ StoreKept /\ AuthKept /\ minted' = minted
      /\ released' = released /\ EnvKept /\ audit' = audit /\ execs' = execs
      /\ Verifies(f) /\ ConsumeNonce(f.cred)
  BY DEF AcceptCredential, At, StoreKept, AuthKept, EnvKept, storeVars, authVars, envVars
<1>2. Become(s, k)
  BY DEF AcceptCredential
<1>3. /\ k.pc = "exec" /\ k.path = f.path /\ k.run = f.run /\ k.req = f.req
      /\ k.elev = f.elev /\ k.cred = f.cred /\ k.known = f.known /\ k.gid = f.gid
  BY FrameParts DEF Frame
<1> HIDE DEF k
<1> QED
  BY <1>1, <1>2, <1>3, BecomeEffect DEF Moves, CredsKept

\* A credential that does not verify ends the call; one that was minted here is
\* out of the broker by then.
LEMMA RefuseCredentialEffect ==
  ASSUME TypeOK, NEW s \in Slot, RefuseCredential(s)
  PROVE  /\ StoreKept /\ AuthKept /\ used' = used /\ minted' = minted /\ EnvKept
         /\ execs' = execs /\ Ends(s, "verify") /\ ~Verifies(h[s])
         /\ released' = IF h[s].path = "minted" THEN released \cup {h[s].cred} ELSE released
         /\ Log("decision", h[s].run, "deny", "", 0)
<1>1. Return(s) /\ h[s].pc = "verify"
  BY DEF RefuseCredential, At
<1> QED
  BY <1>1, ReturnEffect DEF RefuseCredential, Ends, StoreKept, AuthKept, EnvKept,
                            storeVars, authVars, envVars

\* An execution (service.go:295) adds what the tool ran, if it ran.
LEMMA ExecuteEffect ==
  ASSUME TypeOK, NEW s \in Slot, Execute(s)
  PROVE  /\ StoreKept /\ AuthKept /\ CredKept /\ EnvKept /\ audit' = audit
         /\ Moves(s, "exec", "log") /\ CredsKept(s) /\ h'[s].gid = h[s].gid
         /\ execs' = IF ToolRuns(h[s]) THEN execs \cup {Execution(h[s])} ELSE execs
<1> DEFINE f == h[s]
           k == [f EXCEPT !.pc = "log"]
<1>1. /\ f.pc = "exec" /\ StoreKept /\ AuthKept /\ CredKept /\ EnvKept /\ audit' = audit
      /\ execs' = IF ToolRuns(f) THEN execs \cup {Execution(f)} ELSE execs
  BY DEF Execute, At, StoreKept, AuthKept, CredKept, EnvKept, storeVars, authVars,
         credVars, envVars
<1>2. Become(s, k)
  BY DEF Execute
<1>3. /\ k.pc = "log" /\ k.path = f.path /\ k.run = f.run /\ k.req = f.req
      /\ k.elev = f.elev /\ k.cred = f.cred /\ k.known = f.known /\ k.gid = f.gid
  BY FrameParts DEF Frame
<1> HIDE DEF k
<1> QED
  BY <1>1, <1>2, <1>3, BecomeEffect DEF Moves, CredsKept

\* The execution is logged (service.go:299); a presented credential leaves no
\* call record.
LEMMA LogExecutionEffect ==
  ASSUME TypeOK, NEW s \in Slot, LogExecution(s)
  PROVE  /\ StoreKept /\ AuthKept /\ CredKept /\ EnvKept /\ execs' = execs
         /\ Log("exec", h[s].run, "", h[s].cred.grant, 0)
         /\ \/ /\ h[s].path = "minted" /\ Moves(s, "log", "record") /\ CredsKept(s)
               /\ h'[s].gid = h[s].gid
            \/ h[s].path # "minted" /\ Ends(s, "log")
<1> DEFINE f == h[s]
           k == [f EXCEPT !.pc = "record"]
<1>1. /\ f.pc = "log" /\ StoreKept /\ AuthKept /\ CredKept /\ EnvKept /\ execs' = execs
      /\ Log("exec", f.run, "", f.cred.grant, 0)
  BY DEF LogExecution, At, StoreKept, AuthKept, CredKept, EnvKept, storeVars, authVars,
         credVars, envVars
<1>2. IF f.path = "minted" THEN Become(s, k) ELSE Return(s)
  BY DEF LogExecution
<1>3. /\ k.pc = "record" /\ k.path = f.path /\ k.run = f.run /\ k.req = f.req
      /\ k.elev = f.elev /\ k.cred = f.cred /\ k.known = f.known /\ k.gid = f.gid
  BY FrameParts DEF Frame
<1> HIDE DEF k
<1>4. CASE f.path = "minted"
  BY <1>1, <1>2, <1>3, <1>4, BecomeEffect DEF Moves, CredsKept
<1>5. CASE f.path # "minted"
  BY <1>1, <1>2, <1>5, ReturnEffect DEF Ends
<1> QED
  BY <1>4, <1>5

\* The call is recorded (service.go:300) and the credential given out.
LEMMA RecordEffect ==
  ASSUME TypeOK, NEW s \in Slot, RecordCall(s)
  PROVE  /\ tasks' = tasks /\ grants' = grants /\ AuthKept /\ used' = used
         /\ minted' = minted /\ EnvKept /\ audit' = audit /\ execs' = execs
         /\ Ends(s, "record") /\ calls' = calls \cup {CallRecord(h[s])}
         /\ released' = released \cup {h[s].cred}
<1>1. Return(s) /\ h[s].pc = "record"
  BY DEF RecordCall, At
<1> QED
  BY <1>1, ReturnEffect DEF RecordCall, Ends, AuthKept, EnvKept, authVars, envVars

\* A call that arrives takes a number of its own and changes no store.
LEMMA ArriveEffect ==
  ASSUME TypeOK, NEW s \in Slot, NEW r \in Request, NEW e, Arrive(s, r, e)
  PROVE  /\ StoreKept /\ AuthKept /\ CredKept /\ now' = now /\ boots' = boots
         /\ audit' = audit /\ execs' = execs
         /\ Begins(s, "grants", "minted", r) /\ r.task \in LiveTasks /\ h'[s].elev = e
         /\ h'[s].known = {}
<1> DEFINE k == [Idle EXCEPT !.pc = "grants", !.path = "minted", !.run = runs',
                             !.req = r, !.elev = e]
<1>1. /\ k.pc = "grants" /\ k.path = "minted" /\ k.run = runs' /\ k.req = r /\ k.elev = e
      /\ k.view = <<>> /\ k.gid = "" /\ k.got = NoGrant /\ k.known = {}
  BY DEF Idle
<1>2. Become(s, k) /\ h[s].pc = "idle"
  BY DEF Arrive, At
<1> HIDE DEF k
<1>3. h'[s] = k /\ \A q \in Slot \ {s} : h'[q] = h[q]
  BY <1>2, BecomeEffect
<1> QED
  BY <1>1, <1>2, <1>3 DEF Arrive, Begins, StoreKept, AuthKept, CredKept, storeVars,
                          authVars, credVars

\* So does a call with a credential, which notes what the ledger holds.
LEMMA PresentEffect ==
  ASSUME TypeOK, NEW s \in Slot, NEW r \in Request, NEW c, Present(s, r, c)
  PROVE  /\ StoreKept /\ AuthKept /\ CredKept /\ now' = now /\ boots' = boots
         /\ audit' = audit /\ execs' = execs
         /\ Begins(s, "presented", "presented", r) /\ h'[s].elev = 0
         /\ h'[s].known = ledger /\ h'[s].cred \in Presented(c, r)
<1>1. PICK wire \in Presented(c, r) :
        Become(s, [Idle EXCEPT !.pc = "presented", !.path = "presented", !.run = runs',
                               !.req = r, !.cred = wire, !.known = ledger])
  BY DEF Present
<1> DEFINE k == [Idle EXCEPT !.pc = "presented", !.path = "presented", !.run = runs',
                             !.req = r, !.cred = wire, !.known = ledger]
<1>2. /\ k.pc = "presented" /\ k.path = "presented" /\ k.run = runs' /\ k.req = r
      /\ k.elev = 0 /\ k.view = <<>> /\ k.gid = "" /\ k.got = NoGrant /\ k.known = ledger
      /\ k.cred = wire
  BY DEF Idle
<1>3. Become(s, k)
  BY <1>1
<1> HIDE DEF k
<1>4. h'[s] = k /\ \A q \in Slot \ {s} : h'[q] = h[q]
  BY <1>3, BecomeEffect
<1>5. h[s].pc = "idle" /\ runs' = runs + 1
  BY DEF Present, At
<1> QED
  BY <1>1, <1>2, <1>4, <1>5 DEF Present, Begins, StoreKept, AuthKept, CredKept, storeVars,
                                authVars, credVars

\* A call that is refused before a handler has anything in hand.
LEMMA TurnedAwayEffect ==
  ASSUME NEW s \in Slot, PresentMalformed(s) \/ \E r \in Request : RefuseUnknownTask(s, r)
  PROVE  /\ StoreKept /\ AuthKept /\ CredKept /\ now' = now /\ boots' = boots
         /\ runs' = runs + 1 /\ execs' = execs /\ h' = h
         /\ audit' = audit \cup {Entry("decision", runs', "deny", "", 0)}
BY DEF PresentMalformed, RefuseUnknownTask, Log, StoreKept, AuthKept, CredKept, storeVars,
       authVars, credVars

----------------------------------------------------------------------------
(* Nonces *)

\* The steps that neither accept a credential nor execute nor restart: they
\* bring no handler to "exec", and change neither the executions nor the
\* nonces.
QuietStep ==
  /\ execs' = execs /\ used' = used /\ boots' = boots
  /\ \A q \in Slot : h'[q] = h[q] \/ h'[q].pc # "exec"

\* Steps of a handler but two leave nonces and executions alone.
LEMMA ServeIsQuiet ==
  ASSUME TypeOK, NEW s \in Slot, Serve(s), ~AcceptCredential(s), ~Execute(s)
  PROVE  QuietStep
<1>0. h[s] \in Frame
  BY FrameParts
<1>1. ASSUME NEW k, Become(s, k), k.pc # "exec",
             UNCHANGED <<execs, used, boots>>
      PROVE  QuietStep
  BY <1>1, BecomeEffect DEF QuietStep
<1>2. ASSUME Return(s), UNCHANGED <<execs, used, boots>> PROVE QuietStep
  BY <1>2, ReturnEffect DEF QuietStep
<1>3. CASE ReadGrants(s)
  BY <1>0, <1>1, <1>3 DEF ReadGrants, credVars, envVars, Frame
<1>4. CASE CheckLedger(s)
  <2>1. h[s].pc = "ledger"
    BY <1>4 DEF CheckLedger, At
  <2> QED
    BY <1>0, <1>1, <1>4, <2>1 DEF CheckLedger, credVars, envVars, Frame
<1>5. CASE ReadHistory(s)
  BY <1>0, <1>1, <1>5 DEF ReadHistory, credVars, envVars, Frame
<1>6. CASE Decide(s)
  BY <1>0, <1>1, <1>2, <1>6 DEF Decide, credVars, envVars, Frame
<1>7. CASE Enqueue(s) \/ RefuseElevation(s) \/ RefuseMint(s)
  BY <1>2, <1>7 DEF Enqueue, RefuseElevation, RefuseMint, credVars, envVars
<1>8. CASE ConsumeElevation(s)
  BY <1>0, <1>1, <1>8 DEF ConsumeElevation, credVars, envVars, Frame
<1>9. CASE FetchGrant(s)
  BY <1>0, <1>1, <1>2, <1>9 DEF FetchGrant, credVars, envVars, Frame
<1>10. CASE Recheck(s)
  BY <1>0, <1>1, <1>2, <1>10 DEF Recheck, credVars, envVars, Frame
<1>11. CASE MintCredential(s)
  BY <1>0, <1>1, <1>11 DEF MintCredential, envVars, Frame
<1>12. CASE CheckPresented(s)
  BY <1>0, <1>1, <1>2, <1>12 DEF CheckPresented, credVars, envVars, Frame
<1>13. CASE RefuseCredential(s)
  BY <1>2, <1>13 DEF RefuseCredential, envVars
<1>14. CASE LogExecution(s)
  BY <1>0, <1>1, <1>2, <1>14 DEF LogExecution, credVars, envVars, Frame
<1>15. CASE RecordCall(s)
  BY <1>2, <1>15 DEF RecordCall, envVars
<1> QED
  BY <1>3, <1>4, <1>5, <1>6, <1>7, <1>8, <1>9, <1>10, <1>11, <1>12, <1>13,
     <1>14, <1>15 DEF Serve

\* So do clients, the operator and the clock.
LEMMA OtherIsQuiet ==
  ASSUME TypeOK,
         \/ \E s \in Slot : NewCall(s) \/ PresentMalformed(s)
         \/ Operator \/ Tick \/ UNCHANGED vars
  PROVE  QuietStep
<1>1. ASSUME h' = h, UNCHANGED <<execs, used, boots>> PROVE QuietStep
  BY <1>1 DEF QuietStep
<1>2. ASSUME NEW s \in Slot, NEW k, Become(s, k), k.pc # "exec",
             UNCHANGED <<execs, used, boots>>
      PROVE  QuietStep
  BY <1>2, BecomeEffect DEF QuietStep
<1>3. ASSUME NEW s \in Slot, NewCall(s) \/ PresentMalformed(s) PROVE QuietStep
  <2>1. CASE PresentMalformed(s)
    BY <1>1, <2>1 DEF PresentMalformed, credVars
  <2>2. ASSUME NEW r \in Request, RefuseUnknownTask(s, r) PROVE QuietStep
    BY <1>1, <2>2 DEF RefuseUnknownTask, credVars
  <2>3. ASSUME NEW r \in Request, NEW e, Arrive(s, r, e) PROVE QuietStep
    BY <1>2, <2>3 DEF Arrive, credVars, Idle
  <2>4. ASSUME NEW r \in Request, NEW c, Present(s, r, c) PROVE QuietStep
    BY <1>2, <2>4 DEF Present, credVars, Idle
  <2> QED
    BY <1>3, <2>1, <2>2, <2>3, <2>4 DEF NewCall
<1>4. CASE Operator
  BY <1>1, <1>4 DEF Operator, CreateTask, RevokeMark, RevokeCommit, Approve, DenyElevation,
                    Resolve, MintOnly, credVars, envVars
<1>5. CASE Tick \/ UNCHANGED vars
  BY <1>1, <1>5 DEF Tick, vars, credVars, envVars
<1> QED
  BY <1>3, <1>4, <1>5

----------------------------------------------------------------------------
(* A credential is used once *)

ExecutedNow == {x \in execs : x.boot = boots}

\* What has run in this boot, and what is about to, used up its nonce, and
\* no two of them the same one.
NonceInv ==
  /\ SingleUse
  /\ \A x \in execs : x.boot <= boots
  /\ On("single_use") =>
       /\ \A x \in ExecutedNow : x.cred.nonce \in used
       /\ \A s \in Slot : At(s, "exec") =>
            /\ h[s].cred.nonce \in used
            /\ \A x \in ExecutedNow : x.cred.nonce # h[s].cred.nonce
            /\ \A q \in Slot \ {s} : At(q, "exec") => h[q].cred.nonce # h[s].cred.nonce

\* No nonce was used at the start.
LEMMA NonceInit == Init => NonceInv
<1> SUFFICES ASSUME Init PROVE NonceInv
  OBVIOUS
<1>1. \A s \in Slot : ~At(s, "exec")
  BY DEF Init, At, Idle
<1> QED
  BY <1>1 DEF Init, NonceInv, SingleUse, ExecutedNow

\* A nonce is used before its tool runs and never twice (verify.go:27-35).
LEMMA NonceStep == TypeOK /\ TypeOK' /\ NonceInv /\ [Next]_vars => NonceInv'
<1> SUFFICES ASSUME TypeOK, TypeOK', NonceInv, [Next]_vars PROVE NonceInv'
  OBVIOUS
<1>1. CASE QuietStep
  <2>1. \A s \in Slot : At(s, "exec")' => At(s, "exec") /\ h'[s] = h[s]
    BY <1>1 DEF QuietStep, At
  <2> QED
    BY <1>1, <2>1 DEF QuietStep, NonceInv, SingleUse, ExecutedNow
<1>2. ASSUME NEW s \in Slot, AcceptCredential(s) PROVE NonceInv'
  <2> DEFINE k == [h[s] EXCEPT !.pc = "exec"]
             n == h[s].cred.nonce
  <2>1. /\ Verifies(h[s]) /\ ConsumeNonce(h[s].cred) /\ Become(s, k)
        /\ execs' = execs /\ boots' = boots
    BY <1>2 DEF AcceptCredential, envVars
  <2>2. k.cred = h[s].cred
    BY FrameParts DEF Frame
  <2> HIDE DEF k
  <2>3. /\ h'[s].cred = h[s].cred
        /\ \A q \in Slot \ {s} : h'[q] = h[q]
    BY <2>1, <2>2, BecomeEffect
  <2>4. SingleUse' /\ ExecutedNow' = ExecutedNow
    BY <2>1 DEF NonceInv, SingleUse, ExecutedNow
  <2>5. ASSUME On("single_use")
        PROVE  n \notin used /\ used' = used \cup {n}
    BY <2>1, <2>5 DEF Verifies, ConsumeNonce
  <2>6. ASSUME On("single_use"), NEW q \in Slot, At(q, "exec")'
        PROVE  /\ h'[q].cred.nonce \in used'
               /\ \A x \in ExecutedNow : x.cred.nonce # h'[q].cred.nonce
               /\ \A p \in Slot \ {q} : At(p, "exec")' => h'[p].cred.nonce # h'[q].cred.nonce
    BY <2>3, <2>5, <2>6 DEF NonceInv, At
  <2> QED
    BY <2>1, <2>4, <2>5, <2>6 DEF NonceInv, ExecutedNow
<1>3. ASSUME NEW s \in Slot, Execute(s) PROVE NonceInv'
  <2> DEFINE k == [h[s] EXCEPT !.pc = "log"]
             x == Execution(h[s])
  <2>1. /\ At(s, "exec") /\ Become(s, k) /\ execs' \in {execs, execs \cup {x}}
        /\ used' = used /\ boots' = boots
    BY <1>3 DEF Execute, credVars, envVars
  <2>2. k.pc = "log"
    BY FrameParts DEF Frame
  <2> HIDE DEF k
  <2>3. \A q \in Slot : At(q, "exec")' => At(q, "exec") /\ q # s /\ h'[q] = h[q]
    BY <2>1, <2>2, BecomeEffect DEF At
  <2>4. x.boot = boots /\ x.cred = h[s].cred
    BY DEF Execution
  <2> HIDE DEF x
  <2>5. boots \in Nat
    BY DEF TypeOK
  <2>6. \A y \in execs' : y.boot <= boots'
    BY <2>1, <2>4, <2>5 DEF NonceInv
  <2>7. ExecutedNow' \subseteq ExecutedNow \cup {x}
    BY <2>1 DEF ExecutedNow
  <2>8. ASSUME On("single_use") PROVE \A y \in ExecutedNow : y.cred.nonce # x.cred.nonce
    BY <2>1, <2>4, <2>8 DEF NonceInv
  <2>9. SingleUse'
    BY <2>1, <2>4, <2>8 DEF SingleUse, NonceInv, ExecutedNow
  <2>10. ASSUME On("single_use")
         PROVE  /\ \A y \in ExecutedNow' : y.cred.nonce \in used'
                /\ \A q \in Slot : At(q, "exec")' =>
                     /\ h'[q].cred.nonce \in used'
                     /\ \A y \in ExecutedNow' : y.cred.nonce # h'[q].cred.nonce
                     /\ \A p \in Slot \ {q} : At(p, "exec")' => h'[p].cred.nonce # h'[q].cred.nonce
    BY <2>1, <2>3, <2>4, <2>7, <2>10 DEF NonceInv
  <2> QED
    BY <2>6, <2>9, <2>10 DEF NonceInv
<1>4. CASE Restart
  <2>1. boots' = boots + 1 /\ execs' = execs /\ h' = [s \in Slot |-> Idle] /\ boots \in Nat
    BY <1>4 DEF Restart, TypeOK
  <2>2. \A x \in execs : x.boot <= boots /\ x.boot \in Nat
    BY DEF NonceInv, TypeOK, ExecutionType
  <2>3. ExecutedNow' = {} /\ \A x \in execs' : x.boot <= boots'
    BY <2>1, <2>2 DEF ExecutedNow
  <2>4. \A s \in Slot : ~At(s, "exec")'
    BY <2>1 DEF At, Idle
  <2> QED
    BY <2>1, <2>3, <2>4 DEF NonceInv, SingleUse
<1> QED
  BY <1>1, <1>2, <1>3, <1>4, ServeIsQuiet, OtherIsQuiet DEF Next

\* In every boot each credential is good for one execution, for any number of
\* calls and presentations in any interleaving (verify.go, Consume).
THEOREM CredentialsAreSingleUse == Spec => []SingleUse
<1>1. NonceInv => SingleUse
  BY DEF NonceInv
<1> QED
  BY <1>1, TypeCorrect, NonceInit, NonceStep, PTL DEF Spec

----------------------------------------------------------------------------
(* A completed revocation stops calls *)

\* What a handler knows of revocations: until it looks at the ledger, what it
\* saw complete is in there still, and from then on the grant it works under
\* is not among that.
KnownOK(f, led) ==
  /\ f.pc \in {"recheck", "presented"} => f.known \subseteq led
  /\ f.pc = "mint" => f.got.id \notin f.known
  /\ f.pc \in {"verify", "exec"} => f.cred.grant \notin f.known

RevocationInv ==
  On("revocation") => RevocationStopsCalls /\ \A s \in Slot : KnownOK(h[s], ledger)

\* A handler's step that runs no tool.
LEMMA KnownBecome ==
  ASSUME TypeOK, RevocationInv, NEW s \in Slot, NEW f, Become(s, f),
         On("revocation") => KnownOK(f, ledger),
         ledger' = ledger, execs' = execs
  PROVE  RevocationInv'
<1>1. h'[s] = f /\ \A q \in Slot \ {s} : h'[q] = h[q]
  BY BecomeEffect
<1> QED
  BY <1>1 DEF RevocationInv, RevocationStopsCalls

\* A handler that returns knows of no revocation.
LEMMA KnownReturn ==
  ASSUME TypeOK, RevocationInv, NEW s \in Slot, Return(s),
         ledger' = ledger, execs' = execs
  PROVE  RevocationInv'
<1>1. KnownOK(Idle, ledger)
  BY DEF KnownOK, Idle
<1> QED
  BY <1>1, KnownBecome DEF Return

\* A step of the operator, the clock or nobody: the ledger only grows.
LEMMA KnownQuiet ==
  ASSUME RevocationInv, h' = h, execs' = execs, ledger \subseteq ledger'
  PROVE  RevocationInv'
BY DEF RevocationInv, RevocationStopsCalls, KnownOK

\* What a handler saw revoked it does not run under.
LEMMA KnownServe ==
  ASSUME TypeOK, RevocationInv, NEW s \in Slot, Serve(s)
  PROVE  RevocationInv'
<1>0. h[s] \in Frame
  BY FrameParts
<1>1. KnownOK(h[s], ledger) \/ ~On("revocation")
  BY DEF RevocationInv
<1>2. ASSUME NEW k, Become(s, k), UNCHANGED <<execs, ledger>>,
             k.pc \notin {"recheck", "presented", "mint", "verify", "exec"}
      PROVE  RevocationInv'
  BY <1>2, KnownBecome DEF KnownOK
<1>3. CASE ReadGrants(s)
  BY <1>0, <1>2, <1>3 DEF ReadGrants, authVars, Frame
<1>4. CASE CheckLedger(s)
  <2>1. h[s].pc = "ledger"
    BY <1>4 DEF CheckLedger, At
  <2> QED
    BY <1>0, <1>2, <1>4, <2>1 DEF CheckLedger, authVars, Frame
<1>5. CASE ReadHistory(s)
  BY <1>0, <1>2, <1>5 DEF ReadHistory, authVars, Frame
<1>6. CASE Decide(s)
  BY <1>0, <1>2, <1>6, KnownReturn DEF Decide, authVars, Frame
<1>7. CASE Enqueue(s) \/ RefuseElevation(s) \/ RefuseMint(s) \/ RefuseCredential(s)
  BY <1>7, KnownReturn DEF Enqueue, RefuseElevation, RefuseMint, RefuseCredential, authVars
<1>8. CASE ConsumeElevation(s)
  BY <1>0, <1>2, <1>8 DEF ConsumeElevation, Frame
<1>9. CASE FetchGrant(s)
  <2>1. UNCHANGED <<execs, ledger>>
    BY <1>9 DEF FetchGrant, authVars
  <2>2. ASSUME NEW g, Become(s, [h[s] EXCEPT !.pc = "recheck", !.got = g, !.known = ledger])
        PROVE  RevocationInv'
    <3> DEFINE k == [h[s] EXCEPT !.pc = "recheck", !.got = g, !.known = ledger]
    <3>1. k.pc = "recheck" /\ k.known = ledger
      BY <1>0 DEF Frame
    <3> HIDE DEF k
    <3>2. KnownOK(k, ledger)
      BY <3>1 DEF KnownOK
    <3>3. Become(s, k)
      BY <2>2 DEF k
    <3> QED
      BY <2>1, <3>2, <3>3, KnownBecome
  <2>3. Return(s) \/ \E g : Become(s, [h[s] EXCEPT !.pc = "recheck", !.got = g, !.known = ledger])
    BY <1>9 DEF FetchGrant
  <2> QED
    BY <2>1, <2>2, <2>3, KnownReturn
<1>10. CASE Recheck(s)
  <2> DEFINE k == [h[s] EXCEPT !.pc = "mint"]
  <2>1. k.pc = "mint" /\ k.got = h[s].got /\ k.known = h[s].known
    BY <1>0 DEF Frame
  <2>2. UNCHANGED <<execs, ledger>> /\ h[s].pc = "recheck"
    BY <1>10 DEF Recheck, authVars, At
  <2>3. Return(s) \/ (~RevokedNow(h[s].got) /\ Become(s, k))
    BY <1>10 DEF Recheck
  <2> HIDE DEF k
  <2>4. ASSUME ~RevokedNow(h[s].got), On("revocation") PROVE KnownOK(k, ledger)
    BY <1>1, <2>1, <2>2, <2>4 DEF RevokedNow, KnownOK
  <2> QED
    BY <2>2, <2>3, <2>4, KnownBecome, KnownReturn
<1>11. CASE MintCredential(s)
  <2> DEFINE c == Credential(h[s].got, h[s].req)
             k == [h[s] EXCEPT !.pc = "verify", !.cred = c, !.got = NoGrant, !.gid = ""]
  <2>1. c.grant = h[s].got.id
    BY DEF Credential
  <2>2. UNCHANGED <<execs, ledger>> /\ h[s].pc = "mint" /\ Become(s, k)
    BY <1>11 DEF MintCredential, authVars, At
  <2> HIDE DEF c
  <2>3. k.pc = "verify" /\ k.cred = c /\ k.known = h[s].known
    BY <1>0 DEF Frame
  <2> HIDE DEF k
  <2>4. ASSUME On("revocation") PROVE KnownOK(k, ledger)
    BY <1>1, <2>1, <2>2, <2>3, <2>4 DEF KnownOK
  <2> QED
    BY <2>2, <2>4, KnownBecome
<1>12. CASE CheckPresented(s)
  <2> DEFINE k == [h[s] EXCEPT !.pc = "verify"]
  <2>1. k.pc = "verify" /\ k.cred = h[s].cred /\ k.known = h[s].known
    BY <1>0 DEF Frame
  <2>2. UNCHANGED <<execs, ledger>> /\ h[s].pc = "presented"
    BY <1>12 DEF CheckPresented, authVars, At
  <2>3. Return(s) \/ (~RevokedCred(h[s].cred) /\ Become(s, k))
    BY <1>12 DEF CheckPresented
  <2> HIDE DEF k
  <2>4. ASSUME ~RevokedCred(h[s].cred), On("revocation") PROVE KnownOK(k, ledger)
    BY <1>1, <2>1, <2>2, <2>4 DEF RevokedCred, KnownOK
  <2> QED
    BY <2>2, <2>3, <2>4, KnownBecome, KnownReturn
<1>13. CASE AcceptCredential(s)
  <2> DEFINE k == [h[s] EXCEPT !.pc = "exec"]
  <2>1. k.pc = "exec" /\ k.cred = h[s].cred /\ k.known = h[s].known
    BY <1>0 DEF Frame
  <2>2. UNCHANGED <<execs, ledger>> /\ h[s].pc = "verify" /\ Become(s, k)
    BY <1>13 DEF AcceptCredential, authVars, At
  <2> HIDE DEF k
  <2>3. ASSUME On("revocation") PROVE KnownOK(k, ledger)
    BY <1>1, <2>1, <2>2, <2>3 DEF KnownOK
  <2> QED
    BY <2>2, <2>3, KnownBecome
<1>14. CASE Execute(s)
  <2> DEFINE k == [h[s] EXCEPT !.pc = "log"]
             x == Execution(h[s])
  <2>1. /\ h[s].pc = "exec" /\ Become(s, k) /\ execs' \in {execs, execs \cup {x}}
        /\ ledger' = ledger
    BY <1>14 DEF Execute, authVars, At
  <2>2. k.pc = "log"
    BY <1>0 DEF Frame
  <2>3. x.cred = h[s].cred /\ x.known = h[s].known
    BY DEF Execution
  <2> HIDE DEF k, x
  <2>4. h'[s] = k /\ \A q \in Slot \ {s} : h'[q] = h[q]
    BY <2>1, BecomeEffect
  <2>5. ASSUME On("revocation") PROVE x.cred.grant \notin x.known
    BY <1>1, <2>1, <2>3, <2>5 DEF KnownOK
  <2>6. ASSUME On("revocation"), NEW q \in Slot PROVE KnownOK(h'[q], ledger')
    BY <2>1, <2>2, <2>4, <2>6 DEF RevocationInv, KnownOK
  <2> QED
    BY <2>1, <2>5, <2>6 DEF RevocationInv, RevocationStopsCalls
<1>15. CASE LogExecution(s)
  <2>1. UNCHANGED <<execs, ledger>>
    BY <1>15 DEF LogExecution, authVars
  <2> QED
    BY <1>0, <1>2, <1>15, <2>1, KnownReturn DEF LogExecution, Frame
<1>16. CASE RecordCall(s)
  BY <1>16, KnownReturn DEF RecordCall, authVars
<1> QED
  BY <1>3, <1>4, <1>5, <1>6, <1>7, <1>8, <1>9, <1>10, <1>11, <1>12, <1>13, <1>14,
     <1>15, <1>16 DEF Serve

\* The ledger only grows within a boot, and a restart ends every call.
LEMMA KnownStep == TypeOK /\ RevocationInv /\ [Next]_vars => RevocationInv'
<1> SUFFICES ASSUME TypeOK, RevocationInv, [Next]_vars PROVE RevocationInv'
  OBVIOUS
<1>1. ASSUME NEW s \in Slot, NewCall(s) \/ PresentMalformed(s) PROVE RevocationInv'
  <2>1. CASE PresentMalformed(s)
    BY <2>1, KnownQuiet DEF PresentMalformed, authVars
  <2>2. ASSUME NEW r \in Request, RefuseUnknownTask(s, r) PROVE RevocationInv'
    BY <2>2, KnownQuiet DEF RefuseUnknownTask, authVars
  <2>3. ASSUME NEW r \in Request, NEW e, Arrive(s, r, e) PROVE RevocationInv'
    <3> DEFINE k == [Idle EXCEPT !.pc = "grants", !.path = "minted", !.run = runs',
                                 !.req = r, !.elev = e]
    <3>1. KnownOK(k, ledger)
      BY DEF KnownOK, Idle
    <3>2. Become(s, k) /\ ledger' = ledger /\ execs' = execs
      BY <2>3 DEF Arrive, authVars
    <3> QED
      BY <3>1, <3>2, KnownBecome
  <2>4. ASSUME NEW r \in Request, NEW c, Present(s, r, c) PROVE RevocationInv'
    <3>1. PICK wire : Become(s, [Idle EXCEPT !.pc = "presented", !.path = "presented",
                                             !.run = runs', !.req = r, !.cred = wire,
                                             !.known = ledger])
      BY <2>4 DEF Present
    <3> DEFINE k == [Idle EXCEPT !.pc = "presented", !.path = "presented", !.run = runs',
                                 !.req = r, !.cred = wire, !.known = ledger]
    <3>2. KnownOK(k, ledger)
      BY DEF KnownOK, Idle
    <3>3. ledger' = ledger /\ execs' = execs
      BY <2>4 DEF Present, authVars
    <3> QED
      BY <3>1, <3>2, <3>3, KnownBecome
  <2> QED
    BY <1>1, <2>1, <2>2, <2>3, <2>4 DEF NewCall
<1>2. CASE Operator
  BY <1>2, KnownQuiet DEF Operator, CreateTask, RevokeMark, RevokeCommit, Approve,
                          DenyElevation, Resolve, MintOnly, authVars
<1>3. CASE Tick \/ UNCHANGED vars
  BY <1>3, KnownQuiet DEF Tick, vars, authVars
<1>4. CASE Restart
  <2>1. h' = [s \in Slot |-> Idle] /\ execs' = execs
    BY <1>4 DEF Restart
  <2>2. \A s \in Slot : KnownOK(h'[s], ledger')
    BY <2>1 DEF KnownOK, Idle
  <2> QED
    BY <2>1, <2>2 DEF RevocationInv, RevocationStopsCalls
<1> QED
  BY <1>1, <1>2, <1>3, <1>4, KnownServe DEF Next

\* No tool runs under a grant whose revocation was complete when the call
\* last read the grant, or when its credential was presented, for any number
\* of calls in flight, grants and revocations (service.go, the second
\* revocation check before minting and the one of a presented credential).
THEOREM CompletedRevocationStopsCalls == Spec => []RevocationStopsCalls
<1>1. ASSUME Init PROVE RevocationInv
  <2>1. execs = {} /\ \A s \in Slot : h[s] = Idle
    BY <1>1 DEF Init
  <2>2. KnownOK(Idle, ledger)
    BY DEF KnownOK, Idle
  <2> QED
    BY <2>1, <2>2 DEF RevocationInv, RevocationStopsCalls
<1>2. RevocationInv => RevocationStopsCalls
  BY DEF RevocationInv, RevocationStopsCalls
<1> QED
  BY <1>1, <1>2, TypeCorrect, KnownStep, PTL DEF Spec

----------------------------------------------------------------------------
(* Every call is a run of its own *)

\* A handler has a run of its own while it serves a call.
FramesRun ==
  \A s \in Slot :
    /\ h[s].run \in 0 .. runs /\ (h[s].run = 0 <=> h[s].pc = "idle")
    /\ \A q \in Slot \ {s} : h[q].run = h[s].run => h[s].run = 0

\* A run executes once, and while it is in progress its execution is that of
\* the handler, past the tool.
ExecsRun ==
  \A x \in execs :
    /\ x.run \in 1 .. runs /\ x.boot <= boots
    /\ \A y \in execs : x.run = y.run => x = y
    /\ \A s \in Slot : h[s].run = x.run => h[s].pc \in {"log", "record"} /\ x = Execution(h[s])

CallsRun ==
  \A c \in calls : c.run \in 1 .. runs /\ \A s \in Slot : h[s].run # c.run

AuditRun == \A e \in audit : e.run \in 0 .. runs

RunInv == FramesRun /\ ExecsRun /\ CallsRun /\ AuditRun

\* What a step of a handler does to its run.
ServesRun(s) ==
  /\ runs' = runs /\ boots' = boots /\ h[s].pc # "idle"
  /\ h'[s] = Idle \/ (h'[s].run = h[s].run /\ h'[s].pc # "idle")
  /\ \A q \in Slot \ {s} : h'[q] = h[q]
  /\ audit \subseteq audit' /\ \A e \in audit' \ audit : e.run = h[s].run
  /\ calls' = calls \/ RecordCall(s)
  /\ \/ Execute(s)
     \/ /\ execs' = execs
        /\ h[s].pc \in {"log", "record"} =>
             h'[s] = Idle \/ (Moves(s, "log", "record") /\ CredsKept(s))

\* A handler keeps its number and writes it into what it logs and records.
LEMMA ServeRuns ==
  ASSUME TypeOK, NEW s \in Slot, Serve(s)
  PROVE  ServesRun(s)
<1>1. ASSUME NEW from, NEW to, Moves(s, from, to), from # "idle", to # "idle",
             from \notin {"log", "record"}, EnvKept, calls' = calls,
             execs' = execs \/ Execute(s),
             audit \subseteq audit', \A e \in audit' \ audit : e.run = h[s].run
      PROVE  ServesRun(s)
  BY <1>1 DEF Moves, EnvKept, ServesRun
<1>2. ASSUME NEW from, Ends(s, from), from # "idle", EnvKept,
             calls' = calls \/ RecordCall(s), execs' = execs,
             audit \subseteq audit', \A e \in audit' \ audit : e.run = h[s].run
      PROVE  ServesRun(s)
  BY <1>2 DEF Ends, EnvKept, ServesRun
<1>3. ASSUME NEW kind, NEW verdict, NEW grant, NEW ref, Log(kind, h[s].run, verdict, grant, ref)
      PROVE  audit \subseteq audit' /\ \A e \in audit' \ audit : e.run = h[s].run
  BY <1>3 DEF Log, Entry
<1>4. CASE ReadGrants(s)
  BY <1>1, <1>4, ReadGrantsEffect DEF StoreKept
<1>5. CASE CheckLedger(s)
  BY <1>1, <1>5, CheckLedgerEffect DEF StoreKept
<1>6. CASE ReadHistory(s)
  BY <1>1, <1>6, ReadHistoryEffect DEF StoreKept
<1>7. CASE Decide(s)
  BY <1>1, <1>2, <1>3, <1>7, DecideEffect DEF StoreKept
<1>8. CASE Enqueue(s)
  BY <1>2, <1>3, <1>8, EnqueueEffect DEF StoreKept
<1>9. CASE ConsumeElevation(s)
  BY <1>1, <1>3, <1>9, ConsumeEffect DEF StoreKept
<1>10. CASE RefuseElevation(s) \/ RefuseMint(s)
  BY <1>2, <1>3, <1>10, RefuseEffect DEF StoreKept
<1>11. CASE FetchGrant(s)
  BY <1>1, <1>2, <1>11, FetchEffect DEF StoreKept
<1>12. CASE Recheck(s)
  BY <1>1, <1>2, <1>3, <1>12, RecheckEffect DEF StoreKept
<1>13. CASE MintCredential(s)
  BY <1>1, <1>3, <1>13, MintEffect DEF StoreKept
<1>14. CASE CheckPresented(s)
  BY <1>1, <1>2, <1>3, <1>14, CheckPresentedEffect DEF StoreKept
<1>15. CASE AcceptCredential(s)
  BY <1>1, <1>15, AcceptEffect DEF StoreKept
<1>16. CASE RefuseCredential(s)
  BY <1>2, <1>3, <1>16, RefuseCredentialEffect DEF StoreKept
<1>17. CASE Execute(s)
  BY <1>1, <1>17, ExecuteEffect DEF StoreKept
<1>18. CASE LogExecution(s)
  <2>1. CASE h[s].path = "minted"
    BY <1>3, <1>18, <2>1, LogExecutionEffect DEF StoreKept, EnvKept, Moves, ServesRun
  <2>2. CASE h[s].path # "minted"
    BY <1>2, <1>3, <1>18, <2>2, LogExecutionEffect DEF StoreKept
  <2> QED
    BY <2>1, <2>2
<1>19. CASE RecordCall(s)
  BY <1>2, <1>19, RecordEffect
<1> QED
  BY <1>4, <1>5, <1>6, <1>7, <1>8, <1>9, <1>10, <1>11, <1>12, <1>13, <1>14, <1>15,
     <1>16, <1>17, <1>18, <1>19 DEF Serve

\* An idle slot has no number.
LEMMA IdleRun == Idle.run = 0 /\ Idle.pc = "idle"
BY DEF Idle

\* A step that begins no call and serves none.
LEMMA RunsKept ==
  ASSUME TypeOK, RunInv, h' = h, runs' = runs, calls' = calls, execs' = execs,
         boots' = boots, \A e \in audit' \ audit : e.run = 0
  PROVE  RunInv'
<1>1. runs \in Nat
  BY DEF TypeOK
<1>2. FramesRun' /\ CallsRun'
  BY DEF RunInv, FramesRun, CallsRun
<1>3. ExecsRun'
  BY DEF RunInv, ExecsRun, Execution
<1>4. AuditRun'
  BY <1>1 DEF RunInv, AuditRun
<1> QED
  BY <1>2, <1>3, <1>4 DEF RunInv

\* Handlers keep their numbers apart.
LEMMA RunsServed ==
  ASSUME TypeOK, RunInv, NEW s \in Slot, Serve(s)
  PROVE  RunInv'
<1>0. ServesRun(s) /\ runs \in Nat
  BY ServeRuns DEF TypeOK
<1>1. h[s].run \in 1 .. runs
  BY <1>0 DEF RunInv, FramesRun, ServesRun
<1>2. h'[s].run \in {0, h[s].run} /\ (h'[s].run = 0 <=> h'[s].pc = "idle")
  BY <1>0, <1>1, IdleRun DEF ServesRun
<1>3. FramesRun'
  BY <1>0, <1>1, <1>2 DEF RunInv, FramesRun, ServesRun
<1>4. AuditRun'
  BY <1>0, <1>1 DEF RunInv, AuditRun, ServesRun
<1>5. CallsRun'
  <2>1. CASE calls' = calls
    BY <1>0, <1>2, <2>1 DEF RunInv, CallsRun, ServesRun
  <2>2. CASE RecordCall(s)
    <3>1. calls' = calls \cup {CallRecord(h[s])} /\ h'[s] = Idle
      BY <2>2, RecordEffect DEF Ends
    <3>2. CallRecord(h[s]).run = h[s].run
      BY DEF CallRecord
    <3>3. \A q \in Slot : h'[q].run # h[s].run
      BY <1>0, <1>1, <3>1, IdleRun DEF RunInv, FramesRun, ServesRun
    <3> QED
      BY <1>0, <1>1, <1>2, <3>1, <3>2, <3>3 DEF RunInv, CallsRun, ServesRun
  <2> QED
    BY <1>0, <2>1, <2>2 DEF ServesRun
<1>6. ExecsRun'
  <2>1. CASE execs' = execs /\ (h[s].pc \in {"log", "record"} =>
                                  h'[s] = Idle \/ (Moves(s, "log", "record") /\ CredsKept(s)))
    <3>1. ASSUME NEW x \in execs, h'[s].run = x.run
          PROVE  h'[s].pc \in {"log", "record"} /\ x = Execution(h[s])
                 /\ Moves(s, "log", "record") /\ CredsKept(s)
      <4>1. x.run # 0 /\ x.run = h[s].run
        BY <1>2, <3>1 DEF RunInv, ExecsRun
      <4>2. h[s].pc \in {"log", "record"} /\ x = Execution(h[s])
        BY <4>1 DEF RunInv, ExecsRun
      <4>3. h'[s] # Idle
        BY <3>1, <4>1, IdleRun
      <4> QED
        BY <2>1, <4>2, <4>3 DEF Moves
    <3>2. ASSUME NEW x \in execs, h'[s].run = x.run PROVE x = Execution(h[s])'
      <4>1. Moves(s, "log", "record") /\ CredsKept(s) /\ x = Execution(h[s]) /\ boots' = boots
        BY <1>0, <3>1, <3>2 DEF ServesRun
      <4> QED
        BY <4>1 DEF Execution, Moves, CredsKept
    <3>3. ASSUME NEW x \in execs, NEW q \in Slot \ {s}, h'[q].run = x.run
          PROVE  h'[q].pc \in {"log", "record"} /\ x = Execution(h[q])'
      <4>1. h'[q] = h[q] /\ boots' = boots
        BY <1>0 DEF ServesRun
      <4>2. h[q].pc \in {"log", "record"} /\ x = Execution(h[q])
        BY <3>3, <4>1 DEF RunInv, ExecsRun
      <4> QED
        BY <4>1, <4>2 DEF Execution
    <3> QED
      BY <1>0, <2>1, <3>1, <3>2, <3>3 DEF RunInv, ExecsRun, ServesRun
  <2>2. CASE Execute(s)
    <3> DEFINE y == Execution(h[s])
    <3>1. /\ Moves(s, "exec", "log") /\ CredsKept(s) /\ boots' = boots
          /\ execs' \in {execs, execs \cup {y}}
      BY <2>2, ExecuteEffect DEF EnvKept
    <3>2. y = Execution(h[s])' /\ y.run = h[s].run /\ y.boot = boots
      BY <3>1 DEF Execution, Moves, CredsKept
    <3> HIDE DEF y
    <3>3. \A x \in execs : x.run # h[s].run
      BY <3>1 DEF RunInv, ExecsRun, Moves
    <3>4. \A x \in execs' : x.run \in 1 .. runs /\ x.boot <= boots
      BY <1>1, <3>1, <3>2 DEF RunInv, ExecsRun, TypeOK
    <3>5. \A x, z \in execs' : x.run = z.run => x = z
      BY <3>1, <3>2, <3>3 DEF RunInv, ExecsRun
    <3>6. ASSUME NEW x \in execs', NEW q \in Slot, h'[q].run = x.run
          PROVE  h'[q].pc \in {"log", "record"} /\ x = Execution(h[q])'
      <4>1. CASE q = s
        BY <3>1, <3>2, <3>3, <3>6, <4>1 DEF Moves
      <4>2. CASE q # s
        <5>1. h'[q] = h[q] /\ x.run # h[s].run
          BY <1>1, <3>1, <3>4, <3>6, <4>2 DEF Moves, RunInv, FramesRun
        <5>2. x \in execs
          BY <3>1, <3>2, <5>1
        <5>3. h[q].pc \in {"log", "record"} /\ x = Execution(h[q])
          BY <3>6, <5>1, <5>2 DEF RunInv, ExecsRun
        <5> QED
          BY <3>1, <5>1, <5>3 DEF Execution
      <4> QED
        BY <4>1, <4>2
    <3> QED
      BY <1>0, <3>1, <3>4, <3>5, <3>6 DEF ExecsRun, ServesRun
  <2> QED
    BY <1>0, <2>1, <2>2 DEF ServesRun
<1> QED
  BY <1>3, <1>4, <1>5, <1>6 DEF RunInv

\* A call that begins gets the next number.
LEMMA RunsBegun ==
  ASSUME TypeOK, RunInv, NEW s \in Slot, NEW pc, NEW path, NEW r, Begins(s, pc, path, r),
         pc \notin {"idle", "log", "record"},
         calls' = calls, execs' = execs, audit' = audit, boots' = boots
  PROVE  RunInv'
<1>1. /\ runs \in Nat /\ runs' = runs + 1 /\ h'[s].run = runs' /\ h'[s].pc = pc
      /\ \A q \in Slot \ {s} : h'[q] = h[q]
  BY DEF Begins, TypeOK
<1>2. FramesRun'
  BY <1>1 DEF RunInv, FramesRun
<1>3. CallsRun' /\ AuditRun'
  BY <1>1 DEF RunInv, CallsRun, AuditRun
<1>4. ExecsRun'
  BY <1>1 DEF RunInv, ExecsRun, Execution
<1> QED
  BY <1>2, <1>3, <1>4 DEF RunInv

\* The operator's entries are of no call.
LEMMA OperatorEntries ==
  ASSUME Operator
  PROVE  audit \subseteq audit' /\ \A e \in audit' \ audit : e.run = 0
<1>1. ASSUME NEW t \in TaskId, CreateTask(t)
      PROVE  audit \subseteq audit' /\ \A e \in audit' \ audit : e.run = 0
  <2> DEFINE issued == {[g EXCEPT !.task = t] : g \in TaskReq[t]}
  <2>1. audit' = audit \cup {Entry("grant", 0, t, g.id, 0) : g \in issued}
                       \cup {Entry("task", 0, t, "", 0)}
    BY <1>1 DEF CreateTask
  <2> HIDE DEF issued
  <2>2. \A g \in issued : Entry("grant", 0, t, g.id, 0).run = 0
    BY DEF Entry
  <2>3. Entry("task", 0, t, "", 0).run = 0
    BY DEF Entry
  <2> QED
    BY <2>1, <2>2, <2>3
<1>2. ASSUME NEW i, Approve(i) \/ DenyElevation(i) \/ RevokeCommit(i)
      PROVE  audit \subseteq audit' /\ \A e \in audit' \ audit : e.run = 0
  <2>1. \E kind, verdict, grant, ref : Log(kind, 0, verdict, grant, ref)
    BY <1>2, Zenon DEF RevokeCommit, Approve, DenyElevation, Resolve
  <2>2. PICK kind, verdict, grant, ref : Log(kind, 0, verdict, grant, ref)
    BY <2>1
  <2>3. Entry(kind, 0, verdict, grant, ref).run = 0
    BY DEF Entry
  <2> QED
    BY <2>2, <2>3 DEF Log
<1>3. ASSUME NEW i, RevokeMark(i) \/ MintOnly(i) PROVE audit' = audit
  BY <1>3 DEF RevokeMark, MintOnly
<1> QED
  BY <1>1, <1>2, <1>3 DEF Operator

\* Every call has a number of its own.
LEMMA RunStep == TypeOK /\ RunInv /\ [Next]_vars => RunInv'
<1> SUFFICES ASSUME TypeOK, RunInv, [Next]_vars PROVE RunInv'
  OBVIOUS
<1>1. ASSUME NEW s \in Slot, NewCall(s) \/ PresentMalformed(s) PROVE RunInv'
  <2>1. CASE PresentMalformed(s) \/ \E r \in Request : RefuseUnknownTask(s, r)
    <3>1. /\ runs' = runs + 1 /\ runs \in Nat /\ h' = h /\ execs' = execs /\ calls' = calls
          /\ boots' = boots
      BY <2>1, TurnedAwayEffect DEF StoreKept, TypeOK
    <3>2. \A e \in audit' : e \in audit \/ e.run = runs'
      <4>1. audit' = audit \cup {Entry("decision", runs', "deny", "", 0)}
        BY <2>1, TurnedAwayEffect
      <4>2. Entry("decision", runs', "deny", "", 0).run = runs'
        BY DEF Entry
      <4> QED
        BY <4>1, <4>2
    <3>3. (0 .. runs) \subseteq (0 .. runs') /\ (1 .. runs) \subseteq (1 .. runs') /\ runs' \in 0 .. runs'
      BY <3>1
    <3>4. FramesRun' /\ CallsRun' /\ AuditRun'
      BY <3>1, <3>2, <3>3 DEF RunInv, FramesRun, CallsRun, AuditRun
    <3>5. ExecsRun'
      BY <3>1, <3>3 DEF RunInv, ExecsRun, Execution
    <3> QED
      BY <3>4, <3>5 DEF RunInv
  <2>2. ASSUME NEW r \in Request, NEW e, Arrive(s, r, e) PROVE RunInv'
    BY <2>2, ArriveEffect, RunsBegun DEF StoreKept
  <2>3. ASSUME NEW r \in Request, NEW c, Present(s, r, c) PROVE RunInv'
    BY <2>3, PresentEffect, RunsBegun DEF StoreKept
  <2> QED
    BY <1>1, <2>1, <2>2, <2>3 DEF NewCall
<1>2. CASE Operator
  <2>1. /\ h' = h /\ runs' = runs /\ calls' = calls /\ execs' = execs /\ boots' = boots
    BY <1>2 DEF Operator, CreateTask, RevokeMark, RevokeCommit, Approve, DenyElevation,
                Resolve, MintOnly, storeVars, envVars
  <2>2. \A e \in audit' \ audit : e.run = 0
    BY <1>2, OperatorEntries
  <2> QED
    BY <2>1, <2>2, RunsKept
<1>3. CASE Tick \/ UNCHANGED vars
  BY <1>3, RunsKept DEF Tick, vars, storeVars, envVars
<1>4. CASE Restart
  <2>1. /\ h' = [s \in Slot |-> Idle] /\ runs' = runs /\ calls' = {} /\ audit' = {}
        /\ execs' = execs /\ boots' = boots + 1 /\ boots \in Nat /\ runs \in Nat
    BY <1>4 DEF Restart, TypeOK
  <2>2. FramesRun' /\ CallsRun' /\ AuditRun'
    BY <2>1, IdleRun DEF FramesRun, CallsRun, AuditRun
  <2>3. \A x \in execs : x.boot \in Nat /\ x.run # 0
    BY DEF TypeOK, ExecutionType, RunInv, ExecsRun
  <2>4. ExecsRun'
    <3>1. \A x \in execs : x.boot <= boots'
      BY <2>1, <2>3 DEF RunInv, ExecsRun
    <3>2. \A s \in Slot : h'[s].run = 0
      BY <2>1, IdleRun
    <3> QED
      BY <2>1, <2>3, <3>1, <3>2 DEF RunInv, ExecsRun
  <2> QED
    BY <2>2, <2>4 DEF RunInv
<1> QED
  BY <1>1, <1>2, <1>3, <1>4, RunsServed DEF Next

\* No number was given out at the start.
LEMMA RunInit == Init => RunInv
<1> SUFFICES ASSUME Init PROVE RunInv
  OBVIOUS
<1>1. runs = 0 /\ calls = {} /\ audit = {} /\ execs = {} /\ \A s \in Slot : h[s] = Idle
  BY DEF Init
<1> QED
  BY <1>1, IdleRun DEF RunInv, FramesRun, ExecsRun, CallsRun, AuditRun

----------------------------------------------------------------------------
(* What the stores and the handlers hold is what the operator issued *)

FromOperator(g) ==
  \E k \in TaskReq[g.task] :
    /\ k.id = g.id /\ k.tool = g.tool /\ k.op = g.op
    /\ k.pattern = g.pattern /\ k.elevate = g.elevate
    /\ k.maxCalls = g.maxCalls /\ k.maxRecords = g.maxRecords
    /\ k.rateLimit = g.rateLimit /\ k.rateWindow = g.rateWindow
    /\ k.expires = g.expires /\ k.ttl = g.ttl

FrameIssued(f) ==
  /\ f.path = "minted" => f.req.task \in TaskId
  /\ \A i \in DOMAIN f.view : f.view[i].task = f.req.task /\ FromOperator(f.view[i])

\* A stored grant has its own id and, but for its revocation, the fields it
\* was issued with; so have the copies that handlers took, for their task, and
\* a call without a credential is of a task that was created.
IssuedInv ==
  /\ \A i \in GrantId : grants[i] # NoGrant => grants[i].id = i /\ FromOperator(grants[i])
  /\ \A s \in Slot : FrameIssued(h[s])

\* A handler that moves with copies of issued grants leaves the stores alone.
LEMMA IssuedBecome ==
  ASSUME TypeOK, IssuedInv, NEW s \in Slot, NEW f, Become(s, f), FrameIssued(f),
         grants' = grants
  PROVE  IssuedInv'
<1>1. h'[s] = f /\ \A q \in Slot \ {s} : h'[q] = h[q]
  BY BecomeEffect
<1>2. \A q \in Slot : FrameIssued(h'[q])
  BY <1>1 DEF IssuedInv
<1> QED
  BY <1>2 DEF IssuedInv, FromOperator, FrameIssued

\* A handler that returns has no copies.
LEMMA IssuedReturn ==
  ASSUME TypeOK, IssuedInv, NEW s \in Slot, Return(s), grants' = grants
  PROVE  IssuedInv'
<1>1. FrameIssued(Idle)
  BY DEF FrameIssued, Idle
<1> QED
  BY <1>1, IssuedBecome DEF Return

\* The copy of a task's grants is one of stored grants of that task.
LEMMA OrdersIssued ==
  ASSUME TypeOK, IssuedInv, NEW t, NEW view \in GrantOrders(t), NEW i \in DOMAIN view
  PROVE  view[i].task = t /\ FromOperator(view[i])
<1> DEFINE ids == TaskGrants(t)
           n == Cardinality(ids)
<1>1. PICK o \in [1 .. n -> ids] : view = [j \in 1 .. n |-> grants[o[j]]]
  BY DEF GrantOrders
<1>2. \A g \in ids : g \in GrantId /\ grants[g] # NoGrant /\ grants[g].task = t
  BY DEF TaskGrants
<1> HIDE DEF n, ids
<1>3. i \in 1 .. n /\ o[i] \in ids /\ view[i] = grants[o[i]]
  BY <1>1
<1> QED
  BY <1>2, <1>3 DEF IssuedInv

\* Handlers copy grants and do not make any.
LEMMA IssuedServe ==
  ASSUME TypeOK, IssuedInv, NEW s \in Slot, Serve(s)
  PROVE  IssuedInv'
<1> DEFINE f == h[s]
<1>0. f \in Frame /\ FrameIssued(f)
  BY FrameParts DEF IssuedInv
<1>1. ASSUME NEW k, Become(s, k), grants' = grants,
             k.view \in {<<>>, f.view}, k.req = f.req, k.path = f.path
      PROVE  IssuedInv'
  <2>1. FrameIssued(k)
    BY <1>0, <1>1 DEF FrameIssued
  <2> QED
    BY <1>1, <2>1, IssuedBecome
<1>2. CASE ReadGrants(s)
  <2>1. PICK view \in GrantOrders(f.req.task) :
          Become(s, [f EXCEPT !.pc = "ledger", !.view = view])
    BY <1>2 DEF ReadGrants
  <2> DEFINE k == [f EXCEPT !.pc = "ledger", !.view = view]
  <2>2. k.view = view /\ k.req = f.req /\ k.path = f.path
    BY <1>0 DEF Frame
  <2>3. Become(s, k)
    BY <2>1
  <2> HIDE DEF k
  <2>4. FrameIssued(k)
    BY <1>0, <2>1, <2>2, OrdersIssued DEF FrameIssued
  <2> QED
    BY <1>2, <2>3, <2>4, IssuedBecome DEF ReadGrants, storeVars
<1>3. CASE CheckLedger(s)
  <2> DEFINE i == f.next
             seen == IF On("revocation") THEN f.view[i].revoked \/ f.view[i].id \in ledger
                     ELSE FALSE
             k == [f EXCEPT !.view[i].revoked = seen, !.next = @ + 1]
             l == [f EXCEPT !.pc = "history", !.next = 1]
  <2>1. /\ (i \in DOMAIN f.view /\ Become(s, k)) \/ Become(s, l)
        /\ grants' = grants
    BY <1>3 DEF CheckLedger, storeVars
  <2>2. l.view = f.view /\ l.req = f.req /\ l.path = f.path
    BY <1>0 DEF Frame
  <2>3. ASSUME i \in DOMAIN f.view PROVE FrameIssued(k)
    <3> DEFINE v == [f.view EXCEPT ![i].revoked = seen]
    <3>1. k.view = v /\ k.req = f.req /\ k.path = f.path
      BY <1>0 DEF Frame
    <3>2. DOMAIN v = DOMAIN f.view /\ \A j \in DOMAIN f.view : j # i => v[j] = f.view[j]
      OBVIOUS
    <3>3. f.view[i] \in Grant
      <4>1. f.view \in Seq(Grant)
        BY <1>0 DEF Frame
      <4>2. i \in 1 .. Len(f.view)
        BY <2>3, <4>1, LenProperties
      <4> QED
        BY <4>1, <4>2, ElementOfSeq
    <3>4. v[i] = [f.view[i] EXCEPT !.revoked = seen]
      BY <2>3
    <3> HIDE DEF seen
    <3>5. /\ v[i].task = f.view[i].task /\ v[i].id = f.view[i].id
          /\ v[i].tool = f.view[i].tool /\ v[i].op = f.view[i].op
          /\ v[i].pattern = f.view[i].pattern /\ v[i].elevate = f.view[i].elevate
          /\ v[i].maxCalls = f.view[i].maxCalls /\ v[i].maxRecords = f.view[i].maxRecords
          /\ v[i].rateLimit = f.view[i].rateLimit /\ v[i].rateWindow = f.view[i].rateWindow
          /\ v[i].expires = f.view[i].expires /\ v[i].ttl = f.view[i].ttl
      BY <3>3, <3>4 DEF Grant, GrantOf
    <3> HIDE DEF v, k
    <3>6. FromOperator(v[i])
      <4>1. FromOperator(f.view[i])
        BY <1>0, <2>3 DEF FrameIssued
      <4> QED
        BY <3>5, <4>1 DEF FromOperator
    <3> QED
      BY <1>0, <2>3, <3>1, <3>2, <3>5, <3>6 DEF FrameIssued
  <2> HIDE DEF k, l
  <2> QED
    BY <1>1, <2>1, <2>2, <2>3, IssuedBecome
<1>4. CASE ReadHistory(s)
  BY <1>0, <1>1, <1>4 DEF ReadHistory, storeVars, Frame
<1>5. CASE Decide(s)
  BY <1>0, <1>1, <1>5, IssuedReturn DEF Decide, storeVars, Frame
<1>6. CASE Enqueue(s) \/ RefuseElevation(s) \/ RefuseMint(s) \/ RefuseCredential(s)
  BY <1>6, IssuedReturn DEF Enqueue, RefuseElevation, RefuseMint, RefuseCredential, storeVars
<1>7. CASE ConsumeElevation(s)
  BY <1>0, <1>1, <1>7 DEF ConsumeElevation, storeVars, Frame
<1>8. CASE FetchGrant(s)
  BY <1>0, <1>1, <1>8, IssuedReturn DEF FetchGrant, storeVars, Frame
<1>9. CASE Recheck(s)
  BY <1>0, <1>1, <1>9, IssuedReturn DEF Recheck, storeVars, Frame
<1>10. CASE MintCredential(s)
  BY <1>0, <1>1, <1>10 DEF MintCredential, storeVars, Frame
<1>11. CASE CheckPresented(s)
  BY <1>0, <1>1, <1>11, IssuedReturn DEF CheckPresented, storeVars, Frame
<1>12. CASE AcceptCredential(s)
  BY <1>0, <1>1, <1>12 DEF AcceptCredential, storeVars, Frame
<1>13. CASE Execute(s)
  BY <1>0, <1>1, <1>13 DEF Execute, storeVars, Frame
<1>14. CASE LogExecution(s)
  BY <1>0, <1>1, <1>14, IssuedReturn DEF LogExecution, storeVars, Frame
<1>15. CASE RecordCall(s)
  BY <1>15, IssuedReturn DEF RecordCall
<1> QED
  BY <1>2, <1>3, <1>4, <1>5, <1>6, <1>7, <1>8, <1>9, <1>10, <1>11, <1>12,
     <1>13, <1>14, <1>15 DEF Serve

\* Only CreateTask stores grants and only a revocation changes one.
LEMMA IssuedStep == TypeOK /\ IssuedInv /\ [Next]_vars => IssuedInv'
<1> SUFFICES ASSUME TypeOK, IssuedInv, [Next]_vars PROVE IssuedInv'
  OBVIOUS
<1>0. ASSUME h' = h, grants' = grants PROVE IssuedInv'
  BY <1>0 DEF IssuedInv, FrameIssued, FromOperator
<1>1. ASSUME NEW s \in Slot, NewCall(s) \/ PresentMalformed(s) PROVE IssuedInv'
  <2>1. CASE PresentMalformed(s)
    BY <1>0, <2>1 DEF PresentMalformed, storeVars
  <2>2. ASSUME NEW r \in Request, RefuseUnknownTask(s, r) PROVE IssuedInv'
    BY <1>0, <2>2 DEF RefuseUnknownTask, storeVars
  <2>3. ASSUME NEW k, Become(s, k), k.view = <<>>, grants' = grants,
               k.path = "minted" => k.req.task \in TaskId
        PROVE  IssuedInv'
    BY <2>3, IssuedBecome DEF FrameIssued
  <2>4. ASSUME NEW r \in Request, NEW e, Arrive(s, r, e) PROVE IssuedInv'
    BY <2>3, <2>4 DEF Arrive, LiveTasks, storeVars, Idle
  <2>5. ASSUME NEW r \in Request, NEW c, Present(s, r, c) PROVE IssuedInv'
    BY <2>3, <2>5 DEF Present, storeVars, Idle
  <2> QED
    BY <1>1, <2>1, <2>2, <2>4, <2>5 DEF NewCall
<1>2. ASSUME NEW t \in TaskId, CreateTask(t) PROVE IssuedInv'
  <2> DEFINE issued == {[g EXCEPT !.task = t] : g \in TaskReq[t]}
  <2>1. /\ grants' = [i \in GrantId |-> IF \E g \in issued : g.id = i
                                        THEN CHOOSE g \in issued : g.id = i ELSE grants[i]]
        /\ h' = h
    BY <1>2 DEF CreateTask
  <2>2. \A g \in issued : FromOperator(g)
    <3>1. TaskReq[t] \subseteq Grant
      BY BrokerAssumption
    <3> QED
      BY <3>1 DEF Grant, GrantOf, FromOperator
  <2> HIDE DEF issued
  <2>3. ASSUME NEW i \in GrantId, grants'[i] # NoGrant
        PROVE  grants'[i].id = i /\ FromOperator(grants'[i])
    <3>1. CASE \E g \in issued : g.id = i
      BY <2>1, <2>2, <3>1
    <3>2. CASE ~\E g \in issued : g.id = i
      BY <2>1, <2>3, <3>2 DEF IssuedInv
    <3> QED
      BY <3>1, <3>2
  <2> QED
    BY <2>1, <2>3 DEF IssuedInv, FrameIssued, FromOperator
<1>3. ASSUME NEW g \in GrantId, RevokeMark(g) PROVE IssuedInv'
  <2>1. /\ grants' = [grants EXCEPT ![g] = [grants[g] EXCEPT !.revoked = TRUE]]
        /\ h' = h /\ grants[g] \in Grant /\ grants[g] # NoGrant
    BY <1>3 DEF RevokeMark, TypeOK
  <2> DEFINE k == [grants[g] EXCEPT !.revoked = TRUE]
  <2>2. /\ k.id = grants[g].id /\ k.task = grants[g].task /\ k.tool = grants[g].tool
        /\ k.op = grants[g].op /\ k.pattern = grants[g].pattern
        /\ k.elevate = grants[g].elevate /\ k.maxCalls = grants[g].maxCalls
        /\ k.maxRecords = grants[g].maxRecords /\ k.rateLimit = grants[g].rateLimit
        /\ k.rateWindow = grants[g].rateWindow
        /\ k.expires = grants[g].expires /\ k.ttl = grants[g].ttl
    BY <2>1 DEF Grant, GrantOf
  <2>3. \A i \in GrantId : grants'[i] = IF i = g THEN k ELSE grants[i]
    BY <2>1 DEF TypeOK
  <2> HIDE DEF k
  <2>4. k.id = g /\ FromOperator(k)
    BY <2>1, <2>2 DEF IssuedInv, FromOperator
  <2>5. \A i \in GrantId : grants'[i] # NoGrant => grants'[i].id = i /\ FromOperator(grants'[i])
    BY <2>3, <2>4 DEF IssuedInv
  <2> QED
    BY <2>1, <2>5 DEF IssuedInv, FrameIssued, FromOperator
<1>4. CASE Operator
  <2>1. \/ \E t \in TaskId : CreateTask(t)
        \/ \E g \in GrantId : RevokeMark(g)
        \/ h' = h /\ grants' = grants
    BY <1>4 DEF Operator, RevokeCommit, Approve, DenyElevation, Resolve, MintOnly, storeVars
  <2> QED
    BY <1>0, <1>2, <1>3, <2>1
<1>5. CASE Tick \/ UNCHANGED vars
  BY <1>0, <1>5 DEF Tick, vars, storeVars
<1>6. CASE Restart
  <2>1. grants' = [g \in GrantId |-> NoGrant] /\ h' = [s \in Slot |-> Idle]
    BY <1>6 DEF Restart
  <2>2. FrameIssued(Idle)
    BY DEF FrameIssued, Idle
  <2>3. \A s \in Slot : FrameIssued(h'[s])
    BY <2>1, <2>2
  <2> QED
    BY <2>1, <2>3 DEF IssuedInv, FrameIssued, FromOperator
<1> QED
  BY <1>1, <1>4, <1>5, <1>6, IssuedServe DEF Next

\* No grant is stored at the start.
LEMMA IssuedInit == Init => IssuedInv
<1> SUFFICES ASSUME Init PROVE IssuedInv
  OBVIOUS
<1>1. grants = [g \in GrantId |-> NoGrant] /\ \A s \in Slot : h[s] = Idle
  BY DEF Init
<1>2. FrameIssued(Idle)
  BY DEF FrameIssued, Idle
<1> QED
  BY <1>1, <1>2 DEF IssuedInv

----------------------------------------------------------------------------
(* Calls that need an approval *)

Risky(r, id) == HighRiskOp(r) \/ \E g \in TaskReq[r.task] : g.id = id /\ g.elevate

\* A call the engine lets go on without an approval is not one that needs it.
LEMMA DecidedIsPlain ==
  ASSUME TypeOK, IssuedInv, On("elevation"), NEW s \in Slot, NEW count,
         h[s].path = "minted", Decision(h[s].view, count, h[s].req, now).action = "allow"
  PROVE  ~Risky(h[s].req, Decision(h[s].view, count, h[s].req, now).grant)
<1> DEFINE f == h[s]
           m == Match(f.view, f.req, now)
<1>1. /\ Decision(f.view, count, f.req, now).grant = m.id
      /\ ~m.elevate /\ ~HighRiskOp(f.req)
  BY AllowedIsPlain
<1>2. \A g \in TaskReq[f.req.task] : g.id = m.id => ~g.elevate
  <2>1. CASE m = Ablated(f.req)
    <3>1. m.id = "ablated"
      BY <2>1 DEF Ablated
    <3> SUFFICES ASSUME NEW g \in TaskReq[f.req.task], g.id = "ablated" PROVE ~g.elevate
      BY <3>1
    <3>2. f.req.task \in TaskId
      BY DEF IssuedInv, FrameIssued
    <3>3. g \in Grant
      BY <3>2, BrokerAssumption
    <3> QED
      BY <3>3, BrokerAssumption DEF Grant, GrantOf
  <2>2. ASSUME NEW i \in DOMAIN f.view, m = f.view[i], m \in Grant
        PROVE  \A g \in TaskReq[f.req.task] : g.id = m.id => ~g.elevate
    <3>1. m.task = f.req.task /\ FromOperator(m) /\ m.task \in TaskId
      BY <2>2 DEF IssuedInv, FrameIssued, Grant, GrantOf
    <3> HIDE DEF m
    <3>2. PICK k \in TaskReq[f.req.task] : k.id = m.id /\ k.elevate = m.elevate
      BY <3>1, Zenon DEF FromOperator
    <3>3. \A g \in TaskReq[f.req.task] : g.id = k.id => g = k
      BY <3>1, BrokerAssumption
    <3>4. ~k.elevate
      BY <1>1, <3>2, Zenon DEF m
    <3> QED
      BY <3>2, <3>3, <3>4
  <2>3. f.view \in Seq(Grant)
    BY FrameParts
  <2>4. m = Ablated(f.req) \/ \E i \in DOMAIN f.view : m = f.view[i] /\ m \in Grant
    BY <2>3, MatchOutcome
  <2> HIDE DEF m
  <2> QED
    BY <2>1, <2>2, <2>4
<1> QED
  BY <1>1, <1>2 DEF Risky

----------------------------------------------------------------------------
(* An approval backs one call *)

\* A handler past the place where its approval is taken, until its tool runs.
Working == {"fetch", "recheck", "mint", "verify", "exec"}

\* The grant it works under.
Under(f) == IF f.pc \in {"verify", "exec"} THEN f.cred.grant ELSE f.gid

Backed(f) == f.path = "minted" /\ f.pc \in Working /\ Risky(f.req, Under(f))

Given(e, r, statuses) ==
  /\ e \in DOMAIN elev /\ elev[e].status \in statuses
  /\ elev[e].task = r.task /\ elev[e].key = CallKey(r)

RiskyExecs == {x \in execs : NeedsApproval(x)}

FrameLinked(f) ==
  /\ f.elev # 0 => f.elev \in DOMAIN elev
  /\ f.pc = "presented" => f.path = "presented"
  /\ f.pc \in {"recheck", "mint"} => f.got.id = f.gid

ExecsPaid ==
  \A x \in RiskyExecs :
    Given(x.elev, x.req, IF x.boot = boots THEN {"consumed"} ELSE {"consumed", "lost"})

\* ApprovalBacksOneCall speaks of what has run.  An approval is consumed
\* before that, so the invariant adds the handlers in between: they and the
\* executions have a consumed request each, and no two the same one.
PaidParts ==
  /\ \A s \in Slot : FrameLinked(h[s])
  /\ \A s \in Slot : Backed(h[s]) => Given(h[s].elev, h[s].req, {"consumed"})
  /\ \A s, q \in Slot : Backed(h[s]) /\ Backed(h[q]) /\ h[s].elev = h[q].elev => s = q
  /\ \A s \in Slot, x \in RiskyExecs : Backed(h[s]) => x.elev # h[s].elev
  /\ ExecsPaid
  /\ \A x, y \in RiskyExecs : x.elev = y.elev => x = y
  /\ \A i \in DOMAIN elev :
       elev[i].status \in {"approved", "consumed"} =>
         Entry("elevate", 0, "approved", "", i) \in audit

PaidInv == On("elevation") => PaidParts

\* What a step of one handler must keep when it touches no request and runs
\* no tool: it takes up no backed work it did not have.
Carries(f, k) ==
  /\ FrameLinked(k)
  /\ Backed(k) => Backed(f) /\ k.elev = f.elev /\ k.req = f.req

\* A handler that moves keeps the approval it carries.
LEMMA PaidBecome ==
  ASSUME TypeOK, PaidInv, NEW s \in Slot, NEW k, Become(s, k),
         On("elevation") => Carries(h[s], k),
         elev' = elev, execs' = execs, boots' = boots, audit \subseteq audit'
  PROVE  PaidInv'
<1> SUFFICES ASSUME On("elevation") PROVE PaidParts'
  BY DEF PaidInv
<1>1. h'[s] = k /\ \A q \in Slot \ {s} : h'[q] = h[q]
  BY BecomeEffect
<1>2. PaidParts /\ Carries(h[s], k)
  BY DEF PaidInv
<1>3. \A q \in Slot :
        /\ FrameLinked(h'[q])
        /\ Backed(h'[q]) => Backed(h[q]) /\ h'[q].elev = h[q].elev /\ h'[q].req = h[q].req
  BY <1>1, <1>2 DEF Carries, PaidParts
<1>4. \A e, r, st : Given(e, r, st)' <=> Given(e, r, st)
  BY DEF Given
<1>9. ExecsPaid'
  BY <1>2 DEF PaidParts, ExecsPaid, RiskyExecs, Given
<1>5. RiskyExecs' = RiskyExecs
  BY DEF RiskyExecs
<1>6. \A q \in Slot : FrameLinked(h[q])'
  BY <1>3 DEF FrameLinked
<1>7. \A q \in Slot : Backed(h[q])' => Backed(h[q]) /\ h'[q].elev = h[q].elev /\ h'[q].req = h[q].req
  BY <1>3 DEF Backed, Under
<1>8. \A q \in Slot : Backed(h[q])' => Given(h[q].elev, h[q].req, {"consumed"})'
  BY <1>2, <1>4, <1>7 DEF PaidParts
<1> QED
  BY <1>2, <1>5, <1>6, <1>7, <1>8, <1>9 DEF PaidParts

\* A handler that returns gives up its approval.
LEMMA PaidReturn ==
  ASSUME TypeOK, PaidInv, NEW s \in Slot, Return(s),
         elev' = elev, execs' = execs, boots' = boots, audit \subseteq audit'
  PROVE  PaidInv'
<1>1. Carries(h[s], Idle)
  BY DEF Carries, FrameLinked, Backed, Idle
<1> QED
  BY <1>1, PaidBecome DEF Return

\* Steps that touch no handler, request or execution leave all paid for.
LEMMA PaidQuiet ==
  ASSUME PaidInv, h' = h, elev' = elev, execs' = execs, boots' = boots,
         audit \subseteq audit'
  PROVE  PaidInv'
BY DEF PaidInv, PaidParts, ExecsPaid, FrameLinked, Backed, Under, Given, RiskyExecs

\* Changing the status of one request that nobody has consumed.
LEMMA RelabelRequest ==
  ASSUME TypeOK, NEW i \in DOMAIN elev, elev[i].status \notin {"consumed", "lost"},
         NEW v, elev' = [elev EXCEPT ![i].status = v]
  PROVE  /\ DOMAIN elev' = DOMAIN elev
         /\ elev'[i].status = v
         /\ elev'[i].task = elev[i].task /\ elev'[i].key = elev[i].key
         /\ \A j \in DOMAIN elev : j # i => elev'[j] = elev[j]
         /\ \A e, r : \A st \in SUBSET {"consumed", "lost"} :
              Given(e, r, st) => e # i /\ Given(e, r, st)'
<1>1. i \in 1 .. Len(elev) /\ elev[i] \in ElevationType
  <2>1. i \in 1 .. Len(elev)
    BY LenProperties DEF TypeOK
  <2> QED
    BY <2>1, ElementOfSeq DEF TypeOK
<1>2. /\ DOMAIN elev' = DOMAIN elev
      /\ elev'[i] = [elev[i] EXCEPT !.status = v]
      /\ \A j \in DOMAIN elev : j # i => elev'[j] = elev[j]
  OBVIOUS
<1>3. /\ elev'[i].status = v
      /\ elev'[i].task = elev[i].task /\ elev'[i].key = elev[i].key
  BY <1>1, <1>2 DEF ElevationType
<1>4. ASSUME NEW e, NEW r, NEW st \in SUBSET {"consumed", "lost"}, Given(e, r, st)
      PROVE  e # i /\ Given(e, r, st)'
  <2>1. e \in DOMAIN elev /\ elev[e].status \in {"consumed", "lost"}
    BY <1>4 DEF Given
  <2>2. e # i
    BY <2>1
  <2>3. elev'[e] = elev[e] /\ e \in DOMAIN elev'
    BY <1>2, <2>1, <2>2
  <2> QED
    BY <1>4, <2>2, <2>3 DEF Given
<1> QED
  BY <1>2, <1>3, <1>4

\* Executions stay paid for if consumed requests stay so.
LEMMA ExecsStayPaid ==
  ASSUME PaidParts, execs' = execs, boots' = boots,
         \A e, r : \A st \in SUBSET {"consumed", "lost"} : Given(e, r, st) => Given(e, r, st)'
  PROVE  ExecsPaid'
<1> SUFFICES ASSUME NEW x \in RiskyExecs
             PROVE  Given(x.elev, x.req, IF x.boot = boots THEN {"consumed"}
                                         ELSE {"consumed", "lost"})'
  BY DEF ExecsPaid, RiskyExecs
<1> DEFINE st == IF x.boot = boots THEN {"consumed"} ELSE {"consumed", "lost"}
<1>1. Given(x.elev, x.req, st) /\ st \in SUBSET {"consumed", "lost"} /\ st' = st
  BY DEF PaidParts, ExecsPaid
<1> HIDE DEF st
<1>2. Given(x.elev, x.req, st)'
  BY <1>1 DEF Given
<1> QED
  BY <1>2 DEF st

\* The operator answers requests that are pending, and these back nothing yet.
LEMMA PaidResolve ==
  ASSUME TypeOK, PaidInv, NEW i \in DOMAIN elev, Approve(i) \/ DenyElevation(i)
  PROVE  PaidInv'
<1> SUFFICES ASSUME On("elevation") PROVE PaidParts'
  BY DEF PaidInv
<1>1. PICK v \in {"approved", "denied"} :
        /\ elev[i].status = "pending" /\ elev' = [elev EXCEPT ![i].status = v]
        /\ h' = h /\ execs' = execs /\ boots' = boots /\ audit \subseteq audit'
        /\ v = "approved" => Entry("elevate", 0, "approved", "", i) \in audit'
  BY DEF Approve, DenyElevation, Resolve, Log, envVars
<1>2. PaidParts
  BY DEF PaidInv
<1>3. elev[i].status \notin {"consumed", "lost"}
  BY <1>1
<1>4. /\ DOMAIN elev' = DOMAIN elev /\ elev'[i].status = v
      /\ \A j \in DOMAIN elev : j # i => elev'[j] = elev[j]
      /\ \A e, r : \A st \in SUBSET {"consumed", "lost"} :
           Given(e, r, st) => e # i /\ Given(e, r, st)'
  BY <1>1, <1>3, RelabelRequest
<1>5. RiskyExecs' = RiskyExecs /\ \A q \in Slot : Backed(h[q])' <=> Backed(h[q])
  BY <1>1 DEF RiskyExecs, Backed, Under
<1>6. \A q \in Slot : FrameLinked(h[q])'
  BY <1>1, <1>2, <1>4 DEF PaidParts, FrameLinked
<1>7. \A q \in Slot : Backed(h[q])' => Given(h[q].elev, h[q].req, {"consumed"})'
  BY <1>1, <1>2, <1>4, <1>5 DEF PaidParts
<1>8. ExecsPaid'
  BY <1>1, <1>2, <1>4, ExecsStayPaid
<1>9. \A j \in DOMAIN elev' :
        elev'[j].status \in {"approved", "consumed"} =>
          Entry("elevate", 0, "approved", "", j) \in audit'
  BY <1>1, <1>2, <1>4 DEF PaidParts
<1> QED
  BY <1>1, <1>2, <1>5, <1>6, <1>7, <1>8, <1>9 DEF PaidParts

\* A new request is at a place of its own in the queue.
LEMMA PaidEnqueue ==
  ASSUME TypeOK, PaidInv, NEW s \in Slot, Enqueue(s)
  PROVE  PaidInv'
<1> SUFFICES ASSUME On("elevation") PROVE PaidParts'
  BY DEF PaidInv
<1> DEFINE x == [task |-> h[s].req.task, key |-> CallKey(h[s].req), status |-> "pending"]
<1>1. /\ elev' = Append(elev, x) /\ Return(s)
      /\ execs' = execs /\ boots' = boots /\ audit \subseteq audit'
  BY DEF Enqueue, Log, envVars
<1>2. x.status = "pending"
  OBVIOUS
<1> HIDE DEF x
<1>3. PaidParts
  BY DEF PaidInv
<1>4. /\ DOMAIN elev \subseteq DOMAIN elev'
      /\ \A i \in DOMAIN elev : elev'[i] = elev[i]
      /\ \A i \in DOMAIN elev' \ DOMAIN elev : elev'[i].status = "pending"
  <2>1. /\ elev \in Seq(ElevationType) /\ DOMAIN elev = 1 .. Len(elev)
        /\ Len(elev) \in Nat
    BY LenProperties DEF TypeOK
  <2>2. /\ DOMAIN elev' = 1 .. Len(elev) + 1
        /\ \A i \in 1 .. Len(elev) : elev'[i] = elev[i]
        /\ elev'[Len(elev) + 1] = x
    BY <1>1, <2>1
  <2> QED
    BY <1>2, <2>1, <2>2
<1>5. /\ h'[s] = Idle /\ \A q \in Slot \ {s} : h'[q] = h[q]
      /\ ~Backed(Idle) /\ Idle.elev = 0 /\ Idle.pc = "idle"
  BY <1>1, ReturnEffect DEF Backed, Idle
<1>6. \A e, r, st : Given(e, r, st) => Given(e, r, st)'
  BY <1>4 DEF Given
<1>7. \A q \in Slot : FrameLinked(h[q])'
  BY <1>3, <1>4, <1>5 DEF PaidParts, FrameLinked
<1>8. \A q \in Slot : Backed(h[q])' => q # s /\ Backed(h[q]) /\ h'[q] = h[q]
  BY <1>5 DEF Backed, Under
<1>9. \A q \in Slot : Backed(h[q])' => Given(h[q].elev, h[q].req, {"consumed"})'
  <2> SUFFICES ASSUME NEW q \in Slot, Backed(h[q])'
               PROVE  Given(h[q].elev, h[q].req, {"consumed"})'
    OBVIOUS
  <2>1. Given(h[q].elev, h[q].req, {"consumed"}) /\ h'[q] = h[q]
    BY <1>3, <1>8 DEF PaidParts
  <2> QED
    BY <1>4, <2>1 DEF Given
<1>10. RiskyExecs' = RiskyExecs /\ ExecsPaid'
  BY <1>1, <1>3, <1>6, ExecsStayPaid DEF RiskyExecs
<1>11. \A i \in DOMAIN elev' :
         elev'[i].status \in {"approved", "consumed"} =>
           Entry("elevate", 0, "approved", "", i) \in audit'
  BY <1>1, <1>3, <1>4 DEF PaidParts
<1> QED
  BY <1>3, <1>7, <1>8, <1>9, <1>10, <1>11 DEF PaidParts

\* The request that is consumed was not consumed before (approval.go, Consume).
LEMMA PaidConsume ==
  ASSUME TypeOK, PaidInv, NEW s \in Slot, ConsumeElevation(s)
  PROVE  PaidInv'
<1> SUFFICES ASSUME On("elevation") PROVE PaidParts'
  BY DEF PaidInv
<1> DEFINE i == h[s].elev
           k == [h[s] EXCEPT !.pc = "fetch"]
<1>1. /\ Consumable(i, h[s].req) /\ i # 0 /\ elev' = [elev EXCEPT ![i].status = "consumed"]
      /\ Become(s, k) /\ execs' = execs /\ boots' = boots /\ audit \subseteq audit'
  BY DEF ConsumeElevation, Log, envVars
<1>2. /\ k.pc = "fetch" /\ k.elev = i /\ k.req = h[s].req
  BY FrameParts DEF Frame
<1> HIDE DEF k
<1>3. PaidParts
  BY DEF PaidInv
<1>4. i \in DOMAIN elev /\ elev[i].status = "approved"
      /\ elev[i].task = h[s].req.task /\ elev[i].key = CallKey(h[s].req)
  BY <1>1, <1>3 DEF PaidParts, FrameLinked, Consumable
<1> HIDE DEF i
<1>5. /\ DOMAIN elev' = DOMAIN elev /\ elev'[i].status = "consumed"
      /\ elev'[i].task = elev[i].task /\ elev'[i].key = elev[i].key
      /\ \A j \in DOMAIN elev : j # i => elev'[j] = elev[j]
      /\ \A e, r : \A st \in SUBSET {"consumed", "lost"} :
           Given(e, r, st) => e # i /\ Given(e, r, st)'
  BY <1>1, <1>4, RelabelRequest
<1>6. h'[s] = k /\ \A q \in Slot \ {s} : h'[q] = h[q]
  BY <1>1, BecomeEffect
<1>7. \A q \in Slot : FrameLinked(h[q])'
  <2>1. k.elev \in DOMAIN elev' /\ k.pc # "presented" /\ k.pc \notin {"recheck", "mint"}
    BY <1>2, <1>4, <1>5
  <2>2. FrameLinked(h[s])'
    BY <1>6, <2>1 DEF FrameLinked
  <2>3. ASSUME NEW q \in Slot \ {s}
        PROVE  FrameLinked(h[q])'
    <3>1. FrameLinked(h[q]) /\ h'[q] = h[q]
      BY <1>3, <1>6, <2>3 DEF PaidParts
    <3> QED
      BY <1>5, <3>1 DEF FrameLinked
  <2> QED
    BY <2>2, <2>3
<1>8. Given(h[s].elev, h[s].req, {"consumed"})' /\ h'[s].elev = i
  BY <1>2, <1>4, <1>5, <1>6 DEF Given
<1>9. \A q \in Slot \ {s} : Backed(h[q])' =>
        /\ Backed(h[q]) /\ h'[q] = h[q] /\ h[q].elev # i
        /\ Given(h[q].elev, h[q].req, {"consumed"})'
  <2> SUFFICES ASSUME NEW q \in Slot \ {s}, Backed(h[q])'
               PROVE  /\ Backed(h[q]) /\ h'[q] = h[q] /\ h[q].elev # i
                      /\ Given(h[q].elev, h[q].req, {"consumed"})'
    OBVIOUS
  <2>1. Backed(h[q]) /\ h'[q] = h[q]
    BY <1>6 DEF Backed, Under
  <2>2. Given(h[q].elev, h[q].req, {"consumed"})
    BY <1>3, <2>1 DEF PaidParts
  <2>3. h[q].elev # i /\ elev'[h[q].elev] = elev[h[q].elev]
    BY <1>4, <1>5, <2>2 DEF Given
  <2> QED
    BY <1>5, <2>1, <2>2, <2>3 DEF Given
<1>10. RiskyExecs' = RiskyExecs /\ ExecsPaid' /\ \A x \in RiskyExecs : x.elev # i
  <2>1. ExecsPaid'
    BY <1>1, <1>3, <1>5, ExecsStayPaid
  <2>2. \A x \in RiskyExecs : x.elev # i
    BY <1>3, <1>4 DEF PaidParts, ExecsPaid, Given
  <2> QED
    BY <1>1, <2>1, <2>2 DEF RiskyExecs
<1>11. \A j \in DOMAIN elev' :
         elev'[j].status \in {"approved", "consumed"} =>
           Entry("elevate", 0, "approved", "", j) \in audit'
  BY <1>1, <1>3, <1>4, <1>5 DEF PaidParts
<1> QED
  BY <1>3, <1>7, <1>8, <1>9, <1>10, <1>11 DEF PaidParts

\* An execution takes its handler's approval over.
LEMMA PaidExecute ==
  ASSUME TypeOK, PaidInv, NEW s \in Slot, Execute(s)
  PROVE  PaidInv'
<1> SUFFICES ASSUME On("elevation") PROVE PaidParts'
  BY DEF PaidInv
<1> DEFINE f == h[s]
           k == [f EXCEPT !.pc = "log"]
           x == Execution(f)
<1>1. /\ f.pc = "exec" /\ Become(s, k) /\ execs' \subseteq execs \cup {x}
      /\ elev' = elev /\ boots' = boots /\ audit' = audit
  BY DEF Execute, At, authVars, envVars
<1>2. k.pc = "log" /\ k.elev = f.elev
  BY FrameParts DEF Frame
<1>3. /\ x.path = f.path /\ x.req = f.req /\ x.elev = f.elev /\ x.cred = f.cred
      /\ x.boot = boots
  BY DEF Execution
<1> HIDE DEF k, x
<1>4. PaidParts
  BY DEF PaidInv
<1>5. NeedsApproval(x) => Backed(f) /\ Given(x.elev, x.req, {"consumed"})
  BY <1>1, <1>3, <1>4 DEF NeedsApproval, Backed, Working, Under, Risky, PaidParts
<1>6. RiskyExecs' \subseteq RiskyExecs \cup {y \in {x} : NeedsApproval(x)}
  BY <1>1 DEF RiskyExecs, NeedsApproval
<1>7. h'[s] = k /\ \A q \in Slot \ {s} : h'[q] = h[q]
  BY <1>1, BecomeEffect
<1>8. \A q \in Slot : FrameLinked(h[q])'
  BY <1>1, <1>2, <1>4, <1>7 DEF PaidParts, FrameLinked
<1>9. \A q \in Slot : Backed(h[q])' => q # s /\ Backed(h[q]) /\ h'[q] = h[q]
  BY <1>2, <1>7 DEF Backed, Under, Working
<1>10. \A e, r, st : Given(e, r, st)' <=> Given(e, r, st)
  BY <1>1 DEF Given
<1>11. \A q \in Slot : Backed(h[q])' => Given(h[q].elev, h[q].req, {"consumed"})'
  BY <1>1, <1>4, <1>9 DEF PaidParts, Given
<1>12. ExecsPaid'
  BY <1>1, <1>3, <1>4, <1>5, <1>6 DEF PaidParts, ExecsPaid, Given
<1>13. \A q \in Slot, y \in RiskyExecs' : Backed(h[q])' => y.elev # h'[q].elev
  BY <1>3, <1>4, <1>5, <1>6, <1>9 DEF PaidParts
<1>14. \A y, z \in RiskyExecs' : y.elev = z.elev => y = z
  BY <1>3, <1>4, <1>5, <1>6 DEF PaidParts
<1> QED
  BY <1>1, <1>4, <1>8, <1>9, <1>11, <1>12, <1>13, <1>14 DEF PaidParts

\* Every step of a handler leaves risky executions paid for.
LEMMA PaidServe ==
  ASSUME TypeOK, IssuedInv, PaidInv, NEW s \in Slot, Serve(s)
  PROVE  PaidInv'
<1> DEFINE f == h[s]
<1>0. f \in Frame /\ (On("elevation") => FrameLinked(f))
  BY FrameParts DEF PaidInv, PaidParts
<1>1. ASSUME NEW k, Become(s, k), k.elev = f.elev, k.pc \notin Working \cup {"presented"},
             UNCHANGED <<elev, execs, boots>>, audit \subseteq audit'
      PROVE  PaidInv'
  <2>1. On("elevation") => Carries(f, k)
    BY <1>0, <1>1 DEF Carries, FrameLinked, Backed, Working
  <2> QED
    BY <1>1, <2>1, PaidBecome
<1>2. CASE ReadGrants(s)
  BY <1>0, <1>1, <1>2 DEF ReadGrants, authVars, envVars, Frame, Working
<1>3. CASE CheckLedger(s)
  <2>1. f.pc = "ledger"
    BY <1>3 DEF CheckLedger, At
  <2> QED
    BY <1>0, <1>1, <1>3, <2>1 DEF CheckLedger, authVars, envVars, Frame, Working
<1>4. CASE ReadHistory(s)
  BY <1>0, <1>1, <1>4 DEF ReadHistory, authVars, envVars, Frame, Working
<1>5. CASE Decide(s)
  <2> DEFINE d == Decision(f.view, Counts(f), f.req, now)
             k == [f EXCEPT !.pc = IF d.action = "allow" THEN "fetch" ELSE "elevate",
                            !.gid = d.grant, !.view = <<>>, !.hist = {}]
  <2>1. /\ Return(s) \/ Become(s, k)
        /\ UNCHANGED <<elev, execs, boots>> /\ audit \subseteq audit'
    BY <1>5 DEF Decide, Log, authVars, envVars
  <2>2. f.path = "minted" /\ On("elevation") /\ d.action = "allow" => ~Risky(f.req, d.grant)
    BY DecidedIsPlain
  <2> HIDE DEF d
  <2>3. /\ k.pc = IF d.action = "allow" THEN "fetch" ELSE "elevate"
        /\ k.gid = d.grant /\ k.elev = f.elev /\ k.req = f.req /\ k.path = f.path
    BY <1>0 DEF Frame
  <2> HIDE DEF k
  <2>4. On("elevation") => Carries(f, k)
    BY <1>0, <2>2, <2>3 DEF Carries, FrameLinked, Backed, Working, Under
  <2> QED
    BY <2>1, <2>4, PaidBecome, PaidReturn
<1>6. CASE RefuseElevation(s) \/ RefuseMint(s) \/ RefuseCredential(s) \/ RecordCall(s)
  BY <1>6, PaidReturn
  DEF RefuseElevation, RefuseMint, RefuseCredential, RecordCall, Log, authVars, envVars
<1>7. CASE FetchGrant(s)
  <2> DEFINE g == IF f.gid = "ablated" THEN Ablated(f.req) ELSE grants[f.gid]
             got == GrantForMint(g, f.req)
             k == [f EXCEPT !.pc = "recheck", !.got = got, !.known = ledger]
  <2>1. /\ Return(s) \/ (g # NoGrant /\ Become(s, k))
        /\ UNCHANGED <<elev, execs, boots, audit>> /\ f.pc = "fetch"
    BY <1>7 DEF FetchGrant, authVars, envVars, At
  <2>2. ASSUME g # NoGrant PROVE got.id = f.gid
    <3>1. f.gid \in GrantRef
      BY <2>1, FrameParts DEF FrameOK
    <3>2. g.id = f.gid /\ (g = Ablated(f.req) \/ g \in Grant)
      <4>1. CASE f.gid = "ablated"
        BY <4>1 DEF Ablated
      <4>2. CASE f.gid # "ablated"
        BY <2>2, <3>1, <4>2 DEF GrantRef, IssuedInv, TypeOK
      <4> QED
        BY <4>1, <4>2
    <3> HIDE DEF g
    <3>3. got.id = g.id
      BY <3>2 DEF GrantForMint, Ablated, Grant, GrantOf
    <3> QED
      BY <3>2, <3>3
  <2> HIDE DEF g, got
  <2>3. /\ k.pc = "recheck" /\ k.got = got /\ k.gid = f.gid /\ k.elev = f.elev
        /\ k.req = f.req /\ k.path = f.path
    BY <1>0 DEF Frame
  <2> HIDE DEF k
  <2>4. On("elevation") /\ g # NoGrant => Carries(f, k)
    BY <1>0, <2>1, <2>2, <2>3 DEF Carries, FrameLinked, Backed, Working, Under
  <2> QED
    BY <2>1, <2>4, PaidBecome, PaidReturn
<1>8. CASE Recheck(s)
  <2> DEFINE k == [f EXCEPT !.pc = "mint"]
  <2>1. /\ Return(s) \/ Become(s, k)
        /\ UNCHANGED <<elev, execs, boots>> /\ audit \subseteq audit' /\ f.pc = "recheck"
    BY <1>8 DEF Recheck, Log, authVars, envVars, At
  <2>2. /\ k.pc = "mint" /\ k.got = f.got /\ k.gid = f.gid /\ k.elev = f.elev
        /\ k.req = f.req /\ k.path = f.path
    BY <1>0 DEF Frame
  <2> HIDE DEF k
  <2>3. On("elevation") => Carries(f, k)
    BY <1>0, <2>1, <2>2 DEF Carries, FrameLinked, Backed, Working, Under
  <2> QED
    BY <2>1, <2>3, PaidBecome, PaidReturn
<1>9. CASE MintCredential(s)
  <2> DEFINE c == Credential(f.got, f.req)
             k == [f EXCEPT !.pc = "verify", !.cred = c, !.got = NoGrant, !.gid = ""]
  <2>1. /\ Become(s, k) /\ UNCHANGED <<elev, execs, boots>> /\ audit \subseteq audit'
        /\ f.pc = "mint"
    BY <1>9 DEF MintCredential, Log, authVars, envVars, At
  <2>2. c.grant = f.got.id
    BY DEF Credential
  <2> HIDE DEF c
  <2>3. /\ k.pc = "verify" /\ k.cred = c /\ k.elev = f.elev /\ k.req = f.req
        /\ k.path = f.path
    BY <1>0 DEF Frame
  <2> HIDE DEF k
  <2>4. On("elevation") => Carries(f, k)
    BY <1>0, <2>1, <2>2, <2>3 DEF Carries, FrameLinked, Backed, Working, Under
  <2> QED
    BY <2>1, <2>4, PaidBecome
<1>10. CASE CheckPresented(s)
  <2> DEFINE k == [f EXCEPT !.pc = "verify"]
  <2>1. /\ Return(s) \/ Become(s, k)
        /\ UNCHANGED <<elev, execs, boots>> /\ audit \subseteq audit' /\ f.pc = "presented"
    BY <1>10 DEF CheckPresented, Log, authVars, envVars, At
  <2>2. k.pc = "verify" /\ k.elev = f.elev /\ k.path = f.path
    BY <1>0 DEF Frame
  <2> HIDE DEF k
  <2>3. On("elevation") => Carries(f, k)
    BY <1>0, <2>1, <2>2 DEF Carries, FrameLinked, Backed
  <2> QED
    BY <2>1, <2>3, PaidBecome, PaidReturn
<1>11. CASE AcceptCredential(s)
  <2> DEFINE k == [f EXCEPT !.pc = "exec"]
  <2>1. /\ Become(s, k) /\ UNCHANGED <<elev, execs, boots, audit>> /\ f.pc = "verify"
    BY <1>11 DEF AcceptCredential, authVars, envVars, At
  <2>2. /\ k.pc = "exec" /\ k.cred = f.cred /\ k.elev = f.elev /\ k.req = f.req
        /\ k.path = f.path
    BY <1>0 DEF Frame
  <2> HIDE DEF k
  <2>3. On("elevation") => Carries(f, k)
    BY <1>0, <2>1, <2>2 DEF Carries, FrameLinked, Backed, Working, Under
  <2> QED
    BY <2>1, <2>3, PaidBecome
<1>12. CASE LogExecution(s)
  <2> DEFINE k == [f EXCEPT !.pc = "record"]
  <2>1. /\ Return(s) \/ Become(s, k)
        /\ UNCHANGED <<elev, execs, boots>> /\ audit \subseteq audit'
    BY <1>12 DEF LogExecution, Log, authVars, envVars
  <2>2. k.pc = "record" /\ k.elev = f.elev
    BY <1>0 DEF Frame
  <2> HIDE DEF k
  <2>3. k.pc \notin Working \cup {"presented"}
    BY <2>2 DEF Working
  <2> QED
    BY <1>1, <2>1, <2>2, <2>3, PaidReturn
<1> QED
  BY <1>2, <1>3, <1>4, <1>5, <1>6, <1>7, <1>8, <1>9, <1>10, <1>11, <1>12,
     PaidEnqueue, PaidConsume, PaidExecute DEF Serve

\* A call that arrives has no approval in hand.
LEMMA PaidNewCall ==
  ASSUME TypeOK, PaidInv, NEW s \in Slot, NewCall(s) \/ PresentMalformed(s)
  PROVE  PaidInv'
<1>1. CASE PresentMalformed(s)
  BY <1>1, PaidQuiet DEF PresentMalformed, Log, authVars
<1>2. ASSUME NEW r \in Request, RefuseUnknownTask(s, r) PROVE PaidInv'
  BY <1>2, PaidQuiet DEF RefuseUnknownTask, Log, authVars
<1>3. ASSUME NEW k, Become(s, k), FrameLinked(k), k.pc \notin Working,
             UNCHANGED <<elev, execs, boots, audit>>
      PROVE  PaidInv'
  <2>1. Carries(h[s], k)
    BY <1>3 DEF Carries, Backed
  <2> QED
    BY <1>3, <2>1, PaidBecome
<1>4. ASSUME NEW r \in Request, NEW e \in {0} \cup DOMAIN elev, Arrive(s, r, e)
      PROVE  PaidInv'
  <2> DEFINE k == [Idle EXCEPT !.pc = "grants", !.path = "minted", !.run = runs',
                               !.req = r, !.elev = e]
  <2>1. k.pc = "grants" /\ k.elev = e
    BY DEF Idle
  <2>2. Become(s, k) /\ UNCHANGED <<elev, execs, boots, audit>>
    BY <1>4 DEF Arrive, authVars
  <2> HIDE DEF k
  <2> QED
    BY <1>3, <2>1, <2>2 DEF FrameLinked, Working
<1>5. ASSUME NEW r \in Request, NEW c, Present(s, r, c) PROVE PaidInv'
  <2>1. PICK wire \in Presented(c, r) :
          Become(s, [Idle EXCEPT !.pc = "presented", !.path = "presented", !.run = runs',
                                 !.req = r, !.cred = wire, !.known = ledger])
    BY <1>5 DEF Present
  <2> DEFINE k == [Idle EXCEPT !.pc = "presented", !.path = "presented", !.run = runs',
                               !.req = r, !.cred = wire, !.known = ledger]
  <2>2. k.pc = "presented" /\ k.path = "presented" /\ k.elev = 0
    BY DEF Idle
  <2>3. Become(s, k) /\ UNCHANGED <<elev, execs, boots, audit>>
    BY <1>5, <2>1 DEF Present, authVars
  <2> HIDE DEF k
  <2> QED
    BY <1>3, <2>2, <2>3 DEF FrameLinked, Working
<1> QED
  BY <1>1, <1>2, <1>4, <1>5 DEF NewCall

\* A restart ends every handler, and no execution is of the new boot.
LEMMA PaidRestart ==
  ASSUME TypeOK, PaidInv, NonceInv, Restart
  PROVE  PaidInv'
<1> SUFFICES ASSUME On("elevation") PROVE PaidParts'
  BY DEF PaidInv
<1>1. /\ elev' = [i \in DOMAIN elev |-> [elev[i] EXCEPT !.status = "lost"]]
      /\ h' = [s \in Slot |-> Idle] /\ boots' = boots + 1 /\ execs' = execs
  BY DEF Restart
<1>2. PaidParts
  BY DEF PaidInv
<1>3. \A s \in Slot : FrameLinked(h[s])' /\ ~Backed(h[s])'
  BY <1>1 DEF FrameLinked, Backed, Idle
<1>4. /\ DOMAIN elev' = DOMAIN elev
      /\ \A i \in DOMAIN elev : /\ elev'[i].status = "lost"
                                /\ elev'[i].task = elev[i].task /\ elev'[i].key = elev[i].key
  <2> SUFFICES ASSUME NEW i \in DOMAIN elev
               PROVE  /\ elev'[i].status = "lost"
                      /\ elev'[i].task = elev[i].task /\ elev'[i].key = elev[i].key
    BY <1>1
  <2>1. i \in 1 .. Len(elev)
    BY LenProperties DEF TypeOK
  <2>2. elev[i] \in ElevationType
    BY <2>1, ElementOfSeq DEF TypeOK
  <2> QED
    BY <1>1, <2>2 DEF ElevationType
<1>5. \A x \in execs : x.boot # boots'
  <2>1. \A x \in execs : x.boot \in Nat /\ x.boot <= boots /\ boots \in Nat
    BY DEF NonceInv, TypeOK, ExecutionType
  <2> QED
    BY <1>1, <2>1
<1>6. RiskyExecs' = RiskyExecs
  BY <1>1 DEF RiskyExecs
<1>7. ExecsPaid'
  BY <1>2, <1>4, <1>5, <1>6 DEF PaidParts, ExecsPaid, RiskyExecs, Given
<1>8. \A i \in DOMAIN elev' : elev'[i].status \notin {"approved", "consumed"}
  BY <1>4
<1> QED
  BY <1>2, <1>3, <1>6, <1>7, <1>8 DEF PaidParts

\* No answer, restart or other call takes an approval that was consumed.
LEMMA PaidStep ==
  TypeOK /\ IssuedInv /\ NonceInv /\ PaidInv /\ [Next]_vars => PaidInv'
<1> SUFFICES ASSUME TypeOK, IssuedInv, NonceInv, PaidInv, [Next]_vars PROVE PaidInv'
  OBVIOUS
<1>1. CASE Operator
  <2>1. \/ \E i \in DOMAIN elev : Approve(i) \/ DenyElevation(i)
        \/ UNCHANGED <<h, elev, execs, boots>> /\ audit \subseteq audit'
    BY <1>1 DEF Operator, CreateTask, RevokeMark, RevokeCommit, MintOnly, Log, authVars, envVars
  <2> QED
    BY <2>1, PaidResolve, PaidQuiet
<1>2. CASE Tick \/ UNCHANGED vars
  BY <1>2, PaidQuiet DEF Tick, vars, authVars, envVars
<1> QED
  BY <1>1, <1>2, PaidServe, PaidNewCall, PaidRestart DEF Next

\* Nothing ran at the start.
LEMMA PaidInit == Init => PaidInv
<1> SUFFICES ASSUME Init PROVE PaidParts
  BY DEF PaidInv
<1>1. elev = <<>> /\ execs = {} /\ \A s \in Slot : h[s] = Idle
  BY DEF Init
<1>2. \A s \in Slot : FrameLinked(h[s]) /\ ~Backed(h[s])
  <2>1. Idle.elev = 0 /\ Idle.pc = "idle"
    BY DEF Idle
  <2>2. FrameLinked(Idle)
    BY <2>1 DEF FrameLinked
  <2>3. ~Backed(Idle)
    BY <2>1 DEF Backed, Working
  <2>4. ASSUME NEW s \in Slot
        PROVE  FrameLinked(h[s]) /\ ~Backed(h[s])
    <3>1. h[s] = Idle
      BY <1>1
    <3> QED
      BY <2>2, <2>3, <3>1
  <2> QED
    BY <2>4
<1> QED
  BY <1>1, <1>2 DEF PaidParts, RiskyExecs, ExecsPaid

\* Paid executions are backed by approvals.
LEMMA PaidImplies == PaidInv => ApprovalBacksOneCall
<1> SUFFICES ASSUME PaidParts PROVE ApprovalBacksOneCall
  BY DEF PaidInv, ApprovalBacksOneCall
<1>1. {e \in execs : NeedsApproval(e)} = RiskyExecs
  BY DEF RiskyExecs
<1>2. \A x \in RiskyExecs :
        /\ Given(x.elev, x.req, {"consumed", "lost"})
        /\ x.boot = boots => elev[x.elev].status = "consumed"
  BY DEF PaidParts, ExecsPaid, Given
<1>3. \A x \in RiskyExecs :
        x.boot = boots => Entry("elevate", 0, "approved", "", x.elev) \in audit
  BY <1>2 DEF PaidParts, Given
<1> QED
  BY <1>1, <1>2, <1>3 DEF PaidParts, ApprovalBacksOneCall, Given

\* For any number of calls in flight, approvals, denials and restarts, every
\* high-risk execution consumed a request of its own that was queued for its
\* task and its call and approved (approval.go, Consume).
THEOREM OneApprovalOneCall == Spec => []ApprovalBacksOneCall
<1> QED
  BY TypeCorrect, IssuedInit, IssuedStep, NonceInit, NonceStep, PaidInit, PaidStep,
     PaidImplies, PTL DEF Spec

----------------------------------------------------------------------------
(* The audit log accounts for every execution *)

Has(log, kind, run, verdict, grant) ==
  \E e \in log : e.kind = kind /\ e.run = run /\ e.verdict = verdict /\ e.grant = grant

Refused(log, run) == \E e \in log : e.run = run /\ e.verdict = "deny"

\* The call was allowed under the grant, or an approval was taken for it.
Cleared(log, run, id) ==
  \/ Has(log, "decision", run, "allow", id)
  \/ Has(log, "decision", run, "require_elevation", id) /\ Has(log, "elevate", run, "consumed", id)

MintNoted(log, f) == Entry("mint", f.run, "", f.cred.grant, f.cred.nonce) \in log

\* What the log says of a call at each step of its handler.
FrameTrail(f, log) ==
  /\ f.pc # "idle" => ~Refused(log, f.run)
  /\ f.pc = "presented" => f.path # "minted"
  /\ f.pc = "elevate" => Has(log, "decision", f.run, "require_elevation", f.gid)
  /\ f.pc \in {"fetch", "recheck", "mint"} => Cleared(log, f.run, f.gid)
  /\ f.pc \in {"recheck", "mint"} => f.got.id = f.gid
  /\ f.pc \in {"verify", "exec", "log", "record"} /\ f.path = "minted" =>
       Cleared(log, f.run, f.cred.grant) /\ MintNoted(log, f)
  /\ f.pc = "record" => Has(log, "exec", f.run, "", f.cred.grant)

\* What it says of an execution.
ExecTrail(x, log) ==
  /\ x.path = "minted" => Cleared(log, x.run, x.cred.grant) /\ MintNoted(log, x)
  /\ ~Refused(log, x.run)

ExecLogged(x, log) == Has(log, "exec", x.run, "", x.cred.grant)

TrailInv ==
  /\ \A s \in Slot : FrameTrail(h[s], audit)
  /\ \A x \in ExecutedNow : ExecTrail(x, audit) /\ (ExecLogged(x, audit) \/ Running(x.run))

\* Entries that are there are in the log.
LEMMA TrailImplies == TrailInv => AuditTrail
<1> SUFFICES ASSUME TrailInv, NEW x \in execs, x.boot = boots
             PROVE  /\ x.path = "minted" =>
                         /\ \/ Noted("decision", x, "allow", x.cred.grant)
                            \/ /\ Noted("decision", x, "require_elevation", x.cred.grant)
                               /\ Noted("elevate", x, "consumed", x.cred.grant)
                         /\ Entry("mint", x.run, "", x.cred.grant, x.cred.nonce) \in audit
                    /\ Noted("exec", x, "", x.cred.grant) \/ Running(x.run)
                    /\ ~\E e \in audit : e.run = x.run /\ e.verdict = "deny"
  BY DEF AuditTrail
<1>1. ExecTrail(x, audit) /\ (ExecLogged(x, audit) \/ Running(x.run))
  BY DEF TrailInv, ExecutedNow
<1>2. ASSUME NEW kind, NEW verdict
      PROVE  Noted(kind, x, verdict, x.cred.grant) <=> Has(audit, kind, x.run, verdict, x.cred.grant)
  BY Zenon DEF Noted, Has
<1> QED
  BY <1>1, <1>2, Zenon DEF ExecTrail, ExecLogged, Cleared, MintNoted, Refused

\* What is noted stays noted, and entries of other calls refuse nothing.
LEMMA TrailGrows ==
  ASSUME NEW log, NEW more, log \subseteq more
  PROVE  /\ \A kind, run, verdict, grant :
              Has(log, kind, run, verdict, grant) => Has(more, kind, run, verdict, grant)
         /\ \A run, id : Cleared(log, run, id) => Cleared(more, run, id)
         /\ \A f : MintNoted(log, f) => MintNoted(more, f)
         /\ \A run : ~Refused(log, run) /\ (\A e \in more \ log : e.run # run \/ e.verdict # "deny")
                       => ~Refused(more, run)
<1>1. \A kind, run, verdict, grant :
        Has(log, kind, run, verdict, grant) => Has(more, kind, run, verdict, grant)
  BY DEF Has
<1>2. \A run, id : Cleared(log, run, id) => Cleared(more, run, id)
  BY <1>1 DEF Cleared
<1> QED
  BY <1>1, <1>2 DEF MintNoted, Refused

\* What others log says nothing of this call.
LEMMA FrameTrailKept ==
  ASSUME NEW log, NEW more, log \subseteq more, NEW f, FrameTrail(f, log),
         f.pc # "idle" => \A e \in more \ log : e.run # f.run
  PROVE  FrameTrail(f, more)
<1>1. f.pc # "idle" => ~Refused(more, f.run)
  BY DEF FrameTrail, Refused
<1>2. \A kind, run, verdict, grant :
        Has(log, kind, run, verdict, grant) => Has(more, kind, run, verdict, grant)
  BY TrailGrows
<1>3. \A run, id : Cleared(log, run, id) => Cleared(more, run, id)
  BY TrailGrows
<1>4. MintNoted(log, f) => MintNoted(more, f)
  BY TrailGrows
<1> QED
  BY <1>1, <1>2, <1>3, <1>4, Zenon DEF FrameTrail

\* What others log does not deny what ran.
LEMMA ExecTrailKept ==
  ASSUME NEW log, NEW more, log \subseteq more, NEW x, ExecTrail(x, log),
         \A e \in more \ log : e.run # x.run \/ e.verdict # "deny"
  PROVE  ExecTrail(x, more) /\ (ExecLogged(x, log) => ExecLogged(x, more))
<1>1. ~Refused(more, x.run)
  BY DEF ExecTrail, Refused
<1>2. ExecLogged(x, log) => ExecLogged(x, more)
  BY DEF ExecLogged, Has
<1>3. \A run, id : Cleared(log, run, id) => Cleared(more, run, id)
  BY TrailGrows
<1>4. MintNoted(log, x) => MintNoted(more, x)
  BY TrailGrows
<1> QED
  BY <1>1, <1>2, <1>3, <1>4, Zenon DEF ExecTrail

\* An entry notes what it says, and refuses only if it is a denial.
LEMMA Noting ==
  ASSUME NEW log, NEW more, NEW kind, NEW run, NEW verdict, NEW grant, NEW ref,
         more = log \cup {Entry(kind, run, verdict, grant, ref)}
  PROVE  /\ log \subseteq more /\ Has(more, kind, run, verdict, grant)
         /\ \A e \in more \ log : e.run = run /\ e.verdict = verdict
<1> DEFINE k == Entry(kind, run, verdict, grant, ref)
<1>1. k.kind = kind /\ k.run = run /\ k.verdict = verdict /\ k.grant = grant
  BY DEF Entry
<1>2. more = log \cup {k}
  OBVIOUS
<1> HIDE DEF k
<1> QED
  BY <1>1, <1>2 DEF Has

\* An entry that was appended is in the log, and no other was.
LEMMA LogNotes ==
  ASSUME NEW kind, NEW run, NEW verdict, NEW grant, NEW ref, Log(kind, run, verdict, grant, ref)
  PROVE  /\ audit \subseteq audit' /\ Has(audit', kind, run, verdict, grant)
         /\ \A e \in audit' \ audit : e.run = run /\ e.verdict = verdict
<1>1. audit' = audit \cup {Entry(kind, run, verdict, grant, ref)}
  BY DEF Log
<1> QED
  BY <1>1, Noting

\* An idle slot has nothing to show.
LEMMA IdleTrail == \A log : FrameTrail(Idle, log)
<1>1. Idle.pc = "idle"
  BY DEF Idle
<1> QED
  BY <1>1 DEF FrameTrail

\* The handler that moves: what it is about to rely on is in the log.
LEMMA ServedTrail ==
  ASSUME TypeOK, IssuedInv, TrailInv, NEW s \in Slot, Serve(s)
  PROVE  FrameTrail(h'[s], audit')
<1> DEFINE f == h[s]
<1>0. /\ FrameTrail(f, audit) /\ f.pc # "idle"
      /\ h'[s] = Idle \/ (h'[s].run = h[s].run /\ h'[s].pc # "idle")
  BY ServeRuns DEF TrailInv, ServesRun
<1>1. ASSUME h'[s] = Idle PROVE FrameTrail(h'[s], audit')
  BY <1>1, IdleTrail
<1>2. ~Refused(audit, f.run)
  BY <1>0 DEF FrameTrail
<1>3. ASSUME NEW kind, NEW verdict, NEW grant, NEW ref, verdict # "deny",
             Log(kind, f.run, verdict, grant, ref)
      PROVE  /\ audit \subseteq audit' /\ Has(audit', kind, f.run, verdict, grant)
             /\ ~Refused(audit', f.run)
  BY <1>2, <1>3, LogNotes DEF Refused
<1>4. CASE ReadGrants(s) \/ CheckLedger(s) \/ ReadHistory(s)
  <2>1. audit' = audit /\ \E from, to : Moves(s, from, to) /\ to \in {"ledger", "history", "decide"}
    BY <1>4, ReadGrantsEffect, CheckLedgerEffect, ReadHistoryEffect
  <2> QED
    BY <1>2, <2>1 DEF FrameTrail, Moves
<1>5. CASE Decide(s)
  <2> DEFINE d == Decision(f.view, Counts(f), f.req, now)
  <2>1. /\ Log("decision", f.run, d.action, d.grant, 0)
        /\ \/ d.action = "deny" /\ Ends(s, "decide")
           \/ /\ d.action = "allow" /\ Moves(s, "decide", "fetch") /\ h'[s].gid = d.grant
           \/ /\ d.action = "require_elevation" /\ Moves(s, "decide", "elevate")
              /\ h'[s].gid = d.grant
    BY <1>5, DecideEffect
  <2> HIDE DEF d
  <2>2. CASE d.action = "deny"
    BY <1>1, <2>1, <2>2 DEF Ends
  <2>3. CASE d.action # "deny"
    <3>1. Has(audit', "decision", f.run, d.action, d.grant) /\ ~Refused(audit', f.run)
      BY <1>3, <2>1, <2>3
    <3> QED
      BY <2>1, <2>3, <3>1 DEF FrameTrail, Moves, Cleared
  <2> QED
    BY <2>2, <2>3
<1>6. CASE Enqueue(s) \/ RefuseElevation(s) \/ RefuseMint(s) \/ RefuseCredential(s) \/ RecordCall(s)
  BY <1>1, <1>6, EnqueueEffect, RefuseEffect, RefuseCredentialEffect, RecordEffect DEF Ends
<1>7. CASE ConsumeElevation(s)
  <2>1. /\ Moves(s, "elevate", "fetch") /\ h'[s].gid = f.gid
        /\ Log("elevate", f.run, "consumed", f.gid, 0)
    BY <1>7, ConsumeEffect
  <2>2. /\ audit \subseteq audit' /\ Has(audit', "elevate", f.run, "consumed", f.gid)
        /\ ~Refused(audit', f.run)
    BY <1>3, <2>1
  <2>3. Has(audit', "decision", f.run, "require_elevation", f.gid)
    BY <1>0, <2>1, <2>2, TrailGrows DEF FrameTrail, Moves
  <2> QED
    BY <2>1, <2>2, <2>3 DEF FrameTrail, Moves, Cleared
<1>8. CASE FetchGrant(s)
  <2> DEFINE g == IF f.gid = "ablated" THEN Ablated(f.req) ELSE grants[f.gid]
  <2>1. /\ audit' = audit
        /\ \/ Ends(s, "fetch")
           \/ /\ g # NoGrant /\ Moves(s, "fetch", "recheck")
              /\ h'[s].got = GrantForMint(g, f.req) /\ h'[s].gid = f.gid
    BY <1>8, FetchEffect
  <2>2. ASSUME g # NoGrant, f.pc = "fetch" PROVE GrantForMint(g, f.req).id = f.gid
    <3>1. f.gid \in GrantRef
      BY <2>2, FrameParts DEF FrameOK
    <3>2. g.id = f.gid /\ g \in GrantOf(GrantRef, TaskRef)
      <4>1. CASE f.gid = "ablated"
        <5>1. f.req \in RequestType
          BY <1>0, FrameParts DEF At
        <5> QED
          BY <4>1, <5>1 DEF Ablated, GrantOf, GrantRef, TaskRef, RequestType
      <4>2. CASE f.gid # "ablated"
        <5>1. f.gid \in GrantId /\ g = grants[f.gid]
          BY <3>1, <4>2 DEF GrantRef
        <5>2. g \in Grant /\ g.id = f.gid
          BY <2>2, <5>1 DEF IssuedInv, TypeOK
        <5> QED
          BY <5>2 DEF Grant, GrantOf, GrantRef, TaskRef
      <4> QED
        BY <4>1, <4>2
    <3> HIDE DEF g
    <3> QED
      BY <3>2 DEF GrantForMint, GrantOf
  <2> HIDE DEF g
  <2>3. CASE Ends(s, "fetch")
    BY <1>1, <2>3 DEF Ends
  <2>4. CASE ~Ends(s, "fetch")
    BY <1>0, <1>2, <2>1, <2>2, <2>4 DEF FrameTrail, Moves
  <2> QED
    BY <2>3, <2>4
<1>9. CASE Recheck(s)
  <2>1. \/ Ends(s, "recheck")
        \/ /\ Moves(s, "recheck", "mint") /\ audit' = audit
           /\ h'[s].got = f.got /\ h'[s].gid = f.gid
    BY <1>9, RecheckEffect
  <2>2. CASE Ends(s, "recheck")
    BY <1>1, <2>2 DEF Ends
  <2>3. CASE ~Ends(s, "recheck")
    BY <1>0, <1>2, <2>1, <2>3 DEF FrameTrail, Moves
  <2> QED
    BY <2>2, <2>3
<1>10. CASE MintCredential(s)
  <2> DEFINE c == Credential(f.got, f.req)
  <2>1. /\ Moves(s, "mint", "verify") /\ h'[s].cred = c /\ minted' = minted + 1
        /\ Log("mint", f.run, "", f.got.id, minted')
    BY <1>10, MintEffect
  <2>2. c.grant = f.got.id /\ c.nonce = minted + 1
    BY DEF Credential
  <2> HIDE DEF c
  <2>3. f.got.id = f.gid /\ Cleared(audit, f.run, f.gid)
    BY <1>0, <2>1 DEF FrameTrail, Moves
  <2>4. audit' = audit \cup {Entry("mint", f.run, "", c.grant, c.nonce)}
    BY <2>1, <2>2 DEF Log
  <2>5. audit \subseteq audit' /\ ~Refused(audit', f.run)
    BY <1>3, <2>1
  <2>6. Cleared(audit', f.run, c.grant)
    BY <2>2, <2>3, <2>5, TrailGrows
  <2>7. MintNoted(audit', h'[s])
    BY <2>1, <2>4 DEF MintNoted, Moves
  <2> QED
    BY <2>1, <2>5, <2>6, <2>7 DEF FrameTrail, Moves
<1>11. CASE CheckPresented(s)
  <2>1. \/ Ends(s, "presented")
        \/ Moves(s, "presented", "verify") /\ audit' = audit
    BY <1>11, CheckPresentedEffect
  <2>2. CASE Ends(s, "presented")
    BY <1>1, <2>2 DEF Ends
  <2>3. CASE ~Ends(s, "presented")
    BY <1>0, <1>2, <2>1, <2>3 DEF FrameTrail, Moves
  <2> QED
    BY <2>2, <2>3
<1>12. CASE AcceptCredential(s) \/ Execute(s)
  <2>1. /\ audit' = audit /\ CredsKept(s)
        /\ Moves(s, "verify", "exec") \/ Moves(s, "exec", "log")
    BY <1>12, AcceptEffect, ExecuteEffect
  <2> QED
    BY <1>0, <1>2, <2>1 DEF FrameTrail, Moves, CredsKept, MintNoted
<1>13. CASE LogExecution(s)
  <2>1. /\ Log("exec", f.run, "", f.cred.grant, 0)
        /\ Ends(s, "log") \/ (Moves(s, "log", "record") /\ CredsKept(s))
    BY <1>13, LogExecutionEffect
  <2>2. CASE Ends(s, "log")
    BY <1>1, <2>2 DEF Ends
  <2>3. CASE ~Ends(s, "log")
    <3>1. /\ audit \subseteq audit' /\ Has(audit', "exec", f.run, "", f.cred.grant)
          /\ ~Refused(audit', f.run)
      BY <1>3, <2>1
    <3>2. f.path = "minted" => Cleared(audit', f.run, f.cred.grant)
      <4>1. f.path = "minted" => Cleared(audit, f.run, f.cred.grant)
        BY <1>0, <2>1, <2>3 DEF FrameTrail, Moves
      <4>2. \A run, id : Cleared(audit, run, id) => Cleared(audit', run, id)
        BY <3>1, TrailGrows
      <4> QED
        BY <4>1, <4>2
    <3>3. f.path = "minted" => MintNoted(audit', h'[s])
      BY <1>0, <2>1, <2>3, <3>1 DEF FrameTrail, Moves, CredsKept, MintNoted
    <3> QED
      BY <2>1, <2>3, <3>1, <3>2, <3>3 DEF FrameTrail, Moves, CredsKept
  <2> QED
    BY <2>2, <2>3
<1> QED
  BY <1>4, <1>5, <1>6, <1>7, <1>8, <1>9, <1>10, <1>11, <1>12, <1>13 DEF Serve

\* The executions and the handlers that a step does not touch.
LEMMA TrailServe ==
  ASSUME TypeOK, RunInv, IssuedInv, TrailInv, NEW s \in Slot, Serve(s)
  PROVE  TrailInv'
<1> DEFINE f == h[s]
<1>0. ServesRun(s) /\ f.run # 0
  BY ServeRuns DEF RunInv, FramesRun, ServesRun
<1>1. \A q \in Slot : FrameTrail(h'[q], audit')
  <2>1. ASSUME NEW q \in Slot \ {s} PROVE FrameTrail(h[q], audit')
    <3>1. h[q].pc # "idle" => h[q].run # f.run
      BY <1>0 DEF RunInv, FramesRun
    <3>2. /\ audit \subseteq audit' /\ FrameTrail(h[q], audit)
          /\ h[q].pc # "idle" => \A e \in audit' \ audit : e.run # h[q].run
      BY <1>0, <3>1 DEF TrailInv, ServesRun
    <3> QED
      BY <3>2, FrameTrailKept
  <2>2. FrameTrail(h'[s], audit')
    BY ServedTrail
  <2>3. \A q \in Slot \ {s} : h'[q] = h[q]
    BY <1>0 DEF ServesRun
  <2> QED
    BY <2>1, <2>2, <2>3
<1>2. ASSUME NEW x \in ExecutedNow, x.run # f.run
      PROVE  ExecTrail(x, audit') /\ (ExecLogged(x, audit') \/ Running(x.run)')
  <2>1. /\ audit \subseteq audit' /\ ExecTrail(x, audit)
        /\ \A e \in audit' \ audit : e.run # x.run
    BY <1>0, <1>2 DEF TrailInv, ServesRun
  <2>2. ExecTrail(x, audit') /\ (ExecLogged(x, audit) => ExecLogged(x, audit'))
    BY <2>1, ExecTrailKept
  <2>3. Running(x.run) => Running(x.run)'
    BY <1>0, <1>2 DEF Running, ServesRun
  <2> QED
    BY <1>2, <2>2, <2>3 DEF TrailInv
<1>3. ASSUME NEW x \in ExecutedNow, x.run = f.run
      PROVE  /\ ExecTrail(x, audit') /\ (ExecLogged(x, audit') \/ Running(x.run)')
             /\ f.pc \in {"log", "record"}
  <2>1. f.pc \in {"log", "record"} /\ x = Execution(f)
    BY <1>3 DEF RunInv, ExecsRun, ExecutedNow
  <2>2. ExecTrail(x, audit)
    BY <1>3 DEF TrailInv
  <2>3. x.cred = f.cred
    BY <2>1 DEF Execution
  <2>4. CASE LogExecution(s)
    <3>1. /\ Log("exec", x.run, "", x.cred.grant, 0)
          /\ Ends(s, "log") \/ Moves(s, "log", "record")
      BY <1>3, <2>3, <2>4, LogExecutionEffect
    <3>2. /\ audit \subseteq audit' /\ ExecLogged(x, audit')
          /\ \A e \in audit' \ audit : e.verdict # "deny"
      <4>1. /\ audit \subseteq audit' /\ Has(audit', "exec", x.run, "", x.cred.grant)
            /\ \A e \in audit' \ audit : e.verdict = ""
        BY <3>1, LogNotes
      <4> QED
        BY <4>1 DEF ExecLogged
    <3>3. ExecTrail(x, audit')
      BY <2>2, <3>2, ExecTrailKept
    <3> QED
      BY <2>1, <3>2, <3>3
  <2>5. CASE RecordCall(s)
    <3>1. audit' = audit /\ f.pc = "record"
      BY <2>5, RecordEffect DEF Ends
    <3>2. ExecLogged(x, audit)
      BY <1>3, <2>3, <3>1 DEF TrailInv, FrameTrail, ExecLogged
    <3> QED
      BY <2>1, <2>2, <3>1, <3>2
  <2>6. LogExecution(s) \/ RecordCall(s)
    BY <2>1 DEF Serve, At, ReadGrants, CheckLedger, ReadHistory, Decide, Enqueue,
       ConsumeElevation, RefuseElevation, FetchGrant, Recheck, MintCredential, RefuseMint,
       CheckPresented, AcceptCredential, RefuseCredential, Execute
  <2> QED
    BY <2>4, <2>5, <2>6
<1>4. ASSUME NEW x \in ExecutedNow', x \notin ExecutedNow
      PROVE  ExecTrail(x, audit') /\ Running(x.run)'
  <2>1. Execute(s) /\ x = Execution(f)
    <3>1. Execute(s)
      BY <1>0, <1>4 DEF ExecutedNow, ServesRun
    <3>2. execs' \in {execs, execs \cup {Execution(f)}}
      BY <3>1, ExecuteEffect
    <3> QED
      BY <1>0, <1>4, <3>1, <3>2 DEF ExecutedNow, ServesRun
  <2>2. audit' = audit /\ Moves(s, "exec", "log") /\ FrameTrail(f, audit)
    BY <2>1, ExecuteEffect DEF TrailInv
  <2>3. x.run = f.run /\ x.path = f.path /\ x.cred = f.cred
    BY <2>1 DEF Execution
  <2>4. ExecTrail(x, audit')
    BY <2>2, <2>3 DEF FrameTrail, ExecTrail, MintNoted, Moves
  <2>5. Running(x.run)'
    BY <2>2, <2>3 DEF Running, Moves
  <2> QED
    BY <2>4, <2>5
<1> QED
  BY <1>1, <1>2, <1>3, <1>4 DEF TrailInv

\* A step outside the handlers: its entries are of no call in progress, and no
\* handler with an execution of its own stops.
LEMMA TrailOutside ==
  ASSUME RunInv, TrailInv, execs' = execs, boots' = boots, audit \subseteq audit',
         \A e \in audit' \ audit : e.run \notin 1 .. runs,
         \A q \in Slot : h'[q] = h[q] \/ (h[q].pc = "idle" /\ FrameTrail(h'[q], audit'))
  PROVE  TrailInv'
<1>1. \A q \in Slot : FrameTrail(h'[q], audit')
  <2>1. ASSUME NEW q \in Slot, h'[q] = h[q] PROVE FrameTrail(h[q], audit')
    <3>1. h[q].pc # "idle" => h[q].run \in 1 .. runs
      BY DEF RunInv, FramesRun
    <3>2. h[q].pc # "idle" => \A e \in audit' \ audit : e.run # h[q].run
      BY <3>1
    <3>3. FrameTrail(h[q], audit)
      BY DEF TrailInv
    <3> QED
      BY <3>2, <3>3, FrameTrailKept
  <2> QED
    BY <2>1
<1>2. ASSUME NEW x \in ExecutedNow
      PROVE  ExecTrail(x, audit') /\ (ExecLogged(x, audit') \/ Running(x.run)')
  <2>1. x.run \in 1 .. runs
    BY DEF RunInv, ExecsRun, ExecutedNow
  <2>2. \A e \in audit' \ audit : e.run # x.run
    BY <2>1
  <2>3. ExecTrail(x, audit') /\ (ExecLogged(x, audit) => ExecLogged(x, audit'))
    BY <2>2, ExecTrailKept DEF TrailInv
  <2>4. Running(x.run) => Running(x.run)'
    BY <2>1 DEF Running, RunInv, FramesRun
  <2> QED
    BY <2>3, <2>4 DEF TrailInv
<1> QED
  BY <1>1, <1>2 DEF TrailInv, ExecutedNow

\* Each handler logs before it goes on, and nobody denies what another let run.
LEMMA TrailStep == TypeOK /\ RunInv /\ IssuedInv /\ TrailInv /\ [Next]_vars => TrailInv'
<1> SUFFICES ASSUME TypeOK, RunInv, IssuedInv, TrailInv, [Next]_vars PROVE TrailInv'
  OBVIOUS
<1>0. runs \in Nat
  BY DEF TypeOK
<1>1. ASSUME NEW s \in Slot, NewCall(s) \/ PresentMalformed(s) PROVE TrailInv'
  <2>1. CASE PresentMalformed(s) \/ \E r \in Request : RefuseUnknownTask(s, r)
    <3>1. /\ h' = h /\ execs' = execs /\ boots' = boots /\ runs' = runs + 1
          /\ audit' = audit \cup {Entry("decision", runs', "deny", "", 0)}
      BY <2>1, TurnedAwayEffect
    <3>2. Entry("decision", runs', "deny", "", 0).run = runs'
      BY DEF Entry
    <3>3. audit \subseteq audit' /\ \A e \in audit' \ audit : e.run = runs'
      BY <3>1, <3>2
    <3>4. runs' \notin 1 .. runs
      <4>1. runs' = runs + 1
        BY <3>1
      <4> QED
        BY <1>0, <4>1
    <3> QED
      BY <3>1, <3>3, <3>4, TrailOutside
  <2>2. ASSUME NEW pc, NEW path, NEW r, Begins(s, pc, path, r),
               pc = "grants" \/ (pc = "presented" /\ path # "minted"),
               audit' = audit, execs' = execs, boots' = boots
        PROVE  TrailInv'
    <3>1. h'[s].run = runs + 1 /\ h[s].pc = "idle" /\ h'[s].pc = pc /\ h'[s].path = path
          /\ \A q \in Slot \ {s} : h'[q] = h[q]
      BY <2>2 DEF Begins
    <3>2. ~Refused(audit, runs + 1)
      BY <1>0 DEF RunInv, AuditRun, Refused
    <3>3. FrameTrail(h'[s], audit')
      BY <2>2, <3>1, <3>2 DEF FrameTrail
    <3> QED
      BY <2>2, <3>1, <3>3, TrailOutside
  <2>3. ASSUME NEW r \in Request, NEW e, Arrive(s, r, e) PROVE TrailInv'
    BY <2>2, <2>3, ArriveEffect
  <2>4. ASSUME NEW r \in Request, NEW c, Present(s, r, c) PROVE TrailInv'
    BY <2>2, <2>4, PresentEffect
  <2> QED
    BY <1>1, <2>1, <2>3, <2>4 DEF NewCall
<1>2. CASE Operator
  <2>1. h' = h /\ execs' = execs /\ boots' = boots
    BY <1>2 DEF Operator, CreateTask, RevokeMark, RevokeCommit, Approve, DenyElevation,
                Resolve, MintOnly, envVars
  <2>2. audit \subseteq audit' /\ \A e \in audit' \ audit : e.run = 0
    BY <1>2, OperatorEntries
  <2>3. 0 \notin 1 .. runs
    OBVIOUS
  <2> QED
    BY <2>1, <2>2, <2>3, TrailOutside
<1>3. CASE Tick \/ UNCHANGED vars
  BY <1>3, TrailOutside DEF Tick, vars, envVars
<1>4. CASE Restart
  <2>1. h' = [s \in Slot |-> Idle] /\ execs' = execs /\ boots' = boots + 1 /\ boots \in Nat
    BY <1>4 DEF Restart, TypeOK
  <2>2. \A x \in execs : x.boot <= boots /\ x.boot \in Nat
    BY DEF RunInv, ExecsRun, TypeOK, ExecutionType
  <2>3. ExecutedNow' = {}
    BY <2>1, <2>2 DEF ExecutedNow
  <2> QED
    BY <2>1, <2>3, IdleTrail DEF TrailInv
<1> QED
  BY <1>1, <1>2, <1>3, <1>4, TrailServe DEF Next

\* The log accounts for every execution of the boot and never for one of a call
\* it records as denied, for any number of calls and whatever happens between
\* the steps of each (service.go, the Append calls of Call).
THEOREM LogAccountsForExecutions == Spec => []AuditTrail
<1>1. Init => TrailInv
  <2> SUFFICES ASSUME Init PROVE TrailInv
    OBVIOUS
  <2>1. execs = {} /\ \A s \in Slot : h[s] = Idle
    BY DEF Init
  <2> QED
    BY <2>1, IdleTrail DEF TrailInv, ExecutedNow
<1> QED
  BY <1>1, TypeCorrect, RunInit, RunStep, IssuedInit, IssuedStep, TrailStep, TrailImplies,
     PTL DEF Spec
=============================================================================
