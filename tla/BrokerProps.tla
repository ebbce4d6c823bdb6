----------------------------- MODULE BrokerProps -----------------------------
(***************************************************************************)
(* What the broker promises.                                               *)
(***************************************************************************)
EXTENDS Broker, Rego

TaskRef == TaskId \cup {""}
GrantRef == GrantId \cup {"ablated"}

CredentialType ==
  [nonce : Nat, grant : GrantRef, task : TaskRef, tool : STRING, op : STRING,
   resource : Addr, issued : Nat, exp : Nat, signed : BOOLEAN, boot : Nat]

CallRecordType == [run : Nat, task : TaskRef, grant : GrantRef, records : Nat, at : Nat]

EntryKind == {"grant", "task", "decision", "elevate", "mint", "exec", "revoke"}

Verdict == {"", "allow", "deny", "require_elevation", "pending", "approved",
            "denied", "consumed"}

EntryType ==
  [kind : EntryKind, run : Nat, verdict : Verdict \cup TaskId, grant : GrantRef \cup {""}, ref : Nat]

ElevationType ==
  [task : TaskRef, key : STRING \X STRING \X Addr,
   status : {"pending", "approved", "denied", "consumed", "lost"}]

ExecutionType ==
  [run : Nat, path : {"minted", "presented"}, req : Request, elev : Nat,
   known : SUBSET GrantId, cred : CredentialType, boot : Nat]

Pc == {"idle", "grants", "ledger", "history", "decide", "elevate", "fetch",
       "recheck", "mint", "presented", "verify", "exec", "log", "record"}

Frame ==
  [pc : Pc, path : {"", "minted", "presented"}, run : Nat,
   req : Request \cup {NoRequest}, elev : Nat, cred : CredentialType \cup {NoCred},
   view : Seq(Grant), next : Nat, hist : SUBSET CallRecordType,
   gid : GrantRef \cup {""},
   got : GrantOf(GrantRef, TaskRef) \cup {NoGrant}, known : SUBSET GrantId]

\* What a handler has in hand at each step.
FrameOK(f) ==
  /\ f.pc # "idle" => f.req \in Request /\ f.path # ""
  /\ f.pc \in {"presented", "verify", "exec", "log", "record"} => f.cred \in CredentialType
  /\ f.pc \in {"elevate", "fetch"} => f.gid \in GrantRef
  /\ f.pc \in {"recheck", "mint"} => f.got \in GrantOf(GrantRef, TaskRef)

\* Every variable and every handler's local state has the shape the code
\* gives it; what a handler needs at a step it has read before.
TypeOK ==
  /\ tasks \in [TaskId -> {"new", "live", "lost"}]
  /\ grants \in [GrantId -> Grant \cup {NoGrant}]
  /\ calls \subseteq CallRecordType
  /\ revoking \subseteq GrantId /\ ledger \subseteq GrantId
  /\ elev \in Seq(ElevationType)
  /\ used \subseteq Nat /\ minted \in Nat /\ released \subseteq CredentialType
  /\ now \in Nat /\ boots \in Nat /\ runs \in Nat
  /\ audit \subseteq EntryType /\ execs \subseteq ExecutionType
  /\ h \in [Slot -> Frame] /\ \A s \in Slot : FrameOK(h[s])

----------------------------------------------------------------------------
(* Safety *)

\* A credential is good for one execution: within a boot no two executions
\* carry the same nonce, however calls and presentations interleave
\* (verify.go, MemoryNonces.Consume).
SingleUse ==
  On("single_use") =>
    \A x, y \in execs : x.boot = y.boot /\ x.cred.nonce = y.cred.nonce => x = y

\* The same without regard to restarts: the signing key outlives the process
\* and so does every credential it signed (service.go, loadOrCreateKey).
SingleUseAcrossRestarts ==
  On("single_use") => \A x, y \in execs : x.cred.nonce = y.cred.nonce => x = y

\* A revocation bounds the damage to the calls past their last look at the
\* grant: no tool runs under a grant whose revocation was complete when the
\* call fetched the grant, or when its credential was presented.
RevocationStopsCalls ==
  On("revocation") => \A x \in execs : x.cred.grant \notin x.known

NeedsApproval(x) ==
  /\ x.path = "minted"
  /\ \/ HighRiskOp(x.req)
     \/ \E g \in TaskReq[x.req.task] : g.id = x.cred.grant /\ g.elevate

\* An approval is for exactly one call: every high-risk execution consumed a
\* request of its own, queued for its task and its tool, operation and
\* resource, that a human had approved (approval.go, Consume).
ApprovalBacksOneCall ==
  On("elevation") =>
    \A x \in {e \in execs : NeedsApproval(e)} :
      /\ x.elev \in DOMAIN elev
      /\ elev[x.elev].task = x.req.task /\ elev[x.elev].key = CallKey(x.req)
      /\ elev[x.elev].status \in {"consumed", "lost"}
      /\ x.boot = boots => Entry("elevate", 0, "approved", "", x.elev) \in audit
      /\ \A y \in {e \in execs : NeedsApproval(e)} : x.elev = y.elev => x = y

ExecutedUnder(t, id) ==
  {x \in execs : x.path = "minted" /\ x.req.task = t /\ x.cred.grant = id}

\* The grants of the task on which the engine and the count always agree.
NeverExpire(t) == \A g \in TaskReq[t] : g.expires = 0

\* max_calls is checked against a history read before the call is recorded,
\* so calls in flight may pass the cap; by no more than the other calls that
\* can be in progress.
CapOvershootBounded ==
  On("rate_count") =>
    \A t \in TaskId : \A g \in TaskReq[t] :
      g.maxCalls > 0 /\ NeverExpire(t) =>
        Cardinality(ExecutedUnder(t, g.id)) <= g.maxCalls + Cardinality(Slot) - 1

CallsCapped(t, g) ==
  g.maxCalls > 0 => Cardinality(ExecutedUnder(t, g.id)) <= g.maxCalls

CountedUnder(t, id) == {c \in calls : c.task = t /\ c.grant = id}

\* A call may read past the cap, none comes after the cap was reached.
RecordsCapped(t, g) ==
  g.maxRecords > 0 =>
    \A c \in CountedUnder(t, g.id) :
      ~(RecordsForGrant({d \in CountedUnder(t, g.id) : d.run < c.run}, g.id) >= g.maxRecords)

RateLimited(t, g) ==
  g.rateLimit > 0 /\ g.rateWindow > 0 =>
    \A c \in CountedUnder(t, g.id) :
      Cardinality({d \in CountedUnder(t, g.id) : d.at \in c.at - g.rateWindow .. c.at})
        <= g.rateLimit

\* The caveats of a grant hold across the session: its calls, the records
\* they read and their rate (service.go:199-224, engine.go:94-104).
SessionCaveatsHold ==
  On("rate_count") =>
    \A t \in TaskId : \A g \in TaskReq[t] :
      CallsCapped(t, g) /\ RecordsCapped(t, g) /\ RateLimited(t, g)

Authorizes(t, id, c) == \E g \in TaskReq[t] : g.id = id /\ CanAttenuateTo(g, c)

\* No execution exceeds what the operator issued: the credential is within a
\* grant of the task it names, a brokered call is within its own task's grant
\* of that id even if the id was issued again meanwhile, and the tool runs
\* the credential's operation on its resource (or on none, if left blank).
ExecWithinGrant ==
  {"least_privilege", "resource_scope", "signature"} \subseteq Controls =>
    \A x \in execs :
      /\ Authorizes(x.cred.task, x.cred.grant, x.cred)
      /\ x.path = "minted" => Authorizes(x.req.task, x.cred.grant, x.req)
      /\ x.req.tool = x.cred.tool /\ x.req.op = x.cred.op
      /\ x.req.resource \in {NoAddr, x.cred.resource}

Running(run) == \E s \in Slot : h[s].run = run

Noted(kind, x, verdict, grant) ==
  \E e \in audit : e.kind = kind /\ e.run = x.run /\ e.verdict = verdict /\ e.grant = grant

\* The audit log accounts for every execution of the boot: a brokered call
\* was allowed, or required an approval it consumed, and its credential was
\* minted, before the tool ran; its execution is logged before it returns;
\* and no call with a denial in the log ever ran a tool.
AuditTrail ==
  \A x \in {e \in execs : e.boot = boots} :
    /\ x.path = "minted" =>
         /\ \/ Noted("decision", x, "allow", x.cred.grant)
            \/ /\ Noted("decision", x, "require_elevation", x.cred.grant)
               /\ Noted("elevate", x, "consumed", x.cred.grant)
         /\ Entry("mint", x.run, "", x.cred.grant, x.cred.nonce) \in audit
    /\ Noted("exec", x, "", x.cred.grant) \/ Running(x.run)
    /\ ~\E e \in audit : e.run = x.run /\ e.verdict = "deny"

\* What leaves the broker in a response cannot run a tool uncounted: the
\* executions that no call record stands for are those of calls in progress,
\* those of credentials that outlived a restart and those the harness was
\* handed (service.go:300, and service.go:332 which records no call).
ExecutionsAreCounted ==
  On("single_use") /\ ~Harness =>
    \A x \in {e \in execs : e.boot = boots /\ e.cred.boot = boots} :
      Running(x.run) \/ \E c \in calls : c.run = x.run /\ c.grant = x.cred.grant

\* A credential is good at the instant it is issued.
UsableWhenIssued ==
  \A s \in Slot :
    At(s, "verify") /\ h[s].path = "minted" /\ now = h[s].cred.issued => Verifies(h[s])

Deciding == {h[s] : s \in {x \in Slot : At(x, "decide")}}

\* Rule by rule the engine is at least as strict as the Rego files, whatever of
\* the grants and the history the handler has read by then, except for the
\* calls on which the two read a different destination and for scratch files
\* (engine.go:38, decision.go:58, rego/README.md:4).
EngineCoversRego ==
  Controls = ControlName =>
    \A f \in Deciding :
      LET d == Decision(f.view, Counts(f), f.req, now)
          match == Match(f.view, f.req, now)
      IN  /\ OutOfScope(f.view, f.req) \/ CapsReached(match, Counts(f)) => d.action = "deny"
          /\ NotOnAllowlist(match, f.req) /\ OneDestination(f.req) => d.action = "deny"
          /\ UntrustedTarget(f.req) /\ ~Scratch(f.req) => d.action = "deny"
          /\ RequireElevation(f.req) /\ OneRecipient(f.req) => d.action # "allow"

----------------------------------------------------------------------------
(* Liveness *)

\* No handler is ever stuck: every call in progress returns.
CallsReturn == \A s \in Slot : ~At(s, "idle") ~> At(s, "idle")

\* A revocation that was begun completes, unless the process restarts first.
RevocationCompletes == \A g \in GrantId : (g \in revoking) ~> (g \notin revoking)
=============================================================================
