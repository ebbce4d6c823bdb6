------------------------------- MODULE Broker -------------------------------
(***************************************************************************)
(* The broker service (internal/broker/service.go) with the stores it      *)
(* works on: tasks, grants and call history (internal/store), revocation   *)
(* ledger, approval queue (internal/elevation), used nonces and            *)
(* credentials (internal/capability).                                      *)
(*                                                                         *)
(* The HTTP server runs every call in a goroutine of its own and nothing   *)
(* holds a lock across a call, so Call is modelled by its steps: one       *)
(* action per access to shared state, with the local computation that      *)
(* follows it and the audit entries it appends.  A Slot is a call being    *)
(* served; h[s] holds the local variables of the handler in slot s.        *)
(***************************************************************************)
EXTENDS Policy

CONSTANTS
  Slot,          \* calls that can be in progress at the same time
  TaskId,        \* tasks that may be created
  GrantId,       \* grant ids
  Request,       \* calls an agent may make
  TaskReq,       \* TaskReq[t]: the grants task t is created with
  TTL,           \* lifetime of a credential, in clock units
  Second,        \* clock units in a second
  Revocable,     \* bound: the grants the operator may revoke
  Harness,       \* TRUE when the red-team harness may call MintOnly
  MaxTime, MaxRuns, MaxRestarts   \* bounds of the model

Grant == GrantOf(GrantId, TaskId)

RequestType ==
  [task : TaskId \cup {""}, tool : STRING, op : STRING, resource : Addr,
   to : Addr, url : Addr, source : STRING, chain : Seq(STRING),
   sensitive : BOOLEAN, bodyLooks : BOOLEAN, valueLooks : BOOLEAN,
   phrase : BOOLEAN, records : Nat]

ASSUME BrokerAssumption ==
  /\ "" \notin TaskId
  /\ GrantId \cap {"", "ablated"} = {} /\ IsFiniteSet(GrantId)
  /\ Request \subseteq RequestType
  /\ TaskReq \in [TaskId -> SUBSET Grant]
  /\ \A t \in TaskId : \A g, k \in TaskReq[t] : g.id = k.id => g = k
  /\ TTL \in Nat \ {0} /\ Second \in Nat \ {0}
  /\ Revocable \subseteq GrantId /\ Harness \in BOOLEAN
  /\ MaxTime \in Nat /\ MaxRuns \in Nat /\ MaxRestarts \in Nat

NoGrant == [id |-> ""]
NoRequest == [task |-> ""]
NoCred == [nonce |-> 0]

Idle == [pc |-> "idle", path |-> "", run |-> 0, req |-> NoRequest, elev |-> 0,
         cred |-> NoCred, view |-> <<>>, next |-> 1, hist |-> {}, gid |-> "",
         got |-> NoGrant, known |-> {}]

VARIABLES
  tasks,      \* new, live, or lost in a restart
  grants,     \* the store's grants by id
  calls,      \* the store's call records
  revoking,   \* grants marked in the store and not yet in the ledger
  ledger,     \* the revocation ledger
  elev,       \* approval requests, in the order they were queued
  used,       \* nonces of verified credentials
  minted,     \* credentials minted so far
  released,   \* credentials in the hands of clients
  now,        \* the broker's clock
  audit,      \* entries of the audit log (their order is AuditLog's subject)
  execs,      \* history: the tool executions
  boots,      \* restarts so far
  runs,       \* calls so far
  h           \* local state of the handlers

storeVars == <<tasks, grants, calls>>
authVars == <<revoking, ledger, elev>>
credVars == <<used, minted, released>>
envVars == <<now, boots, runs>>
vars == <<storeVars, authVars, credVars, envVars, audit, execs, h>>

Entry(kind, run, verdict, grant, ref) ==
  [kind |-> kind, run |-> run, verdict |-> verdict, grant |-> grant, ref |-> ref]

Log(kind, run, verdict, grant, ref) ==
  audit' = audit \cup {Entry(kind, run, verdict, grant, ref)}

Become(s, frame) == h' = [h EXCEPT ![s] = frame]
Return(s) == Become(s, Idle)

At(s, pc) == h[s].pc = pc

----------------------------------------------------------------------------
Init ==
  /\ tasks = [t \in TaskId |-> "new"]
  /\ grants = [g \in GrantId |-> NoGrant]
  /\ calls = {} /\ revoking = {} /\ ledger = {} /\ elev = <<>>
  /\ used = {} /\ minted = 0 /\ released = {}
  /\ now \in 0 .. Second - 1
  /\ audit = {} /\ execs = {} /\ boots = 0 /\ runs = 0
  /\ h = [s \in Slot |-> Idle]

----------------------------------------------------------------------------
(* Call without a credential *)

LiveTasks == {t \in TaskId : tasks[t] = "live"}

\* A call of a task the store does not know is denied at once.
RefuseUnknownTask(s, r) ==
  /\ At(s, "idle") /\ runs < MaxRuns
  /\ r.task \notin LiveTasks
  /\ runs' = runs + 1
  /\ Log("decision", runs', "deny", "", 0)
  /\ UNCHANGED <<storeVars, authVars, credVars, now, boots, execs, h>>

Arrive(s, r, e) ==
  /\ At(s, "idle") /\ runs < MaxRuns
  /\ r.task \in LiveTasks
  /\ runs' = runs + 1
  /\ Become(s, [Idle EXCEPT !.pc = "grants", !.path = "minted", !.run = runs',
                            !.req = r, !.elev = e])
  /\ UNCHANGED <<storeVars, authVars, credVars, now, boots, audit, execs>>

TaskGrants(t) == {g \in GrantId : grants[g] # NoGrant /\ grants[g].task = t}

\* GrantsFor returns the grants in the random order of a map.
GrantOrders(t) ==
  LET ids == TaskGrants(t)
  IN  {[i \in 1 .. Cardinality(ids) |-> grants[o[i]]] :
         o \in {p \in [1 .. Cardinality(ids) -> ids] :
                  \A i, j \in 1 .. Cardinality(ids) : p[i] = p[j] => i = j}}

ReadGrants(s) ==
  /\ At(s, "grants")
  /\ \E view \in GrantOrders(h[s].req.task) :
       Become(s, [h[s] EXCEPT !.pc = "ledger", !.view = view])
  /\ UNCHANGED <<storeVars, authVars, credVars, envVars, audit, execs>>

\* One pass of the loop over the grants; with revocation off it only clears
\* the flag the store had set.
CheckLedger(s) ==
  LET f == h[s]
      seen == IF On("revocation") THEN f.view[f.next].revoked \/ f.view[f.next].id \in ledger
              ELSE FALSE
  IN  /\ At(s, "ledger")
      /\ IF f.next \in DOMAIN f.view
         THEN Become(s, [f EXCEPT !.view[f.next].revoked = seen, !.next = @ + 1])
         ELSE Become(s, [f EXCEPT !.pc = "history", !.next = 1])
      /\ UNCHANGED <<storeVars, authVars, credVars, envVars, audit, execs>>

ReadHistory(s) ==
  /\ At(s, "history")
  /\ Become(s, [h[s] EXCEPT !.pc = "decide",
                            !.hist = {c \in calls : c.task = h[s].req.task}])
  /\ UNCHANGED <<storeVars, authVars, credVars, envVars, audit, execs>>

Counts(f) ==
  LET id == MatchId(f.view, f.req)
  IN  [calls |-> CountForGrant(f.hist, id),
       records |-> RecordsForGrant(f.hist, id),
       window |-> IF id = "" THEN 0
                  ELSE WindowCount(f.hist, id, grants[id].rateWindow, now)]

\* The policy's and the guard's decision, logged before it is acted on.
Decide(s) ==
  LET f == h[s]
  IN  /\ At(s, "decide")
      /\ \E d \in {Decision(f.view, Counts(f), f.req, now)} :
           /\ Log("decision", f.run, d.action, d.grant, 0)
           /\ IF d.action = "deny" THEN Return(s)
              ELSE Become(s, [f EXCEPT !.pc = IF d.action = "allow" THEN "fetch" ELSE "elevate",
                                       !.gid = d.grant, !.view = <<>>, !.hist = {}])
      /\ UNCHANGED <<storeVars, authVars, credVars, envVars, execs>>

CallKey(r) == <<r.tool, r.op, r.resource>>

Enqueue(s) ==
  LET f == h[s]
  IN  /\ At(s, "elevate") /\ f.elev = 0
      /\ elev' = Append(elev, [task |-> f.req.task, key |-> CallKey(f.req),
                               status |-> "pending"])
      /\ Log("elevate", f.run, "pending", f.gid, Len(elev'))
      /\ Return(s)
      /\ UNCHANGED <<storeVars, revoking, ledger, credVars, envVars, execs>>

Consumable_Again(i, r) ==          \* variant: a consumed request still serves
  /\ elev[i].task = r.task
  /\ elev[i].status \in {"approved", "consumed"}
  /\ elev[i].key = CallKey(r)

Consumable_AnyCall(i, r) ==        \* variant: the call key is not compared
  elev[i].task = r.task /\ elev[i].status = "approved"

Consumable(i, r) ==
  /\ elev[i].task = r.task
  /\ elev[i].status = "approved"
  /\ elev[i].key = CallKey(r)

ConsumeElevation(s) ==
  LET f == h[s]
  IN  /\ At(s, "elevate") /\ f.elev # 0 /\ Consumable(f.elev, f.req)
      /\ elev' = [elev EXCEPT ![f.elev].status = "consumed"]
      /\ Log("elevate", f.run, "consumed", f.gid, 0)
      /\ Become(s, [f EXCEPT !.pc = "fetch"])
      /\ UNCHANGED <<storeVars, revoking, ledger, credVars, envVars, execs>>

RefuseElevation_GoesOn(s) ==       \* variant: the return is missing
  LET f == h[s]
  IN  /\ At(s, "elevate") /\ f.elev # 0 /\ ~Consumable(f.elev, f.req)
      /\ Log("decision", f.run, "deny", "", 0)
      /\ Become(s, [f EXCEPT !.pc = "fetch"])
      /\ UNCHANGED <<storeVars, authVars, credVars, envVars, execs>>

RefuseElevation_WhenDenied(s) ==   \* variant: waits while the request is open
  LET f == h[s]
  IN  /\ At(s, "elevate") /\ f.elev # 0 /\ elev[f.elev].status = "denied"
      /\ Log("decision", f.run, "deny", "", 0)
      /\ Return(s)
      /\ UNCHANGED <<storeVars, authVars, credVars, envVars, execs>>

RefuseElevation(s) ==
  LET f == h[s]
  IN  /\ At(s, "elevate") /\ f.elev # 0 /\ ~Consumable(f.elev, f.req)
      /\ Log("decision", f.run, "deny", "", 0)
      /\ Return(s)
      /\ UNCHANGED <<storeVars, authVars, credVars, envVars, execs>>

\* The checks that a control switched off must not make a second time.
GrantForMint(g, r) ==
  [g EXCEPT !.revoked = @ /\ On("revocation"),
            !.pattern = IF ~On("resource_scope") \/ (~On("least_privilege") /\ @ = {NoAddr})
                        THEN {r.resource} ELSE @,
            !.tool = IF On("least_privilege") THEN @ ELSE r.tool,
            !.op = IF On("least_privilege") THEN @ ELSE r.op]

\* The grant is read again; `known' notes the revocations complete by then.
\* A grant that is gone ends the call without an audit entry.
FetchGrant(s) ==
  LET f == h[s]
      g == IF f.gid = "ablated" THEN Ablated(f.req) ELSE grants[f.gid]
  IN  /\ At(s, "fetch")
      /\ IF g = NoGrant THEN Return(s)
         ELSE Become(s, [f EXCEPT !.pc = "recheck", !.got = GrantForMint(g, f.req),
                                  !.known = ledger])
      /\ UNCHANGED <<storeVars, authVars, credVars, envVars, audit, execs>>

RevokedNow_StoreOnly(g) ==         \* variant: the ledger is not consulted
  On("revocation") /\ g.revoked

RevokedNow(g) == On("revocation") /\ (g.revoked \/ g.id \in ledger)

Recheck(s) ==
  LET f == h[s]
  IN  /\ At(s, "recheck")
      /\ IF RevokedNow(f.got)
         THEN Log("decision", f.run, "deny", f.got.id, 0) /\ Return(s)
         ELSE Become(s, [f EXCEPT !.pc = "mint"]) /\ UNCHANGED audit
      /\ UNCHANGED <<storeVars, authVars, credVars, envVars, execs>>

Lifetime_GrantOnly(g) == g.ttl     \* variant: no default lifetime

\* Minter.Mint: the lifetime is the shorter of the broker's and the grant's.
Lifetime(g) == IF g.ttl > 0 /\ g.ttl < TTL THEN g.ttl ELSE TTL

Credential(g, r) ==
  [nonce |-> minted + 1, grant |-> g.id, task |-> g.task, tool |-> r.tool,
   op |-> r.op, resource |-> r.resource, issued |-> now, exp |-> now + Lifetime(g),
   signed |-> TRUE, boot |-> boots]

Mintable(g, r) == ~g.revoked /\ CanAttenuateTo(g, r)

MintCredential(s) ==
  LET f == h[s]
  IN  /\ At(s, "mint") /\ Mintable(f.got, f.req)
      /\ minted' = minted + 1
      /\ Log("mint", f.run, "", f.got.id, minted')
      /\ Become(s, [f EXCEPT !.pc = "verify", !.cred = Credential(f.got, f.req),
                             !.got = NoGrant, !.gid = ""])
      /\ UNCHANGED <<storeVars, authVars, used, released, envVars, execs>>

RefuseMint(s) ==
  LET f == h[s]
  IN  /\ At(s, "mint") /\ ~Mintable(f.got, f.req)
      /\ Log("decision", f.run, "deny", "", 0)
      /\ Return(s)
      /\ UNCHANGED <<storeVars, authVars, credVars, envVars, execs>>

----------------------------------------------------------------------------
(* Call with a credential *)

\* The expires caveat is written in whole seconds.
CaveatExpiry(c) == (c.exp \div Second) * Second

\* A client may present what it holds, or what it holds with the resource
\* rewritten to fit the call, which leaves the old signature on it.
Presented(c, r) ==
  {c} \cup (IF r.resource = c.resource THEN {}
            ELSE {[c EXCEPT !.resource = r.resource, !.signed = FALSE]})

Present(s, r, c) ==
  /\ At(s, "idle") /\ runs < MaxRuns
  /\ runs' = runs + 1
  /\ \E wire \in Presented(c, r) :
       Become(s, [Idle EXCEPT !.pc = "presented", !.path = "presented", !.run = runs',
                              !.req = r, !.cred = wire, !.known = ledger])
  /\ UNCHANGED <<storeVars, authVars, credVars, now, boots, audit, execs>>

\* Something that does not decode as a credential.
PresentMalformed(s) ==
  /\ At(s, "idle") /\ runs < MaxRuns
  /\ runs' = runs + 1
  /\ Log("decision", runs', "deny", "", 0)
  /\ UNCHANGED <<storeVars, authVars, credVars, now, boots, execs, h>>

RevokedCred_Never(c) == FALSE      \* variant: presented credentials go unchecked

RevokedCred(c) == On("revocation") /\ c.grant \in ledger

CheckPresented(s) ==
  LET f == h[s]
  IN  /\ At(s, "presented")
      /\ IF RevokedCred(f.cred)
         THEN Log("decision", f.run, "deny", f.cred.grant, 0) /\ Return(s)
         ELSE Become(s, [f EXCEPT !.pc = "verify"]) /\ UNCHANGED audit
      /\ UNCHANGED <<storeVars, authVars, credVars, envVars, execs>>

----------------------------------------------------------------------------
(* Verification and execution *)

\* A field the call leaves blank is not compared.
Satisfies(c, r, task) ==
  /\ r.tool \in {"", c.tool}
  /\ r.op \in {"", c.op}
  /\ r.resource \in {NoAddr, c.resource}
  /\ task \in {"", c.task}

\* The broker verifies its own credential for the task named in it.
CallTask(f) == IF f.path = "minted" THEN f.cred.task ELSE f.req.task

Unexpired(c) == now <= c.exp /\ now <= CaveatExpiry(c)

Verifies_Unsigned(f) ==            \* variant: the signature is not checked
  /\ Unexpired(f.cred)
  /\ Satisfies(f.cred, f.req, CallTask(f))
  /\ On("single_use") => f.cred.nonce \notin used

Verifies(f) ==
  /\ On("signature") => f.cred.signed
  /\ Unexpired(f.cred)
  /\ Satisfies(f.cred, f.req, CallTask(f))
  /\ On("single_use") => f.cred.nonce \notin used

ConsumeNonce_Forgets(c) == used' = used   \* variant: the nonce is only looked up

ConsumeNonce(c) == used' = IF On("single_use") THEN used \cup {c.nonce} ELSE used

AcceptCredential(s) ==
  /\ At(s, "verify") /\ Verifies(h[s])
  /\ ConsumeNonce(h[s].cred)
  /\ Become(s, [h[s] EXCEPT !.pc = "exec"])
  /\ UNCHANGED <<storeVars, authVars, minted, released, envVars, audit, execs>>

\* The response carries the credential that was refused.
RefuseCredential(s) ==
  LET f == h[s]
  IN  /\ At(s, "verify") /\ ~Verifies(f)
      /\ Log("decision", f.run, "deny", "", 0)
      /\ released' = IF f.path = "minted" THEN released \cup {f.cred} ELSE released
      /\ Return(s)
      /\ UNCHANGED <<storeVars, authVars, used, minted, envVars, execs>>

\* The registry runs the tool when the credential names its operation.
ToolRuns(f) == f.cred.tool = f.req.tool /\ f.cred.op = f.req.op

Execution(f) ==
  [run |-> f.run, path |-> f.path, req |-> f.req, elev |-> f.elev,
   known |-> f.known, cred |-> f.cred, boot |-> boots]

Execute(s) ==
  LET f == h[s]
  IN  /\ At(s, "exec")
      /\ execs' = IF ToolRuns(f) THEN execs \cup {Execution(f)} ELSE execs
      /\ Become(s, [f EXCEPT !.pc = "log"])
      /\ UNCHANGED <<storeVars, authVars, credVars, envVars, audit>>

LogExecution_Silent(s) ==          \* variant: brokered executions go unlogged
  LET f == h[s]
  IN  /\ At(s, "log")
      /\ IF f.path = "minted" THEN Become(s, [f EXCEPT !.pc = "record"]) ELSE Return(s)
      /\ UNCHANGED <<storeVars, authVars, credVars, envVars, audit, execs>>

\* A presented credential leaves no call record, and its call ends here.
LogExecution(s) ==
  LET f == h[s]
  IN  /\ At(s, "log")
      /\ Log("exec", f.run, "", f.cred.grant, 0)
      /\ IF f.path = "minted" THEN Become(s, [f EXCEPT !.pc = "record"]) ELSE Return(s)
      /\ UNCHANGED <<storeVars, authVars, credVars, envVars, execs>>

CallRecord(f) ==
  [run |-> f.run, task |-> f.req.task, grant |-> f.cred.grant,
   records |-> IF ToolRuns(f) THEN f.req.records ELSE 0, at |-> now]

\* The call is counted, and the response carries its credential.
RecordCall(s) ==
  /\ At(s, "record")
  /\ calls' = calls \cup {CallRecord(h[s])}
  /\ released' = released \cup {h[s].cred}
  /\ Return(s)
  /\ UNCHANGED <<tasks, grants, authVars, used, minted, envVars, audit, execs>>

----------------------------------------------------------------------------
(* The operator's requests *)

\* The id of a task leaves the handler only with its response, so that no
\* call names the task before all its grants are stored.
CreateTask(t) ==
  LET issued == {[g EXCEPT !.task = t] : g \in TaskReq[t]}
  IN  /\ tasks[t] = "new"
      /\ tasks' = [tasks EXCEPT ![t] = "live"]
      /\ grants' = [i \in GrantId |-> IF \E g \in issued : g.id = i
                                      THEN CHOOSE g \in issued : g.id = i ELSE grants[i]]
      /\ audit' = audit \cup {Entry("grant", 0, t, g.id, 0) : g \in issued}
                        \cup {Entry("task", 0, t, "", 0)}
      /\ UNCHANGED <<calls, authVars, credVars, envVars, execs, h>>

\* RevokeGrant marks the stored grant first and enters the ledger second.
RevokeMark(g) ==
  /\ g \in Revocable /\ grants[g] # NoGrant
  /\ grants' = [grants EXCEPT ![g].revoked = TRUE]
  /\ revoking' = revoking \cup {g}
  /\ UNCHANGED <<tasks, calls, ledger, elev, credVars, envVars, audit, execs, h>>

RevokeCommit_Unmarked(g) ==        \* variant: gives up on a grant already marked
  /\ g \in revoking /\ ~grants[g].revoked
  /\ ledger' = ledger \cup {g}
  /\ revoking' = revoking \ {g}
  /\ Log("revoke", 0, "", g, 0)
  /\ UNCHANGED <<storeVars, elev, credVars, envVars, execs, h>>

RevokeCommit(g) ==
  /\ g \in revoking
  /\ ledger' = ledger \cup {g}
  /\ revoking' = revoking \ {g}
  /\ Log("revoke", 0, "", g, 0)
  /\ UNCHANGED <<storeVars, elev, credVars, envVars, execs, h>>

Resolve(i, status, ref) ==
  /\ elev[i].status = "pending"
  /\ elev' = [elev EXCEPT ![i].status = status]
  /\ Log("elevate", 0, status, "", ref)
  /\ UNCHANGED <<storeVars, revoking, ledger, credVars, envVars, execs, h>>

\* Only the entry of an approval names its request.
Approve(i) == Resolve(i, "approved", i)
DenyElevation(i) == Resolve(i, "denied", 0)

\* MintOnly hands out a credential and leaves no audit entry.
MintOnly(r) ==
  /\ Harness /\ minted < MaxRuns
  /\ \E g \in {grants[i] : i \in TaskGrants(r.task) \ ledger} :
       /\ Mintable(g, r)
       /\ released' = released \cup {Credential(g, r)}
  /\ minted' = minted + 1
  /\ UNCHANGED <<storeVars, authVars, used, envVars, audit, execs, h>>

----------------------------------------------------------------------------
(* The environment *)

Tick ==
  /\ now < MaxTime
  /\ now' = now + 1
  /\ UNCHANGED <<storeVars, authVars, credVars, boots, runs, audit, execs, h>>

\* If the key file could not be written or is not readable, a key is made, and
\* to it every credential of the boots before is unsigned.
LoadOrCreateKey == {released, {[c EXCEPT !.signed = FALSE] : c \in released}}

\* The process restarts: the signing key is on disk, everything else was in
\* memory.  Ids are random, so ids of an earlier boot name nothing any more.
Restart ==
  /\ boots < MaxRestarts
  /\ boots' = boots + 1
  /\ tasks' = [t \in TaskId |-> IF tasks[t] = "live" THEN "lost" ELSE tasks[t]]
  /\ grants' = [g \in GrantId |-> NoGrant]
  /\ calls' = {} /\ revoking' = {} /\ ledger' = {} /\ used' = {} /\ audit' = {}
  /\ elev' = [i \in DOMAIN elev |-> [elev[i] EXCEPT !.status = "lost"]]
  /\ h' = [s \in Slot |-> Idle]
  /\ released' \in LoadOrCreateKey
  /\ UNCHANGED <<minted, now, runs, execs>>

----------------------------------------------------------------------------
NewCall(s) ==
  \E r \in Request :
    \/ RefuseUnknownTask(s, r)
    \/ \E e \in {0} \cup DOMAIN elev : Arrive(s, r, e)
    \/ \E c \in released : Present(s, r, c)

\* What a handler does once its call has begun.
Serve(s) ==
  \/ ReadGrants(s) \/ CheckLedger(s) \/ ReadHistory(s) \/ Decide(s)
  \/ Enqueue(s) \/ ConsumeElevation(s) \/ RefuseElevation(s)
  \/ FetchGrant(s) \/ Recheck(s) \/ MintCredential(s) \/ RefuseMint(s)
  \/ CheckPresented(s) \/ AcceptCredential(s) \/ RefuseCredential(s)
  \/ Execute(s) \/ LogExecution(s) \/ RecordCall(s)

Operator ==
  \/ \E t \in TaskId : CreateTask(t)
  \/ \E g \in GrantId : RevokeMark(g) \/ RevokeCommit(g)
  \/ \E i \in DOMAIN elev : Approve(i) \/ DenyElevation(i)
  \/ \E r \in Request : MintOnly(r)

Next ==
  \/ \E s \in Slot : NewCall(s) \/ PresentMalformed(s) \/ Serve(s)
  \/ Operator \/ Tick \/ Restart

\* The runtime keeps running every goroutine that is not finished.
Fairness ==
  /\ \A s \in Slot : WF_vars(Serve(s))
  /\ \A g \in GrantId : WF_vars(RevokeCommit(g))

Spec == Init /\ [][Next]_vars /\ Fairness
=============================================================================
