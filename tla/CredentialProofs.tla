-------------------------- MODULE CredentialProofs --------------------------
(***************************************************************************)
(* Proofs about what becomes of a credential: it is good when it is        *)
(* issued, it runs no tool uncounted once it has left the broker, no tool  *)
(* runs beyond the grant it was minted under, no cap on calls is passed by *)
(* more than the other calls in progress, and the caveats of a session     *)
(* hold when calls come one at a time.                                     *)
(***************************************************************************)
EXTENDS BrokerProofs

----------------------------------------------------------------------------
(* What becomes of credentials *)

CredPc == {"presented", "verify", "exec", "log", "record"}

\* A handler that has no credential yet.
EarlyPc == {"grants", "ledger", "history", "decide", "elevate", "fetch", "recheck", "mint"}

\* Past the verification, which uses the nonce up.
UsedPc == {"exec", "log", "record"}

\* A credential that was minted and not used yet.
JustMinted(f) == f.pc = "verify" /\ f.path = "minted"

CredKnown(c) == c.nonce <= minted /\ c.boot <= boots

\* The credential of a call names what the call asks for.
FitsCall(c, r) == c.signed /\ c.tool = r.tool /\ c.op = r.op /\ c.resource = r.resource

NoncesKnown ==
  /\ \A n \in used : n <= minted
  /\ \A c \in released : CredKnown(c)
  /\ \A s \in Slot : h[s].pc \in CredPc => CredKnown(h[s].cred)

\* Nobody else has the nonce of a credential just minted.
FreshNonce(s) ==
  /\ h[s].cred.nonce \notin used /\ h[s].cred.boot = boots
  /\ \A c \in released : c.nonce # h[s].cred.nonce
  /\ \A q \in Slot \ {s} : h[q].pc \in CredPc => h[q].cred.nonce # h[s].cred.nonce

\* The part of Call that a handler is in tells what it began with.
PathKnown(f) ==
  /\ f.pc \in EarlyPc => f.path = "minted"
  /\ f.pc = "presented" => f.path = "presented"

FreshInv ==
  /\ NoncesKnown
  /\ \A s \in Slot : JustMinted(h[s]) => FreshNonce(s) /\ FitsCall(h[s].cred, h[s].req)
  /\ \A s \in Slot : PathKnown(h[s])

\* The credential in hand stays the same.
KeepsCred(s) ==
  /\ h[s].pc \in CredPc /\ h'[s].cred = h[s].cred /\ h'[s].path = h[s].path
  /\ h'[s].req = h[s].req
  /\ h'[s].pc = "verify" => h[s].pc = "presented"
  /\ h'[s].pc \in CredPc \ {"presented"}
  /\ h'[s].pc \in UsedPc => h[s].pc \in UsedPc

\* The steps of a handler that neither mint nor use up nor hand out.
KeepsCreds(s) ==
  /\ CredKept
  /\ \/ h'[s].pc = "idle" \/ KeepsCred(s)
     \/ h[s].pc \in EarlyPc /\ h'[s].pc \in EarlyPc /\ h'[s].path = h[s].path

ServesCreds(s) ==
  /\ boots' = boots /\ now' = now
  /\ \A q \in Slot \ {s} : h'[q] = h[q]
  /\ \/ KeepsCreds(s) \/ MintCredential(s) \/ AcceptCredential(s)
     \/ RefuseCredential(s) \/ RecordCall(s)

\* A handler keeps the credential it has until it returns.
LEMMA ServeCreds ==
  ASSUME TypeOK, NEW s \in Slot, Serve(s)
  PROVE  ServesCreds(s)
<1>1. ASSUME NEW from, NEW to, Moves(s, from, to), EnvKept, CredKept,
             from \in EarlyPc, to \in EarlyPc
      PROVE  ServesCreds(s)
  BY <1>1 DEF Moves, EnvKept, ServesCreds, KeepsCreds
<1>2. ASSUME NEW from, Ends(s, from), EnvKept, CredKept PROVE ServesCreds(s)
  BY <1>2, IdleRun DEF Ends, EnvKept, ServesCreds, KeepsCreds
<1>3. CASE ReadGrants(s) \/ CheckLedger(s) \/ ReadHistory(s)
  BY <1>1, <1>3, ReadGrantsEffect, CheckLedgerEffect, ReadHistoryEffect DEF EarlyPc
<1>4. CASE Decide(s)
  BY <1>1, <1>2, <1>4, DecideEffect DEF EarlyPc
<1>5. CASE Enqueue(s) \/ RefuseElevation(s) \/ RefuseMint(s)
  BY <1>2, <1>5, EnqueueEffect, RefuseEffect
<1>6. CASE ConsumeElevation(s)
  BY <1>1, <1>6, ConsumeEffect DEF EarlyPc
<1>7. CASE FetchGrant(s)
  BY <1>1, <1>2, <1>7, FetchEffect DEF EarlyPc
<1>8. CASE Recheck(s)
  BY <1>1, <1>2, <1>8, RecheckEffect DEF EarlyPc
<1>9. ASSUME NEW from, NEW to, Moves(s, from, to), EnvKept, CredKept, CredsKept(s),
             from \in CredPc, to \in CredPc \ {"presented"}, to = "verify" => from = "presented",
             to \in UsedPc => from \in UsedPc
      PROVE  ServesCreds(s)
  BY <1>9 DEF Moves, CredsKept, EnvKept, ServesCreds, KeepsCreds, KeepsCred
<1>10. CASE CheckPresented(s)
  BY <1>2, <1>9, <1>10, CheckPresentedEffect DEF CredPc, UsedPc
<1>11. CASE Execute(s)
  BY <1>9, <1>11, ExecuteEffect DEF CredPc, UsedPc
<1>12. CASE LogExecution(s)
  BY <1>2, <1>9, <1>12, LogExecutionEffect DEF CredPc, UsedPc
<1>13. CASE MintCredential(s)
  BY <1>13, MintEffect DEF ServesCreds, Moves, EnvKept
<1>14. CASE AcceptCredential(s)
  BY <1>14, AcceptEffect DEF ServesCreds, Moves, EnvKept
<1>15. CASE RefuseCredential(s)
  BY <1>15, RefuseCredentialEffect DEF ServesCreds, Ends, EnvKept
<1>16. CASE RecordCall(s)
  BY <1>16, RecordEffect DEF ServesCreds, Ends, EnvKept
<1> QED
  BY <1>3, <1>4, <1>5, <1>6, <1>7, <1>8, <1>10, <1>11, <1>12, <1>13, <1>14, <1>15,
     <1>16 DEF Serve

\* A handler is on the path of a minted or a presented credential.
LEMMA PathServe ==
  ASSUME TypeOK, FreshInv, NEW s \in Slot, Serve(s)
  PROVE  PathKnown(h'[s])
<1>0. ServesCreds(s) /\ PathKnown(h[s])
  BY ServeCreds DEF FreshInv
<1>1. CASE KeepsCreds(s)
  BY <1>0, <1>1 DEF KeepsCreds, KeepsCred, PathKnown, EarlyPc, CredPc
<1>2. CASE MintCredential(s) \/ AcceptCredential(s)
  BY <1>2, MintEffect, AcceptEffect DEF Moves, PathKnown, EarlyPc
<1>3. CASE RefuseCredential(s) \/ RecordCall(s)
  BY <1>3, RefuseCredentialEffect, RecordEffect, IdleRun DEF Ends, PathKnown, EarlyPc
<1> QED
  BY <1>0, <1>1, <1>2, <1>3 DEF ServesCreds

\* A handler that stops having a fresh credential, and takes none of another.
LEMMA FreshKept ==
  ASSUME TypeOK, FreshInv, NEW s \in Slot, boots' = boots,
         \A q \in Slot \ {s} : h'[q] = h[q],
         PathKnown(h'[s]), h'[s].pc \notin CredPc \/ KeepsCred(s),
         used' = used, minted' = minted,
         \A c \in released' : c \in released \/ (h[s].pc \in CredPc /\ c = h[s].cred)
  PROVE  FreshInv'
<1>1. NoncesKnown'
  BY DEF FreshInv, NoncesKnown, CredKnown, KeepsCred
<1>2. ~JustMinted(h'[s])
  BY DEF FreshInv, PathKnown, JustMinted, KeepsCred, CredPc
<1>3. ASSUME NEW q \in Slot \ {s}, JustMinted(h[q])
      PROVE  FreshNonce(q)' /\ FitsCall(h[q].cred, h[q].req)
  <2>1. FreshNonce(q) /\ FitsCall(h[q].cred, h[q].req)
    BY <1>3 DEF FreshInv
  <2>2. h[s].pc \in CredPc => h[s].cred.nonce # h[q].cred.nonce
    BY <2>1 DEF FreshNonce
  <2> QED
    BY <2>1, <2>2 DEF FreshNonce, KeepsCred
<1> QED
  BY <1>1, <1>2, <1>3 DEF FreshInv

\* The parts of a credential that is in hand.
LEMMA CredParts ==
  ASSUME TypeOK, NEW s \in Slot, h[s].pc \in CredPc
  PROVE  h[s].cred \in CredentialType /\ h[s].cred.nonce \in Nat /\ h[s].cred.boot \in Nat
<1>1. h[s].cred \in CredentialType
  BY FrameParts DEF FrameOK, CredPc
<1> QED
  BY <1>1 DEF CredentialType

\* A minted credential names the call in hand and has a nonce of its own.
LEMMA FreshServe ==
  ASSUME TypeOK, FreshInv, NEW s \in Slot, Serve(s)
  PROVE  FreshInv'
<1> DEFINE f == h[s]
<1>0. ServesCreds(s) /\ minted \in Nat /\ boots \in Nat /\ PathKnown(h'[s])
  BY ServeCreds, PathServe DEF TypeOK
<1>1. CASE KeepsCreds(s)
  BY <1>0, <1>1, FreshKept DEF ServesCreds, KeepsCreds, CredKept, CredPc, EarlyPc
<1>2. CASE MintCredential(s)
  <2> DEFINE c == Credential(f.got, f.req)
  <2>1. /\ used' = used /\ released' = released /\ boots' = boots /\ minted' = minted + 1
        /\ Moves(s, "mint", "verify") /\ h'[s].cred = c /\ Mintable(f.got, f.req)
    BY <1>2, MintEffect DEF EnvKept
  <2>2. /\ c.nonce = minted + 1 /\ c.boot = boots /\ c.signed = TRUE
        /\ c.tool = f.req.tool /\ c.op = f.req.op /\ c.resource = f.req.resource
    BY DEF Credential
  <2> HIDE DEF c
  <2>3. /\ \A n \in used : n \in Nat
        /\ \A k \in released : k.nonce \in Nat /\ k.boot \in Nat
    BY DEF TypeOK, CredentialType
  <2>4. \A q \in Slot : h[q].pc \in CredPc => h[q].cred.nonce \in Nat /\ h[q].cred.boot \in Nat
    BY CredParts
  <2>5. \A n \in Nat : n <= minted => n <= minted' /\ n # minted + 1
    BY <1>0, <2>1
  <2>6. c.nonce <= minted' /\ c.boot <= boots
    BY <1>0, <2>1, <2>2
  <2>7. h'[s].pc = "verify" /\ h'[s].req = f.req /\ h'[s].path = f.path
        /\ \A q \in Slot \ {s} : h'[q] = h[q]
    BY <2>1 DEF Moves
  <2>8. NoncesKnown'
    BY <2>1, <2>3, <2>4, <2>5, <2>6, <2>7 DEF FreshInv, NoncesKnown, CredKnown
  <2>9. FreshNonce(s)' /\ FitsCall(h'[s].cred, h'[s].req)
    BY <2>1, <2>2, <2>3, <2>4, <2>5, <2>7 DEF FreshInv, NoncesKnown, CredKnown, FreshNonce, FitsCall
  <2>10. ASSUME NEW q \in Slot \ {s}, JustMinted(h[q])
         PROVE  FreshNonce(q)' /\ FitsCall(h'[q].cred, h'[q].req)
    <3>1. FreshNonce(q) /\ FitsCall(h[q].cred, h[q].req) /\ h[q].pc \in CredPc
      BY <2>10 DEF FreshInv, JustMinted, CredPc
    <3>2. h[q].cred.nonce # minted + 1
      BY <2>4, <2>5, <3>1 DEF FreshInv, NoncesKnown, CredKnown
    <3> QED
      BY <2>1, <2>2, <2>7, <3>1, <3>2 DEF FreshNonce
  <2> QED
    BY <1>0, <2>7, <2>8, <2>9, <2>10 DEF FreshInv
<1>3. CASE AcceptCredential(s)
  <2>1. /\ minted' = minted /\ released' = released /\ boots' = boots
        /\ Moves(s, "verify", "exec") /\ CredsKept(s) /\ ConsumeNonce(f.cred)
    BY <1>3, AcceptEffect DEF EnvKept
  <2>2. used' \subseteq used \cup {f.cred.nonce} /\ used \subseteq used'
    BY <2>1 DEF ConsumeNonce
  <2>3. f.pc = "verify" /\ h'[s].pc = "exec" /\ h'[s].cred = f.cred
        /\ \A q \in Slot \ {s} : h'[q] = h[q]
    BY <2>1 DEF Moves, CredsKept
  <2>4. NoncesKnown'
    BY <2>1, <2>2, <2>3 DEF FreshInv, NoncesKnown, CredKnown, CredPc
  <2>5. ASSUME NEW q \in Slot \ {s}, JustMinted(h[q])
        PROVE  FreshNonce(q)' /\ FitsCall(h'[q].cred, h'[q].req)
    <3>1. FreshNonce(q) /\ FitsCall(h[q].cred, h[q].req)
      BY <2>5 DEF FreshInv
    <3>2. f.cred.nonce # h[q].cred.nonce
      BY <2>3, <3>1 DEF FreshNonce, CredPc
    <3> QED
      BY <2>1, <2>2, <2>3, <3>1, <3>2 DEF FreshNonce, CredPc
  <2> QED
    BY <1>0, <2>3, <2>4, <2>5 DEF FreshInv, JustMinted
<1>4. CASE RefuseCredential(s)
  <2>1. /\ used' = used /\ minted' = minted /\ Ends(s, "verify")
        /\ released' \subseteq released \cup {f.cred}
    BY <1>4, RefuseCredentialEffect
  <2> QED
    BY <1>0, <2>1, FreshKept, IdleRun DEF ServesCreds, Ends, CredPc
<1>5. CASE RecordCall(s)
  <2>1. /\ used' = used /\ minted' = minted /\ Ends(s, "record")
        /\ released' = released \cup {f.cred}
    BY <1>5, RecordEffect
  <2> QED
    BY <1>0, <2>1, FreshKept, IdleRun DEF ServesCreds, Ends, CredPc
<1> QED
  BY <1>0, <1>1, <1>2, <1>3, <1>4, <1>5 DEF ServesCreds

\* Nobody else has a credential that was just minted.
LEMMA FreshStep == TypeOK /\ FreshInv /\ [Next]_vars => FreshInv'
<1> SUFFICES ASSUME TypeOK, FreshInv, [Next]_vars PROVE FreshInv'
  OBVIOUS
<1>0. minted \in Nat /\ boots \in Nat
  BY DEF TypeOK
<1>1. ASSUME NEW s \in Slot, NewCall(s) \/ PresentMalformed(s) PROVE FreshInv'
  <2>1. CASE PresentMalformed(s) \/ \E r \in Request : RefuseUnknownTask(s, r)
    <3>1. h' = h /\ CredKept /\ boots' = boots
      BY <2>1, TurnedAwayEffect
    <3> QED
      BY <3>1 DEF FreshInv, NoncesKnown, CredKnown, FreshNonce, CredKept
  <2>2. ASSUME NEW r \in Request, NEW e, Arrive(s, r, e) PROVE FreshInv'
    <3>1. CredKept /\ boots' = boots /\ Begins(s, "grants", "minted", r)
      BY <2>2, ArriveEffect
    <3>2. h'[s].pc \notin CredPc /\ \A q \in Slot \ {s} : h'[q] = h[q]
      BY <3>1 DEF Begins, CredPc
    <3>3. PathKnown(h'[s])
      BY <3>1 DEF Begins, PathKnown
    <3> QED
      BY <3>1, <3>2, <3>3, FreshKept DEF CredKept
  <2>3. ASSUME NEW r \in Request, NEW c \in released, Present(s, r, c) PROVE FreshInv'
    <3>1. /\ CredKept /\ boots' = boots /\ Begins(s, "presented", "presented", r)
          /\ h'[s].cred \in Presented(c, r)
      BY <2>3, PresentEffect
    <3>2. c \in CredentialType
      BY DEF TypeOK
    <3>3. h'[s].cred.nonce = c.nonce /\ h'[s].cred.boot = c.boot
      BY <3>1, <3>2 DEF Presented, CredentialType
    <3>4. h'[s].pc = "presented" /\ h'[s].path = "presented"
          /\ \A q \in Slot \ {s} : h'[q] = h[q]
      BY <3>1 DEF Begins
    <3>5. NoncesKnown'
      BY <3>1, <3>3, <3>4 DEF FreshInv, NoncesKnown, CredKnown, CredKept
    <3>6. ASSUME NEW q \in Slot \ {s}, JustMinted(h[q])
          PROVE  FreshNonce(q)' /\ FitsCall(h'[q].cred, h'[q].req)
      <4>1. FreshNonce(q) /\ FitsCall(h[q].cred, h[q].req)
        BY <3>6 DEF FreshInv
      <4>2. c.nonce # h[q].cred.nonce
        BY <4>1 DEF FreshNonce
      <4> QED
        BY <3>1, <3>3, <3>4, <4>1, <4>2 DEF FreshNonce, CredKept
    <3> QED
      BY <3>4, <3>5, <3>6 DEF FreshInv, JustMinted, PathKnown, EarlyPc
  <2> QED
    BY <1>1, <2>1, <2>2, <2>3 DEF NewCall
<1>2. ASSUME NEW r \in Request, MintOnly(r) PROVE FreshInv'
  <2>1. PICK g : released' = released \cup {Credential(g, r)}
    BY <1>2 DEF MintOnly
  <2> DEFINE c == Credential(g, r)
  <2>2. h' = h /\ used' = used /\ boots' = boots /\ minted' = minted + 1
    BY <1>2 DEF MintOnly, envVars
  <2>3. c.nonce = minted + 1 /\ c.boot = boots
    BY DEF Credential
  <2>4. released' = released \cup {c}
    BY <2>1
  <2> HIDE DEF c
  <2>5. /\ \A n \in used : n \in Nat
        /\ \A k \in released : k.nonce \in Nat /\ k.boot \in Nat
    BY DEF TypeOK, CredentialType
  <2>6. \A q \in Slot : h[q].pc \in CredPc => h[q].cred.nonce \in Nat
    BY CredParts
  <2>7. \A n \in Nat : n <= minted => n <= minted' /\ n # minted + 1
    BY <1>0, <2>2
  <2>8. c.nonce <= minted' /\ c.boot <= boots
    BY <1>0, <2>2, <2>3
  <2>9. NoncesKnown'
    BY <2>2, <2>4, <2>5, <2>6, <2>7, <2>8 DEF FreshInv, NoncesKnown, CredKnown
  <2>10. ASSUME NEW q \in Slot, JustMinted(h[q]) PROVE FreshNonce(q)'
    <3>1. FreshNonce(q) /\ h[q].pc \in CredPc
      BY <2>10 DEF FreshInv, JustMinted, CredPc
    <3>2. h[q].cred.nonce # minted + 1
      BY <2>6, <2>7, <3>1 DEF FreshInv, NoncesKnown, CredKnown
    <3> QED
      BY <2>2, <2>3, <2>4, <3>1, <3>2 DEF FreshNonce
  <2> QED
    BY <2>2, <2>9, <2>10 DEF FreshInv
<1>3. ASSUME h' = h, CredKept, boots' = boots PROVE FreshInv'
  BY <1>3 DEF FreshInv, NoncesKnown, CredKnown, FreshNonce, CredKept
<1>4. CASE Operator
  <2>1. (\E r \in Request : MintOnly(r)) \/ (h' = h /\ CredKept /\ boots' = boots)
    BY <1>4 DEF Operator, CreateTask, RevokeMark, RevokeCommit, Approve, DenyElevation,
                Resolve, credVars, envVars, CredKept
  <2> QED
    BY <1>2, <1>3, <2>1
<1>5. CASE Tick \/ UNCHANGED vars
  BY <1>3, <1>5 DEF Tick, vars, credVars, envVars, CredKept
<1>6. CASE Restart
  <2>1. /\ h' = [s \in Slot |-> Idle] /\ used' = {} /\ minted' = minted /\ boots' = boots + 1
        /\ released' \in LoadOrCreateKey
    BY <1>6 DEF Restart
  <2>2. \A c \in released' : \E k \in released : c.nonce = k.nonce /\ c.boot = k.boot
    <3>1. \A k \in released : [k EXCEPT !.signed = FALSE].nonce = k.nonce
                              /\ [k EXCEPT !.signed = FALSE].boot = k.boot
      BY DEF TypeOK, CredentialType
    <3>2. CASE released' = released
      BY <3>2
    <3>3. CASE released' = {[k EXCEPT !.signed = FALSE] : k \in released}
      BY <3>1, <3>3
    <3> QED
      BY <2>1, <3>2, <3>3 DEF LoadOrCreateKey
  <2>3. \A k \in released : k.boot \in Nat /\ k.boot <= boots
    BY DEF TypeOK, CredentialType, FreshInv, NoncesKnown, CredKnown
  <2>4. \A k \in released : k.boot <= boots'
    BY <1>0, <2>1, <2>3
  <2>5. NoncesKnown'
    BY <2>1, <2>2, <2>4, IdleRun DEF FreshInv, NoncesKnown, CredKnown, CredPc
  <2> QED
    BY <2>1, <2>5, IdleRun DEF FreshInv, JustMinted, PathKnown, EarlyPc
<1> QED
  BY <1>1, <1>4, <1>5, <1>6, FreshServe DEF Next

\* Nothing was minted at the start.
LEMMA FreshInit == Init => FreshInv
<1> SUFFICES ASSUME Init PROVE FreshInv
  OBVIOUS
<1>1. used = {} /\ released = {} /\ \A s \in Slot : h[s] = Idle
  BY DEF Init
<1> QED
  BY <1>1, IdleRun DEF FreshInv, NoncesKnown, JustMinted, PathKnown, EarlyPc, CredPc

----------------------------------------------------------------------------
(* A credential is good when it is issued *)

\* The broker's lifetime and the grants' own are a second at least, but for
\* the fraction that a caveat in whole seconds cannot tell.
LongLived ==
  /\ Second - 1 <= TTL
  /\ \A t \in TaskId : \A g \in TaskReq[t] : g.ttl = 0 \/ Second - 1 <= g.ttl

LifetimeOK(g) == g.ttl = 0 \/ Second - 1 <= g.ttl

\* The lifetime that a handler has read, and the one it has given.
LivedInv ==
  \A s \in Slot :
    /\ h[s].pc \in {"recheck", "mint"} => LifetimeOK(h[s].got)
    /\ JustMinted(h[s]) => h[s].cred.issued + (Second - 1) <= h[s].cred.exp

\* The expiry of a minted credential, cut to whole seconds (caveat.go:120), is not
\* before the instant of the mint.
LEMMA LivedServe ==
  ASSUME LongLived, TypeOK, IssuedInv, FreshInv, LivedInv, NEW s \in Slot, Serve(s)
  PROVE  LivedInv'
<1> DEFINE f == h[s]
<1>0. ServesCreds(s)
  BY ServeCreds
<1>1. ASSUME h'[s].pc \in {"recheck", "mint"} => LifetimeOK(h'[s].got),
             JustMinted(h'[s]) => h'[s].cred.issued + (Second - 1) <= h'[s].cred.exp
      PROVE  LivedInv'
  BY <1>0, <1>1 DEF LivedInv, ServesCreds
<1>2. CASE FetchGrant(s)
  <2> DEFINE g == IF f.gid = "ablated" THEN Ablated(f.req) ELSE grants[f.gid]
  <2>1. \/ Ends(s, "fetch")
        \/ /\ g # NoGrant /\ Moves(s, "fetch", "recheck") /\ h'[s].got = GrantForMint(g, f.req)
    BY <1>2, FetchEffect
  <2>2. ASSUME g # NoGrant, f.pc = "fetch" PROVE LifetimeOK(GrantForMint(g, f.req))
    <3>1. f.gid \in GrantRef
      BY <2>2, FrameParts DEF FrameOK
    <3>2. LifetimeOK(g) /\ g \in GrantOf(GrantRef, TaskRef)
      <4>1. CASE f.gid = "ablated"
        <5>1. f.req \in RequestType
          BY <2>2, FrameParts DEF At
        <5> QED
          BY <4>1, <5>1 DEF Ablated, GrantOf, GrantRef, TaskRef, RequestType, LifetimeOK
      <4>2. CASE f.gid # "ablated"
        <5>1. f.gid \in GrantId /\ g = grants[f.gid]
          BY <3>1, <4>2 DEF GrantRef
        <5>2. g \in Grant /\ FromOperator(g)
          BY <2>2, <5>1 DEF IssuedInv, TypeOK
        <5>3. g.task \in TaskId /\ \E k \in TaskReq[g.task] : k.ttl = g.ttl
          BY <5>2, Zenon DEF FromOperator, Grant, GrantOf
        <5>4. g \in GrantOf(GrantRef, TaskRef)
          BY <5>2 DEF Grant, GrantOf, GrantRef, TaskRef
        <5> HIDE DEF g
        <5> QED
          BY <5>3, <5>4 DEF LongLived, LifetimeOK
      <4> QED
        BY <4>1, <4>2
    <3> HIDE DEF g
    <3> QED
      BY <3>2 DEF GrantForMint, GrantOf, LifetimeOK
  <2> HIDE DEF g
  <2>3. CASE Ends(s, "fetch")
    BY <1>1, <2>3, IdleRun DEF Ends, JustMinted
  <2>4. CASE ~Ends(s, "fetch")
    BY <1>1, <2>1, <2>2, <2>4 DEF Moves, JustMinted
  <2> QED
    BY <2>3, <2>4
<1>3. CASE Recheck(s)
  <2>1. Ends(s, "recheck") \/ (Moves(s, "recheck", "mint") /\ h'[s].got = f.got)
    BY <1>3, RecheckEffect
  <2> QED
    BY <1>1, <2>1, IdleRun DEF Ends, Moves, JustMinted, LivedInv
<1>4. CASE MintCredential(s)
  <2> DEFINE c == Credential(f.got, f.req)
  <2>1. Moves(s, "mint", "verify") /\ h'[s].cred = c
    BY <1>4, MintEffect
  <2>2. c.issued = now /\ c.exp = now + Lifetime(f.got)
    BY DEF Credential
  <2> HIDE DEF c
  <2>3. f.got \in GrantOf(GrantRef, TaskRef) /\ LifetimeOK(f.got)
    BY <2>1, FrameParts DEF Moves, FrameOK, LivedInv
  <2>4. f.got.ttl \in Nat /\ now \in Nat /\ TTL \in Nat /\ Second \in Nat /\ Second - 1 <= TTL
    BY <2>3, BrokerAssumption DEF GrantOf, TypeOK, LongLived
  <2>5. Second - 1 <= Lifetime(f.got) /\ Lifetime(f.got) \in Nat
    BY <2>3, <2>4 DEF Lifetime, LifetimeOK
  <2>6. c.issued + (Second - 1) <= c.exp
    BY <2>2, <2>4, <2>5
  <2> QED
    BY <1>1, <2>1, <2>6 DEF Moves
<1>5. CASE ~(FetchGrant(s) \/ Recheck(s) \/ MintCredential(s))
  <2>1. h'[s].pc \notin {"recheck", "mint"} /\ ~JustMinted(h'[s])
    <3>1. ASSUME NEW from, NEW to, Moves(s, from, to), to \notin {"recheck", "mint", "verify"}
          PROVE  h'[s].pc \notin {"recheck", "mint"} /\ ~JustMinted(h'[s])
      BY <3>1 DEF Moves, JustMinted
    <3>2. ASSUME NEW from, Ends(s, from)
          PROVE  h'[s].pc \notin {"recheck", "mint"} /\ ~JustMinted(h'[s])
      BY <3>2, IdleRun DEF Ends, JustMinted
    <3>3. CASE CheckPresented(s)
      <4>1. Ends(s, "presented") \/ Moves(s, "presented", "verify")
        BY <3>3, CheckPresentedEffect
      <4> QED
        BY <3>2, <4>1 DEF Moves, JustMinted, FreshInv, PathKnown
    <3>4. CASE ReadGrants(s) \/ CheckLedger(s) \/ ReadHistory(s) \/ Decide(s)
      BY <3>1, <3>2, <3>4, ReadGrantsEffect, CheckLedgerEffect, ReadHistoryEffect, DecideEffect
    <3>5. CASE Enqueue(s) \/ ConsumeElevation(s) \/ RefuseElevation(s) \/ RefuseMint(s)
      BY <3>1, <3>2, <3>5, EnqueueEffect, ConsumeEffect, RefuseEffect
    <3>6. CASE AcceptCredential(s) \/ RefuseCredential(s) \/ Execute(s) \/ LogExecution(s)
               \/ RecordCall(s)
      BY <3>1, <3>2, <3>6, AcceptEffect, RefuseCredentialEffect, ExecuteEffect,
         LogExecutionEffect, RecordEffect
    <3> QED
      BY <1>5, <3>3, <3>4, <3>5, <3>6 DEF Serve
  <2> QED
    BY <1>1, <2>1
<1> QED
  BY <1>2, <1>3, <1>4, <1>5

\* No step makes a credential that expired before it was minted.
LEMMA LivedStep ==
  ASSUME LongLived
  PROVE  TypeOK /\ IssuedInv /\ FreshInv /\ LivedInv /\ [Next]_vars => LivedInv'
<1> SUFFICES ASSUME TypeOK, IssuedInv, FreshInv, LivedInv, [Next]_vars PROVE LivedInv'
  OBVIOUS
<1>1. ASSUME NEW s \in Slot, \A q \in Slot \ {s} : h'[q] = h[q],
             h'[s].pc \notin {"recheck", "mint", "verify"}
      PROVE  LivedInv'
  BY <1>1 DEF LivedInv, JustMinted
<1>2. ASSUME NEW s \in Slot, NewCall(s) \/ PresentMalformed(s) PROVE LivedInv'
  <2>1. CASE PresentMalformed(s) \/ \E r \in Request : RefuseUnknownTask(s, r)
    BY <2>1, TurnedAwayEffect DEF LivedInv
  <2>2. ASSUME NEW r \in Request, NEW e, Arrive(s, r, e) PROVE LivedInv'
    BY <1>1, <2>2, ArriveEffect DEF Begins
  <2>3. ASSUME NEW r \in Request, NEW c, Present(s, r, c) PROVE LivedInv'
    BY <1>1, <2>3, PresentEffect DEF Begins
  <2> QED
    BY <1>2, <2>1, <2>2, <2>3 DEF NewCall
<1>3. CASE Operator
  BY <1>3 DEF Operator, CreateTask, RevokeMark, RevokeCommit, Approve, DenyElevation,
              Resolve, MintOnly, LivedInv
<1>4. CASE Tick \/ UNCHANGED vars
  BY <1>4 DEF Tick, vars, LivedInv
<1>5. CASE Restart
  BY <1>5, IdleRun DEF Restart, LivedInv, JustMinted
<1> QED
  BY <1>2, <1>3, <1>4, <1>5, LivedServe DEF Next

\* Whole seconds below a time: less than a second is lost.
LEMMA WholeSeconds ==
  ASSUME NEW n \in Nat, NEW i \in Nat, i + (Second - 1) <= n
  PROVE  i <= (n \div Second) * Second
<1>1. Second \in Nat \ {0}
  BY BrokerAssumption
<1>2. PICK q \in Nat : q = n \div Second
  BY <1>1
<1>3. n < q * Second + Second
  BY <1>1, <1>2
<1>4. q * Second \in Nat
  BY <1>1, <1>2
<1> QED
  BY <1>1, <1>2, <1>3, <1>4

\* The broker's own verification of a credential at the instant it was minted
\* succeeds, whatever other calls, presentations and revocations do between
\* the two, if lifetimes are not shorter than a second (mint.go:110, verify.go
\* and caveat.go:120, which drops the fraction of the expiry).
THEOREM FreshCredentialsVerify ==
  ASSUME LongLived
  PROVE  Spec => []UsableWhenIssued
<1>1. ASSUME TypeOK, FreshInv, LivedInv PROVE UsableWhenIssued
  <2> SUFFICES ASSUME NEW s \in Slot, JustMinted(h[s]), now = h[s].cred.issued
               PROVE  Verifies(h[s])
    BY DEF UsableWhenIssued, JustMinted, At
  <2> DEFINE c == h[s].cred
             r == h[s].req
  <2>1. FreshNonce(s) /\ FitsCall(c, r)
    BY <1>1 DEF FreshInv
  <2>2. c \in CredentialType
    BY <1>1, CredParts DEF JustMinted, CredPc
  <2>3. now <= c.exp /\ now <= CaveatExpiry(c)
    <3>1. c.issued \in Nat /\ c.exp \in Nat /\ c.issued + (Second - 1) <= c.exp
      BY <1>1, <2>2 DEF CredentialType, LivedInv
    <3>2. now <= CaveatExpiry(c)
      BY <3>1, WholeSeconds DEF CaveatExpiry
    <3>3. now = c.issued /\ Second \in Nat \ {0}
      BY BrokerAssumption
    <3>4. \A i, e, n \in Nat : n \in Nat \ {0} /\ i + (n - 1) <= e => i <= e
      OBVIOUS
    <3>5. c.issued <= c.exp
      BY <3>1, <3>3, <3>4
    <3> QED
      BY <3>2, <3>3, <3>5
  <2>4. CallTask(h[s]) = c.task
    BY DEF CallTask, JustMinted
  <2> QED
    BY <2>1, <2>3, <2>4 DEF Verifies, Unexpired, Satisfies, FreshNonce, FitsCall
<1>2. Init => LivedInv
  BY IdleRun DEF Init, LivedInv, JustMinted
<1> QED
  BY <1>1, <1>2, TypeCorrect, IssuedInit, IssuedStep, FreshInit, FreshStep, LivedStep,
     PTL DEF Spec

----------------------------------------------------------------------------
(* Executions are counted *)

\* A credential that no call can run a tool with any more in this boot.
Spent(c) == c.nonce \in used \/ ~Unexpired(c)

FrameCounted(f) ==
  /\ f.pc \in UsedPc /\ f.path = "minted" => f.cred.nonce \in used
  /\ f.pc \in CredPc /\ f.path # "minted" /\ f.cred.boot = boots =>
       f.pc \in {"presented", "verify"} /\ Spent(f.cred)

Counted(x) == Running(x.run) \/ \E c \in calls : c.run = x.run /\ c.grant = x.cred.grant

\* What has left the broker in this boot is spent, so that a presented
\* credential that gets past the verification is of an earlier boot.
CountInv ==
  /\ \A c \in released : c.boot = boots => Spent(c)
  /\ \A s \in Slot : FrameCounted(h[s])
  /\ \A x \in ExecutedNow : x.cred.boot = boots => Counted(x)

\* Time passes and nonces are used up: what is spent stays spent.
LEMMA SpentStays ==
  ASSUME TypeOK, NEW c \in CredentialType, Spent(c), used \subseteq used', now' = now \/ now' = now + 1
  PROVE  Spent(c)'
<1> DEFINE e == CaveatExpiry(c)
<1>1. now \in Nat /\ c.exp \in Nat /\ e \in Int
  <2>1. now \in Nat /\ c.exp \in Nat
    BY DEF TypeOK, CredentialType
  <2>2. Second \in Nat \ {0}
    BY BrokerAssumption
  <2>3. c.exp \div Second \in Int
    BY <2>1, <2>2
  <2> QED
    BY <2>1, <2>2, <2>3 DEF CaveatExpiry
<1>2. c.nonce \in used \/ ~(now <= c.exp) \/ ~(now <= e)
  BY DEF Spent, Unexpired
<1> HIDE DEF e
<1>3. ~(now <= c.exp) => ~(now' <= c.exp)
  BY <1>1
<1>4. ~(now <= e) => ~(now' <= e)
  BY <1>1
<1>5. c.nonce \in used => c.nonce \in used'
  OBVIOUS
<1> QED
  BY <1>2, <1>3, <1>4, <1>5 DEF Spent, Unexpired, e

\* The parts of the invariant that a step leaves as they are.
LEMMA CountFrames ==
  ASSUME TypeOK, CountInv, used \subseteq used', now' = now \/ now' = now + 1, boots' = boots
  PROVE  /\ \A c \in released : c.boot = boots => Spent(c)'
         /\ \A s \in Slot : h'[s] = h[s] => FrameCounted(h[s])'
<1>1. \A c \in released : c \in CredentialType
  BY DEF TypeOK
<1>2. \A c \in released : c.boot = boots => Spent(c)'
  BY <1>1, SpentStays DEF CountInv
<1>3. ASSUME NEW s \in Slot, h'[s] = h[s] PROVE FrameCounted(h[s])'
  <2>1. h[s].pc \in CredPc => h[s].cred \in CredentialType
    BY CredParts
  <2>2. FrameCounted(h[s])
    BY DEF CountInv
  <2>3. \A c \in CredentialType : Spent(c) => Spent(c)'
    BY SpentStays
  <2>4. h[s].pc \in CredPc /\ Spent(h[s].cred) => Spent(h[s].cred)'
    BY <1>3, <2>1, <2>3 DEF Spent, Unexpired, CaveatExpiry
  <2> QED
    BY <1>3, <2>2, <2>4 DEF FrameCounted
<1> QED
  BY <1>2, <1>3

\* A call ends after its tool has run only in these two steps.
LEMMA LastSteps ==
  ASSUME NEW s \in Slot, Serve(s), h[s].pc \in {"log", "record"}
  PROVE  LogExecution(s) \/ RecordCall(s)
<1>1. ~(ReadGrants(s) \/ CheckLedger(s) \/ ReadHistory(s) \/ Decide(s))
  BY DEF ReadGrants, CheckLedger, ReadHistory, Decide, At
<1>2. ~(Enqueue(s) \/ ConsumeElevation(s) \/ RefuseElevation(s) \/ FetchGrant(s) \/ Recheck(s))
  BY DEF Enqueue, ConsumeElevation, RefuseElevation, FetchGrant, Recheck, At
<1>3. ~(MintCredential(s) \/ RefuseMint(s) \/ CheckPresented(s) \/ AcceptCredential(s)
        \/ RefuseCredential(s) \/ Execute(s))
  BY DEF MintCredential, RefuseMint, CheckPresented, AcceptCredential, RefuseCredential,
         Execute, At
<1> QED
  BY <1>1, <1>2, <1>3 DEF Serve

\* What ran stays with its handler or gets a record.
LEMMA ExecsCounted ==
  ASSUME TypeOK, RunInv, CountInv, NEW s \in Slot, Serve(s), NEW x \in ExecutedNow',
         x.cred.boot = boots
  PROVE  Counted(x)'
<1> DEFINE f == h[s]
<1>0. ServesRun(s) /\ boots' = boots /\ x \in execs' /\ x.boot = boots
  BY ServeRuns DEF ServesRun, ExecutedNow
<1>1. CASE Execute(s)
  <2>1. /\ Moves(s, "exec", "log") /\ calls' = calls
        /\ execs' \in {execs, execs \cup {Execution(f)}}
    BY <1>1, ExecuteEffect DEF StoreKept
  <2>2. h'[s].run = f.run /\ \A q \in Slot \ {s} : h'[q] = h[q]
    BY <2>1 DEF Moves
  <2>3. CASE x \in execs
    <3>1. Counted(x)
      BY <1>0, <2>3 DEF CountInv, ExecutedNow
    <3> QED
      BY <2>1, <2>2, <3>1 DEF Counted, Running
  <2>4. CASE x = Execution(f)
    <3>1. x.run = h'[s].run
      BY <2>2, <2>4 DEF Execution
    <3> QED
      BY <3>1 DEF Counted, Running
  <2> QED
    BY <1>0, <2>1, <2>3, <2>4
<1>2. CASE ~Execute(s)
  <2>1. execs' = execs /\ calls \subseteq calls'
    BY <1>0, <1>2, RecordEffect DEF ServesRun
  <2>2. Counted(x)
    BY <1>0, <2>1 DEF CountInv, ExecutedNow
  <2>3. CASE \E c \in calls : c.run = x.run /\ c.grant = x.cred.grant
    BY <2>1, <2>3 DEF Counted
  <2>4. ASSUME NEW q \in Slot, h[q].run = x.run, h'[q].run # x.run PROVE Counted(x)'
    <3>1. q = s /\ h'[s] = Idle
      BY <1>0, <2>4 DEF ServesRun
    <3>2. f.pc \in {"log", "record"} /\ x = Execution(f)
      BY <2>1, <2>4, <3>1, <1>0 DEF RunInv, ExecsRun
    <3>3. x.run = f.run /\ x.cred = f.cred
      BY <3>2 DEF Execution
    <3>4. CASE LogExecution(s)
      <4>1. f.pc = "log" /\ f.path # "minted"
        BY <3>1, <3>4, LogExecutionEffect, IdleRun DEF Moves, Ends
      <4>2. FrameCounted(f)
        BY DEF CountInv
      <4> QED
        BY <1>0, <3>3, <4>1, <4>2 DEF FrameCounted, CredPc
    <3>5. CASE RecordCall(s)
      <4>1. CallRecord(f) \in calls'
        BY <3>5, RecordEffect
      <4>2. CallRecord(f).run = x.run /\ CallRecord(f).grant = x.cred.grant
        BY <3>3 DEF CallRecord
      <4> QED
        BY <4>1, <4>2 DEF Counted
    <3> QED
      BY <3>2, <3>4, <3>5, LastSteps
  <2> QED
    BY <2>2, <2>3, <2>4 DEF Counted, Running
<1> QED
  BY <1>1, <1>2

\* A credential that leaves the broker is used up or expired.
LEMMA CountServe ==
  ASSUME On("single_use"), TypeOK, RunInv, FreshInv, CountInv, NEW s \in Slot, Serve(s)
  PROVE  CountInv'
<1> DEFINE f == h[s]
<1>0. ServesCreds(s) /\ boots' = boots /\ now' = now /\ \A q \in Slot \ {s} : h'[q] = h[q]
  BY ServeCreds DEF ServesCreds
<1>1. ASSUME used \subseteq used', FrameCounted(h[s])',
             \A c \in released' : c \in released \/ (c.boot = boots => Spent(c)')
      PROVE  CountInv'
  <2>1. \A c \in released : c.boot = boots => Spent(c)'
    BY <1>0, <1>1, CountFrames
  <2>2. \A q \in Slot : FrameCounted(h[q])'
    BY <1>0, <1>1, CountFrames
  <2>3. \A x \in ExecutedNow' : x.cred.boot = boots => Counted(x)'
    BY ExecsCounted
  <2> QED
    BY <1>0, <1>1, <2>1, <2>2, <2>3 DEF CountInv
<1>2. FrameCounted(f) /\ (f.pc \in CredPc => f.cred \in CredentialType)
  BY CredParts DEF CountInv
<1>3. CASE KeepsCreds(s)
  <2>1. used' = used /\ released' = released
    BY <1>3 DEF KeepsCreds, CredKept
  <2>2. CASE ~KeepsCred(s)
    BY <1>1, <1>2, <1>3, <2>1, <2>2 DEF KeepsCreds, FrameCounted, CredPc, UsedPc, EarlyPc
  <2>3. CASE KeepsCred(s)
    <3>1. Spent(f.cred) => Spent(h[s].cred)'
      BY <1>0, <2>1, <2>3 DEF KeepsCred, Spent, Unexpired, CaveatExpiry
    <3>2. h'[s].pc \in CredPc => h'[s].pc \in UsedPc \/ h'[s].pc \in {"presented", "verify"}
      BY DEF CredPc, UsedPc
    <3>3. f.pc \in {"presented", "verify"} => f.pc \notin UsedPc
      BY DEF UsedPc
    <3>4. FrameCounted(h[s])'
      BY <1>0, <1>2, <2>1, <2>3, <3>1, <3>2, <3>3 DEF KeepsCred, FrameCounted, EarlyPc, CredPc
    <3> QED
      BY <1>1, <2>1, <3>4
  <2> QED
    BY <1>3, <2>2, <2>3 DEF KeepsCreds
<1>4. CASE MintCredential(s)
  <2>1. Moves(s, "mint", "verify") /\ used' = used /\ released' = released
    BY <1>4, MintEffect
  <2>2. h'[s].path = "minted"
    BY <2>1 DEF Moves, FreshInv, PathKnown, EarlyPc
  <2> QED
    BY <1>1, <2>1, <2>2 DEF FrameCounted, Moves, UsedPc
<1>5. CASE AcceptCredential(s)
  <2>1. /\ Moves(s, "verify", "exec") /\ CredsKept(s) /\ released' = released
        /\ Verifies(f) /\ ConsumeNonce(f.cred)
    BY <1>5, AcceptEffect
  <2>2. used' = used \cup {f.cred.nonce} /\ ~Spent(f.cred)
    BY <2>1 DEF ConsumeNonce, Verifies, Spent
  <2>3. f.pc = "verify" /\ h'[s].pc = "exec" /\ h'[s].cred = f.cred /\ h'[s].path = f.path
    BY <2>1 DEF Moves, CredsKept
  <2> QED
    BY <1>0, <1>1, <1>2, <2>1, <2>2, <2>3 DEF FrameCounted, CredPc
<1>6. CASE RefuseCredential(s)
  <2>1. /\ Ends(s, "verify") /\ used' = used /\ ~Verifies(f)
        /\ released' = IF f.path = "minted" THEN released \cup {f.cred} ELSE released
    BY <1>6, RefuseCredentialEffect
  <2>2. ASSUME f.path = "minted" PROVE ~Unexpired(f.cred)
    <3>1. JustMinted(f)
      BY <2>1, <2>2 DEF Ends, JustMinted
    <3>2. FreshNonce(s) /\ FitsCall(f.cred, f.req)
      BY <3>1 DEF FreshInv
    <3>3. CallTask(f) = f.cred.task
      BY <2>2 DEF CallTask
    <3> QED
      BY <2>1, <3>2, <3>3 DEF Verifies, Satisfies, FreshNonce, FitsCall
  <2>3. ASSUME NEW c \in released', c \notin released PROVE Spent(c)'
    BY <1>0, <2>1, <2>2, <2>3 DEF Spent, Unexpired, CaveatExpiry
  <2>4. FrameCounted(h[s])'
    BY <2>1, IdleRun DEF Ends, FrameCounted, CredPc, UsedPc
  <2> QED
    BY <1>1, <2>1, <2>3, <2>4
<1>7. CASE RecordCall(s)
  <2>1. Ends(s, "record") /\ used' = used /\ released' = released \cup {f.cred}
    BY <1>7, RecordEffect
  <2>2. f.pc = "record" /\ h'[s] = Idle
    BY <2>1 DEF Ends
  <2>3. f.cred.boot = boots => f.cred.nonce \in used
    BY <1>2, <2>2 DEF FrameCounted, UsedPc, CredPc
  <2>4. ASSUME NEW c \in released', c \notin released, c.boot = boots PROVE Spent(c)'
    BY <2>1, <2>3, <2>4 DEF Spent
  <2>5. FrameCounted(h[s])'
    BY <2>2, IdleRun DEF FrameCounted, CredPc, UsedPc
  <2> QED
    BY <1>1, <2>1, <2>4, <2>5
<1> QED
  BY <1>0, <1>3, <1>4, <1>5, <1>6, <1>7 DEF ServesCreds

\* No step gives a credential out that could run uncounted.
LEMMA CountStep ==
  ASSUME On("single_use"), ~Harness
  PROVE  TypeOK /\ RunInv /\ FreshInv /\ CountInv /\ [Next]_vars => CountInv'
<1> SUFFICES ASSUME TypeOK, RunInv, FreshInv, CountInv, [Next]_vars PROVE CountInv'
  OBVIOUS
<1>1. ASSUME h' = h, CredKept, boots' = boots, execs' = execs, calls' = calls,
             now' = now \/ now' = now + 1
      PROVE  CountInv'
  <2>1. /\ \A c \in released : c.boot = boots => Spent(c)'
        /\ \A s \in Slot : FrameCounted(h[s])'
    BY <1>1, CountFrames DEF CredKept
  <2>2. \A x \in ExecutedNow : x.cred.boot = boots => Counted(x)'
    BY <1>1 DEF CountInv, Counted, Running
  <2> QED
    BY <1>1, <2>1, <2>2 DEF CountInv, CredKept, ExecutedNow
<1>2. ASSUME NEW s \in Slot, NewCall(s) \/ PresentMalformed(s) PROVE CountInv'
  <2>1. CASE PresentMalformed(s) \/ \E r \in Request : RefuseUnknownTask(s, r)
    BY <1>1, <2>1, TurnedAwayEffect DEF StoreKept
  <2>2. ASSUME CredKept, boots' = boots, execs' = execs, calls' = calls, now' = now,
               h[s].pc = "idle", \A q \in Slot \ {s} : h'[q] = h[q], FrameCounted(h[s])'
        PROVE  CountInv'
    <3>1. /\ \A c \in released : c.boot = boots => Spent(c)'
          /\ \A q \in Slot : FrameCounted(h[q])'
      BY <2>2, CountFrames DEF CredKept
    <3>2. ASSUME NEW x \in ExecutedNow, x.cred.boot = boots PROVE Counted(x)'
      <4>1. Counted(x) /\ x.run # h[s].run
        BY <2>2, <3>2 DEF CountInv, ExecutedNow, RunInv, ExecsRun
      <4> QED
        BY <2>2, <4>1 DEF Counted, Running
    <3> QED
      BY <2>2, <3>1, <3>2 DEF CountInv, CredKept, ExecutedNow
  <2>3. ASSUME NEW r \in Request, NEW e, Arrive(s, r, e) PROVE CountInv'
    <3>1. h'[s].pc = "grants" /\ h'[s].path = "minted" /\ h[s].pc = "idle"
          /\ \A q \in Slot \ {s} : h'[q] = h[q]
      BY <2>3, ArriveEffect DEF Begins
    <3> QED
      BY <2>2, <2>3, <3>1, ArriveEffect DEF StoreKept, FrameCounted, CredPc, UsedPc
  <2>4. ASSUME NEW r \in Request, NEW c \in released, Present(s, r, c) PROVE CountInv'
    <3>1. /\ CredKept /\ boots' = boots /\ now' = now /\ execs' = execs /\ calls' = calls
          /\ Begins(s, "presented", "presented", r) /\ h'[s].cred \in Presented(c, r)
      BY <2>4, PresentEffect DEF StoreKept
    <3>2. c \in CredentialType /\ (c.boot = boots => Spent(c))
      BY DEF TypeOK, CountInv
    <3>3. h'[s].cred.nonce = c.nonce /\ h'[s].cred.boot = c.boot /\ h'[s].cred.exp = c.exp
      BY <3>1, <3>2 DEF Presented, CredentialType
    <3>4. c.boot = boots => Spent(h[s].cred)'
      BY <3>1, <3>2, <3>3 DEF Spent, Unexpired, CaveatExpiry, CredKept
    <3>5. h'[s].pc = "presented" /\ h[s].pc = "idle" /\ \A q \in Slot \ {s} : h'[q] = h[q]
      BY <3>1 DEF Begins
    <3>6. FrameCounted(h[s])'
      BY <3>1, <3>3, <3>4, <3>5 DEF FrameCounted, UsedPc
    <3> QED
      BY <2>2, <3>1, <3>5, <3>6
  <2> QED
    BY <1>2, <2>1, <2>3, <2>4 DEF NewCall
<1>3. CASE Operator
  <2>1. \A r \in Request : ~MintOnly(r)
    BY DEF MintOnly
  <2>2. h' = h /\ CredKept /\ boots' = boots /\ execs' = execs /\ calls' = calls /\ now' = now
    BY <1>3, <2>1 DEF Operator, CreateTask, RevokeMark, RevokeCommit, Approve, DenyElevation,
                Resolve, credVars, envVars, storeVars, CredKept
  <2> QED
    BY <1>1, <2>2
<1>4. CASE Tick \/ UNCHANGED vars
  BY <1>1, <1>4 DEF Tick, vars, storeVars, credVars, envVars, CredKept
<1>5. CASE Restart
  <2>1. /\ h' = [s \in Slot |-> Idle] /\ boots' = boots + 1 /\ execs' = execs
        /\ released' \in LoadOrCreateKey /\ boots \in Nat
    BY <1>5 DEF Restart, TypeOK
  <2>2. \A c \in released : c.boot \in Nat /\ c.boot <= boots /\ [c EXCEPT !.signed = FALSE].boot = c.boot
    BY DEF TypeOK, CredentialType, FreshInv, NoncesKnown, CredKnown
  <2>3. \A c \in released' : \E k \in released : c.boot = k.boot
    <3>1. CASE released' = released
      BY <3>1
    <3>2. CASE released' = {[k EXCEPT !.signed = FALSE] : k \in released}
      BY <2>2, <3>2
    <3> QED
      BY <2>1, <3>1, <3>2 DEF LoadOrCreateKey
  <2>4. \A c \in released' : c.boot # boots'
    BY <2>1, <2>2, <2>3
  <2>5. \A x \in execs : x.boot # boots'
    <3>1. \A x \in execs : x.boot \in Nat /\ x.boot <= boots
      BY DEF TypeOK, ExecutionType, RunInv, ExecsRun
    <3> QED
      BY <2>1, <3>1
  <2>6. \A s \in Slot : FrameCounted(h[s])'
    BY <2>1, IdleRun DEF FrameCounted, CredPc, UsedPc
  <2> QED
    BY <2>1, <2>4, <2>5, <2>6 DEF CountInv, ExecutedNow
<1> QED
  BY <1>2, <1>3, <1>4, <1>5, CountServe DEF Next

\* Every execution in a boot with a credential of that boot is that of a call
\* in progress or has a call record under the grant of the credential: what a
\* response hands out is used up or expired, so that a presentation, which
\* leaves no call record (service.go:308-339), cannot run a tool uncounted.
THEOREM ExecutionsHaveRecords == Spec => []ExecutionsAreCounted
<1>1. CASE On("single_use") /\ ~Harness
  <2>1. Init => CountInv
    BY IdleRun DEF Init, CountInv, FrameCounted, CredPc, UsedPc, ExecutedNow
  <2>2. CountInv => ExecutionsAreCounted
    BY DEF CountInv, Counted, ExecutionsAreCounted, ExecutedNow
  <2>3. TypeOK /\ RunInv /\ FreshInv /\ CountInv /\ [Next]_vars => CountInv'
    BY <1>1, CountStep
  <2> QED
    BY <2>1, <2>2, <2>3, TypeCorrect, RunInit, RunStep, FreshInit, FreshStep, PTL DEF Spec
<1>2. CASE ~(On("single_use") /\ ~Harness)
  <2>1. ExecutionsAreCounted
    BY <1>2 DEF ExecutionsAreCounted
  <2> QED
    BY <2>1, PTL
<1> QED
  BY <1>1, <1>2

----------------------------------------------------------------------------
(* No execution exceeds its grant *)

\* The controls without which a call may go where no grant lets it.
Confining == {"least_privilege", "resource_scope", "signature"} \subseteq Controls

\* What a handler has in hand is within a grant of the operator's: the call,
\* from the decision on, and the credential, unless it was rewritten.
FrameWithin(f) ==
  /\ f.pc \in {"elevate", "fetch", "recheck", "mint"} => Authorizes(f.req.task, f.gid, f.req)
  /\ f.pc \in {"recheck", "mint"} =>
       f.got.id = f.gid /\ f.got.task \in TaskId /\ FromOperator(f.got)
  /\ f.pc \in CredPc /\ f.path = "minted" => Authorizes(f.req.task, f.cred.grant, f.req)
  /\ f.pc \in CredPc /\ f.cred.signed => Authorizes(f.cred.task, f.cred.grant, f.cred)
  /\ f.pc \in UsedPc => f.cred.signed /\ f.req.resource \in {NoAddr, f.cred.resource}

ExecWithin(x) ==
  /\ Authorizes(x.cred.task, x.cred.grant, x.cred)
  /\ x.path = "minted" => Authorizes(x.req.task, x.cred.grant, x.req)
  /\ x.req.tool = x.cred.tool /\ x.req.op = x.cred.op
  /\ x.req.resource \in {NoAddr, x.cred.resource}

WithinInv ==
  /\ \A c \in released : c.signed => Authorizes(c.task, c.grant, c)
  /\ \A s \in Slot : FrameWithin(h[s])
  /\ \A x \in execs : ExecWithin(x)

\* A grant the operator issued authorizes what it can be attenuated to.
LEMMA OperatorAuthorizes ==
  ASSUME NEW g, FromOperator(g), NEW c, CanAttenuateTo(g, c)
  PROVE  Authorizes(g.task, g.id, c)
<1>1. PICK k \in TaskReq[g.task] : k.id = g.id /\ k.tool = g.tool /\ k.op = g.op
                                   /\ k.pattern = g.pattern
  BY Zenon DEF FromOperator
<1>2. CanAttenuateTo(k, c)
  BY <1>1 DEF CanAttenuateTo, MatchesToolOp
<1> QED
  BY <1>1, <1>2 DEF Authorizes

\* So does the credential minted under it, and what asks for the same.
LEMMA CredentialWithin ==
  ASSUME NEW g, FromOperator(g), NEW r, Mintable(g, r)
  PROVE  LET c == Credential(g, r) IN Authorizes(c.task, c.grant, c)
<1> DEFINE c == Credential(g, r)
<1>1. /\ c.task = g.task /\ c.grant = g.id /\ c.tool = r.tool /\ c.op = r.op
      /\ c.resource = r.resource
  BY DEF Credential
<1> HIDE DEF c
<1>2. CanAttenuateTo(g, c)
  BY <1>1 DEF Mintable, CanAttenuateTo, MatchesToolOp
<1>3. Authorizes(g.task, g.id, c)
  BY <1>2, OperatorAuthorizes
<1> QED
  BY <1>1, <1>3 DEF c

\* A call that the policy lets go on is within the grant it names.
LEMMA DecidedWithin ==
  ASSUME Confining, TypeOK, IssuedInv, NEW s \in Slot, NEW count,
         Decision(h[s].view, count, h[s].req, now).action # "deny"
  PROVE  Authorizes(h[s].req.task, Decision(h[s].view, count, h[s].req, now).grant, h[s].req)
<1> DEFINE f == h[s]
           m == Match(f.view, f.req, now)
<1>1. On("least_privilege") /\ On("resource_scope")
  BY DEF Confining, On
<1>2. Decision(f.view, count, f.req, now).grant = m.id
  BY DecidedOnMatch
<1>3. Hits(f.view, f.req, now) # {}
  BY <1>1, NotDenied
<1>4. f.view \in Seq(Grant)
  BY FrameParts
<1>5. PICK i \in DOMAIN f.view : /\ m = f.view[i] /\ InScope(f.view[i], f.req)
                                 /\ MatchesToolOp(f.view[i], f.req)
  BY <1>3, <1>4, MatchOutcome
<1>6. m.task = f.req.task /\ FromOperator(m)
  BY <1>5 DEF IssuedInv, FrameIssued
<1>7. CanAttenuateTo(m, f.req)
  BY <1>1, <1>5 DEF CanAttenuateTo, InScope
<1> HIDE DEF m
<1>8. Authorizes(m.task, m.id, f.req)
  BY <1>6, <1>7, OperatorAuthorizes
<1> QED
  BY <1>2, <1>6, <1>8

\* With these controls on, the grant is minted from as it was stored.
LEMMA FetchedWithin ==
  ASSUME Confining, TypeOK, IssuedInv, NEW id, NEW r,
         NEW t \in TaskId, Authorizes(t, id, r), grants[id] # NoGrant
  PROVE  /\ id # "ablated"
         /\ LET got == GrantForMint(grants[id], r)
            IN  got.id = id /\ got.task \in TaskId /\ FromOperator(got)
<1> DEFINE g == grants[id]
           got == GrantForMint(g, r)
<1>1. id \in GrantId
  <2>1. TaskReq[t] \subseteq Grant
    BY BrokerAssumption
  <2> QED
    BY <2>1 DEF Authorizes, Grant, GrantOf
<1>2. g \in Grant /\ g.id = id /\ FromOperator(g)
  BY <1>1 DEF TypeOK, IssuedInv
<1>3. On("least_privilege") /\ On("resource_scope")
  BY DEF Confining, On
<1> HIDE DEF g
<1>4. got = [g EXCEPT !.revoked = @ /\ On("revocation"), !.pattern = @, !.tool = @, !.op = @]
  BY <1>3, Zenon DEF GrantForMint
<1>5. /\ got.id = g.id /\ got.task = g.task /\ got.tool = g.tool /\ got.op = g.op
      /\ got.pattern = g.pattern /\ got.elevate = g.elevate /\ got.maxCalls = g.maxCalls
      /\ got.maxRecords = g.maxRecords /\ got.rateLimit = g.rateLimit
      /\ got.rateWindow = g.rateWindow /\ got.expires = g.expires /\ got.ttl = g.ttl
  BY <1>2, <1>4 DEF Grant, GrantOf
<1>6. g.task \in TaskId
  BY <1>2 DEF Grant, GrantOf
<1> HIDE DEF got
<1>7. FromOperator(got)
  BY <1>2, <1>5 DEF FromOperator
<1>8. id # "ablated"
  BY <1>1, BrokerAssumption
<1> QED
  BY <1>2, <1>5, <1>6, <1>7, <1>8 DEF g, got

\* A credential that a handler mints is within the grant it read.
LEMMA WithinServe ==
  ASSUME Confining, TypeOK, IssuedInv, FreshInv, WithinInv, NEW s \in Slot, Serve(s)
  PROVE  WithinInv'
<1> DEFINE f == h[s]
<1>0. ServesCreds(s) /\ FrameWithin(f) /\ PathKnown(f) /\ \A q \in Slot \ {s} : h'[q] = h[q]
  BY ServeCreds DEF ServesCreds, WithinInv, FreshInv
<1>1. ASSUME FrameWithin(h'[s]),
             \A c \in released' \ released : c.signed => Authorizes(c.task, c.grant, c),
             \A x \in execs' \ execs : ExecWithin(x)
      PROVE  WithinInv'
  BY <1>0, <1>1 DEF WithinInv
<1>2. \A e : e.pc \in {"idle", "ledger", "history", "decide"} => FrameWithin(e)
  BY DEF FrameWithin, CredPc, UsedPc
<1>3. CASE ReadGrants(s) \/ CheckLedger(s) \/ ReadHistory(s)
  <2>1. CredKept /\ execs' = execs /\ h'[s].pc \in {"ledger", "history", "decide"}
    BY <1>3, ReadGrantsEffect, CheckLedgerEffect, ReadHistoryEffect DEF Moves
  <2> QED
    BY <1>1, <1>2, <2>1 DEF CredKept
<1>4. ASSUME NEW from, Ends(s, from), CredKept, execs' = execs PROVE WithinInv'
  BY <1>1, <1>2, <1>4, IdleRun DEF Ends, CredKept
<1>5. CASE Decide(s)
  <2> DEFINE d == Decision(f.view, Counts(f), f.req, now)
  <2>1. /\ CredKept /\ execs' = execs
        /\ \/ d.action = "deny" /\ Ends(s, "decide")
           \/ /\ d.action \in {"allow", "require_elevation"} /\ h'[s].gid = d.grant
              /\ Moves(s, "decide", "fetch") \/ Moves(s, "decide", "elevate")
    BY <1>5, DecideEffect
  <2>2. d.action # "deny" => Authorizes(f.req.task, d.grant, f.req)
    BY DecidedWithin
  <2> HIDE DEF d
  <2>3. CASE d.action = "deny" /\ Ends(s, "decide")
    BY <1>4, <2>1, <2>3
  <2>4. CASE d.action # "deny"
    <3>1. h'[s].gid = d.grant /\ h'[s].req = f.req /\ h'[s].pc \in {"fetch", "elevate"}
      BY <2>1, <2>4 DEF Moves
    <3>2. FrameWithin(h'[s])
      BY <2>2, <2>4, <3>1 DEF FrameWithin, CredPc, UsedPc
    <3> QED
      BY <1>1, <2>1, <3>2 DEF CredKept
  <2> QED
    BY <2>1, <2>3, <2>4
<1>6. CASE Enqueue(s) \/ RefuseElevation(s) \/ RefuseMint(s)
  BY <1>4, <1>6, EnqueueEffect, RefuseEffect
<1>7. CASE ConsumeElevation(s)
  <2>1. CredKept /\ execs' = execs /\ Moves(s, "elevate", "fetch") /\ h'[s].gid = f.gid
    BY <1>7, ConsumeEffect
  <2>2. FrameWithin(h'[s])
    BY <1>0, <2>1 DEF Moves, FrameWithin, CredPc, UsedPc
  <2> QED
    BY <1>1, <2>1, <2>2 DEF CredKept
<1>8. CASE FetchGrant(s)
  <2> DEFINE g == IF f.gid = "ablated" THEN Ablated(f.req) ELSE grants[f.gid]
  <2>1. /\ CredKept /\ execs' = execs
        /\ \/ Ends(s, "fetch")
           \/ /\ g # NoGrant /\ Moves(s, "fetch", "recheck")
              /\ h'[s].got = GrantForMint(g, f.req) /\ h'[s].gid = f.gid
    BY <1>8, FetchEffect
  <2>2. CASE ~Ends(s, "fetch")
    <3>1. /\ f.pc = "fetch" /\ h'[s].pc = "recheck" /\ h'[s].req = f.req /\ h'[s].gid = f.gid
          /\ h'[s].got = GrantForMint(g, f.req) /\ g # NoGrant
      BY <2>1, <2>2 DEF Moves
    <3>2. Authorizes(f.req.task, f.gid, f.req) /\ f.path = "minted"
      BY <1>0, <3>1 DEF FrameWithin, PathKnown, EarlyPc
    <3>3. f.req.task \in TaskId
      BY <3>2 DEF IssuedInv, FrameIssued
    <3>4. f.gid # "ablated"
      <4>1. TaskReq[f.req.task] \subseteq Grant
        BY <3>3, BrokerAssumption
      <4>2. f.gid \in GrantId
        BY <3>2, <4>1 DEF Authorizes, Grant, GrantOf
      <4> QED
        BY <4>2, BrokerAssumption
    <3>5. g = grants[f.gid]
      BY <3>4
    <3> HIDE DEF g
    <3>6. h'[s].got.id = f.gid /\ h'[s].got.task \in TaskId /\ FromOperator(h'[s].got)
      BY <3>1, <3>2, <3>3, <3>5, FetchedWithin
    <3>7. FrameWithin(h'[s])
      BY <3>1, <3>2, <3>6 DEF FrameWithin, CredPc, UsedPc
    <3> QED
      BY <1>1, <2>1, <3>7 DEF CredKept
  <2> QED
    BY <1>4, <2>1, <2>2
<1>9. CASE Recheck(s)
  <2>1. /\ CredKept /\ execs' = execs
        /\ \/ Ends(s, "recheck")
           \/ Moves(s, "recheck", "mint") /\ h'[s].got = f.got /\ h'[s].gid = f.gid
    BY <1>9, RecheckEffect
  <2>2. CASE ~Ends(s, "recheck")
    <3>1. FrameWithin(h'[s])
      BY <1>0, <2>1, <2>2 DEF Moves, FrameWithin, CredPc, UsedPc
    <3> QED
      BY <1>1, <2>1, <3>1 DEF CredKept
  <2> QED
    BY <1>4, <2>1, <2>2
<1>10. CASE MintCredential(s)
  <2> DEFINE c == Credential(f.got, f.req)
  <2>1. /\ released' = released /\ execs' = execs /\ Moves(s, "mint", "verify")
        /\ h'[s].cred = c /\ Mintable(f.got, f.req)
    BY <1>10, MintEffect
  <2>2. f.pc = "mint" /\ h'[s].pc = "verify" /\ h'[s].req = f.req
    BY <2>1 DEF Moves
  <2>3. FromOperator(f.got) /\ f.got.id = f.gid /\ Authorizes(f.req.task, f.gid, f.req)
    BY <1>0, <2>2 DEF FrameWithin
  <2>4. Authorizes(c.task, c.grant, c)
    BY <2>1, <2>3, CredentialWithin
  <2>5. c.grant = f.gid
    BY <2>3 DEF Credential
  <2> HIDE DEF c
  <2>6. FrameWithin(h'[s])
    BY <2>1, <2>2, <2>3, <2>4, <2>5 DEF FrameWithin, CredPc, UsedPc
  <2> QED
    BY <1>1, <2>1, <2>6
<1>11. ASSUME KeepsCred(s), h'[s].pc \in UsedPc => h[s].pc \in UsedPc, CredKept,
              \A x \in execs' \ execs : ExecWithin(x)
       PROVE  WithinInv'
  <2>1. h'[s].pc \in CredPc /\ h'[s].pc \notin {"elevate", "fetch", "recheck", "mint"}
    BY <1>11 DEF KeepsCred, CredPc
  <2>2. FrameWithin(h'[s])
    BY <1>0, <1>11, <2>1 DEF KeepsCred, FrameWithin
  <2> QED
    BY <1>1, <1>11, <2>2 DEF CredKept
<1>12. CASE CheckPresented(s) \/ LogExecution(s)
  <2>1. /\ CredKept /\ execs' = execs
        /\ \/ \E from : Ends(s, from)
           \/ /\ Moves(s, "presented", "verify") \/ Moves(s, "log", "record")
              /\ CredsKept(s)
    BY <1>12, CheckPresentedEffect, LogExecutionEffect
  <2>2. CASE ~\E from : Ends(s, from)
    <3>1. KeepsCred(s)
      BY <2>1, <2>2 DEF Moves, CredsKept, KeepsCred, CredPc, UsedPc
    <3> QED
      BY <1>11, <2>1, <3>1 DEF KeepsCred
  <2> QED
    BY <1>4, <2>1, <2>2
<1>13. CASE AcceptCredential(s)
  <2>1. /\ released' = released /\ execs' = execs /\ Moves(s, "verify", "exec")
        /\ CredsKept(s) /\ Verifies(f)
    BY <1>13, AcceptEffect
  <2>2. f.cred.signed /\ f.req.resource \in {NoAddr, f.cred.resource}
    BY <2>1 DEF Verifies, Satisfies, Confining, On
  <2>3. /\ f.pc = "verify" /\ h'[s].pc = "exec" /\ h'[s].req = f.req /\ h'[s].cred = f.cred
        /\ h'[s].path = f.path
    BY <2>1 DEF Moves, CredsKept
  <2>4. FrameWithin(h'[s])
    BY <1>0, <2>2, <2>3 DEF FrameWithin, CredPc, UsedPc
  <2> QED
    BY <1>1, <2>1, <2>4
<1>14. CASE RefuseCredential(s) \/ RecordCall(s)
  <2>1. /\ Ends(s, "verify") \/ Ends(s, "record")
        /\ released' \subseteq released \cup {f.cred}
    BY <1>14, RefuseCredentialEffect, RecordEffect
  <2>2. f.cred.signed => Authorizes(f.cred.task, f.cred.grant, f.cred)
    BY <1>0, <2>1 DEF Ends, FrameWithin, CredPc
  <2>3. FrameWithin(h'[s])
    BY <1>2, <2>1, IdleRun DEF Ends
  <2>4. execs' = execs
    BY <1>14, RefuseCredentialEffect, RecordEffect
  <2> QED
    BY <1>1, <2>1, <2>2, <2>3, <2>4
<1>15. CASE Execute(s)
  <2>1. /\ CredKept /\ Moves(s, "exec", "log") /\ CredsKept(s)
        /\ execs' = IF ToolRuns(f) THEN execs \cup {Execution(f)} ELSE execs
    BY <1>15, ExecuteEffect
  <2>2. f.pc = "exec" /\ f.pc \in CredPc /\ f.pc \in UsedPc
    BY <2>1 DEF Moves, CredPc, UsedPc
  <2>3. ASSUME ToolRuns(f) PROVE ExecWithin(Execution(f))
    BY <1>0, <2>2, <2>3 DEF FrameWithin, ToolRuns, Execution, ExecWithin
  <2>4. KeepsCred(s)
    BY <2>1 DEF Moves, CredsKept, KeepsCred, CredPc, UsedPc
  <2> QED
    BY <1>11, <2>1, <2>2, <2>3, <2>4
<1> QED
  BY <1>3, <1>5, <1>6, <1>7, <1>8, <1>9, <1>10, <1>12, <1>13, <1>14, <1>15 DEF Serve

\* No step signs a credential that no grant allows.
LEMMA WithinStep ==
  ASSUME Confining
  PROVE  TypeOK /\ IssuedInv /\ FreshInv /\ WithinInv /\ [Next]_vars => WithinInv'
<1> SUFFICES ASSUME TypeOK, IssuedInv, FreshInv, WithinInv, [Next]_vars PROVE WithinInv'
  OBVIOUS
<1>1. ASSUME h' = h, execs' = execs, CredKept PROVE WithinInv'
  BY <1>1 DEF WithinInv, CredKept
<1>2. ASSUME NEW s \in Slot, NewCall(s) \/ PresentMalformed(s) PROVE WithinInv'
  <2>1. CASE PresentMalformed(s) \/ \E r \in Request : RefuseUnknownTask(s, r)
    BY <1>1, <2>1, TurnedAwayEffect
  <2>2. ASSUME NEW r \in Request, NEW e, Arrive(s, r, e) PROVE WithinInv'
    <3>1. CredKept /\ execs' = execs /\ Begins(s, "grants", "minted", r)
      BY <2>2, ArriveEffect
    <3>2. FrameWithin(h'[s])
      BY <3>1 DEF Begins, FrameWithin, CredPc, UsedPc
    <3> QED
      BY <3>1, <3>2 DEF Begins, WithinInv, CredKept
  <2>3. ASSUME NEW r \in Request, NEW c \in released, Present(s, r, c) PROVE WithinInv'
    <3>1. /\ CredKept /\ execs' = execs /\ Begins(s, "presented", "presented", r)
          /\ h'[s].cred \in Presented(c, r)
      BY <2>3, PresentEffect
    <3>2. h'[s].cred = c \/ ~h'[s].cred.signed
      BY <3>1 DEF Presented, TypeOK, CredentialType
    <3>3. h'[s].pc = "presented" /\ h'[s].path = "presented"
      BY <3>1 DEF Begins
    <3>4. FrameWithin(h'[s])
      BY <3>2, <3>3 DEF FrameWithin, UsedPc, WithinInv
    <3> QED
      BY <3>1, <3>4 DEF Begins, WithinInv, CredKept
  <2> QED
    BY <1>2, <2>1, <2>2, <2>3 DEF NewCall
<1>3. ASSUME NEW r \in Request, MintOnly(r) PROVE WithinInv'
  <2>1. PICK i \in TaskGrants(r.task) :
          Mintable(grants[i], r) /\ released' = released \cup {Credential(grants[i], r)}
    BY <1>3 DEF MintOnly
  <2>2. FromOperator(grants[i])
    BY DEF TaskGrants, IssuedInv
  <2> DEFINE c == Credential(grants[i], r)
  <2>3. Authorizes(c.task, c.grant, c)
    BY <2>1, <2>2, CredentialWithin
  <2> HIDE DEF c
  <2>4. released' = released \cup {c} /\ h' = h /\ execs' = execs
    BY <1>3, <2>1 DEF MintOnly, c
  <2> QED
    BY <2>3, <2>4 DEF WithinInv
<1>4. CASE Operator
  <2>1. (\E r \in Request : MintOnly(r)) \/ (h' = h /\ CredKept /\ execs' = execs)
    BY <1>4 DEF Operator, CreateTask, RevokeMark, RevokeCommit, Approve, DenyElevation,
                Resolve, credVars, CredKept
  <2> QED
    BY <1>1, <1>3, <2>1
<1>5. CASE Tick \/ UNCHANGED vars
  BY <1>1, <1>5 DEF Tick, vars, credVars, CredKept
<1>6. CASE Restart
  <2>1. h' = [s \in Slot |-> Idle] /\ execs' = execs /\ released' \in LoadOrCreateKey
    BY <1>6 DEF Restart
  <2>2. \A c \in released' : c.signed => c \in released
    <3>1. \A k \in released : ~[k EXCEPT !.signed = FALSE].signed
      BY DEF TypeOK, CredentialType
    <3>2. CASE released' = {[k EXCEPT !.signed = FALSE] : k \in released}
      BY <3>1, <3>2
    <3> QED
      BY <2>1, <3>2 DEF LoadOrCreateKey
  <2>3. \A s \in Slot : FrameWithin(h'[s])
    BY <2>1, IdleRun DEF FrameWithin, CredPc, UsedPc
  <2> QED
    BY <2>1, <2>2, <2>3 DEF WithinInv
<1> QED
  BY <1>2, <1>4, <1>5, <1>6, WithinServe DEF Next

\* With the controls that confine a call switched on, no tool ever runs beyond
\* a grant the operator issued for the task, through a credential that was
\* minted (service.go:276), stolen, or rewritten by its bearer, even when the
\* grant's id was issued again between the decision and the mint.
THEOREM ExecutionsStayWithinGrants == Spec => []ExecWithinGrant
<1>1. CASE Confining
  <2>1. Init => WithinInv
    BY IdleRun DEF Init, WithinInv, FrameWithin, CredPc, UsedPc
  <2>2. WithinInv => ExecWithinGrant
    BY DEF WithinInv, ExecWithin, ExecWithinGrant
  <2>3. TypeOK /\ IssuedInv /\ FreshInv /\ WithinInv /\ [Next]_vars => WithinInv'
    BY <1>1, WithinStep
  <2> QED
    BY <2>1, <2>2, <2>3, TypeCorrect, IssuedInit, IssuedStep, FreshInit, FreshStep,
       PTL DEF Spec
<1>2. CASE ~Confining
  <2>1. ExecWithinGrant
    BY <1>2 DEF ExecWithinGrant, Confining
  <2> QED
    BY <2>1, PTL
<1> QED
  BY <1>1, <1>2

----------------------------------------------------------------------------
(* The cap on calls *)

\* A handler that was let go on under the grant, and has not returned or
\* recorded its call.
Admitted(f, t, id) ==
  /\ f.path = "minted" /\ f.req.task = t
  /\ \/ f.pc \in {"elevate", "fetch"} /\ f.gid = id
     \/ f.pc \in {"recheck", "mint"} /\ f.got.id = id
     \/ f.pc \in {"verify", "exec", "log", "record"} /\ f.cred.grant = id

\* One that was, or will be, judged on a history with a place left under the cap.
Holds(f, t, id, cap) ==
  \/ Admitted(f, t, id)
  \/ /\ f.path = "minted" /\ f.req.task = t
     /\ f.pc = "decide" /\ ~(Cardinality(ForGrant(f.hist, id)) >= cap)

\* Past the tool, and not recorded yet.
Unrecorded(f, t, id) ==
  /\ f.path = "minted" /\ f.req.task = t
  /\ f.pc \in {"log", "record"} /\ f.cred.grant = id

Holders(t, id, cap) == {s \in Slot : Holds(h[s], t, id, cap)}
Unrecorders(t, id) == {s \in Slot : Unrecorded(h[s], t, id)}

\* Every execution is recorded or about to be, and the records and the places
\* held exceed the cap by no more than the other slots.
Balanced(ran, recorded, open, held, cap) ==
  /\ Cardinality(ran) <= Cardinality(recorded) + Cardinality(open)
  /\ Cardinality(recorded) + Cardinality(held) <= cap + Cardinality(Slot) - 1

PlacesInv(t, id, cap) ==
  IF tasks[t] = "lost" THEN Cardinality(ExecutedUnder(t, id)) <= cap + Cardinality(Slot) - 1
  ELSE Balanced(ExecutedUnder(t, id), CountedUnder(t, id), Unrecorders(t, id),
                Holders(t, id, cap), cap)

\* Calls without a credential are of tasks that live, and leave executions of
\* tasks that were created.
LiveInv ==
  /\ \A s \in Slot : /\ h[s].path = "minted" => h[s].req.task \in LiveTasks
                     /\ h[s].pc = "record" => h[s].path = "minted"
  /\ \A x \in execs : x.path = "minted" => x.req.task \in TaskId /\ tasks[x.req.task] # "new"
  /\ IsFiniteSet(execs) /\ IsFiniteSet(calls)

\* A part of a finite set is finite and no larger.
LEMMA Smaller ==
  ASSUME NEW S, IsFiniteSet(S), NEW T, T \subseteq S
  PROVE  /\ IsFiniteSet(T) /\ Cardinality(T) <= Cardinality(S)
         /\ Cardinality(S) \in Nat /\ Cardinality(T) \in Nat
<1>1. IsFiniteSet(T) /\ Cardinality(T) <= Cardinality(S)
  BY FS_Subset
<1> QED
  BY <1>1, FS_CardinalityType

\* No place is taken or given up.
LEMMA BalanceKept ==
  ASSUME IsFiniteSet(Slot), NEW cap \in Nat \ {0},
         NEW ran, NEW recorded, NEW open, NEW held, IsFiniteSet(ran), IsFiniteSet(recorded),
         NEW open2 \in SUBSET Slot, NEW held2 \in SUBSET Slot,
         Balanced(ran, recorded, open, held, cap),
         open \subseteq open2,
         held \subseteq Slot, held2 \subseteq held \/ Cardinality(recorded) < cap
  PROVE  Balanced(ran, recorded, open2, held2, cap)
<1>1. /\ Cardinality(ran) \in Nat /\ Cardinality(recorded) \in Nat
  BY FS_CardinalityType
<1>2. IsFiniteSet(held) /\ IsFiniteSet(held2) /\ IsFiniteSet(open2) /\ IsFiniteSet(open)
  BY Smaller
<1>3. /\ Cardinality(open) <= Cardinality(open2) /\ Cardinality(open) \in Nat
      /\ Cardinality(open2) \in Nat
  BY <1>2, Smaller
<1>4. /\ Cardinality(held2) <= Cardinality(Slot) /\ Cardinality(Slot) \in Nat
      /\ Cardinality(held2) \in Nat /\ Cardinality(held) \in Nat
  BY <1>2, Smaller
<1>5. Cardinality(held2) <= Cardinality(held) \/ Cardinality(recorded) < cap
  BY <1>2, Smaller
<1>6. Cardinality(ran) <= Cardinality(recorded) + Cardinality(open2)
  BY <1>1, <1>3 DEF Balanced
<1>7. Cardinality(recorded) + Cardinality(held) <= cap + Cardinality(Slot) - 1
  BY DEF Balanced
<1> HIDE DEF Balanced
<1>8. Cardinality(recorded) + Cardinality(held2) <= cap + Cardinality(Slot) - 1
  BY <1>1, <1>4, <1>5, <1>7
<1> QED
  BY <1>6, <1>8 DEF Balanced

\* A tool runs in a slot that holds a place.
LEMMA BalanceRun ==
  ASSUME IsFiniteSet(Slot), NEW cap \in Nat \ {0},
         NEW ran, NEW recorded, NEW open, NEW held, IsFiniteSet(ran), IsFiniteSet(recorded),
         NEW open2 \in SUBSET Slot, NEW held2 \in SUBSET Slot,
         Balanced(ran, recorded, open, held, cap), held \subseteq Slot,
         NEW x, NEW s, s \notin open, open \cup {s} \subseteq open2, held2 \subseteq held
  PROVE  Balanced(ran \cup {x}, recorded, open2, held2, cap)
<1>1. /\ Cardinality(ran) \in Nat /\ Cardinality(recorded) \in Nat
      /\ Cardinality(ran \cup {x}) \in Nat
      /\ Cardinality(ran \cup {x}) <= Cardinality(ran) + 1
  <2>1. Cardinality(ran) \in Nat /\ Cardinality(recorded) \in Nat
    BY FS_CardinalityType
  <2>2. Cardinality(ran \cup {x}) = Cardinality(ran) \/ Cardinality(ran \cup {x}) = Cardinality(ran) + 1
    BY FS_AddElement
  <2> QED
    BY <2>1, <2>2
<1>2. IsFiniteSet(open2) /\ IsFiniteSet(open)
  BY Smaller
<1>3. Cardinality(open) \in Nat /\ Cardinality(open \cup {s}) = Cardinality(open) + 1
  BY <1>2, FS_AddElement, FS_CardinalityType
<1>4. Cardinality(open \cup {s}) <= Cardinality(open2) /\ Cardinality(open2) \in Nat
  BY <1>2, Smaller
<1>5. Balanced(ran, recorded, open, held2, cap)
  BY BalanceKept
<1>6. Cardinality(ran) <= Cardinality(recorded) + Cardinality(open)
  BY DEF Balanced
<1>7. Cardinality(ran \cup {x}) <= Cardinality(recorded) + Cardinality(open2)
  BY <1>1, <1>3, <1>4, <1>6
<1> QED
  BY <1>5, <1>7 DEF Balanced

\* A call is recorded and its place given up.
LEMMA BalanceRecord ==
  ASSUME IsFiniteSet(Slot), NEW cap \in Nat \ {0},
         NEW ran, NEW recorded, NEW open, NEW held, IsFiniteSet(ran), IsFiniteSet(recorded),
         NEW open2 \in SUBSET Slot, NEW held2 \in SUBSET Slot,
         Balanced(ran, recorded, open, held, cap), held \subseteq Slot, open \subseteq Slot,
         NEW c, c \notin recorded, NEW s \in held, s \in open, open \ {s} \subseteq open2,
         held2 \subseteq held \ {s}
  PROVE  Balanced(ran, recorded \cup {c}, open2, held2, cap)
<1>1. /\ Cardinality(ran) \in Nat /\ Cardinality(recorded) \in Nat
      /\ Cardinality(recorded \cup {c}) = Cardinality(recorded) + 1
  BY FS_AddElement, FS_CardinalityType
<1>2. IsFiniteSet(open) /\ IsFiniteSet(held) /\ IsFiniteSet(open2)
  BY Smaller
<1>3. /\ Cardinality(open) \in Nat /\ Cardinality(held) \in Nat
      /\ Cardinality(open \ {s}) = Cardinality(open) - 1
      /\ Cardinality(held \ {s}) = Cardinality(held) - 1
      /\ IsFiniteSet(held \ {s})
  BY <1>2, FS_RemoveElement, FS_CardinalityType
<1>4. /\ Cardinality(open \ {s}) <= Cardinality(open2) /\ Cardinality(open2) \in Nat
      /\ Cardinality(held2) <= Cardinality(held \ {s}) /\ Cardinality(held2) \in Nat
  BY <1>2, <1>3, Smaller
<1>5. /\ Cardinality(ran) <= Cardinality(recorded) + Cardinality(open)
      /\ Cardinality(recorded) + Cardinality(held) <= cap + Cardinality(Slot) - 1
  BY DEF Balanced
<1>6. Cardinality(Slot) \in Nat
  BY FS_CardinalityType
<1>7. /\ Cardinality(ran) <= Cardinality(recorded \cup {c}) + Cardinality(open2)
      /\ Cardinality(recorded \cup {c}) + Cardinality(held2) <= cap + Cardinality(Slot) - 1
  BY <1>1, <1>3, <1>4, <1>5, <1>6
<1> QED
  BY <1>7 DEF Balanced

\* A call that is let go on under a grant that does not expire was counted for
\* that grant, and its caveats were not used up.
LEMMA DecidedWithinCaveats ==
  ASSUME On("rate_count"), TypeOK, IssuedInv, NEW s \in Slot, NEW t \in TaskId,
         NEW g \in TaskReq[t], NeverExpire(t), h[s].req.task = t,
         Decision(h[s].view, Counts(h[s]), h[s].req, now).action # "deny",
         Decision(h[s].view, Counts(h[s]), h[s].req, now).grant = g.id
  PROVE  /\ MatchId(h[s].view, h[s].req) = g.id
         /\ \E i \in DOMAIN h[s].view : h[s].view[i].id = g.id
         /\ ~Exhausted(g, Counts(h[s]))
<1> DEFINE f == h[s]
           m == Match(f.view, f.req, now)
           hits == Hits(f.view, f.req, now)
           count == Counts(f)
<1>1. m.id = g.id
  BY DecidedOnMatch
<1>2. TaskReq[t] \subseteq Grant
  BY BrokerAssumption
<1>3. g.id \in GrantId /\ g.id # "ablated"
  BY <1>2, BrokerAssumption DEF Grant, GrantOf
<1>4. f.view \in Seq(Grant)
  BY FrameParts
<1>5. Ablated(f.req).id = "ablated"
  BY DEF Ablated
<1>6. hits # {} /\ m = f.view[Min(hits)]
  BY <1>1, <1>3, <1>5 DEF Match
<1>7. PICK i \in DOMAIN f.view : m = f.view[i]
  BY <1>4, <1>6, MatchOutcome
<1>8. \A j \in DOMAIN f.view : FromOperator(f.view[j]) /\ f.view[j].task = t
  BY DEF IssuedInv, FrameIssued
<1>9. \A j \in DOMAIN f.view : f.view[j].expires = 0
  BY <1>8 DEF FromOperator, NeverExpire
<1>10. /\ m.maxCalls = g.maxCalls /\ m.maxRecords = g.maxRecords
       /\ m.rateLimit = g.rateLimit
  <2>1. PICK k \in TaskReq[t] : /\ k.id = m.id /\ k.maxCalls = m.maxCalls
                                /\ k.maxRecords = m.maxRecords /\ k.rateLimit = m.rateLimit
    BY <1>7, <1>8 DEF FromOperator
  <2>2. \A x, y \in TaskReq[t] : x.id = y.id => x = y
    BY BrokerAssumption
  <2> QED
    BY <1>1, <2>1, <2>2
<1>11. MatchId(f.view, f.req) = g.id
  <2>1. hits = {j \in DOMAIN f.view : /\ MatchesToolOp(f.view[j], f.req)
                                      /\ InScope(f.view[j], f.req) /\ ~f.view[j].revoked}
    BY <1>9 DEF Hits, Live, UnexpiredAt
  <2> HIDE DEF hits, m
  <2>2. MatchId(f.view, f.req) = f.view[Min(hits)].id
    BY <1>6, <2>1 DEF MatchId
  <2> QED
    BY <1>1, <1>6, <2>2
<1>12. ~Exhausted(m, count)
  BY NotDenied
<1> HIDE DEF m, count
<1>13. ~Exhausted(g, count)
  BY <1>10, <1>12 DEF Exhausted
<1> QED
  BY <1>1, <1>7, <1>11, <1>13 DEF count

\* Its history then has fewer calls than the cap.
LEMMA DecidedUnderCap ==
  ASSUME On("rate_count"), TypeOK, IssuedInv, NEW s \in Slot, NEW t \in TaskId,
         NEW g \in TaskReq[t], g.maxCalls > 0, NeverExpire(t), h[s].req.task = t,
         Decision(h[s].view, Counts(h[s]), h[s].req, now).action # "deny",
         Decision(h[s].view, Counts(h[s]), h[s].req, now).grant = g.id
  PROVE  ~(Cardinality(ForGrant(h[s].hist, g.id)) >= g.maxCalls)
<1>1. MatchId(h[s].view, h[s].req) = g.id /\ ~Exhausted(g, Counts(h[s]))
  BY DecidedWithinCaveats
<1>2. Counts(h[s]).calls = Cardinality(ForGrant(h[s].hist, g.id))
  BY <1>1 DEF Counts, CountForGrant
<1> QED
  BY <1>1, <1>2 DEF Exhausted

OthersKept(s) ==
  /\ tasks' = tasks /\ execs' = execs /\ calls' = calls
  /\ \A q \in Slot \ {s} : h'[q] = h[q]

\* What a handler's decision lets go on.
LetsGo(s, t, id) ==
  /\ Decide(s) /\ h[s].path = "minted" /\ h[s].req.task = t
  /\ Decision(h[s].view, Counts(h[s]), h[s].req, now).action # "deny"
  /\ Decision(h[s].view, Counts(h[s]), h[s].req, now).grant = id

\* A handler is admitted to a grant by a decision and by nothing else.
LEMMA ServeAdmits ==
  ASSUME TypeOK, IssuedInv, FreshInv, NEW s \in Slot, Serve(s), NEW t, NEW id,
         Admitted(h'[s], t, id)
  PROVE  Admitted(h[s], t, id) \/ LetsGo(s, t, id)
<1> DEFINE f == h[s]
<1>0. PathKnown(f)
  BY DEF FreshInv
<1>1. \A e : e.pc \in {"idle", "grants", "ledger", "history", "decide", "presented"} =>
               ~Admitted(e, t, id)
  BY DEF Admitted
<1>2. \A from : ~Ends(s, from)
  BY <1>1, IdleRun DEF Ends
<1>3. ~ReadGrants(s) /\ ~CheckLedger(s) /\ ~ReadHistory(s)
  <2>1. \A from, to : Moves(s, from, to) => to \notin {"ledger", "history", "decide"}
    BY <1>1 DEF Moves
  <2> QED
    BY <2>1, ReadGrantsEffect, CheckLedgerEffect, ReadHistoryEffect
<1>4. CASE Decide(s)
  <2> DEFINE d == Decision(f.view, Counts(f), f.req, now)
  <2>1. /\ d.action # "deny" /\ h'[s].gid = d.grant
        /\ Moves(s, "decide", "fetch") \/ Moves(s, "decide", "elevate")
    BY <1>2, <1>4, DecideEffect
  <2> HIDE DEF d
  <2>2. d.grant = id /\ f.path = "minted" /\ f.req.task = t
    BY <2>1 DEF Moves, Admitted
  <2> QED
    BY <1>4, <2>1, <2>2 DEF LetsGo, d
<1>5. ~Enqueue(s) /\ ~RefuseElevation(s) /\ ~RefuseMint(s) /\ ~RefuseCredential(s) /\ ~RecordCall(s)
  BY <1>2, EnqueueEffect, RefuseEffect, RefuseCredentialEffect, RecordEffect
<1>6. CASE ConsumeElevation(s)
  <2>1. Moves(s, "elevate", "fetch") /\ h'[s].gid = f.gid
    BY <1>6, ConsumeEffect
  <2> QED
    BY <2>1 DEF Moves, Admitted
<1>7. CASE FetchGrant(s)
  <2> DEFINE k == IF f.gid = "ablated" THEN Ablated(f.req) ELSE grants[f.gid]
  <2>1. k # NoGrant /\ Moves(s, "fetch", "recheck") /\ h'[s].got = GrantForMint(k, f.req)
    BY <1>2, <1>7, FetchEffect
  <2>2. /\ f.pc = "fetch" /\ h'[s].pc = "recheck" /\ h'[s].req = f.req /\ h'[s].path = f.path
    BY <2>1 DEF Moves
  <2>3. f.gid \in GrantRef
    BY <2>2, FrameParts DEF FrameOK
  <2>4. k.id = f.gid
    <3>1. Ablated(f.req).id = "ablated"
      BY DEF Ablated
    <3>2. CASE f.gid # "ablated"
      BY <2>1, <2>3, <3>2 DEF GrantRef, IssuedInv
    <3> QED
      BY <3>1, <3>2
  <2>5. k \in GrantOf(GrantRef, TaskRef)
    <3>1. CASE f.gid = "ablated"
      <4>1. f.req \in RequestType
        BY <2>2, FrameParts DEF At
      <4> QED
        BY <3>1, <4>1 DEF Ablated, GrantOf, GrantRef, TaskRef, RequestType
    <3>2. CASE f.gid # "ablated"
      BY <2>1, <2>3, <3>2 DEF GrantRef, TypeOK, Grant, GrantOf, TaskRef
    <3> QED
      BY <3>1, <3>2
  <2> HIDE DEF k
  <2>6. GrantForMint(k, f.req).id = k.id
    BY <2>5 DEF GrantForMint, GrantOf
  <2> QED
    BY <2>1, <2>2, <2>4, <2>6 DEF Admitted
<1>8. CASE Recheck(s)
  <2>1. Moves(s, "recheck", "mint") /\ h'[s].got = f.got
    BY <1>2, <1>8, RecheckEffect
  <2> QED
    BY <2>1 DEF Moves, Admitted
<1>9. CASE MintCredential(s)
  <2>1. Moves(s, "mint", "verify") /\ h'[s].cred = Credential(f.got, f.req)
    BY <1>9, MintEffect
  <2>2. h'[s].cred.grant = f.got.id
    BY <2>1 DEF Credential
  <2> QED
    BY <2>1, <2>2 DEF Moves, Admitted
<1>10. ~CheckPresented(s)
  <2>1. CheckPresented(s) => Moves(s, "presented", "verify")
    BY <1>2, CheckPresentedEffect
  <2>2. ~Moves(s, "presented", "verify")
    BY <1>0 DEF Moves, Admitted, PathKnown
  <2> QED
    BY <2>1, <2>2
<1>11. CASE AcceptCredential(s) \/ Execute(s) \/ LogExecution(s)
  <2>1. /\ CredsKept(s)
        /\ \/ Moves(s, "verify", "exec") \/ Moves(s, "exec", "log") \/ Moves(s, "log", "record")
    BY <1>2, <1>11, AcceptEffect, ExecuteEffect, LogExecutionEffect
  <2> QED
    BY <2>1 DEF Moves, CredsKept, Admitted
<1> QED
  BY <1>3, <1>4, <1>5, <1>6, <1>7, <1>8, <1>9, <1>10, <1>11 DEF Serve

\* What a step of a handler means to the places.
PlaceStep(s, t, id, cap) ==
  /\ tasks' = tasks /\ \A q \in Slot \ {s} : h'[q] = h[q]
  /\ \/ /\ execs' = execs /\ calls' = calls
        /\ Unrecorded(h[s], t, id) => Unrecorded(h'[s], t, id)
        /\ \/ Holds(h'[s], t, id, cap) => Holds(h[s], t, id, cap)
           \/ ~(Cardinality(CountedUnder(t, id)) >= cap)
     \/ Execute(s)
     \/ RecordCall(s)

\* A handler takes a place below the cap and gives it to its record
\* (service.go:199-305).
LEMMA ServePlaces ==
  ASSUME On("rate_count"), TypeOK, IssuedInv, FreshInv, NEW s \in Slot, Serve(s),
         NEW t \in TaskId, NEW g \in TaskReq[t], g.maxCalls > 0, NeverExpire(t)
  PROVE  PlaceStep(s, t, g.id, g.maxCalls)
<1> DEFINE f == h[s]
           id == g.id
           cap == g.maxCalls
<1>1. Admitted(h'[s], t, id) => Holds(f, t, id, cap)
  <2>1. LetsGo(s, t, id) => ~(Cardinality(ForGrant(f.hist, id)) >= cap)
    BY DecidedUnderCap DEF LetsGo
  <2>2. LetsGo(s, t, id) => f.pc = "decide" /\ f.path = "minted" /\ f.req.task = t
    BY DEF LetsGo, Decide, At
  <2>3. Admitted(h'[s], t, id) => Admitted(f, t, id) \/ LetsGo(s, t, id)
    BY ServeAdmits
  <2> QED
    BY <2>1, <2>2, <2>3 DEF Holds
<1>2. ASSUME OthersKept(s), h'[s].pc # "decide", Unrecorded(f, t, id) => Unrecorded(h'[s], t, id)
      PROVE  PlaceStep(s, t, id, cap)
  <2>1. Holds(h'[s], t, id, cap) => Holds(f, t, id, cap)
    BY <1>1, <1>2 DEF Holds
  <2> QED
    BY <1>2, <2>1 DEF OthersKept, PlaceStep
<1>3. ASSUME NEW from, StoreKept, execs' = execs, from \notin {"log", "record"},
             Ends(s, from) \/ (\E to : to # "decide" /\ Moves(s, from, to))
      PROVE  PlaceStep(s, t, id, cap)
  <2>1. OthersKept(s) /\ h'[s].pc # "decide" /\ f.pc \notin {"log", "record"}
    BY <1>3, IdleRun DEF Ends, Moves, StoreKept, OthersKept
  <2> QED
    BY <1>2, <2>1 DEF Unrecorded
<1>4. CASE ReadHistory(s)
  <2>1. /\ StoreKept /\ execs' = execs /\ Moves(s, "history", "decide")
        /\ h'[s].hist = {c \in calls : c.task = f.req.task}
    BY <1>4, ReadHistoryEffect
  <2>2. OthersKept(s) /\ f.pc = "history" /\ h'[s].pc = "decide" /\ h'[s].req = f.req
    BY <2>1 DEF Moves, StoreKept, OthersKept
  <2>3. f.req.task = t => ForGrant(h'[s].hist, id) = CountedUnder(t, id)
    BY <2>1 DEF ForGrant, CountedUnder
  <2>4. ~Admitted(h'[s], t, id) /\ ~Unrecorded(f, t, id)
    BY <2>2 DEF Admitted, Unrecorded
  <2>5. Holds(h'[s], t, id, cap) => ~(Cardinality(CountedUnder(t, id)) >= cap)
    BY <2>2, <2>3, <2>4 DEF Holds
  <2> QED
    BY <2>2, <2>4, <2>5 DEF PlaceStep, OthersKept
<1>5. CASE ReadGrants(s) \/ CheckLedger(s)
  <2>1. /\ StoreKept /\ execs' = execs
        /\ \/ Moves(s, "grants", "ledger") \/ Moves(s, "ledger", "ledger")
           \/ Moves(s, "ledger", "history")
    BY <1>5, ReadGrantsEffect, CheckLedgerEffect
  <2> QED
    BY <1>3, <2>1
<1>6. CASE Decide(s)
  <2>1. /\ StoreKept /\ execs' = execs
        /\ \/ Ends(s, "decide") \/ Moves(s, "decide", "fetch") \/ Moves(s, "decide", "elevate")
    BY <1>6, DecideEffect
  <2> QED
    BY <1>3, <2>1
<1>7. CASE Enqueue(s) \/ RefuseElevation(s) \/ RefuseMint(s) \/ RefuseCredential(s)
  <2>1. /\ StoreKept /\ execs' = execs
        /\ Ends(s, "elevate") \/ Ends(s, "mint") \/ Ends(s, "verify")
    BY <1>7, EnqueueEffect, RefuseEffect, RefuseCredentialEffect
  <2> QED
    BY <1>3, <2>1
<1>8. CASE ConsumeElevation(s) \/ FetchGrant(s) \/ Recheck(s)
  <2>1. /\ StoreKept /\ execs' = execs
        /\ \/ Moves(s, "elevate", "fetch") \/ Ends(s, "fetch") \/ Moves(s, "fetch", "recheck")
           \/ Ends(s, "recheck") \/ Moves(s, "recheck", "mint")
    BY <1>8, ConsumeEffect, FetchEffect, RecheckEffect
  <2> QED
    BY <1>3, <2>1
<1>9. CASE MintCredential(s) \/ CheckPresented(s) \/ AcceptCredential(s)
  <2>1. /\ StoreKept /\ execs' = execs
        /\ \/ Moves(s, "mint", "verify") \/ Moves(s, "presented", "verify")
           \/ Moves(s, "verify", "exec") \/ Ends(s, "presented")
    BY <1>9, MintEffect, CheckPresentedEffect, AcceptEffect
  <2>2. CASE Ends(s, "presented")
    BY <1>3, <2>1, <2>2
  <2>3. CASE \E from \in {"mint", "presented", "verify"}, to \in {"verify", "exec"} :
               Moves(s, from, to)
    BY <1>3, <2>1, <2>3
  <2> QED
    BY <2>1, <2>2, <2>3
<1>10. CASE Execute(s)
  BY <1>10, ExecuteEffect DEF Moves, StoreKept, PlaceStep
<1>11. CASE LogExecution(s)
  <2>1. /\ StoreKept /\ execs' = execs
        /\ \/ Moves(s, "log", "record") /\ CredsKept(s)
           \/ f.path # "minted" /\ Ends(s, "log")
    BY <1>11, LogExecutionEffect
  <2>2. Unrecorded(f, t, id) => Unrecorded(h'[s], t, id)
    BY <2>1 DEF Moves, CredsKept, Unrecorded
  <2>3. OthersKept(s) /\ h'[s].pc # "decide"
    BY <2>1, IdleRun DEF Moves, Ends, StoreKept, OthersKept
  <2> QED
    BY <1>2, <2>2, <2>3
<1>12. CASE RecordCall(s)
  BY <1>12, RecordEffect DEF Ends, PlaceStep
<1> QED
  BY <1>4, <1>5, <1>6, <1>7, <1>8, <1>9, <1>10, <1>11, <1>12 DEF Serve

\* A handler serves its call to the end and changes no task.
LEMMA ServeMoves ==
  ASSUME TypeOK, NEW s \in Slot, Serve(s)
  PROVE  /\ tasks' = tasks
         /\ (\E from, to : Moves(s, from, to)) \/ (\E from : Ends(s, from))
         /\ h'[s].pc = "record" => h'[s].path = "minted"
<1>0. \A from, to : (Moves(s, from, to) => h'[s].pc = to) /\ (Ends(s, from) => h'[s].pc = "idle")
  BY IdleRun DEF Moves, Ends
<1>1. CASE ReadGrants(s) \/ CheckLedger(s) \/ ReadHistory(s)
  BY <1>0, <1>1, ReadGrantsEffect, CheckLedgerEffect, ReadHistoryEffect DEF StoreKept
<1>2. CASE Decide(s)
  BY <1>0, <1>2, DecideEffect DEF StoreKept
<1>3. CASE Enqueue(s) \/ ConsumeElevation(s) \/ RefuseElevation(s) \/ RefuseMint(s)
  BY <1>0, <1>3, EnqueueEffect, ConsumeEffect, RefuseEffect DEF StoreKept
<1>4. CASE FetchGrant(s)
  BY <1>0, <1>4, FetchEffect DEF StoreKept
<1>5. CASE Recheck(s) \/ MintCredential(s) \/ CheckPresented(s)
  BY <1>0, <1>5, RecheckEffect, MintEffect, CheckPresentedEffect DEF StoreKept
<1>6. CASE AcceptCredential(s) \/ RefuseCredential(s) \/ Execute(s)
  BY <1>0, <1>6, AcceptEffect, RefuseCredentialEffect, ExecuteEffect DEF StoreKept
<1>7. CASE LogExecution(s) \/ RecordCall(s)
  BY <1>0, <1>7, LogExecutionEffect, RecordEffect DEF StoreKept, Moves
<1> QED
  BY <1>1, <1>2, <1>3, <1>4, <1>5, <1>6, <1>7 DEF Serve

\* What a handler records and runs is of a task that was created.
LEMMA LiveServe ==
  ASSUME TypeOK, IssuedInv, LiveInv, NEW s \in Slot, Serve(s)
  PROVE  LiveInv'
<1> DEFINE f == h[s]
<1>1. /\ tasks' = tasks
      /\ (\E from, to : Moves(s, from, to)) \/ (\E from : Ends(s, from))
      /\ h'[s].pc = "record" => h'[s].path = "minted"
  BY ServeMoves
<1>2. Idle.path # "minted"
  BY DEF Idle
<1>3. \A q \in Slot : /\ h'[q].path = "minted" => h'[q].req.task \in LiveTasks
                      /\ h'[q].pc = "record" => h'[q].path = "minted"
  BY <1>1, <1>2 DEF LiveInv, Moves, Ends
<1>4. LiveTasks' = LiveTasks
  BY <1>1 DEF LiveTasks
<1>5. calls' = calls \/ calls' = calls \cup {CallRecord(f)}
  BY ServeRuns, RecordEffect DEF ServesRun
<1>6. execs' = execs \/ (Execute(s) /\ execs' = execs \cup {Execution(f)})
  BY ServeRuns, ExecuteEffect DEF ServesRun
<1>7. IsFiniteSet(calls') /\ IsFiniteSet(execs')
  BY <1>5, <1>6, FS_AddElement DEF LiveInv
<1>8. \A x \in execs' :
        x.path = "minted" => x.req.task \in TaskId /\ tasks[x.req.task] # "new"
  <2>1. f.path = "minted" => f.req.task \in TaskId /\ tasks[f.req.task] # "new"
    BY DEF LiveInv, LiveTasks
  <2>2. Execution(f).path = f.path /\ Execution(f).req = f.req
    BY DEF Execution
  <2> QED
    BY <1>6, <2>1, <2>2 DEF LiveInv
<1> QED
  BY <1>1, <1>3, <1>4, <1>7, <1>8 DEF LiveInv

\* Records and executions of this boot are of tasks of this boot.
LEMMA LiveStep == TypeOK /\ IssuedInv /\ LiveInv /\ [Next]_vars => LiveInv'
<1> SUFFICES ASSUME TypeOK, IssuedInv, LiveInv, [Next]_vars PROVE LiveInv'
  OBVIOUS
<1>1. ASSUME h' = h, execs' = execs, calls' = calls, tasks' = tasks PROVE LiveInv'
  BY <1>1 DEF LiveInv, LiveTasks
<1>2. ASSUME NEW s \in Slot, NewCall(s) \/ PresentMalformed(s) PROVE LiveInv'
  <2>1. CASE PresentMalformed(s) \/ \E r \in Request : RefuseUnknownTask(s, r)
    BY <1>1, <2>1, TurnedAwayEffect DEF StoreKept
  <2>2. ASSUME NEW r \in Request, NEW e, Arrive(s, r, e) PROVE LiveInv'
    <3>1. StoreKept /\ execs' = execs /\ Begins(s, "grants", "minted", r) /\ r.task \in LiveTasks
      BY <2>2, ArriveEffect
    <3> QED
      BY <3>1 DEF Begins, LiveInv, LiveTasks, StoreKept
  <2>3. ASSUME NEW r \in Request, NEW c \in released, Present(s, r, c) PROVE LiveInv'
    <3>1. StoreKept /\ execs' = execs /\ Begins(s, "presented", "presented", r)
      BY <2>3, PresentEffect
    <3> QED
      BY <3>1 DEF Begins, LiveInv, LiveTasks, StoreKept
  <2> QED
    BY <1>2, <2>1, <2>2, <2>3 DEF NewCall
<1>3. ASSUME NEW t \in TaskId, CreateTask(t) PROVE LiveInv'
  <2>1. /\ tasks[t] = "new" /\ tasks' = [tasks EXCEPT ![t] = "live"]
        /\ h' = h /\ execs' = execs /\ calls' = calls /\ tasks \in [TaskId -> {"new", "live", "lost"}]
    BY <1>3 DEF CreateTask, TypeOK
  <2>2. \A u \in TaskId : tasks'[u] = "live" \/ tasks'[u] = tasks[u]
    BY <2>1
  <2> QED
    BY <2>1, <2>2 DEF LiveInv, LiveTasks
<1>4. CASE Operator
  <2>1. (\E t \in TaskId : CreateTask(t))
        \/ (h' = h /\ execs' = execs /\ calls' = calls /\ tasks' = tasks)
    BY <1>4 DEF Operator, RevokeMark, RevokeCommit, Approve, DenyElevation, Resolve, MintOnly,
                storeVars
  <2> QED
    BY <1>1, <1>3, <2>1
<1>5. CASE Tick \/ UNCHANGED vars
  BY <1>1, <1>5 DEF Tick, vars, storeVars
<1>6. CASE Restart
  <2>1. /\ h' = [s \in Slot |-> Idle] /\ execs' = execs /\ calls' = {}
        /\ tasks' = [t \in TaskId |-> IF tasks[t] = "live" THEN "lost" ELSE tasks[t]]
    BY <1>6 DEF Restart
  <2>2. Idle.path # "minted" /\ Idle.pc # "record"
    BY DEF Idle
  <2> QED
    BY <2>1, <2>2, FS_EmptySet DEF LiveInv
<1> QED
  BY <1>2, <1>4, <1>5, <1>6, LiveServe DEF Next

\* The places are kept by a step of a handler.
LEMMA PlacesServe ==
  ASSUME IsFiniteSet(Slot), TypeOK, RunInv, LiveInv, NEW s \in Slot, Serve(s),
         NEW t \in TaskId, NEW id, NEW cap \in Nat \ {0},
         PlaceStep(s, t, id, cap), PlacesInv(t, id, cap)
  PROVE  PlacesInv(t, id, cap)'
<1> DEFINE f == h[s]
           ran == ExecutedUnder(t, id)
           rec == CountedUnder(t, id)
           open == Unrecorders(t, id)
           held == Holders(t, id, cap)
<1>1. IsFiniteSet(ran) /\ IsFiniteSet(rec)
  BY Smaller DEF LiveInv, ExecutedUnder, CountedUnder
<1>2. tasks' = tasks /\ \A q \in Slot \ {s} : h'[q] = h[q]
  BY DEF PlaceStep
<1>3. /\ open \subseteq Slot /\ open' \subseteq Slot
      /\ held \subseteq Slot /\ held' \subseteq Slot
  BY DEF Holders, Unrecorders
<1>4. CASE tasks[t] = "lost"
  <2>1. ~(f.path = "minted" /\ f.req.task = t)
    BY <1>4 DEF LiveInv, LiveTasks
  <2>2. execs' = execs \/ execs' = execs \cup {Execution(f)}
    BY ServeRuns, ExecuteEffect DEF ServesRun
  <2>3. ExecutedUnder(t, id)' = ExecutedUnder(t, id)
    BY <2>1, <2>2 DEF ExecutedUnder, Execution
  <2> QED
    BY <1>2, <1>4, <2>3 DEF PlacesInv
<1>5. CASE tasks[t] # "lost"
  <2>1. Balanced(ran, rec, open, held, cap)
    BY <1>5 DEF PlacesInv
  <2>2. CASE /\ execs' = execs /\ calls' = calls
             /\ Unrecorded(f, t, id) => Unrecorded(h'[s], t, id)
             /\ \/ Holds(h'[s], t, id, cap) => Holds(f, t, id, cap)
                \/ ~(Cardinality(CountedUnder(t, id)) >= cap)
    <3>1. ran' = ran /\ rec' = rec
      BY <2>2 DEF ExecutedUnder, CountedUnder
    <3>2. open \subseteq open'
      BY <1>2, <2>2 DEF Unrecorders
    <3>3. Cardinality(rec) \in Nat
      BY <1>1, FS_CardinalityType
    <3>4. held' \subseteq held \/ Cardinality(rec) < cap
      <4>1. CASE Holds(h'[s], t, id, cap) => Holds(f, t, id, cap)
        BY <1>2, <4>1 DEF Holders
      <4>2. CASE ~(Cardinality(CountedUnder(t, id)) >= cap)
        BY <3>3, <4>2
      <4> QED
        BY <2>2, <4>1, <4>2
    <3> HIDE DEF ran, rec, open, held
    <3>5. Balanced(ran, rec, open', held', cap)
      BY <1>1, <1>3, <2>1, <3>2, <3>4, BalanceKept
    <3> QED
      BY <1>2, <1>5, <3>1, <3>5 DEF PlacesInv, ran, rec, open, held
  <2>3. CASE Execute(s)
    <3>1. /\ StoreKept /\ Moves(s, "exec", "log") /\ CredsKept(s)
          /\ execs' = IF ToolRuns(f) THEN execs \cup {Execution(f)} ELSE execs
      BY <2>3, ExecuteEffect
    <3>2. rec' = rec
      BY <3>1 DEF CountedUnder, StoreKept
    <3>3. ~Unrecorded(f, t, id) /\ (Holds(h'[s], t, id, cap) => Holds(f, t, id, cap))
      BY <3>1 DEF Moves, CredsKept, Unrecorded, Admitted, Holds
    <3>4. open \subseteq open' /\ s \notin open /\ held' \subseteq held
      BY <1>2, <3>3 DEF Unrecorders, Holders
    <3>5. ran' = ran \/ (ran' = ran \cup {Execution(f)} /\ s \in open')
      <4>1. CASE f.path = "minted" /\ f.req.task = t /\ f.cred.grant = id
        <5>1. Unrecorded(h'[s], t, id)
          BY <3>1, <4>1 DEF Moves, CredsKept, Unrecorded
        <5>2. s \in open'
          BY <5>1 DEF Unrecorders
        <5>3. ran' = ran \/ ran' = ran \cup {Execution(f)}
          BY <3>1, <4>1 DEF ExecutedUnder, Execution
        <5> QED
          BY <5>2, <5>3
      <4>2. CASE ~(f.path = "minted" /\ f.req.task = t /\ f.cred.grant = id)
        BY <3>1, <4>2 DEF ExecutedUnder, Execution
      <4> QED
        BY <4>1, <4>2
    <3> DEFINE x == Execution(f)
    <3> HIDE DEF ran, rec, open, held, x
    <3>6. CASE ran' = ran
      <4>1. Balanced(ran, rec, open', held', cap)
        BY <1>1, <1>3, <2>1, <3>4, BalanceKept
      <4> QED
        BY <1>2, <1>5, <3>2, <3>6, <4>1 DEF PlacesInv, ran, rec, open, held
    <3>7. CASE ran' = ran \cup {x} /\ s \in open'
      <4>1. open \cup {s} \subseteq open'
        BY <3>4, <3>7
      <4>2. Balanced(ran \cup {x}, rec, open', held', cap)
        BY <1>1, <1>3, <2>1, <3>4, <4>1, BalanceRun
      <4> QED
        BY <1>2, <1>5, <3>2, <3>7, <4>2 DEF PlacesInv, ran, rec, open, held
    <3> QED
      BY <3>5, <3>6, <3>7 DEF x
  <2>4. CASE RecordCall(s)
    <3> DEFINE c == CallRecord(f)
    <3>1. /\ execs' = execs /\ Ends(s, "record") /\ calls' = calls \cup {c}
      BY <2>4, RecordEffect
    <3>2. /\ c.run = f.run /\ c.task = f.req.task /\ c.grant = f.cred.grant
      BY DEF CallRecord
    <3>3. c \notin calls
      BY <3>2 DEF RunInv, CallsRun
    <3> HIDE DEF c
    <3>4. ran' = ran
      BY <3>1 DEF ExecutedUnder
    <3>5. ~Holds(h'[s], t, id, cap)
      BY <3>1, IdleRun DEF Ends, Admitted, Holds
    <3>6. held' \subseteq held \ {s} /\ open \ {s} \subseteq open'
      BY <1>2, <3>5 DEF Holders, Unrecorders
    <3>7. CASE f.path = "minted" /\ f.req.task = t /\ f.cred.grant = id
      <4>1. Holds(f, t, id, cap) /\ Unrecorded(f, t, id)
        BY <3>1, <3>7 DEF Ends, Admitted, Holds, Unrecorded
      <4>2. s \in held /\ s \in open
        BY <4>1 DEF Holders, Unrecorders
      <4>3. rec' = rec \cup {c} /\ c \notin rec
        BY <3>1, <3>2, <3>3, <3>7 DEF CountedUnder
      <4> HIDE DEF ran, rec, open, held
      <4>4. Balanced(ran, rec \cup {c}, open', held', cap)
        BY <1>1, <1>3, <2>1, <3>6, <4>2, <4>3, BalanceRecord
      <4> QED
        BY <1>2, <1>5, <3>4, <4>3, <4>4 DEF PlacesInv, ran, rec, open, held
    <3>8. CASE f.req.task # t \/ f.cred.grant # id
      <4>1. rec' = rec
        BY <3>1, <3>2, <3>8 DEF CountedUnder
      <4>2. ~Unrecorded(f, t, id)
        BY <3>8 DEF Unrecorded
      <4>3. open \subseteq open'
        BY <3>6, <4>2 DEF Unrecorders
      <4> HIDE DEF ran, rec, open, held
      <4>4. Balanced(ran, rec, open', held', cap)
        BY <1>1, <1>3, <2>1, <3>6, <4>3, BalanceKept
      <4> QED
        BY <1>2, <1>5, <3>4, <4>1, <4>4 DEF PlacesInv, ran, rec, open, held
    <3>9. f.path = "minted"
      BY <3>1 DEF Ends, LiveInv
    <3> QED
      BY <3>7, <3>8, <3>9
  <2> QED
    BY <2>2, <2>3, <2>4 DEF PlaceStep
<1> QED
  BY <1>4, <1>5

\* What comes between the steps of handlers frees places and takes none.
LEMMA PlacesStay ==
  ASSUME IsFiniteSet(Slot), LiveInv, NEW t, NEW id, NEW cap \in Nat \ {0},
         PlacesInv(t, id, cap), execs' = execs, calls' = calls,
         tasks'[t] = "lost" <=> tasks[t] = "lost",
         \A s \in Slot : \/ h'[s] = h[s]
                         \/ ~Unrecorded(h[s], t, id) /\ ~Holds(h'[s], t, id, cap)
  PROVE  PlacesInv(t, id, cap)'
<1> DEFINE ran == ExecutedUnder(t, id)
           rec == CountedUnder(t, id)
           open == Unrecorders(t, id)
           held == Holders(t, id, cap)
<1>1. IsFiniteSet(ran) /\ IsFiniteSet(rec)
  BY Smaller DEF LiveInv, ExecutedUnder, CountedUnder
<1>2. ran' = ran /\ rec' = rec
  BY DEF ExecutedUnder, CountedUnder
<1>3. /\ open \subseteq Slot /\ open' \subseteq Slot
      /\ held \subseteq Slot /\ held' \subseteq Slot
      /\ open \subseteq open' /\ held' \subseteq held
  BY DEF Holders, Unrecorders
<1>4. CASE tasks[t] = "lost"
  BY <1>2, <1>4 DEF PlacesInv
<1>5. CASE tasks[t] # "lost"
  <2>1. Balanced(ran, rec, open, held, cap)
    BY <1>5 DEF PlacesInv
  <2> HIDE DEF ran, rec, open, held
  <2>2. Balanced(ran, rec, open', held', cap)
    BY <1>1, <1>3, <2>1, BalanceKept
  <2> QED
    BY <1>2, <1>5, <2>2 DEF PlacesInv, ran, rec, open, held
<1> QED
  BY <1>4, <1>5

\* A balance bounds the executions, as who has not recorded holds a place.
LEMMA BalanceBounds ==
  ASSUME IsFiniteSet(Slot), LiveInv, NEW t, NEW id, NEW cap \in Nat \ {0},
         PlacesInv(t, id, cap)
  PROVE  Cardinality(ExecutedUnder(t, id)) <= cap + Cardinality(Slot) - 1
<1> DEFINE ran == ExecutedUnder(t, id)
           rec == CountedUnder(t, id)
           open == Unrecorders(t, id)
           held == Holders(t, id, cap)
<1>1. /\ Cardinality(ran) \in Nat /\ Cardinality(rec) \in Nat
  BY Smaller DEF LiveInv, ExecutedUnder, CountedUnder
<1>2. open \subseteq held /\ held \subseteq Slot
  BY DEF Holders, Unrecorders, Holds, Admitted, Unrecorded
<1>3. /\ Cardinality(open) <= Cardinality(held)
      /\ Cardinality(open) \in Nat /\ Cardinality(held) \in Nat
  BY <1>2, Smaller
<1>4. Cardinality(Slot) \in Nat
  BY FS_CardinalityType
<1>5. CASE tasks[t] = "lost"
  BY <1>5 DEF PlacesInv
<1>6. CASE tasks[t] # "lost"
  <2>1. /\ Cardinality(ran) <= Cardinality(rec) + Cardinality(open)
        /\ Cardinality(rec) + Cardinality(held) <= cap + Cardinality(Slot) - 1
    BY <1>6 DEF PlacesInv, Balanced
  <2> HIDE DEF ran, rec, open, held
  <2>2. Cardinality(ran) <= cap + Cardinality(Slot) - 1
    BY <1>1, <1>3, <1>4, <2>1
  <2> QED
    BY <2>2 DEF ran
<1> QED
  BY <1>5, <1>6

\* Nothing has happened under a task that does not exist.
LEMMA EmptyBalance ==
  ASSUME IsFiniteSet(Slot), NEW cap \in Nat \ {0}
  PROVE  Balanced({}, {}, {}, {}, cap)
<1>1. Cardinality({}) = 0 /\ Cardinality(Slot) \in Nat
  BY FS_EmptySet, FS_CardinalityType
<1>2. /\ 0 <= 0 + 0
      /\ 0 + 0 <= cap + Cardinality(Slot) - 1
  BY <1>1
<1> QED
  BY <1>1, <1>2 DEF Balanced

\* A restart empties the history and ends the calls.
LEMMA PlacesRestart ==
  ASSUME IsFiniteSet(Slot), TypeOK, LiveInv, NEW t \in TaskId, NEW id, NEW cap \in Nat \ {0},
         PlacesInv(t, id, cap), Restart
  PROVE  PlacesInv(t, id, cap)'
<1>1. /\ h' = [s \in Slot |-> Idle] /\ execs' = execs /\ calls' = {}
      /\ tasks' = [u \in TaskId |-> IF tasks[u] = "live" THEN "lost" ELSE tasks[u]]
  BY DEF Restart
<1>2. ExecutedUnder(t, id)' = ExecutedUnder(t, id)
  BY <1>1 DEF ExecutedUnder
<1>3. CASE tasks[t] \in {"live", "lost"}
  <2>1. tasks'[t] = "lost"
    BY <1>1, <1>3
  <2> QED
    BY <1>2, <2>1, BalanceBounds DEF PlacesInv
<1>4. CASE tasks[t] = "new"
  <2>1. tasks'[t] # "lost"
    BY <1>1, <1>4
  <2>2. ExecutedUnder(t, id) = {}
    BY <1>4 DEF LiveInv, ExecutedUnder
  <2>3. CountedUnder(t, id)' = {}
    BY <1>1 DEF CountedUnder
  <2>4. Unrecorders(t, id)' = {} /\ Holders(t, id, cap)' = {}
    BY <1>1, IdleRun DEF Unrecorders, Holders, Unrecorded, Admitted, Holds
  <2> QED
    BY <1>2, <2>1, <2>2, <2>3, <2>4, EmptyBalance DEF PlacesInv
<1> QED
  BY <1>3, <1>4 DEF TypeOK

\* The grants whose cap is at stake.
Capped(t) == {g \in TaskReq[t] : g.maxCalls > 0 /\ NeverExpire(t)}

CapInv == \A t \in TaskId : \A g \in Capped(t) : PlacesInv(t, g.id, g.maxCalls)

\* What a capped grant has.
LEMMA CapType ==
  ASSUME NEW t \in TaskId, NEW g \in Capped(t)
  PROVE  g.maxCalls \in Nat \ {0} /\ g \in TaskReq[t] /\ NeverExpire(t)
<1>1. TaskReq[t] \subseteq Grant
  BY BrokerAssumption
<1>2. g.maxCalls \in Nat /\ g.maxCalls > 0
  BY <1>1 DEF Capped, Grant, GrantOf
<1> QED
  BY <1>2 DEF Capped

\* Records and places pass no cap by more than the other slots.
LEMMA CapStep ==
  ASSUME IsFiniteSet(Slot), On("rate_count")
  PROVE  TypeOK /\ RunInv /\ IssuedInv /\ FreshInv /\ LiveInv /\ CapInv /\ [Next]_vars => CapInv'
<1> SUFFICES ASSUME TypeOK, RunInv, IssuedInv, FreshInv, LiveInv, CapInv, [Next]_vars,
                    NEW t \in TaskId, NEW g \in Capped(t)
             PROVE  PlacesInv(t, g.id, g.maxCalls)'
  BY DEF CapInv, Capped, NeverExpire
<1> DEFINE id == g.id
           cap == g.maxCalls
<1>0. PlacesInv(t, id, cap) /\ cap \in Nat \ {0} /\ g \in TaskReq[t] /\ NeverExpire(t)
  BY CapType DEF CapInv
<1>1. g.maxCalls > 0
  BY DEF Capped
<1>2. ASSUME NEW s \in Slot, Serve(s) PROVE PlacesInv(t, id, cap)'
  BY <1>0, <1>1, <1>2, ServePlaces, PlacesServe
<1>3. ASSUME h' = h, execs' = execs, calls' = calls, tasks'[t] = "lost" <=> tasks[t] = "lost"
      PROVE  PlacesInv(t, id, cap)'
  <2>1. \A s \in Slot : h'[s] = h[s]
    BY <1>3
  <2> HIDE DEF id, cap
  <2> QED
    BY <1>0, <1>3, <2>1, PlacesStay
<1>4. ASSUME NEW s \in Slot, NewCall(s) \/ PresentMalformed(s) PROVE PlacesInv(t, id, cap)'
  <2>1. CASE PresentMalformed(s) \/ \E r \in Request : RefuseUnknownTask(s, r)
    BY <1>3, <2>1, TurnedAwayEffect DEF StoreKept
  <2>2. ASSUME NEW pc, NEW path, NEW r, Begins(s, pc, path, r), StoreKept, execs' = execs,
               pc \in {"grants", "presented"}
        PROVE  PlacesInv(t, id, cap)'
    <3>1. ~Unrecorded(h[s], t, id) /\ ~Holds(h'[s], t, id, cap)
      BY <2>2 DEF Begins, Unrecorded, Admitted, Holds
    <3>2. \A q \in Slot \ {s} : h'[q] = h[q]
      BY <2>2 DEF Begins
    <3>3. \A q \in Slot : h'[q] = h[q] \/ (~Unrecorded(h[q], t, id) /\ ~Holds(h'[q], t, id, cap))
      BY <3>1, <3>2
    <3>4. execs' = execs /\ calls' = calls /\ (tasks'[t] = "lost" <=> tasks[t] = "lost")
      BY <2>2 DEF StoreKept
    <3> HIDE DEF id, cap
    <3> QED
      BY <1>0, <3>3, <3>4, PlacesStay
  <2>3. ASSUME NEW r \in Request, NEW e, Arrive(s, r, e) PROVE PlacesInv(t, id, cap)'
    BY <2>2, <2>3, ArriveEffect
  <2>4. ASSUME NEW r \in Request, NEW c \in released, Present(s, r, c)
        PROVE  PlacesInv(t, id, cap)'
    BY <2>2, <2>4, PresentEffect
  <2> QED
    BY <1>4, <2>1, <2>3, <2>4 DEF NewCall
<1>5. CASE Operator
  <2>1. ASSUME NEW u \in TaskId, CreateTask(u) PROVE PlacesInv(t, id, cap)'
    <3>1. /\ tasks[u] = "new" /\ tasks' = [tasks EXCEPT ![u] = "live"]
          /\ h' = h /\ execs' = execs /\ calls' = calls
          /\ tasks \in [TaskId -> {"new", "live", "lost"}]
      BY <2>1 DEF CreateTask, TypeOK
    <3>2. tasks'[t] = "lost" <=> tasks[t] = "lost"
      BY <3>1
    <3> QED
      BY <1>3, <3>1, <3>2
  <2>2. (\E u \in TaskId : CreateTask(u))
        \/ (h' = h /\ execs' = execs /\ calls' = calls /\ tasks' = tasks)
    BY <1>5 DEF Operator, RevokeMark, RevokeCommit, Approve, DenyElevation, Resolve, MintOnly,
                storeVars
  <2> QED
    BY <1>3, <2>1, <2>2
<1>6. CASE Tick \/ UNCHANGED vars
  BY <1>3, <1>6 DEF Tick, vars, storeVars
<1>7. CASE Restart
  BY <1>0, <1>7, PlacesRestart
<1> QED
  BY <1>2, <1>4, <1>5, <1>6, <1>7 DEF Next

\* No place is taken at the start.
LEMMA CapInit ==
  ASSUME IsFiniteSet(Slot)
  PROVE  Init => CapInv /\ LiveInv
<1> SUFFICES ASSUME Init PROVE CapInv /\ LiveInv
  OBVIOUS
<1>1. /\ execs = {} /\ calls = {} /\ tasks = [t \in TaskId |-> "new"]
      /\ h = [s \in Slot |-> Idle]
  BY DEF Init
<1>2. Idle.path # "minted" /\ Idle.pc = "idle"
  BY DEF Idle
<1>3. LiveInv
  BY <1>1, <1>2, FS_EmptySet DEF LiveInv
<1>4. ASSUME NEW t \in TaskId, NEW g \in Capped(t) PROVE PlacesInv(t, g.id, g.maxCalls)
  <2> DEFINE id == g.id
             cap == g.maxCalls
  <2>1. ExecutedUnder(t, id) = {} /\ CountedUnder(t, id) = {}
    BY <1>1 DEF ExecutedUnder, CountedUnder
  <2>2. Unrecorders(t, id) = {} /\ Holders(t, id, cap) = {}
    BY <1>1, <1>2 DEF Unrecorders, Holders, Unrecorded, Admitted, Holds
  <2>3. cap \in Nat \ {0}
    BY CapType
  <2>4. tasks[t] # "lost"
    BY <1>1
  <2> QED
    BY <2>1, <2>2, <2>3, <2>4, EmptyBalance DEF PlacesInv
<1> QED
  BY <1>3, <1>4 DEF CapInv

\* Calls in flight pass a cap on calls by no more than the other calls that
\* can be in progress, for any number of handlers (service.go:199, read, to
\* service.go:300, recorded).
THEOREM CapsAreOvershotByOthers ==
  ASSUME IsFiniteSet(Slot)
  PROVE  Spec => []CapOvershootBounded
<1>1. CASE On("rate_count")
  <2>1. ASSUME CapInv, LiveInv PROVE CapOvershootBounded
    <3>1. ASSUME NEW t \in TaskId, NEW g \in Capped(t)
          PROVE  Cardinality(ExecutedUnder(t, g.id)) <= g.maxCalls + Cardinality(Slot) - 1
      BY <2>1, <3>1, CapType, BalanceBounds DEF CapInv
    <3> QED
      BY <3>1 DEF CapOvershootBounded, Capped
  <2>2. Init => CapInv /\ LiveInv
    BY CapInit
  <2>3. /\ TypeOK /\ RunInv /\ IssuedInv /\ FreshInv /\ LiveInv /\ CapInv /\ [Next]_vars => CapInv'
    BY <1>1, CapStep
  <2>4. CapInv /\ LiveInv => CapOvershootBounded
    BY <2>1
  <2> QED
    BY <2>2, <2>3, <2>4, TypeCorrect, RunInit, RunStep, IssuedInit, IssuedStep, FreshInit,
       FreshStep, LiveStep, PTL DEF Spec
<1>2. CASE ~On("rate_count")
  <2>1. CapOvershootBounded
    BY <1>2 DEF CapOvershootBounded
  <2> QED
    BY <2>1, PTL
<1> QED
  BY <1>1, <1>2

----------------------------------------------------------------------------
(* The caveats of a session *)

\* One call at a time; the count and the engine agree on the grant; and no id
\* names grants of two tasks, as the count reads the window of the stored grant.
OneAtATime ==
  /\ \A s, q \in Slot : s = q
  /\ \A t \in TaskId : NeverExpire(t)
  /\ \A t, u \in TaskId : \A g \in TaskReq[t], k \in TaskReq[u] : g.id = k.id => t = u

StoredIn(store, g) == g.id \in GrantId /\ store[g.id] # NoGrant /\ store[g.id].task = g.task

\* What a handler read of the history and the grants is still true, and its
\* call is the latest.
FrameCurrent(f, past, store) ==
  /\ f.pc # "idle" => \A c \in past : c.run < f.run
  /\ f.pc = "decide" => f.hist = {c \in past : c.task = f.req.task}
  /\ f.pc \in {"ledger", "history", "decide"} =>
       \A i \in DOMAIN f.view : StoredIn(store, f.view[i])

SessionInv ==
  /\ \A c \in calls : c.at <= now
  /\ \A s \in Slot : FrameCurrent(h[s], calls, grants)

\* An idle slot has read nothing that could be old.
LEMMA IdleCurrent ==
  ASSUME NEW past, NEW store
  PROVE  FrameCurrent(Idle, past, store)
BY DEF FrameCurrent, Idle

\* A step of a handler changes the store only to record its call.
LEMMA ServeStore ==
  ASSUME TypeOK, NEW s \in Slot, Serve(s)
  PROVE  /\ grants' = grants /\ now' = now
         /\ calls' = calls \/ RecordCall(s)
<1>1. CASE ReadGrants(s) \/ CheckLedger(s) \/ ReadHistory(s)
  BY <1>1, ReadGrantsEffect, CheckLedgerEffect, ReadHistoryEffect DEF StoreKept, EnvKept
<1>2. CASE Decide(s)
  BY <1>2, DecideEffect DEF StoreKept, EnvKept
<1>3. CASE Enqueue(s) \/ ConsumeElevation(s) \/ RefuseElevation(s) \/ RefuseMint(s)
  BY <1>3, EnqueueEffect, ConsumeEffect, RefuseEffect DEF StoreKept, EnvKept
<1>4. CASE FetchGrant(s)
  BY <1>4, FetchEffect DEF StoreKept, EnvKept
<1>5. CASE Recheck(s) \/ MintCredential(s) \/ CheckPresented(s)
  BY <1>5, RecheckEffect, MintEffect, CheckPresentedEffect DEF StoreKept, EnvKept
<1>6. CASE AcceptCredential(s) \/ RefuseCredential(s) \/ Execute(s)
  BY <1>6, AcceptEffect, RefuseCredentialEffect, ExecuteEffect DEF StoreKept, EnvKept
<1>7. CASE LogExecution(s) \/ RecordCall(s)
  BY <1>7, LogExecutionEffect, RecordEffect DEF StoreKept, EnvKept
<1> QED
  BY <1>1, <1>2, <1>3, <1>4, <1>5, <1>6, <1>7 DEF Serve

\* A handler that still decides has just read the grants or the history, or
\* has compared a grant with the ledger.
LEMMA ServeView ==
  ASSUME TypeOK, NEW s \in Slot, Serve(s), h'[s].pc \in {"ledger", "history", "decide"}
  PROVE  \/ ReadGrants(s) /\ h'[s].pc = "ledger"
         \/ CheckLedger(s) /\ h'[s].pc # "decide"
         \/ ReadHistory(s)
<1>1. \A from : ~Ends(s, from)
  BY IdleRun DEF Ends
<1>2. \A from, to : Moves(s, from, to) => h'[s].pc = to
  BY DEF Moves
<1>3. ~Decide(s)
  BY <1>1, <1>2, DecideEffect
<1>4. ~Enqueue(s) /\ ~ConsumeElevation(s) /\ ~RefuseElevation(s) /\ ~RefuseMint(s)
  BY <1>1, <1>2, EnqueueEffect, ConsumeEffect, RefuseEffect
<1>5. ~FetchGrant(s)
  BY <1>1, <1>2, FetchEffect
<1>6. ~Recheck(s) /\ ~MintCredential(s) /\ ~CheckPresented(s)
  BY <1>1, <1>2, RecheckEffect, MintEffect, CheckPresentedEffect
<1>7. ~AcceptCredential(s) /\ ~RefuseCredential(s) /\ ~Execute(s)
  BY <1>1, <1>2, AcceptEffect, RefuseCredentialEffect, ExecuteEffect
<1>8. ~LogExecution(s) /\ ~RecordCall(s)
  BY <1>1, <1>2, LogExecutionEffect, RecordEffect
<1>9. ReadGrants(s) => h'[s].pc = "ledger"
  BY <1>2, ReadGrantsEffect
<1>10. CheckLedger(s) => h'[s].pc # "decide"
  BY <1>2, CheckLedgerEffect
<1> QED
  BY <1>3, <1>4, <1>5, <1>6, <1>7, <1>8, <1>9, <1>10 DEF Serve

\* The grants a handler reads are stored.
LEMMA OrdersStored ==
  ASSUME TypeOK, IssuedInv, NEW t, NEW view \in GrantOrders(t), NEW i \in DOMAIN view
  PROVE  StoredIn(grants, view[i])
<1> DEFINE ids == TaskGrants(t)
           n == Cardinality(ids)
<1>1. PICK o \in [1 .. n -> ids] : view = [j \in 1 .. n |-> grants[o[j]]]
  BY DEF GrantOrders
<1>2. \A g \in ids : g \in GrantId /\ grants[g] # NoGrant /\ grants[g].task = t
  BY DEF TaskGrants
<1> HIDE DEF n, ids
<1>3. i \in 1 .. n /\ o[i] \in ids /\ view[i] = grants[o[i]]
  BY <1>1
<1>4. grants[o[i]].id = o[i]
  BY <1>2, <1>3 DEF IssuedInv
<1> QED
  BY <1>2, <1>3, <1>4 DEF StoredIn

\* With one call at a time what the handler read is still so.
LEMMA SessionServe ==
  ASSUME OneAtATime, TypeOK, RunInv, IssuedInv, SessionInv, NEW s \in Slot, Serve(s)
  PROVE  SessionInv'
<1> DEFINE f == h[s]
<1>0. /\ FrameCurrent(f, calls, grants) /\ \A c \in calls : c.at <= now
      /\ f \in Frame
  BY FrameParts DEF SessionInv
<1>1. grants' = grants /\ now' = now /\ (calls' = calls \/ RecordCall(s))
  BY ServeStore
<1>2. f.pc # "idle" /\ (h'[s] = Idle \/ (h'[s].run = f.run /\ h'[s].pc # "idle"))
  BY ServeRuns DEF ServesRun
<1>3. \A q \in Slot : q = s
  BY DEF OneAtATime
<1>4. ASSUME FrameCurrent(h'[s], calls', grants), \A c \in calls' : c.at <= now
      PROVE  SessionInv'
  BY <1>1, <1>3, <1>4 DEF SessionInv
<1>5. CASE h'[s] = Idle
  <2>1. CallRecord(f).at = now
    BY DEF CallRecord
  <2>2. \A c \in calls' : c.at <= now
    <3>1. calls' = calls \/ calls' = calls \cup {CallRecord(f)}
      BY <1>1, RecordEffect
    <3>2. now \in Nat
      BY DEF TypeOK
    <3> QED
      BY <1>0, <2>1, <3>1, <3>2
  <2> QED
    BY <1>4, <1>5, <2>2, IdleCurrent
<1>6. CASE h'[s] # Idle
  <2>1. calls' = calls
    BY <1>1, <1>6, RecordEffect DEF Ends
  <2>2. \A c \in calls : c.run < h'[s].run
    BY <1>0, <1>2, <1>6 DEF FrameCurrent
  <2>3. ASSUME h'[s].pc \in {"ledger", "history", "decide"}
        PROVE  /\ \A i \in DOMAIN h'[s].view : StoredIn(grants, h'[s].view[i])
               /\ h'[s].pc = "decide" => h'[s].hist = {c \in calls : c.task = h'[s].req.task}
    <3>1. CASE ReadGrants(s) /\ h'[s].pc = "ledger"
      BY <3>1, ReadGrantsEffect, OrdersStored
    <3>2. CASE CheckLedger(s) /\ h'[s].pc # "decide"
      <4>1. f.pc = "ledger"
        BY <3>2, CheckLedgerEffect DEF Moves
      <4>2. \A i \in DOMAIN f.view : StoredIn(grants, f.view[i])
        BY <1>0, <4>1 DEF FrameCurrent
      <4>3. CASE h'[s].view = f.view
        BY <3>2, <4>2, <4>3
      <4>4. CASE /\ f.next \in DOMAIN f.view
                 /\ \E seen \in BOOLEAN : h'[s].view = [f.view EXCEPT ![f.next].revoked = seen]
        <5>1. PICK seen \in BOOLEAN : h'[s].view = [f.view EXCEPT ![f.next].revoked = seen]
          BY <4>4
        <5> DEFINE v == h'[s].view
        <5>2. DOMAIN v = DOMAIN f.view /\ \A j \in DOMAIN f.view : j # f.next => v[j] = f.view[j]
          BY <5>1
        <5>3. f.view[f.next] \in Grant
          <6>1. f.view \in Seq(Grant)
            BY <1>0 DEF Frame
          <6>2. f.next \in 1 .. Len(f.view)
            BY <4>4, <6>1, LenProperties
          <6> QED
            BY <6>1, <6>2, ElementOfSeq
        <5>4. v[f.next] = [f.view[f.next] EXCEPT !.revoked = seen]
          BY <4>4, <5>1
        <5>5. v[f.next].id = f.view[f.next].id /\ v[f.next].task = f.view[f.next].task
          BY <5>3, <5>4 DEF Grant, GrantOf
        <5> HIDE DEF v
        <5>6. \A i \in DOMAIN v : v[i].id = f.view[i].id /\ v[i].task = f.view[i].task
          BY <5>2, <5>5
        <5>7. \A i \in DOMAIN v : StoredIn(grants, v[i])
          BY <4>2, <5>2, <5>6 DEF StoredIn
        <5> QED
          BY <3>2, <5>7 DEF v
      <4> QED
        BY <3>2, <4>3, <4>4, CheckLedgerEffect
    <3>3. CASE ReadHistory(s)
      BY <1>0, <3>3, ReadHistoryEffect DEF Moves, FrameCurrent
    <3> QED
      BY <2>3, <3>1, <3>2, <3>3, ServeView
  <2>4. FrameCurrent(h'[s], calls, grants)
    BY <2>2, <2>3 DEF FrameCurrent
  <2> QED
    BY <1>0, <1>4, <2>1, <2>4
<1> QED
  BY <1>5, <1>6

\* A grant with an id is a stored one.
LEMMA NamedIsStored ==
  ASSUME NEW g, g.id \in GrantId
  PROVE  g # NoGrant
<1>1. NoGrant.id = ""
  BY DEF NoGrant
<1>2. "" \notin GrantId
  BY BrokerAssumption
<1> QED
  BY <1>1, <1>2

\* With one call at a time nothing that was read becomes old.
LEMMA SessionStep ==
  ASSUME OneAtATime
  PROVE  TypeOK /\ RunInv /\ IssuedInv /\ SessionInv /\ [Next]_vars => SessionInv'
<1> SUFFICES ASSUME TypeOK, RunInv, IssuedInv, SessionInv, [Next]_vars PROVE SessionInv'
  OBVIOUS
<1>0. now \in Nat /\ \A c \in calls : c.at \in Nat
  BY DEF TypeOK, CallRecordType
<1>1. ASSUME h' = h, calls' = calls, grants' = grants, now' \in {now, now + 1} PROVE SessionInv'
  <2>1. \A c \in calls : c.at <= now'
    BY <1>0, <1>1 DEF SessionInv
  <2> QED
    BY <1>1, <2>1 DEF SessionInv
<1>2. ASSUME NEW s \in Slot, NewCall(s) \/ PresentMalformed(s) PROVE SessionInv'
  <2>1. CASE PresentMalformed(s) \/ \E r \in Request : RefuseUnknownTask(s, r)
    BY <1>1, <2>1, TurnedAwayEffect DEF StoreKept
  <2>2. ASSUME NEW pc \in {"grants", "presented"}, NEW path, NEW r, Begins(s, pc, path, r),
               StoreKept, now' = now
        PROVE  SessionInv'
    <3>1. h'[s].pc = pc /\ h'[s].run = runs + 1 /\ \A q \in Slot \ {s} : h'[q] = h[q]
      BY <2>2 DEF Begins
    <3>2. \A c \in calls : c.run < h'[s].run
      <4>1. \A c \in calls : c.run \in 1 .. runs
        BY DEF RunInv, CallsRun
      <4>2. runs \in Nat
        BY DEF TypeOK
      <4> QED
        BY <3>1, <4>1, <4>2
    <3>3. FrameCurrent(h'[s], calls, grants)
      BY <3>1, <3>2 DEF FrameCurrent
    <3>4. \A q \in Slot : FrameCurrent(h'[q], calls, grants)
      BY <3>1, <3>3 DEF SessionInv
    <3> QED
      BY <2>2, <3>4 DEF SessionInv, StoreKept
  <2>3. ASSUME NEW r \in Request, NEW e, Arrive(s, r, e) PROVE SessionInv'
    BY <2>2, <2>3, ArriveEffect
  <2>4. ASSUME NEW r \in Request, NEW c \in released, Present(s, r, c) PROVE SessionInv'
    BY <2>2, <2>4, PresentEffect
  <2> QED
    BY <1>2, <2>1, <2>3, <2>4 DEF NewCall
<1>3. ASSUME h' = h, calls' = calls, now' = now,
             \A g \in GrantId : grants[g] # NoGrant =>
               grants'[g] # NoGrant /\ grants'[g].task = grants[g].task
      PROVE  SessionInv'
  <2>1. \A g : StoredIn(grants, g) => StoredIn(grants', g)
    BY <1>3 DEF StoredIn
  <2>2. \A q \in Slot : FrameCurrent(h[q], calls, grants')
    BY <2>1 DEF SessionInv, FrameCurrent
  <2> QED
    BY <1>3, <2>2 DEF SessionInv
<1>4. ASSUME NEW t \in TaskId, CreateTask(t) PROVE SessionInv'
  <2> DEFINE issued == {[g EXCEPT !.task = t] : g \in TaskReq[t]}
  <2>1. /\ grants' = [i \in GrantId |-> IF \E g \in issued : g.id = i
                                        THEN CHOOSE g \in issued : g.id = i ELSE grants[i]]
        /\ h' = h /\ calls' = calls /\ now' = now
    BY <1>4 DEF CreateTask, envVars
  <2>2. \A g \in issued : g.task = t /\ g \in Grant /\ \E k \in TaskReq[t] : k.id = g.id
    <3>1. TaskReq[t] \subseteq Grant
      BY BrokerAssumption
    <3> QED
      BY <3>1 DEF Grant, GrantOf
  <2> HIDE DEF issued
  <2>3. ASSUME NEW i \in GrantId, grants[i] # NoGrant
        PROVE  grants'[i] # NoGrant /\ grants'[i].task = grants[i].task
    <3>1. CASE \E g \in issued : g.id = i
      <4>1. grants'[i] \in issued /\ grants'[i].id = i
        BY <2>1, <3>1
      <4>2. grants'[i].task = t /\ grants'[i] \in Grant /\ \E k \in TaskReq[t] : k.id = i
        BY <2>2, <4>1
      <4>3. \E k \in TaskReq[grants[i].task] : k.id = i
        BY <2>3 DEF IssuedInv, FromOperator
      <4>4. grants[i].task \in TaskId
        BY <2>3 DEF TypeOK, Grant, GrantOf
      <4>5. grants[i].task = t
        BY <4>2, <4>3, <4>4 DEF OneAtATime
      <4>6. grants'[i] # NoGrant
        BY <4>1, NamedIsStored
      <4> QED
        BY <4>2, <4>5, <4>6
    <3>2. CASE ~\E g \in issued : g.id = i
      BY <2>1, <2>3, <3>2
    <3> QED
      BY <3>1, <3>2
  <2> QED
    BY <1>3, <2>1, <2>3
<1>5. ASSUME NEW g \in GrantId, RevokeMark(g) PROVE SessionInv'
  <2>1. /\ grants' = [grants EXCEPT ![g] = [grants[g] EXCEPT !.revoked = TRUE]]
        /\ h' = h /\ calls' = calls /\ now' = now /\ grants[g] \in Grant /\ grants[g] # NoGrant
    BY <1>5 DEF RevokeMark, TypeOK, envVars
  <2> DEFINE k == [grants[g] EXCEPT !.revoked = TRUE]
  <2>2. k.task = grants[g].task /\ k.id = grants[g].id /\ k.id \in GrantId
    BY <2>1 DEF Grant, GrantOf
  <2>3. \A i \in GrantId : grants'[i] = IF i = g THEN k ELSE grants[i]
    BY <2>1 DEF TypeOK
  <2> HIDE DEF k
  <2>4. k # NoGrant
    BY <2>2, NamedIsStored
  <2> QED
    BY <1>3, <2>1, <2>2, <2>3, <2>4
<1>6. CASE Operator
  <2>1. \/ \E t \in TaskId : CreateTask(t)
        \/ \E g \in GrantId : RevokeMark(g)
        \/ h' = h /\ grants' = grants /\ calls' = calls /\ now' = now
    BY <1>6 DEF Operator, RevokeCommit, Approve, DenyElevation, Resolve, MintOnly, storeVars, envVars
  <2> QED
    BY <1>1, <1>4, <1>5, <2>1
<1>7. CASE Tick \/ UNCHANGED vars
  BY <1>1, <1>7 DEF Tick, vars, storeVars, envVars
<1>8. CASE Restart
  <2>1. h' = [q \in Slot |-> Idle] /\ calls' = {}
    BY <1>8 DEF Restart
  <2> QED
    BY <2>1, IdleCurrent DEF SessionInv
<1> QED
  BY <1>2, <1>6, <1>7, <1>8, SessionServe DEF Next

Recent(t, g) == {c \in CountedUnder(t, g.id) : c.at >= now - g.rateWindow}

\* Another call may be recorded under the grant.
Room(t, g) ==
  /\ g.maxRecords > 0 => ~(RecordsForGrant(CountedUnder(t, g.id), g.id) >= g.maxRecords)
  /\ g.rateLimit > 0 /\ g.rateWindow > 0 => ~(Cardinality(Recent(t, g)) >= g.rateLimit)

CaveatsKept(t, g) ==
  /\ RecordsCapped(t, g) /\ RateLimited(t, g)
  /\ \A s \in Slot : Admitted(h[s], t, g.id) => Room(t, g)

CaveatInv == \A t \in TaskId : \A g \in TaskReq[t] : CaveatsKept(t, g)

\* The types of what the operator issues.
LEMMA IssuedTypes ==
  ASSUME NEW t \in TaskId, NEW g \in TaskReq[t]
  PROVE  /\ g.id \in GrantId /\ g.id # "" /\ g.rateWindow \in Nat /\ g.rateLimit \in Nat
         /\ g.maxRecords \in Nat
<1>1. TaskReq[t] \subseteq Grant
  BY BrokerAssumption
<1>2. g.id \in GrantId /\ g.rateWindow \in Nat /\ g.rateLimit \in Nat /\ g.maxRecords \in Nat
  BY <1>1 DEF Grant, GrantOf
<1>3. "" \notin GrantId
  BY BrokerAssumption
<1> QED
  BY <1>2, <1>3

\* A call that is let go on has room in the store as it is now.
LEMMA DecidedWithRoom ==
  ASSUME On("rate_count"), OneAtATime, TypeOK, IssuedInv, SessionInv, NEW s \in Slot,
         NEW t \in TaskId, NEW g \in TaskReq[t], LetsGo(s, t, g.id)
  PROVE  Room(t, g)
<1> DEFINE f == h[s]
           id == g.id
           count == Counts(f)
<1>0. f.pc = "decide" /\ f.req.task = t
  BY DEF LetsGo, Decide, At
<1>1. /\ MatchId(f.view, f.req) = id /\ (\E i \in DOMAIN f.view : f.view[i].id = id)
      /\ ~Exhausted(g, count)
  BY DecidedWithinCaveats DEF LetsGo, OneAtATime
<1>2. /\ f.hist = {c \in calls : c.task = t}
      /\ \A i \in DOMAIN f.view : StoredIn(grants, f.view[i]) /\ f.view[i].task = t
  BY <1>0 DEF SessionInv, FrameCurrent, IssuedInv, FrameIssued
<1>3. ForGrant(f.hist, id) = CountedUnder(t, id)
  BY <1>2 DEF ForGrant, CountedUnder
<1>4. grants[id].rateWindow = g.rateWindow
  <2>1. grants[id] # NoGrant /\ grants[id].task = t
    BY <1>1, <1>2 DEF StoredIn
  <2>2. grants[id].id = id /\ FromOperator(grants[id])
    BY <2>1, IssuedTypes DEF IssuedInv
  <2>3. PICK k \in TaskReq[t] : k.id = id /\ k.rateWindow = grants[id].rateWindow
    BY <2>1, <2>2 DEF FromOperator
  <2>4. k = g
    BY <2>3, BrokerAssumption
  <2> QED
    BY <2>3, <2>4
<1>5. count.records = RecordsForGrant(CountedUnder(t, id), id)
  <2>1. count.records = RecordsForGrant(f.hist, id)
    BY <1>1 DEF Counts
  <2>2. ForGrant(CountedUnder(t, id), id) = CountedUnder(t, id)
    BY DEF ForGrant, CountedUnder
  <2> QED
    BY <1>3, <2>1, <2>2 DEF RecordsForGrant
<1>6. g.rateWindow > 0 => count.window = Cardinality(Recent(t, g))
  <2>1. id # ""
    BY IssuedTypes
  <2>2. count.window = WindowCount(f.hist, id, g.rateWindow, now)
    BY <1>1, <1>4, <2>1 DEF Counts
  <2>3. ASSUME g.rateWindow > 0
        PROVE  WindowCount(f.hist, id, g.rateWindow, now) = Cardinality(Recent(t, g))
    <3>1. {c \in ForGrant(f.hist, id) : c.at >= now - g.rateWindow} = Recent(t, g)
      BY <1>3 DEF Recent
    <3>2. g.rateWindow # 0
      BY <2>3
    <3> QED
      BY <3>1, <3>2, Zenon DEF WindowCount
  <2> QED
    BY <2>2, <2>3
<1> HIDE DEF count
<1> QED
  BY <1>1, <1>5, <1>6 DEF Exhausted, Room

\* One more call, the latest, where a window that ends with it has room.
LEMMA WindowsKept ==
  ASSUME NEW S, IsFiniteSet(S), NEW c, NEW w \in Nat, NEW limit \in Nat,
         c.at \in Nat, \A d \in S : d.at \in Nat /\ d.at <= c.at,
         ~(Cardinality({d \in S : d.at >= c.at - w}) >= limit),
         \A e \in S : Cardinality({d \in S : d.at \in e.at - w .. e.at}) <= limit
  PROVE  \A e \in S \cup {c} :
           Cardinality({d \in S \cup {c} : d.at \in e.at - w .. e.at}) <= limit
<1> DEFINE Last == {d \in S : d.at >= c.at - w}
           Window(e) == {d \in S \cup {c} : d.at \in e.at - w .. e.at}
<1>1. IsFiniteSet(Last) /\ Cardinality(Last) \in Nat
  BY Smaller
<1>2. ASSUME NEW e \in S \cup {c}, e.at = c.at PROVE Cardinality(Window(e)) <= limit
  <2>1. Window(e) \subseteq Last \cup {c}
    BY <1>2
  <2>2. /\ IsFiniteSet(Last \cup {c}) /\ Cardinality(Last \cup {c}) \in Nat
        /\ Cardinality(Last \cup {c}) <= Cardinality(Last) + 1
    <3> HIDE DEF Last
    <3>1. /\ IsFiniteSet(Last \cup {c})
          /\ \/ Cardinality(Last \cup {c}) = Cardinality(Last)
             \/ Cardinality(Last \cup {c}) = Cardinality(Last) + 1
      BY <1>1, FS_AddElement
    <3> QED
      BY <1>1, <3>1
  <2>3. Cardinality(Last) < limit
    BY <1>1
  <2> HIDE DEF Last, Window
  <2>4. Cardinality(Window(e)) <= Cardinality(Last \cup {c}) /\ Cardinality(Window(e)) \in Nat
    BY <2>1, <2>2, Smaller
  <2> QED
    BY <1>1, <2>2, <2>3, <2>4
<1>3. ASSUME NEW e \in S \cup {c}, e.at # c.at PROVE Cardinality(Window(e)) <= limit
  <2>1. e \in S /\ e.at < c.at
    BY <1>3
  <2>2. Window(e) = {d \in S : d.at \in e.at - w .. e.at}
    BY <2>1
  <2> QED
    BY <2>1, <2>2
<1> HIDE DEF Window
<1>4. \A e \in S \cup {c} : Cardinality(Window(e)) <= limit
  BY <1>2, <1>3
<1> QED
  BY <1>4 DEF Window

\* A call that found room is recorded in it (service.go:300).
LEMMA RecordKeepsCaveats ==
  ASSUME OneAtATime, TypeOK, LiveInv, SessionInv, NEW s \in Slot, RecordCall(s),
         NEW t \in TaskId, NEW g \in TaskReq[t], CaveatsKept(t, g)
  PROVE  CaveatsKept(t, g)'
<1> DEFINE f == h[s]
           c == CallRecord(f)
           id == g.id
           rec == CountedUnder(t, id)
<1>1. Ends(s, "record") /\ calls' = calls \cup {c}
  BY RecordEffect
<1>2. /\ c.run = f.run /\ c.task = f.req.task /\ c.grant = f.cred.grant /\ c.at = now
  BY DEF CallRecord
<1>3. f.pc = "record" /\ f.path = "minted" /\ h'[s] = Idle
  BY <1>1 DEF Ends, LiveInv
<1>4. \A d \in calls : d.run < f.run /\ d.at <= now /\ d.at \in Nat /\ d.run \in Nat
  BY <1>3 DEF SessionInv, FrameCurrent, TypeOK, CallRecordType
<1>5. now \in Nat /\ f.run \in Nat
  BY FrameParts DEF TypeOK
<1>6. ~\E q \in Slot : Admitted(h'[q], t, id)
  <2>1. ~Admitted(Idle, t, id)
    BY DEF Admitted, Idle
  <2> QED
    BY <1>3, <2>1 DEF OneAtATime
<1>7. CASE ~(f.req.task = t /\ f.cred.grant = id)
  <2>1. rec' = rec
    BY <1>1, <1>2, <1>7 DEF CountedUnder
  <2>2. (RecordsCapped(t, g) /\ RateLimited(t, g))'
    BY <2>1 DEF CaveatsKept, RecordsCapped, RateLimited
  <2> QED
    BY <1>6, <2>2 DEF CaveatsKept
<1>8. CASE f.req.task = t /\ f.cred.grant = id
  <2> HIDE DEF c
  <2>1. rec' = rec \cup {c} /\ rec \subseteq calls
    BY <1>1, <1>2, <1>8 DEF CountedUnder
  <2>2. Room(t, g)
    BY <1>3, <1>8 DEF CaveatsKept, Admitted
  <2>3. RecordsCapped(t, g)'
    <3> DEFINE Before(e) == {d \in rec \cup {c} : d.run < e.run}
    <3>1. ASSUME g.maxRecords > 0, NEW e \in rec \cup {c}
          PROVE  ~(RecordsForGrant(Before(e), id) >= g.maxRecords)
      <4>1. CASE e = c
        <5>1. Before(e) = rec
          BY <1>2, <1>4, <1>5, <2>1, <4>1
        <5> QED
          BY <2>2, <3>1, <5>1 DEF Room
      <4>2. CASE e # c
        <5>1. e \in rec
          BY <3>1, <4>2
        <5>2. ~(c.run < e.run)
          BY <1>2, <1>4, <1>5, <2>1, <5>1
        <5>3. Before(e) = {d \in rec : d.run < e.run}
          BY <5>2
        <5>4. RecordsCapped(t, g)
          BY DEF CaveatsKept
        <5> QED
          BY <3>1, <5>1, <5>3, <5>4 DEF RecordsCapped
      <4> QED
        BY <4>1, <4>2
    <3> QED
      BY <2>1, <3>1 DEF RecordsCapped
  <2>4. RateLimited(t, g)'
    <3>1. ASSUME g.rateLimit > 0, g.rateWindow > 0
          PROVE  \A e \in rec \cup {c} :
                   Cardinality({d \in rec \cup {c} : d.at \in e.at - g.rateWindow .. e.at})
                     <= g.rateLimit
      <4> DEFINE w == g.rateWindow
                 limit == g.rateLimit
      <4>1. IsFiniteSet(rec)
        BY <2>1, Smaller DEF LiveInv
      <4>2. w \in Nat /\ limit \in Nat
        BY IssuedTypes
      <4>3. c.at \in Nat /\ \A d \in rec : d.at \in Nat /\ d.at <= c.at
        BY <1>2, <1>4, <1>5, <2>1
      <4>4. ~(Cardinality({d \in rec : d.at >= c.at - w}) >= limit)
        BY <1>2, <2>2, <3>1 DEF Room, Recent
      <4>5. \A e \in rec : Cardinality({d \in rec : d.at \in e.at - w .. e.at}) <= limit
        BY <3>1 DEF CaveatsKept, RateLimited
      <4> HIDE DEF rec, w, limit
      <4>6. \A e \in rec \cup {c} :
              Cardinality({d \in rec \cup {c} : d.at \in e.at - w .. e.at}) <= limit
        BY <4>1, <4>2, <4>3, <4>4, <4>5, WindowsKept
      <4> QED
        BY <4>6 DEF w, limit
    <3> QED
      BY <2>1, <3>1 DEF RateLimited
  <2> QED
    BY <1>6, <2>3, <2>4 DEF CaveatsKept
<1> QED
  BY <1>7, <1>8

\* No step passes a cap on records or a rate.
LEMMA CaveatStep ==
  ASSUME OneAtATime, On("rate_count")
  PROVE  TypeOK /\ IssuedInv /\ FreshInv /\ LiveInv /\ SessionInv /\ CaveatInv /\ [Next]_vars
           => CaveatInv'
<1> SUFFICES ASSUME TypeOK, IssuedInv, FreshInv, LiveInv, SessionInv, CaveatInv, [Next]_vars,
                    NEW t \in TaskId, NEW g \in TaskReq[t]
             PROVE  CaveatsKept(t, g)'
  BY DEF CaveatInv
<1>0. CaveatsKept(t, g)
  BY DEF CaveatInv
<1>1. ASSUME calls' = calls PROVE (RecordsCapped(t, g) /\ RateLimited(t, g))'
  <2>1. CountedUnder(t, g.id)' = CountedUnder(t, g.id)
    BY <1>1 DEF CountedUnder
  <2> QED
    BY <1>0, <2>1 DEF CaveatsKept, RecordsCapped, RateLimited
<1>2. ASSUME calls' = calls, now' \in {now, now + 1}, Room(t, g) PROVE Room(t, g)'
  <2> DEFINE rec == CountedUnder(t, g.id)
  <2>1. rec' = rec
    BY <1>2 DEF CountedUnder
  <2>2. now \in Nat /\ g.rateWindow \in Nat /\ g.rateLimit \in Nat /\ \A d \in rec : d.at \in Nat
    BY IssuedTypes DEF TypeOK, CountedUnder, CallRecordType
  <2>3. Recent(t, g)' \subseteq Recent(t, g)
    BY <1>2, <2>1, <2>2 DEF Recent
  <2>4. IsFiniteSet(Recent(t, g))
    BY Smaller DEF LiveInv, Recent, CountedUnder
  <2>5. /\ Cardinality(Recent(t, g)') <= Cardinality(Recent(t, g))
        /\ Cardinality(Recent(t, g)') \in Nat /\ Cardinality(Recent(t, g)) \in Nat
    BY <2>3, <2>4, Smaller
  <2>6. g.rateLimit > 0 /\ g.rateWindow > 0 => ~(Cardinality(Recent(t, g)') >= g.rateLimit)
    BY <1>2, <2>2, <2>5 DEF Room
  <2> QED
    BY <1>2, <2>1, <2>6 DEF Room
<1>3. ASSUME calls' = calls, now' \in {now, now + 1},
             \A s \in Slot : Admitted(h'[s], t, g.id) => Room(t, g)
      PROVE  CaveatsKept(t, g)'
  BY <1>1, <1>2, <1>3 DEF CaveatsKept
<1>4. ASSUME calls' = calls, now' \in {now, now + 1},
             \A s \in Slot : Admitted(h'[s], t, g.id) => Admitted(h[s], t, g.id)
      PROVE  CaveatsKept(t, g)'
  BY <1>0, <1>3, <1>4 DEF CaveatsKept
<1>5. ASSUME NEW s \in Slot, Serve(s) PROVE CaveatsKept(t, g)'
  <2>1. CASE RecordCall(s)
    BY <1>0, <2>1, RecordKeepsCaveats
  <2>2. CASE ~RecordCall(s)
    <3>1. calls' = calls /\ now' = now
      BY <1>5, <2>2, ServeStore
    <3>2. Admitted(h'[s], t, g.id) => Admitted(h[s], t, g.id) \/ LetsGo(s, t, g.id)
      BY <1>5, ServeAdmits
    <3>3. LetsGo(s, t, g.id) => Room(t, g)
      BY DecidedWithRoom
    <3>4. \A q \in Slot : q = s
      BY DEF OneAtATime
    <3>5. \A q \in Slot : Admitted(h'[q], t, g.id) => Room(t, g)
      BY <1>0, <3>2, <3>3, <3>4 DEF CaveatsKept
    <3> QED
      BY <1>3, <3>1, <3>5
  <2> QED
    BY <2>1, <2>2
<1>6. ASSUME NEW s \in Slot, NewCall(s) \/ PresentMalformed(s) PROVE CaveatsKept(t, g)'
  <2>1. CASE PresentMalformed(s) \/ \E r \in Request : RefuseUnknownTask(s, r)
    BY <1>4, <2>1, TurnedAwayEffect DEF StoreKept
  <2>2. ASSUME NEW pc \in {"grants", "presented"}, NEW path, NEW r, Begins(s, pc, path, r),
               StoreKept, now' = now
        PROVE  CaveatsKept(t, g)'
    <3>1. ~Admitted(h'[s], t, g.id) /\ \A q \in Slot \ {s} : h'[q] = h[q]
      BY <2>2 DEF Begins, Admitted
    <3> QED
      BY <1>4, <2>2, <3>1 DEF StoreKept
  <2>3. ASSUME NEW r \in Request, NEW e, Arrive(s, r, e) PROVE CaveatsKept(t, g)'
    BY <2>2, <2>3, ArriveEffect
  <2>4. ASSUME NEW r \in Request, NEW c \in released, Present(s, r, c) PROVE CaveatsKept(t, g)'
    BY <2>2, <2>4, PresentEffect
  <2> QED
    BY <1>6, <2>1, <2>3, <2>4 DEF NewCall
<1>7. CASE Operator \/ Tick \/ UNCHANGED vars
  <2>1. h' = h /\ calls' = calls /\ now' \in {now, now + 1}
    BY <1>7 DEF Operator, CreateTask, RevokeMark, RevokeCommit, Approve, DenyElevation, Resolve,
                MintOnly, Tick, vars, storeVars, envVars
  <2> QED
    BY <1>4, <2>1
<1>8. CASE Restart
  <2>1. h' = [q \in Slot |-> Idle] /\ calls' = {}
    BY <1>8 DEF Restart
  <2>2. ~Admitted(Idle, t, g.id)
    BY DEF Admitted, Idle
  <2>3. CountedUnder(t, g.id)' = {}
    BY <2>1 DEF CountedUnder
  <2>4. (RecordsCapped(t, g) /\ RateLimited(t, g))'
    BY <2>3 DEF RecordsCapped, RateLimited
  <2> QED
    BY <2>1, <2>2, <2>4 DEF CaveatsKept
<1> QED
  BY <1>5, <1>6, <1>7, <1>8 DEF Next

\* Nothing was called at the start.
LEMMA SessionInit == Init => SessionInv /\ CaveatInv
<1> SUFFICES ASSUME Init PROVE SessionInv /\ CaveatInv
  OBVIOUS
<1>1. calls = {} /\ h = [s \in Slot |-> Idle]
  BY DEF Init
<1>2. SessionInv
  BY <1>1, IdleCurrent DEF SessionInv
<1>3. ASSUME NEW t \in TaskId, NEW g \in TaskReq[t] PROVE CaveatsKept(t, g)
  <2>1. ~Admitted(Idle, t, g.id)
    BY DEF Admitted, Idle
  <2>2. CountedUnder(t, g.id) = {}
    BY <1>1 DEF CountedUnder
  <2> QED
    BY <1>1, <2>1, <2>2 DEF CaveatsKept, RecordsCapped, RateLimited
<1> QED
  BY <1>2, <1>3 DEF CaveatInv

\* When calls come one at a time the caveats of every grant hold across the
\* session: its cap on calls, on records and its rate (service.go:199-224,
\* engine.go:94-104).
THEOREM CaveatsHoldOneAtATime ==
  ASSUME OneAtATime
  PROVE  Spec => []SessionCaveatsHold
<1>1. IsFiniteSet(Slot) /\ Cardinality(Slot) \in {0, 1}
  <2>1. CASE Slot = {}
    BY <2>1, FS_EmptySet
  <2>2. CASE Slot # {}
    <3>1. PICK s \in Slot : TRUE
      BY <2>2
    <3>2. Slot = {s}
      BY DEF OneAtATime
    <3> QED
      BY <3>2, FS_Singleton
  <2> QED
    BY <2>1, <2>2
<1>2. CASE On("rate_count")
  <2>1. ASSUME CaveatInv, CapInv, LiveInv, TypeOK PROVE SessionCaveatsHold
    <3>1. ASSUME NEW t \in TaskId, NEW g \in TaskReq[t] PROVE CallsCapped(t, g)
      <4>1. ASSUME g.maxCalls > 0 PROVE Cardinality(ExecutedUnder(t, g.id)) <= g.maxCalls
        <5>1. g \in Capped(t)
          BY <4>1 DEF Capped, OneAtATime
        <5>2. PlacesInv(t, g.id, g.maxCalls) /\ g.maxCalls \in Nat
          BY <2>1, <5>1, CapType DEF CapInv
        <5>3. Cardinality(ExecutedUnder(t, g.id)) <= g.maxCalls + Cardinality(Slot) - 1
          BY <1>1, <2>1, <5>1, <5>2, CapType, BalanceBounds
        <5>4. Cardinality(ExecutedUnder(t, g.id)) \in Nat
          BY <2>1, Smaller DEF LiveInv, ExecutedUnder
        <5> QED
          BY <1>1, <5>2, <5>3, <5>4
      <4> QED
        BY <4>1 DEF CallsCapped
    <3>2. \A t \in TaskId : \A g \in TaskReq[t] : RecordsCapped(t, g) /\ RateLimited(t, g)
      BY <2>1 DEF CaveatInv, CaveatsKept
    <3> QED
      BY <3>1, <3>2 DEF SessionCaveatsHold
  <2>2. Init => CapInv /\ LiveInv /\ SessionInv /\ CaveatInv
    BY <1>1, CapInit, SessionInit
  <2>3. /\ TypeOK /\ RunInv /\ IssuedInv /\ FreshInv /\ LiveInv /\ CapInv /\ [Next]_vars => CapInv'
    BY <1>1, <1>2, CapStep
  <2>4. TypeOK /\ RunInv /\ IssuedInv /\ SessionInv /\ [Next]_vars => SessionInv'
    BY SessionStep
  <2>5. TypeOK /\ IssuedInv /\ FreshInv /\ LiveInv /\ SessionInv /\ CaveatInv /\ [Next]_vars
          => CaveatInv'
    BY <1>2, CaveatStep
  <2>6. CaveatInv /\ CapInv /\ LiveInv /\ TypeOK => SessionCaveatsHold
    BY <2>1
  <2> QED
    BY <2>2, <2>3, <2>4, <2>5, <2>6, TypeCorrect, RunInit, RunStep, IssuedInit, IssuedStep,
       FreshInit, FreshStep, LiveStep, PTL DEF Spec
<1>3. CASE ~On("rate_count")
  <2>1. SessionCaveatsHold
    BY <1>3 DEF SessionCaveatsHold
  <2> QED
    BY <2>1, PTL
<1> QED
  BY <1>2, <1>3
=============================================================================
