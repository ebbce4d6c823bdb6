------------------------------- MODULE Tools -------------------------------
(***************************************************************************)
(* The mock tools (internal/tools) behind the policy, and the labels that  *)
(* travel with content: what a tool returns is labelled, the client calls  *)
(* again with the label and the flag of a result it works from (as         *)
(* redteam/runner.go does for inherit_from), and the tools store both.     *)
(*                                                                         *)
(* A provenance is the sequence of its source and its taint chain.  The    *)
(* body of a content is a ghost of where its words come from: `from' the   *)
(* outside world, `secret' a customer record, `looks' what the classifier  *)
(* of sensitive text says of it.                                           *)
(***************************************************************************)
EXTENDS Rego

CONSTANTS
  Grants,        \* the grants of the task, in the order of the store
  Rows, Files,   \* database rows and files that are touched
  Page,          \* pages that can be fetched
  Mailbox,       \* addresses mail is sent to
  Account,       \* resources that are charged
  DocLabel,      \* labels the client puts on documents it is given
  MaxCalls       \* bound: calls that run a tool

\* A row and an account are named by the prefix the engine knows its targets
\* by (engine.go:142), a mail has an address, and a blank source is filled in
\* before a label is used (service.go).
ASSUME ToolsAssumption ==
  /\ Grants \in Seq(GrantOf(STRING, STRING))
  /\ Rows \cup Files \cup Page \cup Mailbox \cup Account \subseteq Addr
  /\ \A r \in Rows : r.scheme = "db"
  /\ \A f \in Files : f.scheme = "files"
  /\ \A a \in Account : a.scheme = "payments"
  /\ NoAddr \notin Mailbox
  /\ "" \notin DocLabel
  /\ MaxCalls \in Nat

VARIABLES
  rows, files,   \* what the tools store
  held,          \* contents in the hands of the client
  acted,         \* history: the calls that ran, with the body they carried
  count          \* calls so far

vars == <<rows, files, held, acted, count>>

Nothing == [labels |-> <<>>]

Plain == [from |-> {}, secret |-> FALSE, looks |-> FALSE, filed |-> FALSE]
Record == [Plain EXCEPT !.secret = TRUE, !.looks = TRUE]
WebPage(p) == [Plain EXCEPT !.from = {"web"}, !.looks = (p.name = "inject")]

\* The operator's own words, and a document as the client labels it.
Words == [labels |-> <<"user">>, sensitive |-> FALSE, body |-> Plain]
Document(label) ==
  [labels |-> <<label>>, sensitive |-> FALSE, body |-> [Plain EXCEPT !.from = {label}]]

Worst(a, b) == IF Rank(a) >= Rank(b) THEN a ELSE b

Inherit(labels, child) ==
  <<Worst(Effective(labels), child)>> \o Tail(labels) \o <<Head(labels)>>

----------------------------------------------------------------------------
(* Calls *)

CallOf(tool, op, resource, to, c) ==
  [task |-> "", tool |-> tool, op |-> op, resource |-> resource, to |-> to, url |-> NoAddr,
   source |-> Head(c.labels), chain |-> Tail(c.labels), sensitive |-> c.sensitive,
   bodyLooks |-> c.body.looks, valueLooks |-> FALSE, phrase |-> FALSE, records |-> 0]

NoCount == [calls |-> 0, records |-> 0, window |-> 0]

\* The tool runs: the call is within the grants and nothing denies it (a call
\* that must be approved is).
Runs(r, c) ==
  /\ count < MaxCalls
  /\ Decision(Grants, NoCount, r, 0).action # "deny"
  /\ count' = count + 1
  /\ acted' = acted \cup {[req |-> r, body |-> c.body]}

Returns(labels, sensitive, body) ==
  held' = held \cup {[labels |-> labels, sensitive |-> sensitive, body |-> body]}

Init ==
  /\ rows = [r \in Rows |->
               IF r.name = "customer"
               THEN [labels |-> <<"tool">>, sensitive |-> TRUE, body |-> Record] ELSE Nothing]
  /\ files = [f \in Files |-> Nothing]
  /\ held = {Words} \cup {Document(label) : label \in DocLabel}
  /\ acted = {} /\ count = 0

----------------------------------------------------------------------------
(* The database *)

DBRead(r, c) ==
  LET rec == rows[r].labels
  IN  /\ rows[r] # Nothing /\ Runs(CallOf("db", "read", r, NoAddr, c), c)
      /\ Returns(<<Worst(Effective(rec), Effective(c.labels))>> \o Tail(rec)
                   \o <<Effective(c.labels)>>,
                 rows[r].sensitive, rows[r].body)
      /\ UNCHANGED <<rows, files>>

\* A row that exists keeps its label under the new one.
WrittenLabels(r, c) ==
  LET new == Inherit(c.labels, "tool")
      old == rows[r].labels
      over == Worst(Effective(old), Effective(new))
  IN  IF rows[r] = Nothing THEN new
      ELSE <<over>> \o Tail(old) \o <<Effective(<<over>> \o Tail(new))>>

DBWrite(r, c) ==
  /\ Runs(CallOf("db", "write", r, NoAddr, c), c)
  /\ rows' = [rows EXCEPT ![r] = [labels |-> WrittenLabels(r, c), sensitive |-> TRUE,
                                  body |-> c.body]]
  /\ Returns(WrittenLabels(r, c), TRUE, Plain)
  /\ UNCHANGED files

DBDelete_Blanks(r, c) ==           \* variant: leaves a row without a label
  /\ Runs(CallOf("db", "delete", r, NoAddr, c), c)
  /\ rows' = [rows EXCEPT ![r] = [labels |-> <<>>, sensitive |-> FALSE, body |-> Plain]]
  /\ Returns(<<"tool">>, FALSE, Plain)
  /\ UNCHANGED files

DBDelete(r, c) ==
  /\ Runs(CallOf("db", "delete", r, NoAddr, c), c)
  /\ rows' = [rows EXCEPT ![r] = Nothing]
  /\ Returns(<<"tool">>, FALSE, Plain)
  /\ UNCHANGED files

----------------------------------------------------------------------------
(* Files *)

FiledLabels_Tool(c) == Inherit(<<"tool">>, "tool")  \* variant: a write launders

\* The source is kept as it came in, under the chain of Inherit.
FiledLabels(c) == <<Effective(c.labels)>> \o Tail(Inherit(c.labels, "tool"))

\* A file is flagged by its text alone: the flag of the call does not reach
\* the tool, so that words that were retold lose it here.
FileWrite(f, op, c) ==
  LET flag == c.body.looks \/ Effective(c.labels) = "web"
      body == [c.body EXCEPT !.filed = @ \/ (c.sensitive /\ ~flag)]
  IN  /\ Runs(CallOf("files", op, f, NoAddr, c), c)
      /\ files' = [files EXCEPT ![f] = [labels |-> FiledLabels(c), sensitive |-> flag,
                                        body |-> body]]
      /\ Returns(FiledLabels(c), flag, Plain)
      /\ UNCHANGED rows

FileRead(f, c) ==
  /\ files[f] # Nothing /\ Runs(CallOf("files", "read", f, NoAddr, c), c)
  /\ held' = held \cup {files[f]}
  /\ UNCHANGED <<rows, files>>

----------------------------------------------------------------------------
(* The outside world *)

Fetch(p, c) ==
  /\ Runs(CallOf("http", "fetch", p, NoAddr, c), c)
  /\ Returns(<<"web", "web">>, WebPage(p).looks, WebPage(p))
  /\ UNCHANGED <<rows, files>>

\* What these tools answer repeats words of the call.
Echo(c) == [c.body EXCEPT !.secret = FALSE, !.looks = FALSE]

Send(to, c) ==
  /\ Runs(CallOf("email", "send", [to EXCEPT !.scheme = "email"], to, c), c)
  /\ Returns(Inherit(c.labels, "tool"), FALSE, Echo(c))
  /\ UNCHANGED <<rows, files>>

Charge(a, c) ==
  /\ Runs(CallOf("payments", "charge", a, NoAddr, c), c)
  /\ Returns(Inherit(c.labels, "tool"), TRUE, Echo(c))
  /\ UNCHANGED <<rows, files>>

\* The client tells what it holds in other words.
Retell(c) ==
  /\ held' = held \cup {[c EXCEPT !.body.looks = FALSE]}
  /\ UNCHANGED <<rows, files, acted, count>>

Next ==
  \E c \in held :
    \/ \E r \in Rows : DBRead(r, c) \/ DBWrite(r, c) \/ DBDelete(r, c)
    \/ \E f \in Files, op \in {"write", "write_shared"} : FileWrite(f, op, c)
    \/ \E f \in Files : FileRead(f, c)
    \/ \E p \in Page : Fetch(p, c)
    \/ \E to \in Mailbox : Send(to, c)
    \/ \E a \in Account : Charge(a, c)
    \/ Retell(c)

Spec == Init /\ [][Next]_vars

----------------------------------------------------------------------------
(* Properties *)

Known == {"web", "doc"}
Outside == Known \cup DocLabel

Stored == {rows[r] : r \in Rows} \cup {files[f] : f \in Files}

Contents == held \cup (Stored \ {Nothing})

Sources == {"user", "tool", "web", "doc"} \cup DocLabel

\* Labels are sequences of sources and bodies say what they stand for.
TypeOK ==
  /\ \A c \in Contents :
       /\ c.labels # <<>> /\ \A i \in DOMAIN c.labels : c.labels[i] \in Sources
       /\ c.sensitive \in BOOLEAN
       /\ c.body \in [from : SUBSET Outside, secret : BOOLEAN, looks : BOOLEAN, filed : BOOLEAN]
  /\ count \in 0 .. MaxCalls /\ Cardinality(acted) <= count

\* No sequence of writes, overwrites and reads launders a content: its label is
\* never better than the one its words came with, be it one that the code does
\* not know (provenance.go:82, "intermediate writes cannot drop taint").
TaintIsKept ==
  \A c \in Contents : \A source \in c.body.from : Rank(Effective(c.labels)) >= Rank(source)

Consequential(r) ==
  \/ IsEgressOp(r) /\ ~DestinationOf(r).ours
  \/ r.tool = "payments"
  \/ r.tool = "db" /\ r.op \in {"write", "delete"}

\* Through whatever tools it went, nothing from outside writes or deletes a
\* row, is charged, or leaves for an address that is not ours.  This is so for
\* the labels the engine looks for (engine.go:135): words that came in under
\* another label are acted on like the operator's own.
OutsideNeverActs ==
  \A a \in acted : a.body.from \cap Known # {} => ~Consequential(a.req)

Listed(r) == \E i \in DOMAIN Grants : MatchesToolOp(Grants[i], r)
                                        /\ DestinationOf(r) \in Grants[i].allow

\* A customer's record leaves, in whatever words, only for a listed address,
\* unless a file dropped the flag of words that were retold (dataflow.go:30,
\* mock_files.go:36).
SecretsLeaveOnlyListed ==
  \A a \in acted : IsEgressOp(a.req) /\ a.body.secret => Listed(a.req) \/ a.body.filed

\* What ran is nothing that the Rego files deny (rego/README.md:4), except that
\* they count a file as a sensitive target when the payload is sensitive and
\* the engine does not (provenance.rego:19, engine.go:139).
RegoAllowsWhatRan ==
  \A a \in acted :
    RegoDenies(Grants, NoCount, a.req, 0) => <<a.req.tool, a.req.op>> = <<"files", "write">>
=============================================================================
