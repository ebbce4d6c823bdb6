------------------------------ MODULE MCBroker ------------------------------
(***************************************************************************)
(* Small instances of the broker: the grants, calls and bounds of its runs. *)
(***************************************************************************)
EXTENDS BrokerAuthority, TLC

AllControls == ControlName

Res(scheme, name) == [scheme |-> scheme, name |-> name, ours |-> FALSE]
Customer == Res("db", "customers/123")
Other == Res("db", "customers/124")
Invoice == Res("payments", "invoice")

BaseGrant(id, tool, op, pattern) ==
  [id |-> id, task |-> "t1", tool |-> tool, op |-> op, pattern |-> pattern,
   maxCalls |-> 0, maxRecords |-> 0, rateLimit |-> 0, rateWindow |-> 0,
   allow |-> {}, elevate |-> FALSE, ttl |-> 0, expires |-> 0, revoked |-> FALSE]

BaseCall(task, tool, op, resource) ==
  [task |-> task, tool |-> tool, op |-> op, resource |-> resource, to |-> NoAddr,
   url |-> NoAddr, source |-> "user", chain |-> <<>>, sensitive |-> FALSE,
   bodyLooks |-> FALSE, valueLooks |-> FALSE, phrase |-> FALSE, records |-> 0]

ReadCustomer == [BaseCall("t1", "db", "read", Customer) EXCEPT !.records = 1]
ReadOther == [BaseCall("t1", "db", "read", Other) EXCEPT !.records = 1]
Charge == BaseCall("t1", "payments", "charge", Invoice)
Blank == BaseCall("", "db", "", NoAddr)

ReadGrant == BaseGrant("g1", "db", "read", {Customer})
ChargeGrant == BaseGrant("g2", "payments", "charge", {Invoice})

\* One read grant with a cap.
CapTasks == [t \in TaskId |-> {[ReadGrant EXCEPT !.maxCalls = 1]}]
CapCalls == {ReadCustomer}

\* A capped read, and charges that need an approval each.
Refund == BaseCall("t1", "payments", "charge", Res("payments", "refund"))
MixedTasks == [t \in TaskId |-> {[ReadGrant EXCEPT !.maxCalls = 1],
                     [ChargeGrant EXCEPT !.pattern = {Invoice, Refund.resource}]}]
MixedCalls == {ReadCustomer, Charge, Refund}

\* Reads under every session caveat at once; task t2 may mail the stranger on
\* its list, but not with content from the web, and not the desk.
Mailbox(name, ours) == [scheme |-> "email", name |-> name, ours |-> ours]
Desk == Mailbox("desk", TRUE)
Stranger == Mailbox("stranger", FALSE)
To(box) == [box EXCEPT !.scheme = ""]
MailGrant == [BaseGrant("g3", "email", "send", {Desk, Stranger}) EXCEPT !.allow = {To(Stranger)}]
SessionTasks ==
  [t \in TaskId |->
    IF t = "t1"
    THEN {[ReadGrant EXCEPT !.maxCalls = 2, !.maxRecords = 3, !.rateLimit = 1,
                            !.rateWindow = 1, !.pattern = {Customer, Other}],
          [ReadGrant EXCEPT !.id = "g2", !.pattern = {Other}, !.maxRecords = 2]}
    ELSE {MailGrant}]
MailDesk == BaseCall("t2", "email", "send", Desk)
MailStranger == [BaseCall("t2", "email", "send", Stranger) EXCEPT !.source = "web"]
SessionCalls == {ReadCustomer, [ReadOther EXCEPT !.records = 2], MailDesk, MailStranger}

\* Charges of two invoices; task t2 has a grant of its own.
Later(r) == [r EXCEPT !.task = "t2"]
ChargeTasks ==
  [t \in TaskId |-> {[ChargeGrant EXCEPT !.id = IF t = "t1" THEN "g1" ELSE "g2",
                                         !.pattern = {Invoice, Refund.resource}]}]
ChargeCalls == {Charge, Refund}
RestartCalls == {Charge, Refund, Later(Charge)}

\* Two tasks that are created with the same explicit grant id.
ReissueTasks == [t \in TaskId |-> IF t = "t1" THEN {ReadGrant}
                                  ELSE {[ReadGrant EXCEPT !.pattern = {Other}]}]
ReissueCalls == {ReadCustomer, ReadOther, Later(ReadOther), Blank}

\* A grant that expired beside one that did not, on the same resource.
TwinTasks ==
  [t \in TaskId |-> {[ReadGrant EXCEPT !.maxCalls = 1, !.expires = 1],
                     [ReadGrant EXCEPT !.id = "g2", !.maxCalls = 1]}]
TwinCalls == {ReadCustomer}

Slots == Permutations(Slot)
=============================================================================
