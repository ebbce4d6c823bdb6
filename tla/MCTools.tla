------------------------------ MODULE MCTools ------------------------------
(***************************************************************************)
(* A small instance of the tools: every tool may be called, under grants   *)
(* that allow mail to one address and list none for shared files.          *)
(***************************************************************************)
EXTENDS Tools

AllControls == ControlName

Place(scheme, name, ours) == [scheme |-> scheme, name |-> name, ours |-> ours]
Customer == Place("db", "customer", FALSE)
Note == Place("db", "note", FALSE)
Shared == Place("files", "shared", FALSE)
Inject == Place("http", "inject", FALSE)
Invoice == Place("payments", "invoice", FALSE)
Boss == Place("", "boss", TRUE)
Desk == Place("", "desk", TRUE)
Stranger == Place("", "stranger", FALSE)

GrantFor(tool, op, pattern, allow) ==
  [id |-> op, task |-> "t1", tool |-> tool, op |-> op, pattern |-> pattern,
   maxCalls |-> 0, maxRecords |-> 0, rateLimit |-> 0, rateWindow |-> 0,
   allow |-> allow, elevate |-> FALSE, ttl |-> 0, expires |-> 0, revoked |-> FALSE]

AllGrants ==
  <<GrantFor("db", "read", Rows, {}), GrantFor("db", "write", Rows, {}),
    GrantFor("db", "delete", Rows, {}), GrantFor("files", "write", Files, {}),
    GrantFor("files", "write_shared", Files, {}), GrantFor("files", "read", Files, {}),
    GrantFor("http", "fetch", Page, {}), GrantFor("payments", "charge", Account, {}),
    GrantFor("email", "send", {[to EXCEPT !.scheme = "email"] : to \in Mailbox},
             {Boss, Stranger})>>

TheRows == {Customer, Note}
TheFiles == {Shared}
ThePages == {Inject}
TheMailboxes == {Boss, Desk, Stranger}
TheAccounts == {Invoice}
=============================================================================
