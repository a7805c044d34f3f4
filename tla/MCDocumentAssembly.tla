------------------------ MODULE MCDocumentAssembly -------------------------
(***************************************************************************)
(* Two conversations of three sales each, with every command; any two      *)
(* frames of the requests and the responses lost or damaged, gaps in the   *)
(* responses included.                                                     *)
(***************************************************************************)
EXTENDS DocumentAssembly

Sell(s, items) ==
  LET Cmds(cmds) == [i \in 1..Len(cmds) |-> [cmd |-> cmds[i][1], val |-> cmds[i][2], sale |-> s]]
  IN  Cmds(items)

\* A receipt, an identical one with a quantity, and its conforming copy.
Receipts ==
  Sell(1, <<<<"query", 0>>, <<"=K", 0>>, <<"item", 1>>, <<"total", 3>>, <<"query", 0>>, <<"close", 0>>>>) \o
  Sell(2, <<<<"query", 0>>, <<"=K", 0>>, <<"text", 0>>, <<"total", 3>>, <<"itemq", 1>>, <<"query", 0>>, <<"close", 0>>>>) \o
  Sell(3, <<<<"=o", 0>>, <<"mitem", 1>>, <<"mtotal", 3>>, <<"mpayment", 3>>, <<"=o", 0>>>>)

\* An order slip, a bill and a receipt that differs from it.
Table ==
  Sell(1, <<<<"=o", 0>>, <<"portata", 0>>, <<"coperti", 0>>, <<"=o", 0>>>>) \o
  Sell(2, <<<<"=o", 0>>, <<"plain", 0>>, <<"mitem", 1>>, <<"mtotals", 1>>, <<"mtax", 1>>, <<"mchange", 2>>, <<"mchanges", 2>>, <<"=o", 0>>>>) \o
  Sell(3, <<<<"control", 0>>, <<"=K", 0>>, <<"unknown", 0>>, <<"display", 0>>, <<"itemq", 2>>, <<"total", 2>>, <<"query", 0>>, <<"close", 0>>>>)

MCConversations == {Receipts, Table}

MCLimits ==
  {[documents |-> 2, fields |-> 19, messages |-> 12, issues |-> 4],
   [documents |-> 9, fields |-> 40, messages |-> 90, issues |-> 1],
   [documents |-> 9, fields |-> 13, messages |-> 90, issues |-> 4],
   [documents |-> 9, fields |-> 10, messages |-> 90, issues |-> 90]}

MCEarlier == {<<>>, <<"unframed_bytes", "unframed_bytes", "event_limit_exceeded">>}
=============================================================================
