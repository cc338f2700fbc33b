------------------------------- MODULE MCNetab -------------------------------
(* Services 1 and 2 are the cluster at the site, which is primary for      *)
(* orders; 3 is the archive.  Both clusters fall back on one another.  Row *)
(* 1 is in both, row 2 is old and in the archive only, as is row 3, of     *)
(* another site.  Cashiers see no status.                                  *)
EXTENDS NetabService

MCField == [l \in Leaf |-> l]
MCCluster == [s \in Service |-> IF s = 3 THEN "online" ELSE "offline"]
MCPrimary == [c \in Cluster |-> "offline"]
MCFallbacks == [c \in Cluster |-> IF c = "online" THEN <<"offline">> ELSE <<"online">>]

MCSites == [s \in Site |-> [brand |-> "b", location |-> s, public |-> s = 1, proof |-> NoHint]]
MCPins == "1111" :> [groups |-> {"admin"}, site |-> NoSite]
          @@ "2222" :> [groups |-> {"cashier"}, site |-> 1]
MCCodes == "JOIN" :> 1
MCRules ==
  defaultAclRules \cup
  {[group |-> "cashier",
    tables |-> "*" :> [allow |-> Using, readFields |-> {"siteId", "createdAt"},
                       writeFields |-> AllFields]]}

Order(site, time, status) == "siteId" :> site @@ "createdAt" :> time @@ "status" :> status
Recent == Order(1, 2, 1)
Old == Order(1, 1, 1)
MCStores ==
  [s \in Service |->
     IF s = 3
     THEN add_objs(add_objs(add_objs(NewTable, 1, Recent), 2, Old), 3, Order(2, 2, 1))
     ELSE add_objs(NewTable, 1, Recent)]
MCDirectory == [c \in Cluster |-> IF c = "online" THEN <<3>> ELSE <<1, 2>>]
MCLeaders == [s \in Service |-> IF s = 3 THEN 3 ELSE 1]

Get(ids, filter, start_pos, mode) ==
  [op |-> "get", ids |-> ids, filter |-> filter, start |-> start_pos, mode |-> mode]
Write_(op_, id, value) == [op |-> op_, id |-> id, value |-> value]

Then == "local_then_fallback"
Reads ==
  {Get({}, {}, n, Then) : n \in {0, 1}} \cup
  {Get({1, 2}, {}, 0, mode) : mode \in {"local_only", Then, "fallback_only"}} \cup
  {Get({}, {Clause("createdAt", "<", t)}, 0, Then) : t \in {2, 3}} \cup
  {Get({}, {Clause("createdAt", "between", <<1, 2>>)}, 0, Then),
   Get({}, {Clause("status", "==", 2)}, 0, Then),
   Get({}, {Clause("status", "in", {2}), Clause("createdAt", "!=", 1)}, 0, Then),
   Get({}, {Clause("createdAt", ">", 1)}, 0, Then),
   Get({}, {Clause("createdAt", ">=", 2), Clause("createdAt", "<=", 1)}, 0, Then)}
SomeReads ==
  {Get({}, {}, 0, Then), Get({1, 2}, {}, 0, Then),
   Get({}, {Clause("createdAt", "<", 2)}, 0, Then)}
Writes ==
  {Write_("add", 0, "createdAt" :> 1),
   Write_("add", 0, Order(2, 2, 1)),
   Write_("update", 1, "status" :> 2),
   Write_("replace", 1, Order(1, 2, 2)),
   Write_("delete", 1, Absent)}
ToAll == [op |-> "subscribe", filter |-> {}]
Listening == {ToAll, [ToAll EXCEPT !.filter = {Clause("status", "==", 2)}]}

Admin == Context({"admin"}, NoSite)
Staff == Context({"staff"}, 1)
Customer == Context({"customer"}, 1)
Cashier == Context({"cashier"}, 1)

Budget(clients, tokens, asks, logins, requests, elections, stops, retentions) ==
  [clients |-> clients, tokens |-> tokens, asks |-> asks, logins |-> logins,
   requests |-> requests, elections |-> elections, stops |-> stops, starts |-> stops,
   retentions |-> retentions, cutoffs |-> {2}]

(* Where the rows of today are old already.                                *)
Late(b) == [b EXCEPT !.cutoffs = {3}]

One == {CHOOSE c \in Client : TRUE}

Update1 == Write_("update", 1, "status" :> 2)
Delete1 == Write_("delete", 1, Absent)
Replace1 == Write_("replace", 1, Order(1, 2, 2))

(* Reads while leaders change, services stop and rows expire; reads and a  *)
(* change; reads and writes side by side; writes while leaders change;     *)
(* writes, deletions and retention that one client, and another, is told   *)
(* of; and writes that a follower copies while it deletes what is old.     *)
MCBudgets ==
  {Budget(One, {Staff, Customer}, Reads, 1, 1, 1, 1, 1),
   Budget(One, {Admin, Cashier}, Reads \cup {Update1}, 1, 2, 0, 0, 1),
   Budget(Client, {Staff}, {Update1, Delete1} \cup SomeReads, 2, 2, 0, 0, 0),
   Budget(One, {Customer}, Writes, 1, 2, 0, 0, 0),
   Budget(Client, {Admin}, {Update1}, 2, 2, 1, 1, 0),
   Budget(One, {Admin}, Writes \cup Listening, 1, 3, 0, 0, 0),
   Budget(One, {Cashier}, {Update1, Delete1} \cup Listening, 1, 3, 0, 0, 1),
   Budget(Client, {Admin}, {Delete1, Replace1, ToAll}, 2, 3, 0, 0, 0),
   Late(Budget(One, {Admin}, {Replace1, ToAll}, 1, 3, 0, 0, 1))}

(* A change, and a read whose window ends where retention does.            *)
WindowBudgets ==
  {Budget(One, {Staff}, {Update1, Get({}, {Clause("createdAt", "<=", 2)}, 0, Then)},
          1, 2, 0, 0, 1)}
=============================================================================
