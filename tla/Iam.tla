--------------------------------- MODULE Iam ---------------------------------
(***************************************************************************)
(* Groups, grants and the question whether a caller may run a command      *)
(* (src/src/cord/iam.ts).  Groups and grants are keys of the coord store:  *)
(* every read and every write is a step of its own, and whoever reads,     *)
(* decides and writes does so with the steps of the others in between.     *)
(*                                                                         *)
(* A reference "grp:g" is the group g itself.  Subgroups are visited in    *)
(* any order, the groups asked about and the subjects in one fixed order,  *)
(* as in the code, where all three orders are lexical.  Display names,     *)
(* metadata, credentials and the catalogues of permissions and commands    *)
(* are single writes nothing here reads, and are left out.                 *)
(***************************************************************************)
EXTENDS Integers, FiniteSets, TLC

CONSTANTS
  Group, User, Command,
  Bit, Scope,       \* bits of a mask and values of a scope
  Unset,            \* the mask or the scope that a grant leaves out
  Admin,            \* processes that change groups and grants
  Checker,          \* evaluations of canInvoke
  GuestGroup, GuestUser,
  NoGroup, NoGrant, Idle,
  GroupsAtStart, GrantsAtStart,
  AdminOps          \* what the administrators ask for

ASSUME IamAssumption == User \cap Group = {}

VARIABLES
  groups,     \* the group records of the store
  grants,     \* the grants of the store, by subject and command
  admin,      \* what each administrator is doing
  check,      \* what each evaluation of canInvoke is doing
  since,      \* history: what has held ever since an evaluation began
  changes     \* bound: changes of groups and grants still to be asked for

iamVars == <<groups, grants, admin, check, since, changes>>

Subject == User \cup Group
GroupRecord == [members : SUBSET Subject, subgroups : SUBSET Group]
NewGroup == [members |-> {}, subgroups |-> {}]
Grant == [allow : BOOLEAN, mask : {Unset} \cup SUBSET Bit, scope : {Unset} \cup Scope]

-----------------------------------------------------------------------------
(* What the store says now.                                                *)

Exists(g) == groups[g] # NoGroup

maskAllows(grant, mask) == mask = {} \/ grant.mask = Unset \/ mask \subseteq grant.mask

scopeMatches(grant, scope) == grant.scope \in {Unset, scope}

Matches(grant, q) ==
  /\ grant # NoGrant
  /\ maskAllows(grant, q.mask)
  /\ scopeMatches(grant, q.scope)

Nothing == [edges |-> {}, grants |-> {}]

Edges == UNION {{<<g, x>> : x \in groups[g].members \cup groups[g].subgroups} :
                g \in {h \in Group : Exists(h)}}

(* The groups from which x is reached over the given edges.                *)
Above(x, edges) ==
  LET up[n \in 0..Cardinality(Group)] ==
        IF n = 0 THEN {x}
        ELSE up[n - 1] \cup {g \in Group : \E y \in up[n - 1] : <<g, y>> \in edges}
  IN up[Cardinality(Group)] \ {x}

(* isMember visits one group per step: todo are the groups still to visit. *)
(* The group that was asked about is not compared with the item.           *)
Walk(item, todo, first) == [item |-> item, todo |-> todo, first |-> first]

VisitWith(w, g, rest) ==
  IF g # w.first /\ g = w.item THEN [said |-> "yes", walk |-> w]
  ELSE IF ~Exists(g) THEN [said |-> "error", walk |-> w]
  ELSE IF w.item \in groups[g].members THEN [said |-> "yes", walk |-> w]
  ELSE [said |-> IF rest = {} THEN "no" ELSE "more", walk |-> Walk(w.item, rest, Idle)]

Subgroups(g) == IF Exists(g) THEN groups[g].subgroups ELSE {}

(* Mutants: subgroups are not entered; a group that is visited stays due.  *)
VisitFlat(w, g) == VisitWith(w, g, w.todo \ {g})
VisitAgain(w, g) == VisitWith(w, g, w.todo \cup Subgroups(g))

(* A step of isMember: what it answers ("yes", "no", "error"), or "more".  *)
Visit(w, g) == VisitWith(w, g, (w.todo \ {g}) \cup Subgroups(g))

-----------------------------------------------------------------------------
(* The administrators.                                                     *)

(* The evaluations under way remember what still holds.                    *)
Remember ==
  since' = [c \in Checker |->
              [edges |-> since[c].edges \cap Edges',
               grants |-> {x \in since[c].grants : grants'[x] = grants[x]}]]

SetGroup(g, record) ==
  /\ groups' = [groups EXCEPT ![g] = record]
  /\ UNCHANGED grants
  /\ Remember

Job(op, pc) == [op |-> op, pc |-> pc, read |-> NoGroup, rest |-> {}, walk |-> Idle]

BeginAdmin(a, op) ==
  /\ admin[a] = Idle
  /\ changes > 0
  /\ admin' = [admin EXCEPT ![a] = Job(op, "read")]
  /\ changes' = changes - 1
  /\ UNCHANGED <<groups, grants, check, since>>

Becomes(a, job) == admin' = [admin EXCEPT ![a] = job]

ReadOnly == UNCHANGED <<groups, grants, since>>

(* requireGroup, or for createGroup and ensureGuest readGroup.             *)
ReadGroup(a) ==
  LET job == admin[a]
      op == job.op
      g == op.group
  IN
  /\ job # Idle /\ job.pc = "read"
  /\ op.kind \notin {"deleteGroup", "grant", "revoke"}
  /\ Becomes(a,
       IF op.kind \in {"createGroup", "ensureGuest"}
       THEN [job EXCEPT !.pc = "write",
                        !.read = IF Exists(g) THEN groups[g] ELSE NewGroup]
       ELSE IF \/ ~Exists(g)
               \/ op.kind = "addMember" /\ op.item \in groups[g].members
       THEN Idle
       ELSE CASE op.kind = "addMember" ->
                   [job EXCEPT !.pc = "write",
                               !.read = [groups[g] EXCEPT !.members = @ \cup {op.item}]]
              [] op.kind = "removeMember" ->
                   [job EXCEPT !.pc = "write",
                               !.read = [groups[g] EXCEPT !.members = @ \ {op.item}]]
              [] op.kind = "removeSubgroup" ->
                   [job EXCEPT !.pc = "write",
                               !.read = [groups[g] EXCEPT !.subgroups = @ \ {op.item}]]
              [] op.kind = "addSubgroup" ->
                   [job EXCEPT !.pc = "child", !.read = groups[g]])
  /\ ReadOnly
  /\ UNCHANGED <<check, changes>>

(* addSubgroup: the child must exist, and must not hold the group.         *)
ReadChild(a) ==
  LET job == admin[a]
      child == job.op.item
  IN
  /\ job # Idle /\ job.pc = "child"
  /\ Becomes(a, IF ~Exists(child) \/ child = job.op.group THEN Idle
                ELSE [job EXCEPT !.pc = "walk",
                                 !.walk = Walk(job.op.group, {child}, child)])
  /\ ReadOnly
  /\ UNCHANGED <<check, changes>>

LookForCycle(a) ==
  LET job == admin[a]
      child == job.op.item
  IN
  /\ job # Idle /\ job.pc = "walk"
  /\ \E g \in job.walk.todo :
       LET v == Visit(job.walk, g) IN
       Becomes(a,
         CASE v.said = "more" -> [job EXCEPT !.walk = v.walk]
           [] v.said = "no" /\ child \notin job.read.subgroups ->
                [job EXCEPT !.pc = "write", !.walk = Idle,
                            !.read = [@ EXCEPT !.subgroups = @ \cup {child}]]
           [] OTHER -> Idle)
  /\ ReadOnly
  /\ UNCHANGED <<check, changes>>

(* writeGroup.  ensureGuest makes the group and then adds the user to it.  *)
WriteGroup(a) ==
  LET job == admin[a] IN
  /\ job # Idle /\ job.pc = "write"
  /\ SetGroup(job.op.group, job.read)
  /\ Becomes(a, IF job.op.kind = "ensureGuest"
                THEN Job([kind |-> "addMember", group |-> GuestGroup,
                          item |-> GuestUser], "read")
                ELSE Idle)
  /\ UNCHANGED <<check, changes>>

(* deleteGroup: the record, then a listing of all groups, then one write   *)
(* of the listed record for every group that referred to it.               *)
DeleteGroup(a) ==
  LET job == admin[a] IN
  /\ job # Idle /\ job.pc = "read" /\ job.op.kind = "deleteGroup"
  /\ SetGroup(job.op.group, NoGroup)
  /\ Becomes(a, [job EXCEPT !.pc = "list"])
  /\ UNCHANGED <<check, changes>>

ListParents(a) ==
  LET job == admin[a]
      g == job.op.group
      parents == {h \in Group : Exists(h) /\ g \in groups[h].subgroups}
  IN
  /\ job # Idle /\ job.pc = "list"
  /\ Becomes(a, IF parents = {} THEN Idle
                ELSE [job EXCEPT !.pc = "unlink",
                        !.rest = {<<h, [groups[h] EXCEPT !.subgroups = @ \ {g}]>> :
                                  h \in parents}])
  /\ ReadOnly
  /\ UNCHANGED <<check, changes>>

Unlink(a) ==
  LET job == admin[a] IN
  /\ job # Idle /\ job.pc = "unlink"
  /\ \E p \in job.rest :
       /\ SetGroup(p[1], p[2])
       /\ Becomes(a, IF job.rest = {p} THEN Idle ELSE [job EXCEPT !.rest = @ \ {p}])
  /\ UNCHANGED <<check, changes>>

(* grant and revoke are one write each.                                    *)
SetGrant(a) ==
  LET job == admin[a]
      op == job.op
  IN
  /\ job # Idle /\ job.pc = "read" /\ op.kind \in {"grant", "revoke"}
  /\ grants' = [grants EXCEPT ![<<op.subject, op.command>>] =
                  IF op.kind = "grant" THEN op.grant ELSE NoGrant]
  /\ UNCHANGED groups
  /\ Remember
  /\ Becomes(a, Idle)
  /\ UNCHANGED <<check, changes>>

(* The process ends in the middle of a change.                             *)
AbandonAdmin(a) ==
  /\ admin[a] # Idle
  /\ Becomes(a, Idle)
  /\ ReadOnly
  /\ UNCHANGED <<check, changes>>

AdminStep(a) ==
  \/ \E op \in AdminOps : BeginAdmin(a, op)
  \/ ReadGroup(a)
  \/ ReadChild(a)
  \/ LookForCycle(a)
  \/ WriteGroup(a)
  \/ DeleteGroup(a)
  \/ ListParents(a)
  \/ Unlink(a)
  \/ SetGrant(a)
  \/ AbandonAdmin(a)

-----------------------------------------------------------------------------
(* canInvoke.  A question names the user, the groups the caller claims, a  *)
(* command, a mask and a scope.                                            *)

(* Mutant: the grants of the groups that the caller claims are not read.   *)
AskForUser(q) == [q |-> q, phase |-> "list", ask |-> {}, of |-> Idle, walk |-> Idle,
                  subjects |-> {q.user}, left |-> {}, found |-> {}]

Ask(q) == [q |-> q, phase |-> "list", ask |-> {}, of |-> Idle, walk |-> Idle,
           subjects |-> {q.user} \cup q.claimed, left |-> {}, found |-> {}]

BeginCheck(c, q) ==
  /\ check' = [check EXCEPT ![c] = Ask(q)]
  /\ since' = [since EXCEPT ![c] = [edges |-> Edges, grants |-> Subject \X Command]]

CheckBecomes(c, k) == check' = [check EXCEPT ![c] = k]

(* Every listed group is asked for the user and for each claimed group.    *)
ListSubjects(c) ==
  LET k == check[c]
      listed == {g \in Group : Exists(g)}
  IN
  /\ k # Idle /\ k.phase = "list"
  /\ CheckBecomes(c, [k EXCEPT !.phase = "ask",
                               !.ask = listed \X ({k.q.user} \cup k.q.claimed)])
  /\ UNCHANGED <<groups, grants, admin, since, changes>>

PoseQuery(c) ==
  LET k == check[c]
      query == CHOOSE x \in k.ask : TRUE
  IN
  /\ k # Idle /\ k.phase = "ask"
  /\ CheckBecomes(c,
       IF k.ask = {} THEN [k EXCEPT !.phase = "grants", !.left = k.subjects]
       ELSE [k EXCEPT !.phase = "walk", !.ask = @ \ {query}, !.of = query[1],
                      !.walk = Walk(query[2], {query[1]}, query[1])])
  /\ UNCHANGED <<groups, grants, admin, since, changes>>

(* A group that is missing on the way fails the whole evaluation.          *)
WalkQuery(c) ==
  LET k == check[c] IN
  /\ k # Idle /\ k.phase = "walk"
  /\ \E g \in k.walk.todo :
       LET v == Visit(k.walk, g) IN
       CheckBecomes(c,
         CASE v.said = "more" -> [k EXCEPT !.walk = v.walk]
           [] v.said = "no" -> [k EXCEPT !.phase = "ask", !.walk = Idle]
           [] v.said = "yes" -> [k EXCEPT !.phase = "ask", !.walk = Idle,
                                          !.subjects = @ \cup {k.of}]
           [] v.said = "error" -> [k EXCEPT !.phase = "refused", !.walk = Idle])
  /\ UNCHANGED <<groups, grants, admin, since, changes>>

ReadGrant(c) ==
  LET k == check[c]
      s == CHOOSE x \in k.left : TRUE
  IN
  /\ k # Idle /\ k.phase = "grants" /\ k.left # {}
  /\ CheckBecomes(c, [k EXCEPT !.left = @ \ {s},
                        !.found = (@ \cup {grants[<<s, k.q.command>>]}) \ {NoGrant}])
  /\ UNCHANGED <<groups, grants, admin, since, changes>>

(* A grant that denies outdoes every grant that allows.                    *)
Granted(k) ==
  LET matching == {x \in k.found : Matches(x, k.q)} IN
  /\ \A x \in matching : x.allow
  /\ matching # {}

Decide(c) ==
  LET k == check[c] IN
  /\ k # Idle /\ k.phase = "grants" /\ k.left = {}
  /\ CheckBecomes(c, [k EXCEPT !.phase = IF Granted(k) THEN "allowed" ELSE "refused"])
  /\ UNCHANGED <<groups, grants, admin, since, changes>>

CheckStep(c) ==
  \/ ListSubjects(c)
  \/ PoseQuery(c)
  \/ WalkQuery(c)
  \/ ReadGrant(c)
  \/ Decide(c)

IamInit ==
  /\ groups = GroupsAtStart
  /\ grants = GrantsAtStart
  /\ admin = [a \in Admin |-> Idle]
  /\ check = [c \in Checker |-> Idle]
  /\ since = [c \in Checker |-> Nothing]

-----------------------------------------------------------------------------
(* The groups never hold one another in a circle, in which the recursive   *)
(* isMember of every evaluation would go round for ever.                   *)
GroupsAcyclic ==
  \A g \in Group : <<g, g>> \notin Edges /\ \A h \in Above(g, Edges) : g \notin Above(h, Edges)

(* A caller is never let through while a grant denies it all along: from   *)
(* the moment the evaluation began there was a denying grant that matches, *)
(* for the user, for a group the caller claims, or for a group that holds  *)
(* one of these over memberships that were not touched meanwhile.          *)
DenyHolds ==
  \A c \in Checker :
    check[c] # Idle /\ check[c].phase = "allowed" =>
      LET q == check[c].q
          named == {q.user} \cup q.claimed
          held == named \cup UNION {Above(x, since[c].edges) : x \in named}
      IN \A s \in held : <<s, q.command>> \in since[c].grants =>
                            ~(Matches(grants[<<s, q.command>>], q) /\ ~grants[<<s, q.command>>].allow)
=============================================================================
