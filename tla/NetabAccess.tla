----------------------------- MODULE NetabAccess -----------------------------
(***************************************************************************)
(* Who may do what with a table of the netab service: tokens and how they  *)
(* are come by (src/src/netab/netab_service.ts), rules per group           *)
(* (src/src/netab/rbac.ts), and the scope of a token that is bound to one  *)
(* site.  A token is the context it decodes to.  Its location and its      *)
(* brand follow from its site, as do the fields of a row that hold them,   *)
(* and are left out; so are the secrets and names of databases.            *)
(***************************************************************************)
EXTENDS Steng

CONSTANTS
  Site, NoSite,     \* sites, which are values of the field siteId
  SiteRecord,       \* brand, location, proof and publicity of each site
  Pin, JoinCode,    \* what a PIN and a join code give access to
  AclRules,
  Table,            \* the name of the table that is modelled
  SiteScoped,       \* whether its rows belong to sites
  NoHint

ASSUME NetabAccessAssumption ==
  /\ Site \subseteq Val /\ NoSite \notin Site
  /\ DOMAIN SiteRecord = Site
  /\ SiteScoped \in BOOLEAN

Context(groups, site) == [groups |-> groups, site |-> site]

-----------------------------------------------------------------------------
(* Rules.  A permission that names no fields leaves all of them open.      *)

AllFields == {"*"}
Allows(allow) == [allow |-> allow, readFields |-> AllFields, writeFields |-> AllFields]

Everything == {"admin", "read", "query", "write", "delete", "subscribe",
               "blob_add", "blob_delete"}
Using == {"read", "query", "write", "delete", "subscribe"}

defaultAclRules ==
  {[group |-> "customer",
    tables |-> "menu_items" :> Allows({"read", "query", "subscribe"}) @@
               "orders" :> [Allows({"write", "read"}) EXCEPT !.writeFields =
                 {"items", "notes", "customer", "source", "createdAt", "siteId",
                  "brandId", "locationId"}]],
   [group |-> "staff",
    tables |-> "*" :> Allows({"read", "query", "subscribe"}) @@ "orders" :> Allows(Using) @@
               "menu_items" :> Allows(Using) @@ "events" :> Allows(Using)],
   [group |-> "installer", tables |-> "*" :> Allows(Everything)],
   [group |-> "admin", tables |-> "*" :> Allows(Everything)]}

(* Once one rule restricts the fields, those that do not are passed over.  *)
mergeStringLists(lists) == IF lists \subseteq {AllFields} THEN AllFields ELSE UNION (lists \ {AllFields})

resolvePermission(ctx) ==
  LET named(r) == {Table, "*"} \cap DOMAIN r.tables
      of(r) == r.tables[IF Table \in DOMAIN r.tables THEN Table ELSE "*"]
      perms == {of(r) : r \in {x \in AclRules : x.group \in ctx.groups /\ named(x) # {}}}
  IN [allow |-> UNION {x.allow : x \in perms},
      readFields |-> mergeStringLists({x.readFields : x \in perms}),
      writeFields |-> mergeStringLists({x.writeFields : x \in perms})]

Permitted(ctx, action) == {action, "admin"} \cap resolvePermission(ctx).allow # {}

filterReadableValue(v, perm) ==
  IF perm.readFields = AllFields THEN v
  ELSE Restrict(v, {l \in DOMAIN v : Field[l] \in perm.readFields})

WritableFields(v, perm) ==
  \/ perm.writeFields = AllFields
  \/ "admin" \in perm.allow
  \/ \A l \in DOMAIN v : Field[l] \in perm.writeFields

-----------------------------------------------------------------------------
(* The scope of a token.                                                   *)

Bound(ctx) == SiteScoped /\ ctx.site # NoSite

(* Mutant: queries of every token see the rows of all sites.               *)
UnscopedFilter(ctx, filter) == filter

applySiteScope(ctx, filter) ==
  IF Bound(ctx) THEN filter \cup {Clause("siteId", "==", ctx.site)} ELSE filter

OutOfScope(ctx, v) == Bound(ctx) /\ "siteId" \in DOMAIN v /\ v["siteId"] # ctx.site

applyWriteScope(ctx, v) ==
  IF Bound(ctx) THEN deepMerge(v, [l \in {"siteId"} |-> ctx.site]) ELSE v

-----------------------------------------------------------------------------
(* How tokens are come by: the contexts that an attempt yields, at most    *)
(* one, or none when it is refused.                                        *)

Public == {s \in Site : SiteRecord[s].public}
findSitesByBrand(brand) == {s \in Site : SiteRecord[s].brand = brand}

TheOnly(sites) == IF Cardinality(sites) = 1 THEN sites ELSE {}

resolveAnonymousSite(siteHint, brandHint) ==
  IF siteHint # NoHint THEN {siteHint} \cap Public
  ELSE IF brandHint # NoHint THEN TheOnly(findSitesByBrand(brandHint) \cap Public)
  ELSE TheOnly(Public)

auth_anonymous(siteHint, brandHint) ==
  {Context({"customer"}, s) : s \in resolveAnonymousSite(siteHint, brandHint)}

auth_login_pin(pin) ==
  IF pin \in DOMAIN Pin THEN {Context(Pin[pin].groups, Pin[pin].site)} ELSE {}

access_redeem_join_code(code) ==
  IF code \in DOMAIN JoinCode THEN {Context({"staff"}, JoinCode[code])} ELSE {}

access_request_location_access(location, proof) ==
  {Context({"staff"}, s) :
     s \in {x \in Site : /\ SiteRecord[x].location = location
                         /\ SiteRecord[x].proof \in {NoHint, proof}}}

Attempts ==
  {auth_anonymous(s, b) : s \in Site \cup {NoHint},
                          b \in {SiteRecord[x].brand : x \in Site} \cup {NoHint}}
  \cup {auth_login_pin(p) : p \in DOMAIN Pin}
  \cup {access_redeem_join_code(c) : c \in DOMAIN JoinCode}
  \cup {access_request_location_access(SiteRecord[x].location, proof) :
          x \in Site, proof \in {SiteRecord[y].proof : y \in Site} \cup {NoHint}}

=============================================================================
