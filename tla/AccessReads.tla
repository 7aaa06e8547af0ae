----------------------------- MODULE AccessReads -----------------------------
(***************************************************************************)
(* What a user may do and what a user is shown: the effective permissions  *)
(* the API computes from a user's roles (apps/api/src/security), and the   *)
(* lists and details of work orders, samples and documents that read them. *)
(* Departments and subdivisions are named from the user's point of view.   *)
(***************************************************************************)
EXTENDS Naturals, FiniteSets, Sequences, SequencesExt

CONSTANTS
    RoleCodes,    \* RoleCodes[r]: the permissions of the role
    SubGrant,     \* the rows of role_subdept_grants: [role, own, scope, deny, extra]
    GrantScope,   \* the scopes a role is granted with
    SELF_SERVICE, \* the permissions every user has for himself
    MaxGrants     \* bound on the rows of user_roles

SCOPE_RANK == [NONE |-> 0, SELF |-> 0, TEAM |-> 0, SUBDEPT |-> 1, DEPT |-> 2, ALL |-> 3]
\* The device's ranking of the scopes (packages/domain/src/client.ts).
ViewRank == [NONE |-> 0, SELF |-> 1, TEAM |-> 2, SUBDEPT |-> 3, DEPT |-> 4, ALL |-> 5]
Scope == DOMAIN SCOPE_RANK

\* Scopes are the column's enumeration, and a role has one row for each subdivision
\* (schema.prisma, @@unique([subDeptId, roleId])).
ASSUME AccessAssumption ==
    /\ GrantScope \subseteq Scope
    /\ \A s \in SubGrant : s.role \in DOMAIN RoleCodes /\ s.scope \in Scope
    /\ \A s, t \in SubGrant : s.own /\ t.own /\ s.role = t.role => s = t

Code == UNION {RoleCodes[r] : r \in DOMAIN RoleCodes} \cup SELF_SERVICE
        \cup UNION {g.extra : g \in SubGrant}
RoleGrant == [role : DOMAIN RoleCodes, scope : GrantScope, expired : BOOLEAN]

VARIABLES
    userRoles,    \* the rows of user_roles, in no order
    atLab,        \* the user's subdivision is of the kind LAB
    profile       \* the permissions loaded since the roles last changed, [code -> scope],
                  \* or NotLoaded.  (The profile that is served from the cache for a while
                  \* after a change belongs to AuthSession.)

accessVars == <<userRoles, atLab, profile>>

NotLoaded == [none |-> "none"]

AccessInit ==
    /\ userRoles = {} /\ atLab \in BOOLEAN /\ profile = NotLoaded

-----------------------------------------------------------------------------
(* Roles and their evaluation                                              *)

\* An administrator grants a role.  The unique key of the table holds columns that are
\* NULL, so it keeps no grant out: a role may be held with several scopes, and a row
\* that is there already changes nothing.
AssignRole(r, scope) ==
    /\ Cardinality(userRoles) < MaxGrants
    /\ userRoles' = userRoles \cup {[role |-> r, scope |-> scope, expired |-> FALSE]}
    /\ profile' = NotLoaded /\ UNCHANGED atLab
\* The row is deleted (by no handler of the API), or its time runs out.
WithdrawRole(g) ==
    /\ userRoles' = userRoles \ {g}
    /\ profile' = NotLoaded /\ UNCHANGED atLab
RoleExpires(g) ==
    /\ ~g.expired
    /\ userRoles' = (userRoles \ {g}) \cup {[g EXCEPT !.expired = TRUE]}
    /\ profile' = NotLoaded /\ UNCHANGED atLab

Granted(byCode, c) == c \in DOMAIN byCode
\* Mutant: the last grant wins.
UpsertLast(byCode, codes, scope) ==
    [c \in DOMAIN byCode \cup codes |-> IF c \in codes THEN scope ELSE byCode[c]]
\* A permission is entered once, and again only with a wider scope.
upsert(byCode, codes, scope) ==
    [c \in DOMAIN byCode \cup codes |->
        IF c \in codes /\ (~Granted(byCode, c) \/ SCOPE_RANK[scope] > SCOPE_RANK[byCode[c]])
        THEN scope ELSE byCode[c]]
Delete(byCode, codes) == [c \in DOMAIN byCode \ codes |-> byCode[c]]

\* One role of the user: its permissions with the scope of the grant, then the exceptions
\* for the user's subdivision, the extra permissions in and the denied ones out.
Special(g) == {s \in SubGrant : s.role = g.role /\ s.own}
OfRole(byCode, g) ==
    LET base == upsert(byCode, RoleCodes[g.role], g.scope)
    IN  IF g.expired THEN byCode
        ELSE IF Special(g) = {} THEN base
        ELSE LET s == CHOOSE s \in Special(g) : TRUE    \* there is no other
             IN  Delete(upsert(base, s.extra, s.scope), s.deny \cap RoleCodes[g.role])

\* The permissions after each of the roles.
Entered(order) ==
    LET byCode[i \in 0 .. Len(order)] == IF i = 0 THEN <<>> ELSE OfRole(byCode[i - 1], order[i])
    IN  byCode

\* When nothing was found, the defaults of the subdivision for the roles the user has,
\* each with the widest of its scopes: the query does not look at the roles' expiry.
Widest(scopes) ==
    CHOOSE scope \in scopes : \A other \in scopes : SCOPE_RANK[scope] >= SCOPE_RANK[other]
ScopesOf(rows, c) == {r.scope : r \in {s \in rows : c \in RoleCodes[s.role]}}
Defaults(grants) ==
    LET rows == UNION {Special(g) : g \in grants}
    IN  [c \in UNION {RoleCodes[r.role] : r \in rows} |-> Widest(ScopesOf(rows, c))]

Loaded(order) ==
    LET byCode == Entered(order)[Len(order)]
    IN  upsert(IF DOMAIN byCode = {} THEN Defaults(ToSet(order)) ELSE byCode,
               SELF_SERVICE, "SELF")

\* The roles are read without ORDER BY.
Load(order) ==
    /\ profile = NotLoaded
    /\ profile' = Loaded(order)
    /\ UNCHANGED <<userRoles, atLab>>

AccessNext ==
    \/ \E r \in DOMAIN RoleCodes, scope \in GrantScope : AssignRole(r, scope)
    \/ \E g \in userRoles : WithdrawRole(g) \/ RoleExpires(g)
    \/ \E order \in SetToSeqs(userRoles) : Load(order)

AccessSpec == AccessInit /\ [][AccessNext]_accessVars

isFacilityWide == \E c \in DOMAIN profile : profile[c] = "ALL"
MayRead(c) == Granted(profile, c)

\* The device's copy of the permissions, which decides on its menus and filters.
AccessView(grants) ==
    [c \in {g.code : g \in grants} |->
        (CHOOSE g \in grants : /\ g.code = c
                               /\ \A o \in grants : o.code = c => ViewRank[g.scope] >= ViewRank[o.scope]).scope]
ViewFacilityWide(view) == \E c \in DOMAIN view : view[c] = "ALL"

-----------------------------------------------------------------------------
(* Lists and details                                                       *)

\* A row: the subdivision and department it belongs to, whether the user made it,
\* whether it holds the text searched for, and the order a document is attached to.
Place == {[sub |-> "own", dept |-> "own"], [sub |-> "next", dept |-> "own"],
          [sub |-> "far", dept |-> "far"]}
NoOrderRow == [sub |-> "none", dept |-> "none"]
ReadRow == [at : Place, mine : BOOLEAN, matches : BOOLEAN, order : Place \cup {NoOrderRow}]

\* Work orders: list and detail narrow by scopeWhere.
OrderScope(row) ==
    LET scope == profile["maint.wo.view"]
    IN  \/ scope = "ALL"
        \/ scope = "DEPT" /\ row.at.dept = "own"
        \/ scope = "SUBDEPT" /\ (row.at.sub = "own" \/ row.mine)
        \/ scope \notin {"ALL", "DEPT", "SUBDEPT"} /\ row.mine
\* The list puts the scope after the search, and a SUBDEPT scope is an OR as the search
\* is: the second OR replaces the first.
OrderListed(row, search) ==
    /\ MayRead("maint.wo.view") /\ OrderScope(row)
    /\ search => row.matches \/ profile["maint.wo.view"] = "SUBDEPT"
OrderOpens(row) == MayRead("maint.wo.view") /\ OrderScope(row)

\* Samples, and what hangs on them, by the permission asked for: the laboratory serves
\* its whole department.
sampleScope(code, row) ==
    LET scope == profile[code]
    IN  \/ scope = "ALL" \/ isFacilityWide
        \/ scope = "DEPT" /\ row.at.dept = "own"
        \/ scope = "SUBDEPT" /\ atLab /\ row.at.dept = "own"
        \/ scope = "TEAM" /\ row.at.sub = "own"
        \/ scope = "SUBDEPT" /\ ~atLab /\ (row.at.sub = "own" \/ row.mine)
        \/ scope \in {"SELF", "NONE"} /\ row.mine
\* The list puts the search after the scope.
SampleListed(row, search) ==
    LET searchReplacesScope ==
            search /\ profile["lab.sample.view"] = "SUBDEPT" /\ ~atLab /\ ~isFacilityWide
    IN  /\ MayRead("lab.sample.view")
        /\ sampleScope("lab.sample.view", row) \/ searchReplacesScope
        /\ search => row.matches
SampleOpens(row) == MayRead("lab.sample.view") /\ sampleScope("lab.sample.view", row)
\* The figures of the laboratory's board count the samples of the last thirty days.
SampleCounted(row) == MayRead("lab.result.view") /\ sampleScope("lab.result.view", row)
\* A case of a sample out of its limits: in the list, and taken a step further.
CaseListed(row) == MayRead("lab.oos.view") /\ sampleScope("lab.oos.view", row)
CaseYields(row) == MayRead("lab.oos.manage") /\ sampleScope("lab.oos.manage", row)

\* Documents: the list has a condition for SELF and one for SUBDEPT, none for the others.
DocListed(row) ==
    LET scope == profile["doc.view"]
    IN  /\ MayRead("doc.view")
        /\ scope = "SELF" => row.mine
        /\ scope = "SUBDEPT" /\ ~isFacilityWide => row.at.sub = "own" \/ row.mine
\* Mutant: the uploader is not asked for before the order.
SeenByScope(row) ==
    LET scope == profile["doc.view"]
    IN  \/ scope = "ALL" \/ isFacilityWide
        \/ scope = "SUBDEPT" /\ row.at.sub = "own"
        \/ IF scope = "DEPT" THEN row.order.dept = "own" ELSE row.order.sub = "own"
\* A document is for the uploader, the owning subdivision, and whoever's scope holds the
\* order it is attached to.
assertCanSee(row) ==
    LET scope == profile["doc.view"]
    IN  \/ scope = "ALL" \/ isFacilityWide
        \/ row.mine
        \/ scope = "SUBDEPT" /\ row.at.sub = "own"
        \/ IF scope = "DEPT" THEN row.order.dept = "own" ELSE row.order.sub = "own"
\* Its content is streamed, once the download is audited.
DocOpens(row) == MayRead("doc.view") /\ assertCanSee(row)

\* The change feed of a device: the changes to its department's rows, and those the user
\* made himself.
pullScope(row, actorIsUser) == isFacilityWide \/ row.at.dept = "own" \/ actorIsUser

-----------------------------------------------------------------------------
(* Properties                                                              *)

\* Whatever the order in which the database returns the roles, a permission no
\* subdivision denies is in the profile when a role in force gives it, and its scope is
\* the widest of those it is given with (permission.service.ts:30-34 and :128-140); the
\* device's view of it is the same.  (A denied permission comes back when a later role
\* has it.)
WidestGrantWins ==
    profile # NotLoaded =>
       LET inForce == {g \in userRoles : ~g.expired}
           special == {s \in SubGrant : s.own /\ \E g \in inForce : g.role = s.role}
           denied == UNION {s.deny : s \in special}
           given(c) == {g.scope : g \in {h \in inForce : c \in RoleCodes[h.role]}}
                       \cup {s.scope : s \in {t \in special : c \in t.extra}}
           view == AccessView({[code |-> c, scope |-> profile[c]] : c \in DOMAIN profile})
       IN  /\ \A c \in Code \ denied : given(c) # {} =>
                 /\ Granted(profile, c)
                 /\ profile[c] \in given(c)
                 /\ \A scope \in given(c) : SCOPE_RANK[profile[c]] >= SCOPE_RANK[scope]
           /\ view = profile
           /\ ViewFacilityWide(view) = isFacilityWide

\* Whatever gives the user c gives him d with it, and his subdivision denies him neither.
GivenWith(c, d) ==
    /\ \A g \in userRoles : c \in RoleCodes[g.role] => d \in RoleCodes[g.role]
    /\ \A g \in userRoles : \A s \in Special(g) :
          (c \in s.extra => d \in s.extra) /\ c \notin s.deny /\ d \notin s.deny
    /\ c \in SELF_SERVICE => d \in SELF_SERVICE

\* The server ranks TEAM, SELF and NONE alike, so of two such grants the row that comes
\* first decides.
Tied(c, d) == {profile[c], profile[d]} \subseteq {"NONE", "SELF", "TEAM"}

\* A user can open what a list shows: no row leads to "not found" or "outside your
\* scope".  Whoever may manage cases can take a step in each case he is shown, which
\* asks for another permission than the list (lab.service.ts:417-470), if his roles give
\* the two together, as all but PLANT_MANAGER do; the board counts no sample its
\* reader's list lacks (lab.service.ts:192-202), if his roles that read results read
\* samples too, as all but HSE_OFFICER do, and the two scopes do not tie; the feed tells
\* a user's device of others' changes to his rows.  The last two do not hold of a row he made for
\* another department, which a wider scope hides (sync-engine.service.ts:428-433).  Two
\* lists are left out, because there the code does otherwise: samples searched with a
\* SUBDEPT scope (lab.service.ts:49-57), and documents listed with a scope other than
\* SELF, SUBDEPT or ALL (documents.service.ts:147-148).  A search of orders with a
\* SUBDEPT scope shows rows without the text (work-order.service.ts:119-122).
WhatIsListedOpens ==
    profile # NotLoaded =>
       \A row \in ReadRow :
          /\ \A search \in BOOLEAN : OrderListed(row, search) => OrderOpens(row)
          /\ SampleListed(row, FALSE) => SampleOpens(row)
          /\ CaseListed(row) /\ GivenWith("lab.oos.view", "lab.oos.manage")
                /\ GivenWith("lab.oos.manage", "lab.oos.view") => CaseYields(row)
          /\ row.mine \/
                /\ SampleCounted(row) /\ GivenWith("lab.result.view", "lab.sample.view")
                      /\ ~Tied("lab.result.view", "lab.sample.view") => SampleListed(row, FALSE)
                /\ OrderListed(row, FALSE) \/ SampleListed(row, FALSE) => pullScope(row, FALSE)
          /\ DocListed(row) /\ profile["doc.view"] \in {"SELF", "SUBDEPT", "ALL"} => DocOpens(row)
=============================================================================
