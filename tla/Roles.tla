------------------------------- MODULE Roles -------------------------------
(***************************************************************************)
(* What a caller may do: the gates of the routes (internal/api/api.go,     *)
(* access.go, admin.go, graph.go) and the roles on a Space they ask for    *)
(* (internal/cs3/role.go).                                                 *)
(*                                                                         *)
(* A request keeps what it has read: one list of Spaces, and the caller's  *)
(* groups, which it asks for only when they can make a difference.  It     *)
(* shares nothing with other requests, so one request with one Space in    *)
(* the list covers them all.                                               *)
(***************************************************************************)
EXTENDS Integers, FiniteSets

CONSTANTS
    Principal,      \* ids of users and groups
    Caller,         \* the caller's OpenCloud user id
    Nobody,
    Expiry,         \* when a grant may lapse; 0: it does not
    Noon            \* the time of the request

ASSUME RolesAssumption ==
    Caller \in Principal /\ Nobody \notin Principal /\ Expiry \subseteq Nat /\ Noon \in Nat

VARIABLE check      \* the request
roleVars == <<check>>

RoleNone == 0
RoleViewer == 1
RoleEditor == 2
RoleManager == 3
RoleOwner == 4

\* What the permissions of a grant come down to: may it change grants, write,
\* read, or none of these?  Its permissions and the entry that says when it
\* lapses are documents of their own, either of which may be unreadable.
Right == {"grant", "write", "read"}
RawGrant == [rights : SUBSET Right, readable : BOOLEAN, expires : Expiry, dated : BOOLEAN,
             group : BOOLEAN]

\* The grants of a Space; no group has the id of a user.
RawGrants ==
    {raw \in UNION {[ps -> RawGrant] : ps \in SUBSET Principal} :
        \A p \in DOMAIN raw : /\ raw[p].expires = 0 => raw[p].dated
                              /\ p = Caller => ~raw[p].group}

-----------------------------------------------------------------------------
(* The roles of a Space.                                                    *)

\* The ladder is read from the top.
RoleFromPermissions(rights) ==
    CASE "grant" \in rights -> RoleManager
      [] "grant" \notin rights /\ "write" \in rights -> RoleEditor
      [] rights \cap {"grant", "write"} = {} /\ "read" \in rights -> RoleViewer
      [] OTHER -> RoleNone

\* Principals without a role, and those whose grant cannot be read, are not
\* members.  A grant whose expiry cannot be read does not lapse, and where the
\* map of the groups cannot be read (~marked) every grant is a user's.
ParseMembers(raw, marked) ==
    [p \in {x \in DOMAIN raw : raw[x].readable /\ RoleFromPermissions(raw[x].rights) # RoleNone} |->
        [role |-> RoleFromPermissions(raw[p].rights),
         expires |-> IF raw[p].dated THEN raw[p].expires ELSE 0,
         group |-> marked /\ raw[p].group]]

Expired(m) == m.expires # 0 /\ Noon >= m.expires

Highest(S) == CHOOSE r \in S : \A x \in S : x <= r

\* groups is empty when they are not known.
RoleFor(sp, groups) ==
    IF sp.owner = Caller THEN RoleOwner
    ELSE Highest({RoleNone}
          \cup {sp.members[p].role : p \in {x \in DOMAIN sp.members \cap {Caller} :
                  ~sp.members[x].group /\ ~Expired(sp.members[x])}}
          \cup {sp.members[p].role : p \in {x \in DOMAIN sp.members \cap groups :
                  sp.members[x].group /\ ~Expired(sp.members[x])}})

GroupGrants(sp) == \E p \in DOMAIN sp.members : sp.members[p].group

\* Whether permits (min) and role (no min) answer without the groups.
PermitsSettled(sp, min) == RoleFor(sp, {}) >= min \/ ~GroupGrants(sp)

\* Mutant: an editor is taken for the highest a group can make.
EditorSettled(sp) == RoleFor(sp, {}) >= RoleEditor \/ ~GroupGrants(sp)

RoleSettled(sp) == RoleFor(sp, {}) >= RoleManager \/ ~GroupGrants(sp)

-----------------------------------------------------------------------------
(* The routes.                                                              *)

\* requireRole with the handler's minimum, the list of Spaces with the role of
\* each, the targets (which need the Spaces one can view), and the admin gate.
Route ==
    [kind : {"space"}, min : {RoleViewer, RoleEditor, RoleManager}]
    \cup [kind : {"spaces", "targets", "admin"}, min : {RoleViewer}]

\* Authenticate has let the caller in.
Ask(r) ==
    /\ check.pc = "idle"
    /\ check' = [pc |-> IF r.kind = "admin" THEN "admin" ELSE "list", route |-> r]

Settle(sp, groups, asked, code) ==
    check' = [pc |-> "answered", route |-> check.route, code |-> code, space |-> sp,
              groups |-> groups, asked |-> asked, role |-> RoleFor(sp, groups)]

\* The answer once the role is known.  A Space nobody may see and a Space that
\* is not there are the same 403.
Decide(sp, groups, asked) ==
    Settle(sp, groups, asked,
           IF check.route.kind = "space" /\ RoleFor(sp, groups) < check.route.min
           THEN 403 ELSE 200)

\* An answer that takes no role: errors (502 from upstream, 503 not configured)
\* and what is decided without a Space.
Answer(code) == check' = [pc |-> "answered", route |-> check.route, code |-> code]

\* listSpaces: for one Space, its owner and its grants as CS3 has them.
ListSpaces ==
    /\ check.pc = "list"
    /\ \/ Answer(502) \/ Answer(503)
       \/ check.route.kind = "targets" /\ Answer(200)   \* no Space reader: none of its Spaces
       \/ check.route.kind = "space" /\ Answer(403)     \* the Space is not in the list
       \/ \E raw \in RawGrants, marked \in BOOLEAN, owner \in {Nobody, Caller} :
            LET sp == [owner |-> owner, members |-> ParseMembers(raw, marked),
                       raw |-> raw, marked |-> marked] IN
            IF \/ check.route.kind = "spaces" /\ RoleSettled(sp)
               \/ check.route.kind # "spaces" /\ PermitsSettled(sp, check.route.min)
            THEN Decide(sp, {}, FALSE)
            ELSE check' = [pc |-> "groups", route |-> check.route, space |-> sp]

\* callerGroups, from graph /me.
CallerGroups ==
    /\ check.pc = "groups"
    /\ \/ \E groups \in SUBSET Principal : Decide(check.space, groups, TRUE)
       \/ Answer(502) \/ Answer(503)

\* ResolveAdmin and RequireAdmin: a lookup that fails makes nobody an admin.
IsAdmin ==
    /\ check.pc = "admin"
    /\ Answer(200) \/ Answer(403)

Done ==
    /\ check.pc = "answered"
    /\ check' = [pc |-> "idle"]

RolesInit == check = [pc |-> "idle"]
RolesNext == (\E r \in Route : Ask(r)) \/ ListSpaces \/ CallerGroups \/ IsAdmin \/ Done

RolesSpec == RolesInit /\ [][RolesNext]_roleVars

-----------------------------------------------------------------------------
(* Properties.                                                              *)

\* What a role is, from some of the grants: ownership, or one of them that is
\* the caller's own or a group's the caller is in, and carries a right of the
\* level asked for or of a higher one.
Reaches(sp, some, groups, min) ==
    \/ sp.owner = Caller
    \/ /\ min < RoleOwner
       /\ \E p \in some :
            /\ IF sp.raw[p].group THEN p \in groups ELSE p = Caller
            /\ \/ "grant" \in sp.raw[p].rights
               \/ min <= RoleEditor /\ "write" \in sp.raw[p].rights
               \/ min <= RoleViewer /\ "read" \in sp.raw[p].rights

\* The readable grants that have not lapsed; those of them that are known for
\* what they are, a user's or a group's; and all of them with those of which it
\* cannot be read whether they have lapsed.
Live(sp) == {p \in DOMAIN sp.raw :
               sp.raw[p].readable /\ (sp.raw[p].expires = 0 \/ Noon < sp.raw[p].expires)}
Known(sp) == {p \in Live(sp) : sp.raw[p].group => sp.marked}
Possible(sp) == Live(sp) \cup {p \in DOMAIN sp.raw : sp.raw[p].readable /\ ~sp.raw[p].dated}

\* To grant is what the known grants demand and the possible ones allow, which
\* are the same where everything can be read.
Warranted(granted, sp, groups, min) ==
    /\ Reaches(sp, Known(sp), groups, min) => granted
    /\ granted => Reaches(sp, Possible(sp), groups, min)

\* Every decision is the one the grants demand, and the list of Spaces shows
\* the caller's exact role; where the groups were not asked for, that is so
\* whatever groups the caller is in.  An expiry or a map of groups that cannot
\* be read takes nothing from a user's own grant, and gives nobody more than
\* what some grant once gave them - which may have lapsed, although an unreadable
\* expiry "must not turn [...] an expired grant into a live one" (role_test.go).
DecisionIsTheRoles ==
    check.pc = "answered" /\ "space" \in DOMAIN check =>
        \A groups \in IF check.asked THEN {check.groups} ELSE SUBSET Principal :
            CASE check.route.kind = "space" ->
                   Warranted(check.code = 200, check.space, groups, check.route.min)
              [] check.route.kind = "targets" ->
                   Warranted(check.role >= RoleViewer, check.space, groups, RoleViewer)
              [] check.route.kind = "spaces" ->
                   \A m \in RoleViewer .. RoleOwner :
                      Warranted(check.role >= m, check.space, groups, m)

=============================================================================
