----------------------------- MODULE AccessProofs -----------------------------
(* Proofs about Login and Roles: the token check for any keys, tokens and   *)
(* times, and the role check for any principals, grants and groups.         *)
EXTENDS Login, Roles, TLAPS

-----------------------------------------------------------------------------
(* Roles.                                                                   *)

Role == RoleNone .. RoleOwner

\* A Space as CS3 describes it.
Described(sp) ==
    /\ sp = [owner |-> sp.owner, members |-> sp.members, raw |-> sp.raw, marked |-> sp.marked]
    /\ sp.raw \in RawGrants /\ sp.marked \in BOOLEAN
    /\ sp.members = ParseMembers(sp.raw, sp.marked)

\* The highest of some roles is one of them, and no other is higher.
LEMMA HighestIsHighest ==
  ASSUME NEW S \in SUBSET Role, S # {}
  PROVE  Highest(S) \in S /\ \A x \in S : x <= Highest(S)
  <1>1. \E r \in S : \A x \in S : x <= r
    <2>1. \A x \in S : x \in {0, 1, 2, 3, 4}
      BY DEF Role, RoleNone, RoleOwner
    <2>2. CASE 4 \in S
      BY <2>1, <2>2
    <2>3. CASE 4 \notin S /\ 3 \in S
      BY <2>1, <2>3
    <2>4. CASE 4 \notin S /\ 3 \notin S /\ 2 \in S
      BY <2>1, <2>4
    <2>5. CASE 4 \notin S /\ 3 \notin S /\ 2 \notin S /\ 1 \in S
      BY <2>1, <2>5
    <2>6. CASE 4 \notin S /\ 3 \notin S /\ 2 \notin S /\ 1 \notin S
      BY <2>1, <2>6
    <2> QED
      BY <2>2, <2>3, <2>4, <2>5, <2>6
  <1> QED
    BY <1>1 DEF Highest

\* The ladder from permissions to roles, rung by rung.
LEMMA Ladder ==
  ASSUME NEW rights \in SUBSET Right
  PROVE  /\ RoleFromPermissions(rights) \in RoleNone .. RoleManager
         /\ RoleFromPermissions(rights) >= RoleManager <=> "grant" \in rights
         /\ RoleFromPermissions(rights) >= RoleEditor <=> ("grant" \in rights \/ "write" \in rights)
         /\ RoleFromPermissions(rights) >= RoleViewer
              <=> ("grant" \in rights \/ "write" \in rights \/ "read" \in rights)
  BY DEF RoleFromPermissions, RoleNone, RoleViewer, RoleEditor, RoleManager

\* A grant counts, as it is read, for the caller as a member of some groups.
Counts(sp, groups, p) ==
    /\ p \in DOMAIN sp.raw
    /\ IF sp.marked /\ sp.raw[p].group THEN p \in groups ELSE p = Caller
    /\ sp.raw[p].readable
    /\ sp.raw[p].dated => (sp.raw[p].expires = 0 \/ Noon < sp.raw[p].expires)

\* The roles of somebody who does not own the Space are those of the grants that
\* count, and none.
RolesOf(sp, groups) ==
    {RoleNone} \cup {RoleFromPermissions(sp.raw[p].rights) : p \in {x \in DOMAIN sp.raw :
                        Counts(sp, groups, x)}}

\* A member is a principal whose grant is readable and gives a role.
LEMMA Membership ==
  ASSUME NEW sp, Described(sp), NEW p
  PROVE  /\ p \in DOMAIN sp.members <=>
              /\ p \in DOMAIN sp.raw /\ sp.raw[p].readable
              /\ RoleFromPermissions(sp.raw[p].rights) # RoleNone
         /\ p \in DOMAIN sp.members =>
              /\ sp.members[p].role = RoleFromPermissions(sp.raw[p].rights)
              /\ sp.members[p].expires = IF sp.raw[p].dated THEN sp.raw[p].expires ELSE 0
              /\ sp.members[p].group <=> (sp.marked /\ sp.raw[p].group)
         /\ p \in DOMAIN sp.raw =>
              /\ sp.raw[p] \in RawGrant /\ p \in Principal
              /\ sp.raw[p].expires = 0 => sp.raw[p].dated
              /\ p = Caller => ~sp.raw[p].group
  <1>1. p \in DOMAIN sp.raw =>
          /\ sp.raw[p] \in RawGrant /\ p \in Principal
          /\ sp.raw[p].expires = 0 => sp.raw[p].dated
          /\ p = Caller => ~sp.raw[p].group
    BY DEF Described, RawGrants
  <1> DEFINE M == {x \in DOMAIN sp.raw :
                    sp.raw[x].readable /\ RoleFromPermissions(sp.raw[x].rights) # RoleNone}
  <1> DEFINE m(x) == [role |-> RoleFromPermissions(sp.raw[x].rights),
                      expires |-> IF sp.raw[x].dated THEN sp.raw[x].expires ELSE 0,
                      group |-> sp.marked /\ sp.raw[x].group]
  <1>2. sp.members = [x \in M |-> m(x)]
    BY DEF Described, ParseMembers
  <1>3. p \in M => sp.members[p] = m(p)
    BY <1>2
  <1>4. /\ m(p).role = RoleFromPermissions(sp.raw[p].rights)
        /\ m(p).expires = IF sp.raw[p].dated THEN sp.raw[p].expires ELSE 0
        /\ m(p).group <=> (sp.marked /\ sp.raw[p].group)
    OBVIOUS
  <1>5. DOMAIN sp.members = M
    BY <1>2
  <1> HIDE DEF m
  <1> QED
    BY <1>1, <1>3, <1>4, <1>5

\* What RoleFor takes the highest of are these roles, but for none.
LEMMA RoleForIs ==
  ASSUME NEW sp, Described(sp), NEW groups, sp.owner # Caller
  PROVE  /\ RolesOf(sp, groups) \in SUBSET (RoleNone .. RoleManager)
         /\ RoleFor(sp, groups) \in RolesOf(sp, groups)
         /\ \A r \in RolesOf(sp, groups) : r <= RoleFor(sp, groups)
  <1> DEFINE own == {x \in DOMAIN sp.members \cap {Caller} :
                       ~sp.members[x].group /\ ~Expired(sp.members[x])}
  <1> DEFINE theirs == {x \in DOMAIN sp.members \cap groups :
                       sp.members[x].group /\ ~Expired(sp.members[x])}
  <1> DEFINE S == {RoleNone} \cup {sp.members[p].role : p \in own}
                   \cup {sp.members[p].role : p \in theirs}
  <1>1. RoleFor(sp, groups) = Highest(S)
    BY DEF RoleFor
  <1>2. ASSUME NEW p
        PROVE  p \in own \cup theirs <=>
                 (p \in DOMAIN sp.members /\ Counts(sp, groups, p))
    <2>1. CASE p \in DOMAIN sp.members
      <3>1. /\ p \in DOMAIN sp.raw /\ sp.raw[p].readable /\ sp.raw[p] \in RawGrant
            /\ sp.members[p].expires = IF sp.raw[p].dated THEN sp.raw[p].expires ELSE 0
            /\ sp.members[p].group <=> (sp.marked /\ sp.raw[p].group)
        BY <2>1, Membership
      <3>2. sp.raw[p].expires \in Nat /\ Noon \in Nat
        BY <3>1, RolesAssumption DEF RawGrant
      <3>3. ~Expired(sp.members[p]) <=>
              (sp.raw[p].dated => (sp.raw[p].expires = 0 \/ Noon < sp.raw[p].expires))
        BY <3>1, <3>2 DEF Expired
      <3> QED
        BY <2>1, <3>1, <3>3 DEF Counts
    <2>2. CASE p \notin DOMAIN sp.members
      BY <2>2
    <2> QED
      BY <2>1, <2>2
  <1>3. \A p : Counts(sp, groups, p) /\ p \notin DOMAIN sp.members
                => RoleFromPermissions(sp.raw[p].rights) = RoleNone
    BY Membership DEF Counts
  <1>4. S = RolesOf(sp, groups)
    <2>1. ASSUME NEW p \in own \cup theirs PROVE sp.members[p].role \in RolesOf(sp, groups)
      BY <1>2, <2>1, Membership DEF RolesOf, Counts
    <2>2. ASSUME NEW p, Counts(sp, groups, p) PROVE RoleFromPermissions(sp.raw[p].rights) \in S
      <3>1. CASE p \in DOMAIN sp.members
        <4>1. p \in own \cup theirs /\ sp.members[p].role = RoleFromPermissions(sp.raw[p].rights)
          BY <1>2, <2>2, <3>1, Membership
        <4> HIDE DEF own, theirs
        <4> QED
          BY <4>1
      <3>2. CASE p \notin DOMAIN sp.members
        BY <1>3, <2>2, <3>2
      <3> QED
        BY <3>1, <3>2
    <2> HIDE DEF own, theirs
    <2> QED
      BY <2>1, <2>2 DEF RolesOf
  <1>5. RolesOf(sp, groups) \in SUBSET (RoleNone .. RoleManager)
    <2>1. \A p \in DOMAIN sp.raw : sp.raw[p].rights \in SUBSET Right
      BY Membership DEF RawGrant
    <2> QED
      BY <2>1, Ladder DEF RolesOf, RoleNone, RoleManager
  <1> HIDE DEF S
  <1>6. S \in SUBSET Role /\ S # {}
    BY <1>4, <1>5 DEF RolesOf, Role, RoleNone, RoleManager, RoleOwner
  <1> QED
    BY <1>1, <1>4, <1>5, <1>6, HighestIsHighest

\* A role is what the grants reach, as far as they can be read.
LEMMA RoleIsReached ==
  ASSUME NEW sp, Described(sp), NEW groups, NEW min \in RoleViewer .. RoleOwner
  PROVE  /\ RoleFor(sp, groups) \in Role
         /\ Warranted(RoleFor(sp, groups) >= min, sp, groups, min)
  <1> USE DEF RoleNone, RoleViewer, RoleEditor, RoleManager, RoleOwner
  <1>1. CASE sp.owner = Caller
    BY <1>1 DEF RoleFor, Role, Reaches, Warranted
  <1>2. CASE sp.owner # Caller
    <2>1. /\ RoleFor(sp, groups) \in RolesOf(sp, groups) /\ RoleFor(sp, groups) \in 0 .. 3
          /\ \A r \in RolesOf(sp, groups) : r <= RoleFor(sp, groups) /\ r \in 0 .. 3
      BY <1>2, RoleForIs
    <2>2. ASSUME NEW p, Counts(sp, groups, p)
          PROVE  /\ RoleFromPermissions(sp.raw[p].rights) \in 0 .. 3
                 /\ RoleFromPermissions(sp.raw[p].rights) >= min <=>
                      /\ min < RoleOwner
                      /\ \/ "grant" \in sp.raw[p].rights
                         \/ min <= RoleEditor /\ "write" \in sp.raw[p].rights
                         \/ min <= RoleViewer /\ "read" \in sp.raw[p].rights
      <3>1. sp.raw[p].rights \in SUBSET Right
        BY <2>2, Membership DEF Counts, RawGrant
      <3>2. min = 1 \/ min = 2 \/ min = 3 \/ min = 4
        OBVIOUS
      <3> DEFINE r == RoleFromPermissions(sp.raw[p].rights)
      <3>3. /\ r \in 0 .. 3
            /\ r >= 3 <=> "grant" \in sp.raw[p].rights
            /\ r >= 2 <=> ("grant" \in sp.raw[p].rights \/ "write" \in sp.raw[p].rights)
            /\ r >= 1 <=> \/ "grant" \in sp.raw[p].rights \/ "write" \in sp.raw[p].rights
                          \/ "read" \in sp.raw[p].rights
        BY <3>1, Ladder
      <3> HIDE DEF r
      <3>4. r >= min <=>
              /\ min < 4
              /\ \/ "grant" \in sp.raw[p].rights
                 \/ min <= 2 /\ "write" \in sp.raw[p].rights
                 \/ min <= 1 /\ "read" \in sp.raw[p].rights
        BY <3>2, <3>3
      <3> QED
        BY <3>3, <3>4 DEF r
    <2>3. RoleFor(sp, groups) >= min <=>
            \E p : Counts(sp, groups, p) /\ RoleFromPermissions(sp.raw[p].rights) >= min
      <3>1. ASSUME RoleFor(sp, groups) >= min
            PROVE  \E p : Counts(sp, groups, p) /\ RoleFromPermissions(sp.raw[p].rights) >= min
        <4>1. RoleFor(sp, groups) # RoleNone
          BY <3>1, <2>1
        <4> QED
          BY <2>1, <3>1, <4>1 DEF RolesOf
      <3>2. ASSUME NEW p, Counts(sp, groups, p), RoleFromPermissions(sp.raw[p].rights) >= min
            PROVE  RoleFor(sp, groups) >= min
        <4>1. RoleFromPermissions(sp.raw[p].rights) \in RolesOf(sp, groups)
          BY <3>2 DEF RolesOf, Counts
        <4> QED
          BY <2>1, <2>2, <3>2, <4>1
      <3> QED
        BY <3>1, <3>2
    <2> DEFINE Carries(p) == /\ min < RoleOwner
                             /\ \/ "grant" \in sp.raw[p].rights
                                \/ min <= RoleEditor /\ "write" \in sp.raw[p].rights
                                \/ min <= RoleViewer /\ "read" \in sp.raw[p].rights
    <2>4. RoleFor(sp, groups) >= min <=> \E p : Counts(sp, groups, p) /\ Carries(p)
      BY <2>2, <2>3
    <2> HIDE DEF Carries
    <2>5. ASSUME NEW p, p \in Known(sp), IF sp.raw[p].group THEN p \in groups ELSE p = Caller
          PROVE  Counts(sp, groups, p)
      BY <2>5 DEF Known, Live, Counts
    <2>6. ASSUME NEW p, Counts(sp, groups, p)
          PROVE  p \in Possible(sp) /\ IF sp.raw[p].group THEN p \in groups ELSE p = Caller
      <3>1. /\ p \in DOMAIN sp.raw /\ sp.raw[p].dated \in BOOLEAN
            /\ p = Caller => ~sp.raw[p].group
        BY <2>6, Membership DEF Counts, RawGrant
      <3> QED
        BY <2>6, <3>1 DEF Possible, Live, Counts
    <2>7. \A some : Reaches(sp, some, groups, min) <=>
            \E p \in some : (IF sp.raw[p].group THEN p \in groups ELSE p = Caller) /\ Carries(p)
      BY <1>2 DEF Reaches, Carries
    <2>8. Reaches(sp, Known(sp), groups, min) => RoleFor(sp, groups) >= min
      BY <2>4, <2>5, <2>7
    <2>9. RoleFor(sp, groups) >= min => Reaches(sp, Possible(sp), groups, min)
      BY <2>4, <2>6, <2>7
    <2>10. RoleFor(sp, groups) \in Role
      BY <2>1 DEF Role
    <2> QED
      BY <2>8, <2>9, <2>10 DEF Warranted
  <1> QED
    BY <1>1, <1>2

\* More groups never make less of a caller.
LEMMA GroupsOnlyAdd ==
  ASSUME NEW sp, Described(sp), NEW groups
  PROVE  RoleFor(sp, {}) <= RoleFor(sp, groups)
  <1>1. CASE sp.owner = Caller
    BY <1>1 DEF RoleFor, RoleOwner
  <1>2. CASE sp.owner # Caller
    <2>1. RolesOf(sp, {}) \subseteq RolesOf(sp, groups)
      BY DEF RolesOf, Counts
    <2> QED
      BY <1>2, <2>1, RoleForIs
  <1> QED
    BY <1>1, <1>2

\* Without a grant to a group, groups make no difference.
LEMMA NoGroupGrants ==
  ASSUME NEW sp, Described(sp), ~GroupGrants(sp), NEW groups
  PROVE  RoleFor(sp, groups) = RoleFor(sp, {})
  BY DEF RoleFor, GroupGrants

\* What settles a minimum settles it for whatever groups the caller is in.
LEMMA PermitsSettles ==
  ASSUME NEW sp, Described(sp), NEW min \in RoleViewer .. RoleManager, PermitsSettled(sp, min),
         NEW groups
  PROVE  RoleFor(sp, groups) >= min <=> RoleFor(sp, {}) >= min
  <1>1. RoleFor(sp, {}) \in Role /\ RoleFor(sp, groups) \in Role
    BY RoleIsReached DEF RoleViewer, RoleOwner
  <1> QED
    BY <1>1, GroupsOnlyAdd, NoGroupGrants
    DEF PermitsSettled, Role, RoleNone, RoleViewer, RoleManager, RoleOwner

\* What settles a role does so too: no group makes anybody an owner.
LEMMA RoleSettles ==
  ASSUME NEW sp, Described(sp), RoleSettled(sp), NEW groups
  PROVE  RoleFor(sp, groups) = RoleFor(sp, {})
  <1>1. CASE sp.owner = Caller
    BY <1>1 DEF RoleFor
  <1>2. CASE sp.owner # Caller
    <2>1. RoleFor(sp, groups) \in RoleNone .. RoleManager
      BY <1>2, RoleForIs
    <2>2. RoleFor(sp, {}) \in RoleNone .. RoleManager
      BY <1>2, RoleForIs
    <2> QED
      BY <2>1, <2>2, GroupsOnlyAdd, NoGroupGrants DEF RoleSettled, RoleNone, RoleManager
  <1> QED
    BY <1>1, <1>2

\* A request on its way, and one that has got its answer for a Space.
Answered(c) ==
    /\ c.route \in Route /\ c.route.kind # "admin" /\ c.asked \in BOOLEAN
    /\ Described(c.space) /\ c.role = RoleFor(c.space, c.groups)
    /\ c.code = IF c.route.kind = "space" /\ c.role < c.route.min THEN 403 ELSE 200
    /\ ~c.asked => /\ c.groups = {}
                   /\ \/ c.route.kind = "spaces" /\ RoleSettled(c.space)
                      \/ c.route.kind # "spaces" /\ PermitsSettled(c.space, c.route.min)

RolesInv ==
    /\ check.pc \in {"list", "groups"} => check.route \in Route /\ check.route.kind # "admin"
    /\ check.pc = "groups" => Described(check.space)
    /\ (check.pc = "answered" /\ "space" \in DOMAIN check) => Answered(check)

\* Such an answer is the one the grants demand.
LEMMA AnsweredRight ==
  ASSUME Answered(check)
  PROVE  DecisionIsTheRoles
  <1> DEFINE r == check.route
  <1> DEFINE sp == check.space
  <1> USE DEF RoleNone, RoleViewer, RoleEditor, RoleManager, RoleOwner
  <1>1. SUFFICES ASSUME NEW groups \in IF check.asked THEN {check.groups} ELSE SUBSET Principal
                 PROVE  /\ r.kind = "space" => Warranted(check.code = 200, sp, groups, r.min)
                        /\ r.kind = "targets" => Warranted(check.role >= 1, sp, groups, 1)
                        /\ r.kind = "spaces" =>
                             \A m \in 1 .. 4 : Warranted(check.role >= m, sp, groups, m)
    <2>1. r.kind \in {"space", "spaces", "targets"}
      BY DEF Answered, Route
    <2> QED
      BY <2>1 DEF DecisionIsTheRoles
  <1>2. r \in Route /\ Described(sp) /\ check.role = RoleFor(sp, check.groups)
    BY DEF Answered
  <1>3. r.min \in 1 .. 3 /\ (r.kind # "space" => r.min = 1)
    BY <1>2 DEF Route
  <1>4. check.role \in Role /\ RoleFor(sp, groups) \in Role
    BY <1>2, RoleIsReached
  <1>5. (check.code = 200) <=> (r.kind # "space" \/ check.role >= r.min)
    BY <1>3, <1>4 DEF Answered, Role
  <1>6. \A m \in 1 .. 4 : Warranted(RoleFor(sp, groups) >= m, sp, groups, m)
    BY <1>2, RoleIsReached
  <1>7. /\ r.kind # "spaces" => (check.role >= r.min <=> RoleFor(sp, groups) >= r.min)
        /\ r.kind = "spaces" => check.role = RoleFor(sp, groups)
    <2>1. CASE check.asked
      BY <1>1, <1>2, <2>1
    <2>2. CASE ~check.asked
      BY <1>2, <1>3, <2>2, PermitsSettles, RoleSettles DEF Answered
    <2> QED
      BY <2>1, <2>2 DEF Answered
  <1> QED
    BY <1>3, <1>4, <1>5, <1>6, <1>7 DEF Warranted

\* Every step of a request keeps the account of how it was decided.
LEMMA NextRolesInv == RolesInv /\ [RolesNext]_roleVars => RolesInv'
  <1> SUFFICES ASSUME RolesInv, [RolesNext]_roleVars PROVE RolesInv'
    OBVIOUS
  <1>1. ASSUME NEW r \in Route, Ask(r) PROVE RolesInv'
    BY <1>1 DEF Ask, RolesInv
  <1>2. ASSUME NEW code, Answer(code) PROVE RolesInv'
    BY <1>2 DEF Answer, RolesInv
  <1>3. ASSUME NEW sp, NEW groups, NEW asked \in BOOLEAN, Decide(sp, groups, asked),
               Described(sp), check.route \in Route,
               check.route.kind # "admin",
               ~asked => /\ groups = {}
                         /\ \/ check.route.kind = "spaces" /\ RoleSettled(sp)
                            \/ check.route.kind # "spaces" /\ PermitsSettled(sp, check.route.min)
        PROVE  RolesInv'
    <2> DEFINE code == IF check.route.kind = "space" /\ RoleFor(sp, groups) < check.route.min
                       THEN 403 ELSE 200
    <2>1. check' = [pc |-> "answered", route |-> check.route, code |-> code, space |-> sp,
                    groups |-> groups, asked |-> asked, role |-> RoleFor(sp, groups)]
      BY <1>3 DEF Decide, Settle
    <2> HIDE DEF code
    <2>2. /\ check'.pc = "answered" /\ check'.route = check.route /\ check'.code = code
          /\ check'.space = sp /\ check'.groups = groups /\ check'.role = RoleFor(sp, groups)
      BY <2>1
    <2>3. check'.asked = asked
      BY <2>1
    <2>4. Answered(check')
      BY <1>3, <2>2, <2>3 DEF Answered, code
    <2> QED
      BY <2>2, <2>4 DEF RolesInv
  <1>4. CASE ListSpaces
    <2>1. check.route \in Route /\ check.route.kind # "admin"
      BY <1>4 DEF ListSpaces, RolesInv
    <2>2. ASSUME NEW raw \in RawGrants, NEW marked \in BOOLEAN, NEW owner
          PROVE  Described([owner |-> owner, members |-> ParseMembers(raw, marked),
                            raw |-> raw, marked |-> marked])
      BY DEF Described
    <2>3. ASSUME NEW sp, Described(sp),
                 check' = [pc |-> "groups", route |-> check.route, space |-> sp]
          PROVE  RolesInv'
      BY <2>1, <2>3 DEF RolesInv
    <2>4. ASSUME NEW sp, Described(sp), Decide(sp, {}, FALSE),
                 \/ check.route.kind = "spaces" /\ RoleSettled(sp)
                 \/ check.route.kind # "spaces" /\ PermitsSettled(sp, check.route.min)
          PROVE  RolesInv'
      BY <1>3, <2>1, <2>4
    <2> QED
      BY <1>2, <1>4, <2>2, <2>3, <2>4 DEF ListSpaces
  <1>5. CASE CallerGroups
    BY <1>2, <1>3, <1>5 DEF CallerGroups, RolesInv
  <1>6. CASE IsAdmin
    BY <1>2, <1>6 DEF IsAdmin
  <1>7. CASE Done
    BY <1>7 DEF Done, RolesInv
  <1>8. CASE UNCHANGED roleVars
    BY <1>8 DEF roleVars, RolesInv
  <1> QED
    BY <1>1, <1>4, <1>5, <1>6, <1>7, <1>8 DEF RolesNext

\* Every decision is the one the grants demand, for any grants, times and
\* groups, also where the groups were not asked for.
THEOREM DecisionsAreRight == RolesSpec => []DecisionIsTheRoles
  <1>1. RolesInit => RolesInv
    BY DEF RolesInit, RolesInv
  <1>2. RolesInv => DecisionIsTheRoles
    BY AnsweredRight DEF RolesInv, DecisionIsTheRoles
  <1> QED
    BY <1>1, <1>2, NextRolesInv, PTL DEF RolesSpec

-----------------------------------------------------------------------------
(* Login: the inductive invariant.                                          *)

Asked == {"gone", "unpublished", "cached", "published"}
CallPcs == {"resolve", "lookup", "begin", "fetch", "install", "again", "user", "401"}
BusyCall == [pc : CallPcs, token : Token, got : SUBSET SigningKey, at : Int, was : Asked,
             own : BOOLEAN]

LoginTyped ==
    /\ now \in Nat /\ published \subseteq SigningKey /\ gone \subseteq SigningKey
    /\ keySet \in [keys : SUBSET SigningKey, at : Int, attempt : Int]
    /\ dated \in [SigningKey -> Int]
    /\ call \in [Call -> BusyCall \cup {Free}]

\* A key that has been seen anywhere is dated; one that is gone is in no copy;
\* one that was withdrawn was so after the fetch of the copy it is in began.
KeysInv ==
    /\ \A k \in SigningKey : dated[k] <= now
    /\ \A k \in published \cup keySet.keys \cup gone : dated[k] # Never
    /\ gone \cap (published \cup keySet.keys) = {}
    /\ \A k \in keySet.keys \ published : keySet.at <= dated[k] + FetchTimeout
    /\ keySet.attempt <= now /\ keySet.at <= now

\* One request at a time has a fetch, the last attempt is its own, and nobody
\* has another one while it looks again.
FetchInv ==
    /\ \A c \in Call : call[c].pc \in {"fetch", "install", "again"} =>
         /\ call[c].at = keySet.attempt /\ now <= keySet.attempt + FetchTimeout
         /\ \A d \in Call \ {c} : call[d].pc \notin {"fetch", "install"}
    /\ \A c \in Call : call[c].pc = "install" =>
         /\ call[c].got \cap gone = {}
         /\ published \cap keySet.keys \subseteq call[c].got
         /\ \A k \in call[c].got : dated[k] # Never
         /\ \A k \in call[c].got \ published : call[c].at <= dated[k]

\* What a request knows of its key, given how the key stood as it came in.
Knows(r) ==
    LET k == r.token.key IN
    /\ r.at <= now
    /\ r.pc \in {"resolve", "lookup", "begin", "fetch", "install"} => ~r.own
    /\ r.pc = "begin" => r.got \subseteq {k}
    /\ r.was = "gone" => /\ k \in gone /\ r.pc # "user"
                         /\ r.pc = "begin" => r.got = {}
    /\ r.was \in {"cached", "published"} => dated[k] # Never
    /\ (r.was \in {"cached", "published"} /\ k \in published) =>
         /\ r.pc = "install" => k \in r.got
         /\ r.pc = "again" => k \in keySet.keys
    /\ (r.was = "cached" /\ k \in published) =>
         /\ k \in keySet.keys
         /\ r.pc = "begin" => r.got = {k}

CallsInv == \A c \in Call : call[c] # Free => Knows(call[c])

LoginInv ==
    /\ LoginTyped /\ KeysInv /\ FetchInv /\ CallsInv
    /\ WithdrawnKeysFade /\ GoodTokensAreNotRefused

-----------------------------------------------------------------------------
(* ... and the steps.                                                       *)

\* The properties, of one request.
Fades(r) ==
    (r.pc = "user" /\ r.token.key \notin published) =>
        /\ r.was # "gone"
        /\ \/ r.at <= dated[r.token.key] + TTL + FetchTimeout
           \/ r.at - keySet.attempt < MinRefresh

Spoilt(r) == ~r.token.good \/ r.token.exp = Never \/ r.at > r.token.exp + Leeway

Refusable(r) ==
    r.pc = "401" =>
        \/ r.token.key \notin published \/ r.was = "unpublished" \/ Spoilt(r)
        \/ r.was # "cached" /\ r.at - keySet.attempt < MinRefresh /\ ~r.own

\* The properties say this of every request.
LEMMA OneByOne ==
  /\ WithdrawnKeysFade <=> \A c \in Call : Fades(call[c])
  /\ GoodTokensAreNotRefused <=> \A c \in Call : Refusable(call[c])
  BY DEF WithdrawnKeysFade, GoodTokensAreNotRefused, Fades, Refusable, Spoilt, Stands

\* A request that moves on as the invariant wants, and nothing else.
LEMMA CallMoves ==
  ASSUME LoginInv, NEW c \in Call, NEW n \in BusyCall \cup {Free},
         call' = [call EXCEPT ![c] = n], UNCHANGED <<now, published, keySet, dated, gone>>,
         n = Free \/
            /\ n \in BusyCall /\ Knows(n) /\ Fades(n) /\ Refusable(n) /\ n.pc # "again"
            /\ n.pc \in {"fetch", "install"} =>
                 call[c].pc \in {"fetch", "install"} /\ n.at = call[c].at
            /\ n.pc = "install" =>
                 /\ n.got \cap gone = {} /\ published \cap keySet.keys \subseteq n.got
                 /\ \A k \in n.got : dated[k] # Never
                 /\ \A k \in n.got \ published : n.at <= dated[k]
  PROVE  LoginInv'
  <1>1. /\ call' \in [Call -> BusyCall \cup {Free}] /\ call'[c] = n
        /\ \A d \in Call \ {c} : call'[d] = call[d]
    BY DEF LoginInv, LoginTyped
  <1>2. LoginTyped' /\ KeysInv'
    BY <1>1 DEF LoginInv, LoginTyped, KeysInv
  <1>3. n.pc \in {"fetch", "install"} => call[c].pc \in {"fetch", "install"} /\ n.at = call[c].at
    BY DEF Free
  <1>4. n.pc # "again"
    BY DEF Free
  <1>5. FetchInv'
    <2>1. ASSUME NEW d \in Call, call'[d].pc \in {"fetch", "install", "again"}
          PROVE  /\ call'[d].at = keySet.attempt /\ now <= keySet.attempt + FetchTimeout
                 /\ \A e \in Call \ {d} : call'[e].pc \notin {"fetch", "install"}
      <3>1. call[d].pc \in {"fetch", "install", "again"} /\ call'[d].at = call[d].at
        BY <1>1, <1>3, <1>4, <2>1
      <3>2. /\ call[d].at = keySet.attempt /\ now <= keySet.attempt + FetchTimeout
            /\ \A e \in Call \ {d} : call[e].pc \notin {"fetch", "install"}
        BY <3>1 DEF LoginInv, FetchInv
      <3> QED
        BY <1>1, <1>3, <3>1, <3>2
    <2>2. ASSUME NEW d \in Call, call'[d].pc = "install"
          PROVE  /\ call'[d].got \cap gone = {} /\ published \cap keySet.keys \subseteq call'[d].got
                 /\ \A k \in call'[d].got : dated[k] # Never
                 /\ \A k \in call'[d].got \ published : call'[d].at <= dated[k]
      <3>1. CASE d = c
        BY <1>1, <2>2, <3>1 DEF Free
      <3>2. CASE d # c
        BY <1>1, <2>2, <3>2 DEF LoginInv, FetchInv
      <3> QED
        BY <3>1, <3>2
    <2> QED
      BY <2>1, <2>2 DEF FetchInv
  <1>6. CallsInv'
    BY <1>1 DEF LoginInv, CallsInv, Knows
  <1>7. Fades(n) /\ Refusable(n)
    BY DEF Fades, Refusable, Free
  <1>8. \A d \in Call : Fades(call[d])' /\ Refusable(call[d])'
    <2> SUFFICES ASSUME NEW d \in Call PROVE Fades(call[d])' /\ Refusable(call[d])'
      OBVIOUS
    <2>1. Fades(call'[d]) /\ Refusable(call'[d])
      BY <1>1, <1>7, OneByOne DEF LoginInv
    <2> QED
      BY <2>1 DEF Fades, Refusable, Spoilt
  <1>9. WithdrawnKeysFade' /\ GoodTokensAreNotRefused'
    BY <1>8 DEF WithdrawnKeysFade, GoodTokensAreNotRefused, Fades, Refusable, Spoilt, Stands
  <1> QED
    BY <1>2, <1>5, <1>6, <1>9 DEF LoginInv

\* What moving on makes of a request.
LEMMA MoveOnMakes ==
  ASSUME LoginTyped, NEW c \in Call, call[c] # Free, NEW pc \in CallPcs,
         NEW got \in SUBSET SigningKey, MoveOn(c, pc, got)
  PROVE  \E n \in BusyCall :
           /\ call' = [call EXCEPT ![c] = n]
           /\ n.pc = pc /\ n.got = got /\ n.at = now /\ n.token = call[c].token
           /\ n.was = call[c].was /\ n.own = call[c].own
  <1> DEFINE n == [call[c] EXCEPT !.pc = pc, !.got = got, !.at = now]
  <1>1. call[c] \in BusyCall /\ now \in Int
    BY DEF LoginTyped
  <1>2. call' = [call EXCEPT ![c] = n]
    BY DEF MoveOn, LoginTyped
  <1>3. n \in BusyCall
    BY <1>1 DEF BusyCall
  <1>4. /\ n.pc = pc /\ n.got = got /\ n.at = now /\ n.token = call[c].token
        /\ n.was = call[c].was /\ n.own = call[c].own
    BY <1>1 DEF BusyCall
  <1> QED
    BY <1>2, <1>3, <1>4

\* A request that moves on to its next look, with what it found.
LEMMA LooksOn ==
  ASSUME LoginInv, NEW c \in Call, call[c] # Free, NEW pc \in {"lookup", "begin"},
         NEW got \in SUBSET SigningKey, MoveOn(c, pc, got),
         UNCHANGED <<now, published, keySet, dated, gone>>, ~call[c].own,
         pc = "begin" => got = Cached(c)
  PROVE  LoginInv'
  <1>1. PICK n \in BusyCall :
           /\ call' = [call EXCEPT ![c] = n]
           /\ n.pc = pc /\ n.got = got /\ n.at = now /\ n.token = call[c].token
           /\ n.was = call[c].was /\ n.own = call[c].own
    BY MoveOnMakes DEF LoginInv, CallPcs
  <1>2. Knows(call[c]) /\ call[c] \in BusyCall
    BY DEF LoginInv, CallsInv, LoginTyped
  <1>3. gone \cap keySet.keys = {} /\ now \in Nat
    BY DEF LoginInv, KeysInv, LoginTyped
  <1>4. ~n.own
    BY <1>1
  <1>5. Knows(n)
    BY <1>1, <1>2, <1>3, <1>4 DEF Knows, Cached
  <1>6. Fades(n) /\ Refusable(n)
    BY <1>1 DEF Fades, Refusable
  <1> QED
    BY <1>1, <1>5, <1>6, CallMoves

\* A token is judged by the key that was found.
LEMMA JudgedIs ==
  ASSUME NEW c \in Call, call[c] \in BusyCall, now \in Nat, NEW got
  PROVE  /\ Judged(c, got) \in {"user", "401"}
         /\ Judged(c, got) = "user" => call[c].token.key \in got
         /\ (Judged(c, got) = "401" /\ call[c].token.key \in got) =>
              \/ ~call[c].token.good \/ call[c].token.exp = Never
              \/ now > call[c].token.exp + Leeway
  <1>1. call[c].token.exp \in Int /\ Leeway \in Nat
    BY LoginAssumption DEF BusyCall
  <1> QED
    BY <1>1 DEF Judged

\* A request whose token is judged by the keys it got moves on as the invariant
\* demands, if those keys speak for it as long as they may.
LEMMA JudgedMoves ==
  ASSUME LoginInv, NEW c \in Call, call[c] # Free, NEW got,
         MoveOn(c, Judged(c, got), {}), UNCHANGED <<now, published, keySet, dated, gone>>,
         call[c].token.key \in got =>
            /\ call[c].was # "gone"
            /\ call[c].token.key \notin published =>
                 \/ now <= dated[call[c].token.key] + TTL + FetchTimeout
                 \/ now - keySet.attempt < MinRefresh,
         call[c].token.key \notin got =>
            \/ call[c].token.key \notin published \/ call[c].was = "unpublished"
            \/ call[c].was # "cached" /\ now - keySet.attempt < MinRefresh /\ ~call[c].own
  PROVE  LoginInv'
  <1>0. call[c] \in BusyCall /\ now \in Nat /\ Knows(call[c])
    BY DEF LoginInv, LoginTyped, CallsInv
  <1> DEFINE pc == Judged(c, got)
  <1>1. pc \in {"user", "401"}
    BY <1>0, JudgedIs
  <1>2. PICK n \in BusyCall :
           /\ call' = [call EXCEPT ![c] = n]
           /\ n.pc = pc /\ n.got = {} /\ n.at = now /\ n.token = call[c].token
           /\ n.was = call[c].was /\ n.own = call[c].own
    BY <1>1, MoveOnMakes DEF LoginInv, CallPcs
  <1>3. pc = "user" => call[c].token.key \in got
    BY <1>0, JudgedIs
  <1>4. (pc = "401" /\ call[c].token.key \in got) => Spoilt(n)
    BY <1>0, <1>2, JudgedIs DEF Spoilt
  <1> HIDE DEF pc
  <1>5. ~n.own <=> ~call[c].own
    BY <1>2
  <1>6. Knows(n)
    BY <1>0, <1>1, <1>2, <1>3 DEF Knows
  <1>7. Fades(n)
    BY <1>2, <1>3 DEF Fades
  <1>8. Refusable(n)
    BY <1>2, <1>4, <1>5 DEF Refusable
  <1> QED
    BY <1>1, <1>2, <1>6, <1>7, <1>8, CallMoves

\* A token that comes in, is looked up, waits for its answer or leaves, with the
\* shared copy as it is.
QuietStep(c) ==
    \/ \E t \in Token : Arrive(c, t)
    \/ Resolve(c) \/ Lookup(c) \/ (BeginRefresh(c) /\ keySet' = keySet) \/ FetchAnswered(c)
    \/ FetchFails(c) \/ LookAgain(c) \/ ResolveUser(c) \/ Refused(c)

\* The steps that leave the key set alone keep the invariant.
LEMMA QuietLogin ==
  ASSUME LoginInv, NEW c \in Call, QuietStep(c)
  PROVE  LoginInv'
  <1>0. /\ call[c] # Free => call[c] \in BusyCall /\ Knows(call[c])
        /\ now \in Nat /\ LoginTyped /\ KeysInv /\ FetchInv
        /\ gone \cap published = {} /\ gone \cap keySet.keys = {}
        /\ keySet.attempt \in Int /\ keySet.at \in Int /\ dated \in [SigningKey -> Int]
        /\ FetchTimeout \in Nat /\ MinRefresh \in Nat /\ TTL \in Nat /\ FetchTimeout < MinRefresh
    BY LoginAssumption DEF LoginInv, LoginTyped, CallsInv, KeysInv
  <1>1. UNCHANGED <<now, published, keySet, dated, gone>>
    BY DEF QuietStep, Arrive, Resolve, Lookup, BeginRefresh, FetchAnswered, FetchFails, LookAgain,
       ResolveUser, Refused
  <1>2. CASE call' = [call EXCEPT ![c] = Free]
    BY <1>1, <1>2, CallMoves
  <1>3. ASSUME NEW t \in Token, Arrive(c, t) PROVE LoginInv'
    <2> DEFINE n == [pc |-> "resolve", token |-> t, got |-> {}, at |-> now, was |-> Standing(t.key),
                     own |-> FALSE]
    <2>1. call' = [call EXCEPT ![c] = n]
      BY <1>3 DEF Arrive
    <2>2. /\ Standing(t.key) \in Asked
          /\ Standing(t.key) = "gone" => t.key \in gone
          /\ Standing(t.key) \in {"cached", "published"} => t.key \in published
          /\ Standing(t.key) = "cached" => t.key \in keySet.keys
      BY DEF Standing, Asked
    <2>3. /\ n \in BusyCall /\ n.pc = "resolve" /\ n.token = t /\ n.at = now
          /\ n.was = Standing(t.key) /\ ~n.own
      BY <1>0, <2>2 DEF BusyCall, CallPcs
    <2> HIDE DEF n
    <2>4. Knows(n)
      BY <1>0, <2>2, <2>3 DEF Knows, KeysInv
    <2>5. Fades(n) /\ Refusable(n)
      BY <2>3 DEF Fades, Refusable
    <2> QED
      BY <1>1, <2>1, <2>3, <2>4, <2>5, CallMoves
  <1>4. CASE Resolve(c)
    <2>1. call[c].pc = "resolve" /\ call[c] # Free
      BY <1>4 DEF Resolve, Stands, Free
    <2>2. CASE MoveOn(c, "lookup", {})
      <3>1. ~call[c].own
        BY <1>0, <2>1 DEF Knows
      <3> QED
        BY <1>1, <2>1, <2>2, <3>1, LooksOn
    <2> QED
      BY <1>2, <1>4, <2>2 DEF Resolve, Reply
  <1>5. CASE Lookup(c)
    <2>1. call[c].pc = "lookup" /\ call[c] # Free
      BY <1>5 DEF Lookup, Stands, Free
    <2>2. CASE Fresh /\ Cached(c) # {}
      <3>1. MoveOn(c, Judged(c, Cached(c)), {})
        BY <1>5, <2>2 DEF Lookup
      <3>2. call[c].token.key \in keySet.keys /\ call[c].token.key \in Cached(c)
        BY <2>2 DEF Cached
      <3>3. call[c].was # "gone"
        BY <1>0, <2>1, <3>2 DEF Knows
      <3>4. call[c].token.key \notin published => now <= dated[call[c].token.key] + TTL + FetchTimeout
        <4>1. call[c].token.key \in SigningKey
          BY <1>0, <2>1, LoginAssumption DEF BusyCall
        <4> QED
          BY <1>0, <2>2, <3>2, <4>1 DEF Fresh, KeysInv
      <3> QED
        BY <1>1, <2>1, <3>1, <3>2, <3>3, <3>4, JudgedMoves
    <2>3. CASE ~(Fresh /\ Cached(c) # {})
      <3>1. MoveOn(c, "begin", Cached(c))
        BY <1>5, <2>3 DEF Lookup
      <3>2. Cached(c) \in SUBSET SigningKey /\ ~call[c].own
        BY <1>0, <2>1 DEF Cached, LoginTyped, Knows
      <3> QED
        BY <1>1, <2>1, <3>1, <3>2, LooksOn
    <2> QED
      BY <2>2, <2>3
  <1>6. CASE BeginRefresh(c) /\ keySet' = keySet
    <2>1. call[c].pc = "begin" /\ call[c] # Free /\ Knows(call[c]) /\ call[c] \in BusyCall
      BY <1>0, <1>6 DEF BeginRefresh, Stands, Free
    <2>2. TooSoon(keySet.attempt) /\ MoveOn(c, Judged(c, call[c].got), {})
      <3>1. CASE ~TooSoon(keySet.attempt)
        <4>1. keySet'.attempt = now
          BY <1>0, <1>6, <3>1 DEF BeginRefresh, LoginTyped
        <4> QED
          BY <1>0, <1>6, <3>1, <4>1 DEF TooSoon
      <3> QED
        BY <1>6, <3>1 DEF BeginRefresh
    <2>3. now - keySet.attempt < MinRefresh
      BY <2>2 DEF TooSoon
    <2>4. call[c].token.key \in call[c].got => call[c].was # "gone"
      BY <2>1 DEF Knows
    <2>5. call[c].token.key \notin call[c].got =>
            \/ call[c].token.key \notin published \/ call[c].was = "unpublished"
            \/ call[c].was # "cached" /\ ~call[c].own
      BY <1>0, <2>1 DEF Knows
    <2> QED
      BY <1>1, <2>1, <2>2, <2>3, <2>4, <2>5, JudgedMoves
  <1>7. CASE FetchAnswered(c)
    <2>1. call[c].pc = "fetch" /\ call[c] # Free /\ Knows(call[c]) /\ call[c] \in BusyCall
      BY <1>0, <1>7 DEF FetchAnswered, Stands, Free
    <2> DEFINE n == [call[c] EXCEPT !.pc = "install", !.got = published]
    <2>2. call' = [call EXCEPT ![c] = n]
      BY <1>0, <1>7 DEF FetchAnswered, LoginTyped
    <2>3. /\ n \in BusyCall /\ n.pc = "install" /\ n.got = published /\ n.at = call[c].at
          /\ n.token = call[c].token /\ n.was = call[c].was /\ (n.own <=> call[c].own)
      <3>1. /\ n.pc = "install" /\ n.got = published /\ n.at = call[c].at
            /\ n.token = call[c].token /\ n.was = call[c].was /\ n.own = call[c].own
        BY <2>1 DEF BusyCall
      <3>2. n \in BusyCall
        BY <1>0, <2>1 DEF BusyCall, CallPcs, LoginTyped
      <3> HIDE DEF n
      <3> QED
        BY <3>1, <3>2
    <2> HIDE DEF n
    <2>4. Knows(n)
      BY <1>0, <2>1, <2>3 DEF Knows
    <2>5. Fades(n) /\ Refusable(n)
      BY <2>3 DEF Fades, Refusable
    <2>6. \A k \in published : dated[k] # Never
      BY <1>0 DEF KeysInv
    <2> QED
      BY <1>0, <1>1, <2>1, <2>2, <2>3, <2>4, <2>5, <2>6, CallMoves
  <1>8. CASE LookAgain(c)
    <2>1. /\ call[c].pc = "again" /\ call[c] # Free /\ Knows(call[c]) /\ call[c] \in BusyCall
          /\ MoveOn(c, Judged(c, Cached(c)), {})
      BY <1>0, <1>8 DEF LookAgain, Stands, Free
    <2>2. now - keySet.attempt < MinRefresh
      BY <1>0, <2>1 DEF FetchInv
    <2>3. call[c].token.key \in Cached(c) <=> call[c].token.key \in keySet.keys
      BY DEF Cached
    <2>4. call[c].token.key \in keySet.keys => call[c].was # "gone"
      BY <1>0, <2>1 DEF Knows
    <2>5. call[c].token.key \notin keySet.keys =>
            call[c].token.key \notin published \/ call[c].was = "unpublished"
      BY <1>0, <2>1 DEF Knows, BusyCall, Asked
    <2> QED
      BY <1>1, <2>1, <2>2, <2>3, <2>4, <2>5, JudgedMoves
  <1>9. CASE FetchFails(c) \/ ResolveUser(c) \/ Refused(c)
    BY <1>2, <1>9 DEF FetchFails, ResolveUser, Refused, Reply
  <1> QED
    BY <1>3, <1>4, <1>5, <1>6, <1>7, <1>8, <1>9 DEF QuietStep

\* A fetch begins when none is under way any more.
LEMMA RefreshBegins ==
  ASSUME LoginInv, NEW c \in Call, BeginRefresh(c), ~TooSoon(keySet.attempt)
  PROVE  LoginInv'
  <1>0. /\ call[c].pc = "begin" /\ call[c] # Free /\ Knows(call[c]) /\ call[c] \in BusyCall
        /\ now \in Nat /\ LoginTyped /\ KeysInv /\ FetchInv /\ CallsInv
        /\ keySet.attempt \in Int /\ keySet.at \in Int
        /\ FetchTimeout \in Nat /\ MinRefresh \in Nat /\ TTL \in Nat /\ FetchTimeout < MinRefresh
    BY LoginAssumption DEF BeginRefresh, Stands, Free, LoginInv, LoginTyped, CallsInv
  <1>1. /\ keySet' = [keySet EXCEPT !.attempt = now] /\ MoveOn(c, "fetch", {})
        /\ UNCHANGED <<now, published, dated, gone>>
    BY DEF BeginRefresh
  <1>2. /\ keySet' \in [keys : SUBSET SigningKey, at : Int, attempt : Int]
        /\ keySet'.keys = keySet.keys /\ keySet'.at = keySet.at /\ keySet'.attempt = now
    BY <1>0, <1>1 DEF LoginTyped
  <1>3. PICK n \in BusyCall :
           /\ call' = [call EXCEPT ![c] = n]
           /\ n.pc = "fetch" /\ n.got = {} /\ n.at = now /\ n.token = call[c].token
           /\ n.was = call[c].was /\ n.own = call[c].own
    BY <1>0, <1>1, MoveOnMakes DEF CallPcs
  <1>4. /\ call' \in [Call -> BusyCall \cup {Free}] /\ call'[c] = n
        /\ \A d \in Call \ {c} : call'[d] = call[d]
    BY <1>0, <1>3 DEF LoginTyped
  <1>5. \A d \in Call : call[d].pc \notin {"fetch", "install", "again"}
    BY <1>0 DEF FetchInv, TooSoon
  <1>6. ~n.own
    BY <1>0, <1>3 DEF Knows
  <1>7. LoginTyped' /\ KeysInv'
    BY <1>0, <1>1, <1>2, <1>4 DEF LoginTyped, KeysInv
  <1>8. FetchInv'
    BY <1>0, <1>1, <1>2, <1>3, <1>4, <1>5 DEF FetchInv
  <1>9. ASSUME NEW d \in Call, call'[d] # Free
        PROVE  Knows(call[d])'
    <2>1. CASE d = c
      BY <1>0, <1>1, <1>2, <1>3, <1>4, <1>6, <2>1 DEF Knows
    <2>2. CASE d # c
      BY <1>0, <1>1, <1>2, <1>4, <1>9, <2>2 DEF CallsInv, Knows
    <2> QED
      BY <2>1, <2>2
  <1>10. CallsInv'
    BY <1>9 DEF CallsInv
  <1>11. ASSUME NEW d \in Call, call'[d].pc \in {"user", "401"}
         PROVE  /\ call[d] # Free /\ call'[d] = call[d] /\ call[d] \in BusyCall
                /\ call[d].at - keySet'.attempt < MinRefresh
    <2>1. call'[d] = call[d] /\ call[d] # Free
      BY <1>3, <1>4, <1>11 DEF Free
    <2>2. call[d].at <= now /\ call[d] \in BusyCall
      BY <1>0, <2>1 DEF CallsInv, Knows, LoginTyped
    <2> QED
      BY <1>0, <1>2, <2>1, <2>2 DEF BusyCall
  <1>12. WithdrawnKeysFade'
    <2>1. \A d \in Call : call'[d].pc = "user" => call[d].was # "gone"
      BY <1>0, <1>11 DEF CallsInv, Knows
    <2> QED
      BY <1>1, <1>11, <2>1 DEF WithdrawnKeysFade, Stands
  <1>13. GoodTokensAreNotRefused'
    BY <1>1, <1>11 DEF LoginInv, GoodTokensAreNotRefused, Stands
  <1> QED
    BY <1>7, <1>8, <1>10, <1>12, <1>13 DEF LoginInv

\* A fetched copy is stored: nobody else is fetching, and what it lacks is gone.
LEMMA CopyStored ==
  ASSUME LoginInv, NEW c \in Call, Install(c)
  PROVE  LoginInv'
  <1>0. /\ call[c].pc = "install" /\ call[c] # Free /\ Knows(call[c]) /\ call[c] \in BusyCall
        /\ now \in Nat /\ LoginTyped /\ KeysInv /\ FetchInv /\ CallsInv
        /\ keySet.attempt \in Int /\ keySet.at \in Int /\ dated \in [SigningKey -> Int]
        /\ FetchTimeout \in Nat
    BY LoginAssumption DEF Install, Stands, Free, LoginInv, LoginTyped, CallsInv
  <1> DEFINE got == call[c].got
  <1> DEFINE more == {k \in SigningKey \ (got \cup published) : dated[k] # Never}
  <1> DEFINE n == [call[c] EXCEPT !.pc = "again", !.own = TRUE]
  <1>1. /\ keySet' = [keySet EXCEPT !.keys = got, !.at = now] /\ gone' = gone \cup more
        /\ call' = [call EXCEPT ![c] = n] /\ UNCHANGED <<now, published, dated>>
    BY <1>0 DEF Install, LoginTyped
  <1>2. /\ n \in BusyCall /\ n.pc = "again" /\ n.at = call[c].at /\ n.token = call[c].token
        /\ n.was = call[c].was /\ n.got = got
    BY <1>0 DEF BusyCall, CallPcs
  <1>3. /\ got \in SUBSET SigningKey
        /\ keySet' \in [keys : SUBSET SigningKey, at : Int, attempt : Int]
        /\ keySet'.keys = got /\ keySet'.at = now /\ keySet'.attempt = keySet.attempt
    <2>1. got \in SUBSET SigningKey /\ now \in Int
      BY <1>0 DEF BusyCall
    <2> HIDE DEF got
    <2> QED
      BY <1>0, <1>1, <2>1 DEF LoginTyped
  <1>4. /\ got \cap gone = {} /\ published \cap keySet.keys \subseteq got
        /\ \A k \in got : dated[k] # Never
        /\ \A k \in got \ published : call[c].at <= dated[k]
        /\ call[c].at = keySet.attempt /\ now <= keySet.attempt + FetchTimeout
        /\ \A d \in Call \ {c} : call[d].pc \notin {"fetch", "install"}
    BY <1>0 DEF FetchInv
  <1>5. more \cap (got \cup published) = {} /\ \A k \in more : k \in SigningKey /\ dated[k] # Never
    OBVIOUS
  <1> HIDE DEF n, more, got
  <1>6. /\ call' \in [Call -> BusyCall \cup {Free}] /\ call'[c] = n
        /\ \A d \in Call \ {c} : call'[d] = call[d]
    BY <1>0, <1>1, <1>2 DEF LoginTyped
  <1>7. LoginTyped'
    BY <1>0, <1>1, <1>3, <1>5, <1>6 DEF LoginTyped
  <1>8. KeysInv'
    <2>1. \A k \in got \ published : now <= dated[k] + FetchTimeout
      BY <1>0, <1>3, <1>4
    <2> QED
      BY <1>0, <1>1, <1>3, <1>4, <1>5, <2>1 DEF KeysInv
  <1>9. FetchInv'
    <2>1. \A d \in Call : call'[d].pc \notin {"fetch", "install"}
      BY <1>2, <1>4, <1>6
    <2>2. \A d \in Call : call'[d].pc = "again" => call'[d].at = keySet.attempt
      BY <1>0, <1>2, <1>4, <1>6 DEF FetchInv
    <2> QED
      BY <1>1, <1>3, <1>4, <2>1, <2>2 DEF FetchInv
  <1>10. ASSUME NEW d \in Call, call'[d] # Free
         PROVE  Knows(call[d])'
    <2>1. CASE d = c
      <3>1. \A k : (k \in published /\ k \in keySet.keys) => k \in got
        BY <1>4
      <3> QED
        BY <1>0, <1>1, <1>2, <1>3, <1>6, <2>1, <3>1 DEF Knows, got
    <2>2. CASE d # c
      <3>1. call'[d] = call[d] /\ Knows(call[d]) /\ call[d].pc \notin {"fetch", "install"}
        BY <1>0, <1>4, <1>6, <1>10, <2>2 DEF CallsInv
      <3> QED
        BY <1>1, <1>3, <1>4, <3>1 DEF Knows
    <2> QED
      BY <2>1, <2>2
  <1>11. CallsInv'
    BY <1>10 DEF CallsInv
  <1>12. \A d \in Call : call'[d].pc \in {"user", "401"} => call'[d] = call[d]
    BY <1>2, <1>6
  <1>13. WithdrawnKeysFade' /\ GoodTokensAreNotRefused'
    BY <1>1, <1>3, <1>12 DEF LoginInv, WithdrawnKeysFade, GoodTokensAreNotRefused, Stands
  <1> QED
    BY <1>7, <1>8, <1>9, <1>11, <1>13 DEF LoginInv

\* The provider publishes keys for the first time and withdraws others for good.
LEMMA KeysReplaced ==
  ASSUME LoginInv, ReplaceKeys
  PROVE  LoginInv'
  <1>0. /\ now \in Nat /\ LoginTyped /\ KeysInv /\ FetchInv /\ CallsInv
        /\ keySet.attempt \in Int /\ keySet.at \in Int /\ dated \in [SigningKey -> Int]
        /\ keySet.keys \subseteq SigningKey /\ gone \subseteq SigningKey
        /\ FetchTimeout \in Nat /\ TTL \in Nat /\ MinRefresh \in Nat
        /\ Never \in Int /\ Never < 0
    BY LoginAssumption DEF LoginInv, LoginTyped
  <1>1. PICK ks \in SUBSET {k \in SigningKey : k \in published \/ dated[k] = Never} :
           /\ published' = ks
           /\ dated' = [k \in SigningKey |-> IF (k \in ks) = (k \in published) THEN dated[k] ELSE now]
    BY DEF ReplaceKeys
  <1>2. UNCHANGED <<now, keySet, call, gone>>
    BY DEF ReplaceKeys
  <1>3. /\ \A k \in SigningKey : dated'[k] = dated[k] \/ dated'[k] = now
        /\ \A k \in SigningKey : (k \in ks /\ k \in published) => dated'[k] = dated[k]
        /\ \A k \in SigningKey : (k \notin ks /\ k \notin published) => dated'[k] = dated[k]
        /\ \A k \in SigningKey : (k \notin ks /\ k \in published) => dated'[k] = now
        /\ \A k \in SigningKey : (k \in ks /\ k \notin published)
                                => dated'[k] = now /\ dated[k] = Never
        /\ dated' \in [SigningKey -> Int] /\ published' = ks /\ ks \subseteq SigningKey
    BY <1>0, <1>1
  <1>4. LoginTyped'
    BY <1>0, <1>2, <1>3 DEF LoginTyped
  <1>5. /\ \A k \in SigningKey : dated[k] # Never => (dated'[k] # Never /\ (k \in ks => k \in published))
        /\ \A k \in ks : dated'[k] # Never
    BY <1>0, <1>3 DEF KeysInv
  <1>6. KeysInv'
    <2>1. \A k \in keySet.keys \ ks : keySet.at <= dated'[k] + FetchTimeout
      BY <1>0, <1>3 DEF KeysInv
    <2>2. gone \cap (ks \cup keySet.keys) = {}
      BY <1>0, <1>5 DEF KeysInv
    <2> QED
      BY <1>0, <1>2, <1>3, <1>5, <2>1, <2>2 DEF KeysInv
  <1>7. FetchInv'
    <2>1. ASSUME NEW c \in Call, call[c].pc = "install"
          PROVE  /\ ks \cap keySet.keys \subseteq call[c].got
                 /\ \A k \in call[c].got : dated'[k] # Never
                 /\ \A k \in call[c].got \ ks : call[c].at <= dated'[k]
      <3>1. call[c] \in BusyCall /\ call[c].at <= now /\ call[c].got \subseteq SigningKey
        BY <1>0, <2>1 DEF LoginTyped, CallsInv, Knows, Free, BusyCall
      <3>2. /\ published \cap keySet.keys \subseteq call[c].got
            /\ \A k \in call[c].got : dated[k] # Never
            /\ \A k \in call[c].got \ published : call[c].at <= dated[k]
        BY <1>0, <2>1 DEF FetchInv
      <3>3. ks \cap keySet.keys \subseteq published
        BY <1>0, <1>5 DEF KeysInv
      <3> QED
        BY <1>3, <1>5, <3>1, <3>2, <3>3
    <2> QED
      BY <1>0, <1>2, <1>3, <2>1 DEF FetchInv
  <1>8. ASSUME NEW c \in Call, call[c] # Free
        PROVE  Knows(call[c])'
    <2>1. Knows(call[c]) /\ call[c] \in BusyCall /\ call[c].token.key \in SigningKey
      BY <1>0, <1>8, LoginAssumption DEF CallsInv, LoginTyped, BusyCall
    <2>2. (dated[call[c].token.key] # Never /\ call[c].token.key \in ks)
             => call[c].token.key \in published
      BY <1>5, <2>1
    <2> QED
      BY <1>2, <1>3, <1>5, <2>1, <2>2 DEF Knows
  <1>9. CallsInv'
    BY <1>2, <1>8 DEF CallsInv
  <1>10. ASSUME NEW c \in Call, call[c].pc \in {"user", "401"}
         PROVE  /\ call[c].token.key \in SigningKey /\ Knows(call[c]) /\ call[c] \in BusyCall
                /\ call[c].at \in Int
    BY <1>0, <1>10, LoginAssumption DEF CallsInv, LoginTyped, BusyCall, Free
  <1>11. WithdrawnKeysFade'
    <2> SUFFICES ASSUME NEW c \in Call, call[c].pc = "user", call[c].token.key \notin ks
                 PROVE  /\ call[c].was # "gone"
                        /\ \/ call[c].at <= dated'[call[c].token.key] + TTL + FetchTimeout
                           \/ call[c].at - keySet.attempt < MinRefresh
      BY <1>2, <1>3 DEF WithdrawnKeysFade, Stands
    <2>1. call[c].was # "gone" /\ call[c].at <= now /\ call[c].token.key \in SigningKey /\ call[c].at \in Int
      BY <1>10 DEF Knows
    <2>2. CASE call[c].token.key \in published
      BY <1>0, <1>3, <2>1, <2>2
    <2>3. CASE call[c].token.key \notin published
      <3>1. dated'[call[c].token.key] = dated[call[c].token.key]
        BY <1>3, <2>1, <2>3
      <3> QED
        BY <2>1, <2>3, <3>1 DEF LoginInv, WithdrawnKeysFade, Stands
    <2> QED
      BY <2>2, <2>3
  <1>12. GoodTokensAreNotRefused'
    <2>1. ASSUME NEW c \in Call, call[c].pc = "401", call[c].token.key \in ks,
                 call[c].token.key \notin published
          PROVE  call[c].was = "unpublished"
      BY <1>0, <1>3, <1>10, <2>1 DEF Knows, KeysInv, BusyCall, Asked
    <2> QED
      BY <1>2, <1>3, <2>1 DEF LoginInv, GoodTokensAreNotRefused, Stands
  <1> QED
    BY <1>4, <1>6, <1>7, <1>9, <1>11, <1>12 DEF LoginInv

\* Time passes for nobody who is between two sections under the lock.
LEMMA TimePasses ==
  ASSUME LoginInv, Tick
  PROVE  LoginInv'
  <1>0. /\ now \in Nat /\ LoginTyped /\ KeysInv /\ FetchInv /\ CallsInv
        /\ keySet.attempt \in Int /\ keySet.at \in Int /\ dated \in [SigningKey -> Int]
        /\ FetchTimeout \in Nat
    BY LoginAssumption DEF LoginInv, LoginTyped
  <1>1. /\ now' = now + 1 /\ UNCHANGED <<published, keySet, call, dated, gone>>
        /\ \A c \in Call : call[c].pc \in {"fetch", "install"} => now < call[c].at + FetchTimeout
        /\ \A c \in Call : call[c].pc # "again"
    BY DEF Tick, Fetching
  <1>2. LoginTyped' /\ KeysInv'
    BY <1>0, <1>1 DEF LoginTyped, KeysInv
  <1>3. FetchInv'
    BY <1>0, <1>1 DEF FetchInv
  <1>4. CallsInv'
    <2> SUFFICES ASSUME NEW c \in Call, call[c] # Free PROVE Knows(call[c])'
      BY <1>1 DEF CallsInv
    <2>1. Knows(call[c]) /\ call[c].at \in Int
      BY <1>0 DEF CallsInv, LoginTyped, BusyCall
    <2> QED
      BY <1>0, <1>1, <2>1 DEF Knows
  <1>5. WithdrawnKeysFade' /\ GoodTokensAreNotRefused'
    BY <1>1 DEF LoginInv, WithdrawnKeysFade, GoodTokensAreNotRefused, Stands
  <1> QED
    BY <1>2, <1>3, <1>4, <1>5 DEF LoginInv

\* Every step of a request, of the provider and of time keeps the invariant.
LEMMA NextLoginInv == LoginInv /\ [LoginNext]_loginVars => LoginInv'
  <1> SUFFICES ASSUME LoginInv, [LoginNext]_loginVars PROVE LoginInv'
    OBVIOUS
  <1>1. ASSUME NEW c \in Call, LoginStep(c) PROVE LoginInv'
    <2>1. CASE QuietStep(c)
      BY <2>1, QuietLogin
    <2>2. CASE BeginRefresh(c)
      <3>1. TooSoon(keySet.attempt) => keySet' = keySet
        BY <2>2 DEF BeginRefresh
      <3> QED
        BY <2>1, <2>2, <3>1, RefreshBegins DEF QuietStep
    <2>3. CASE Install(c)
      BY <2>3, CopyStored
    <2> QED
      BY <1>1, <2>1, <2>2, <2>3 DEF LoginStep, QuietStep
  <1>2. CASE UNCHANGED loginVars
    BY <1>2 DEF loginVars, LoginInv, LoginTyped, KeysInv, FetchInv, CallsInv, Knows,
       WithdrawnKeysFade, GoodTokensAreNotRefused, Stands
  <1> QED
    BY <1>1, <1>2, KeysReplaced, TimePasses DEF LoginNext

\* The invariant holds before the first request and the first copy.
LEMMA InitLoginInv == LoginInit => LoginInv
  <1> SUFFICES ASSUME LoginInit PROVE LoginInv
    OBVIOUS
  <1>1. /\ now = 0 /\ published \subseteq SigningKey /\ gone = {}
        /\ keySet = [keys |-> {}, at |-> Never, attempt |-> Never]
        /\ call = [c \in Call |-> Free]
        /\ dated = [k \in SigningKey |-> IF k \in published THEN 0 ELSE Never]
    BY DEF LoginInit
  <1>2. Never \in Int /\ Never < 0
    BY LoginAssumption
  <1>3. LoginTyped /\ KeysInv
    BY <1>1, <1>2 DEF LoginTyped, KeysInv
  <1>4. FetchInv /\ CallsInv
    BY <1>1 DEF FetchInv, CallsInv, Free
  <1>5. WithdrawnKeysFade /\ GoodTokensAreNotRefused
    BY <1>1 DEF WithdrawnKeysFade, GoodTokensAreNotRefused, Stands, Free
  <1> QED
    BY <1>3, <1>4, <1>5 DEF LoginInv

\* The invariant holds of every state the token check reaches.
LEMMA LoginInvHolds == LoginSpec => []LoginInv
  BY InitLoginInv, NextLoginInv, PTL DEF LoginSpec

\* A withdrawn key lets nobody in once a copy without it is stored, and before
\* that only from a fresh copy or within MinRefresh of an attempt to replace it.
THEOREM WithdrawnKeysAreForgotten == LoginSpec => []WithdrawnKeysFade
  <1>1. LoginInv => WithdrawnKeysFade
    BY DEF LoginInv
  <1> QED
    BY <1>1, LoginInvHolds, PTL

\* A good token is refused for its key only when the copy lacked the key as the
\* request came in and may not be fetched again yet.
THEOREM GoodTokensComeThrough == LoginSpec => []GoodTokensAreNotRefused
  <1>1. LoginInv => GoodTokensAreNotRefused
    BY DEF LoginInv
  <1> QED
    BY <1>1, LoginInvHolds, PTL

=============================================================================
