------------------------------- MODULE Login -------------------------------
(***************************************************************************)
(* Who is calling: the token check of internal/api/oidc.go and the user    *)
(* lookup of users.go.                                                     *)
(*                                                                         *)
(* Requests share the key set of the identity provider: found once by      *)
(* discovery, fetched again when a key is missing or the copy is old, and  *)
(* never more often than every MinRefresh.  The provider replaces its keys *)
(* while requests are under way, and cannot always be reached.  A step is  *)
(* one section under the key set's lock or one answer from outside.        *)
(***************************************************************************)
EXTENDS Integers, FiniteSets

CONSTANTS
    Call,           \* slots for requests in flight
    SigningKey,
    Token,          \* records [key, exp, good]; exp Never: no expiry
    Never,
    TTL,            \* how long a fetched key set is fresh
    MinRefresh,     \* minRefreshInterval
    FetchTimeout,   \* the timeout of the HTTP client
    Leeway,
    MaxCachedUsers,
    MaxTime         \* bound of the clock

\* The client gives up on a fetch before the next one is allowed.
ASSUME LoginAssumption ==
    /\ TTL \in Nat /\ MinRefresh \in Nat /\ FetchTimeout \in Nat /\ Leeway \in Nat
    /\ FetchTimeout < MinRefresh /\ MaxCachedUsers \in Nat /\ MaxTime \in Nat
    /\ Never \in Int /\ Never < 0 - TTL - MinRefresh
    /\ \A t \in Token : t.key \in SigningKey /\ t.good \in BOOLEAN /\ t.exp \in Int

VARIABLES
    now,
    published,      \* the keys the provider signs with now
    discovered, lastDiscovery,
    keySet,         \* [keys, at, attempt]: the copy, its age, the last attempt
    users,          \* the tokens whose user is known
    call,
    dated,          \* history: since when each key is published or withdrawn
    gone            \* history: withdrawn keys an installed copy does not have

loginVars == <<now, published, discovered, lastDiscovery, keySet, users, call,
               dated, gone>>

Free == [pc |-> "free"]
TooSoon(last) == now - last < MinRefresh
Fetching == {c \in Call : call[c].pc \in {"fetch", "install"}}

-----------------------------------------------------------------------------
(* A request with a bearer token.                                           *)

\* History: how the key of a request stood when the request came in.
Standing(k) ==
    IF k \in gone THEN "gone"
    ELSE IF k \notin published THEN "unpublished"
    ELSE IF k \in keySet.keys THEN "cached" ELSE "published"

Arrive(c, t) ==
    /\ call[c] = Free
    /\ call' = [call EXCEPT ![c] = [pc |-> "resolve", token |-> t, got |-> {},
                                    at |-> now, was |-> Standing(t.key),
                                    own |-> FALSE]]
    /\ UNCHANGED <<now, published, discovered, lastDiscovery, keySet, users, dated, gone>>

Stands(c, pc) == call[c].pc = pc
MoveOn(c, pc, got) == call' = [call EXCEPT ![c].pc = pc, ![c].got = got, ![c].at = now]
\* The request goes on to its handler ("ok"), or is told to try again (503).
Reply(c, code) == code \in {"ok", "503"} /\ call' = [call EXCEPT ![c] = Free]

\* Validate, once the keys for the token's key id are there: a key that fits,
\* an expiry that has not passed by more than the leeway, and the expected
\* issuer, audience and subject (token.good).
Judged(c, got) ==
    LET t == call[c].token IN
    IF t.key \in got /\ t.good /\ t.exp # Never /\ now <= t.exp + Leeway
    THEN "user" ELSE "401"

\* lazyKeySet.resolve: discovery is done under the lock, so it is one step;
\* the time of the last attempt is not read any more once it succeeds.
Resolve(c) ==
    /\ Stands(c, "resolve")
    /\ \/ /\ discovered
          /\ MoveOn(c, "lookup", {})
          /\ UNCHANGED <<discovered, lastDiscovery>>
       \/ /\ ~discovered /\ TooSoon(lastDiscovery)
          /\ Reply(c, "503")
          /\ UNCHANGED <<discovered, lastDiscovery>>
       \/ /\ ~discovered /\ ~TooSoon(lastDiscovery)
          /\ discovered' \in BOOLEAN
          /\ lastDiscovery' = IF discovered' THEN Never ELSE now
          /\ IF discovered' THEN MoveOn(c, "lookup", {}) ELSE Reply(c, "503")
    /\ UNCHANGED <<now, published, keySet, users, dated, gone>>

\* cached: entries past their TTL are returned as well, but not as fresh.
Cached(c) == {call[c].token.key} \cap keySet.keys
Fresh == now - keySet.at <= TTL

\* Mutant: a key that is in the copy is used however old the copy is.
AnyAge(c) ==
    /\ Stands(c, "lookup")
    /\ IF Cached(c) # {} THEN MoveOn(c, Judged(c, Cached(c)), {})
                         ELSE MoveOn(c, "begin", Cached(c))
    /\ UNCHANGED <<now, published, discovered, lastDiscovery, keySet, users, dated, gone>>

Lookup(c) ==
    /\ Stands(c, "lookup")
    /\ IF Fresh /\ Cached(c) # {} THEN MoveOn(c, Judged(c, Cached(c)), {})
                                  ELSE MoveOn(c, "begin", Cached(c))
    /\ UNCHANGED <<now, published, discovered, lastDiscovery, keySet, users, dated, gone>>

\* beginRefresh; inside the window the answer is what was cached, or nothing.
BeginRefresh(c) ==
    /\ Stands(c, "begin")
    /\ \/ /\ TooSoon(keySet.attempt)
          /\ MoveOn(c, Judged(c, call[c].got), {})
          /\ UNCHANGED keySet
       \/ /\ ~TooSoon(keySet.attempt)
          /\ keySet' = [keySet EXCEPT !.attempt = now]
          /\ MoveOn(c, "fetch", {})
    /\ UNCHANGED <<now, published, discovered, lastDiscovery, users, dated, gone>>

\* The provider answers with the keys of that moment, which is not yet the
\* moment they are stored.
FetchAnswered(c) ==
    /\ Stands(c, "fetch")
    /\ call' = [call EXCEPT ![c].pc = "install", ![c].got = published]
    /\ UNCHANGED <<now, published, discovered, lastDiscovery, keySet, users, dated, gone>>

FetchFails(c) ==
    /\ Stands(c, "fetch") \/ Stands(c, "install")
    /\ Reply(c, "503")
    /\ UNCHANGED <<now, published, discovered, lastDiscovery, keySet, users, dated, gone>>

Install(c) ==
    /\ Stands(c, "install")
    /\ keySet' = [keySet EXCEPT !.keys = call[c].got, !.at = now]
    /\ gone' = gone \cup {k \in SigningKey \ (call[c].got \cup published) : dated[k] # Never}
    /\ call' = [call EXCEPT ![c].pc = "again", ![c].own = TRUE]
    /\ UNCHANGED <<now, published, discovered, lastDiscovery, users, dated>>

\* Mutant: the keys found before the refresh are judged by.
NotAgain(c) ==
    /\ Stands(c, "again")
    /\ MoveOn(c, Judged(c, {}), {})
    /\ UNCHANGED <<now, published, discovered, lastDiscovery, keySet, users, dated, gone>>

LookAgain(c) ==
    /\ Stands(c, "again")
    /\ MoveOn(c, Judged(c, Cached(c)), {})
    /\ UNCHANGED <<now, published, discovered, lastDiscovery, keySet, users, dated, gone>>

\* GraphUserResolver.store: what has expired is evicted only when it is full,
\* and a full cache takes nothing.
Stored(t) ==
    LET kept == IF Cardinality(users) >= MaxCachedUsers
                THEN {u \in users : now < u.exp} ELSE users
    IN  IF Cardinality(kept) >= MaxCachedUsers THEN kept ELSE kept \cup {t}

\* resolveUserID: from the cache while the token lives, or from graph /me,
\* which may fail or name nobody.
ResolveUser(c) ==
    /\ Stands(c, "user")
    /\ LET t == call[c].token IN
         \/ /\ t \in users /\ now < t.exp
            /\ Reply(c, "ok") /\ UNCHANGED users
         \/ /\ ~(t \in users /\ now < t.exp)
            /\ \/ Reply(c, "ok") /\ users' = Stored(t)
               \/ Reply(c, "503") /\ UNCHANGED users
    /\ UNCHANGED <<now, published, discovered, lastDiscovery, keySet, dated, gone>>

Refused(c) ==
    /\ Stands(c, "401")
    /\ call' = [call EXCEPT ![c] = Free]
    /\ UNCHANGED <<now, published, discovered, lastDiscovery, keySet, users, dated, gone>>

-----------------------------------------------------------------------------
(* The provider, and time.                                                  *)

\* A key is published and some day withdrawn, for good.
ReplaceKeys ==
    /\ \E ks \in SUBSET {k \in SigningKey : k \in published \/ dated[k] = Never} \ {{}, published} :
         /\ published' = ks
         /\ dated' = [k \in SigningKey |-> IF (k \in ks) = (k \in published) THEN dated[k] ELSE now]
    /\ UNCHANGED <<now, discovered, lastDiscovery, keySet, users, call, gone>>

\* No fetch outlives the client's timeout, and what a request does between two
\* sections under the lock takes no time.
Tick ==
    /\ now < MaxTime
    /\ \A c \in Fetching : now < call[c].at + FetchTimeout
    /\ \A c \in Call : call[c].pc \notin {"lookup", "begin", "again"}
    /\ now' = now + 1
    /\ UNCHANGED <<published, discovered, lastDiscovery, keySet, users, call, dated, gone>>

LoginInit ==
    /\ now = 0
    /\ published \in SUBSET SigningKey \ {{}}
    /\ discovered = FALSE /\ lastDiscovery = Never
    /\ keySet = [keys |-> {}, at |-> Never, attempt |-> Never]
    /\ users = {}
    /\ call = [c \in Call |-> Free]
    /\ dated = [k \in SigningKey |-> IF k \in published THEN 0 ELSE Never]
    /\ gone = {}

LoginStep(c) ==
    \/ \E t \in Token : Arrive(c, t)
    \/ Resolve(c) \/ Lookup(c) \/ BeginRefresh(c) \/ FetchAnswered(c) \/ FetchFails(c)
    \/ Install(c) \/ LookAgain(c) \/ ResolveUser(c) \/ Refused(c)

LoginNext == (\E c \in Call : LoginStep(c)) \/ ReplaceKeys \/ Tick

LoginSpec == LoginInit /\ [][LoginNext]_loginVars

-----------------------------------------------------------------------------
(* Properties.                                                              *)

\* A withdrawn signing key fades.  Once a copy without it is stored, no later
\* request gets past Validate with it, so no slow fetch brings it back; and
\* before that it is honoured only while the copy it is in is fresh, or within
\* MinRefresh of an attempt to replace it.
WithdrawnKeysFade ==
    \A c \in Call : Stands(c, "user") /\ call[c].token.key \notin published =>
        /\ call[c].was # "gone"
        /\ \/ call[c].at <= dated[call[c].token.key] + TTL + FetchTimeout
           \/ call[c].at - keySet.attempt < MinRefresh

\* A good token whose key was published as the request came in, and is still,
\* is refused for the sake of the key only when the copy did not have it then,
\* within MinRefresh of an attempt, and never after a fetch of its own.
GoodTokensAreNotRefused ==
    \A c \in Call : Stands(c, "401") =>
        LET t == call[c].token IN
        \/ t.key \notin published \/ call[c].was = "unpublished"
        \/ ~t.good \/ t.exp = Never \/ call[c].at > t.exp + Leeway
        \/ /\ call[c].was # "cached"
           /\ call[c].at - keySet.attempt < MinRefresh
           /\ ~call[c].own

=============================================================================
