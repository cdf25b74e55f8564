----------------------------- MODULE AppendOnly -----------------------------
(***************************************************************************)
(* One append-only record: internal/state/versioned.go on top of the CS3   *)
(* state store, internal/cs3state/cs3state.go.                             *)
(*                                                                         *)
(* Key envelopes, target definitions and Space configurations are filed as *)
(* "<prefix>/<id>/<nanos>".  Append lists the versions, picks a name past  *)
(* the newest, and creates it; Load lists, and reads the newest, or the    *)
(* document of the layout that predates versioning.  The store offers no   *)
(* compare-and-set: Create looks whether the name is taken and uploads,    *)
(* two calls, and whether an upload refuses a name taken in between is a   *)
(* property of the OpenCloud underneath (clobbers).                        *)
(*                                                                         *)
(* A Writer is one Append, a Reader one Load; a writer may die at any      *)
(* point, and an upload that reports an error may have taken effect, or    *)
(* take effect later.                                                      *)
(* Versions are told apart by the writer that stored them.                 *)
(***************************************************************************)
EXTENDS Integers, FiniteSets

CONSTANTS
    Writer,         \* the Append calls
    Reader,         \* the Load calls
    None,           \* no document
    Legacy,         \* the document of the pre-versioned layout
    HasLegacy,      \* whether there is one
    Servers,        \* the kinds of server: whether an upload overwrites silently
    MaxAt,          \* bound: clock readings, in any order
    MaxStamp,       \* bound: version names
    Attempts,       \* names an Append tries (appendAttempts)
    MaxDeletes      \* bound: DeleteAll calls

ASSUME WriterAssumption ==
    /\ None \notin Writer \cup {Legacy}
    /\ Legacy \notin Writer
    /\ HasLegacy \in BOOLEAN
    /\ Servers \subseteq BOOLEAN
ASSUME StampAssumption ==
    /\ MaxAt \in Nat \ {0}
    /\ MaxStamp \in Nat /\ MaxStamp >= MaxAt
    /\ Attempts \in Nat \ {0}
    /\ MaxDeletes \in Nat

VARIABLES
    docs,       \* the document stored under each version name
    legacy,     \* the legacy document
    wpc,        \* where each Append is
    stamp,      \* the version name it is trying
    tried,      \* how many names it has found taken
    rpc,        \* where each Load is
    rkey,       \* the version a Load is about to read, 0 for the legacy one
    rval,       \* what it returned
    dpc,        \* where DeleteAll is
    dkeys,      \* the versions it has still to delete
    deletes,
    clobbers,   \* the server this behaviour is on overwrites silently
    acked,      \* history: the writers whose Append returned nil,
    before,     \* history: ... those that had by the time a Load began,
    older,      \* history: the writers that were over when an Append began,
    raced       \* history: an Append ran while DeleteAll did

wVars == <<wpc, stamp, tried>>
rVars == <<rpc, rkey, rval>>
dVars == <<dpc, dkeys, deletes>>
history == <<acked, before, older, raced>>
vars == <<docs, legacy, wVars, rVars, dVars, clobbers, history>>

Stamp == 1..MaxStamp

TypeOK ==
    /\ docs \in [Stamp -> Writer \cup {None}]
    /\ legacy \in {Legacy, None}
    /\ wpc \in [Writer -> {"idle", "look", "upload", "late", "done", "failed"}]
    /\ stamp \in [Writer -> 0..MaxStamp]
    /\ tried \in [Writer -> 0..Attempts]
    /\ rpc \in [Reader -> {"idle", "get", "done"}]
    /\ rkey \in [Reader -> 0..MaxStamp]
    /\ rval \in [Reader -> Writer \cup {Legacy, None}]
    /\ dpc \in {"idle", "keys", "legacy"}
    /\ dkeys \subseteq Stamp
    /\ deletes \in 0..MaxDeletes
    /\ clobbers \in Servers
    /\ acked \subseteq Writer
    /\ before \in [Reader -> SUBSET Writer]
    /\ older \in [Writer -> SUBSET Writer]
    /\ raced \in BOOLEAN

Init ==
    /\ docs = [n \in Stamp |-> None]
    /\ legacy = IF HasLegacy THEN Legacy ELSE None
    /\ wpc = [w \in Writer |-> "idle"]
    /\ stamp = [w \in Writer |-> 0]
    /\ tried = [w \in Writer |-> 0]
    /\ rpc = [r \in Reader |-> "idle"]
    /\ rkey = [r \in Reader |-> 0]
    /\ rval = [r \in Reader |-> None]
    /\ dpc = "idle"
    /\ dkeys = {}
    /\ deletes = 0
    /\ clobbers \in Servers
    /\ acked = {}
    /\ before = [r \in Reader |-> {}]
    /\ older = [w \in Writer |-> {}]
    /\ raced = FALSE

\* An Append that is over: it has nothing under way any more.
Over(w) == wpc[w] \in {"done", "failed"}

-----------------------------------------------------------------------------

\* A listing: the version names in use.
Keys == {n \in Stamp : docs[n] # None}

\* newestVersion: the highest-stamped key of a listing, 0 for an empty one.
NewestVersion(keys) ==
    IF keys = {} THEN 0 ELSE CHOOSE n \in keys : \A m \in keys : m <= n

\* Mutant: the clock names the version.
FirstNameByClock(at, keys) == at

\* The name an Append tries first: its clock reading, moved past the newest.
FirstName(at, keys) ==
    IF NewestVersion(keys) >= at THEN NewestVersion(keys) + 1 ELSE at

\* Append lists the versions and picks a name.
AppendList(w) ==
    /\ wpc[w] = "idle"
    /\ \E at \in 1..MaxAt :
          /\ FirstName(at, Keys) \in Stamp
          /\ stamp' = [stamp EXCEPT ![w] = FirstName(at, Keys)]
    /\ wpc' = [wpc EXCEPT ![w] = "look"]
    /\ older' = [older EXCEPT ![w] = {v \in Writer : Over(v)}]
    /\ raced' = (raced \/ dpc # "idle")
    /\ UNCHANGED <<docs, legacy, tried, rVars, dVars, acked, before, clobbers>>

\* The name is taken: Append moves on to the next, or gives up.
NameTaken(w) ==
    /\ tried' = [tried EXCEPT ![w] = @ + 1]
    /\ IF tried'[w] < Attempts /\ stamp[w] < MaxStamp
         THEN /\ stamp' = [stamp EXCEPT ![w] = @ + 1]
              /\ wpc' = [wpc EXCEPT ![w] = "look"]
         ELSE /\ wpc' = [wpc EXCEPT ![w] = "failed"]
              /\ UNCHANGED stamp
    /\ UNCHANGED <<docs, acked>>

\* exists: a document is stored under the name.
Taken(n) == docs[n] # None

\* Create lists the folder, to see whether the name is taken.
CreateLook(w) ==
    /\ wpc[w] = "look"
    /\ \/ /\ Taken(stamp[w])
          /\ NameTaken(w)
       \/ /\ ~Taken(stamp[w])
          /\ wpc' = [wpc EXCEPT ![w] = "upload"]
          /\ UNCHANGED <<docs, stamp, tried, acked>>
    /\ UNCHANGED <<legacy, rVars, dVars, before, older, raced, clobbers>>

\* Mutant: a refused upload is taken for a stored one.
CreateUploadHopeful(w) ==
    /\ wpc[w] = "upload"
    /\ docs' = [docs EXCEPT ![stamp[w]] = IF @ = None \/ clobbers THEN w ELSE @]
    /\ wpc' = [wpc EXCEPT ![w] = "done"]
    /\ acked' = acked \cup {w}
    /\ UNCHANGED <<stamp, tried, legacy, rVars, dVars, before, older, raced, clobbers>>

\* Create uploads; a server that refuses to overwrite answers ALREADY_EXISTS.
CreateUpload(w) ==
    /\ wpc[w] = "upload"
    /\ \/ /\ docs[stamp[w]] = None \/ clobbers
          /\ docs' = [docs EXCEPT ![stamp[w]] = w]
          /\ wpc' = [wpc EXCEPT ![w] = "done"]
          /\ acked' = acked \cup {w}
          /\ UNCHANGED <<stamp, tried>>
       \/ /\ docs[stamp[w]] # None /\ ~clobbers
          /\ NameTaken(w)
    /\ UNCHANGED <<legacy, rVars, dVars, before, older, raced, clobbers>>

\* The caller dies, or a call fails and Append returns its error.  An upload that
\* was under way may have taken effect, may do so later, or never does.
AppendFails(w) ==
    /\ \/ /\ wpc[w] \in {"look", "upload"}
          /\ wpc' = [wpc EXCEPT ![w] = "failed"]
          /\ UNCHANGED docs
       \/ /\ wpc[w] = "upload"
          /\ wpc' = [wpc EXCEPT ![w] = "late"]
          /\ UNCHANGED docs
       \/ /\ wpc[w] = "upload"
          /\ docs[stamp[w]] = None \/ clobbers
          /\ docs' = [docs EXCEPT ![stamp[w]] = w]
          /\ wpc' = [wpc EXCEPT ![w] = "failed"]
    /\ UNCHANGED <<legacy, stamp, tried, rVars, dVars, history, clobbers>>

\* An upload whose caller was told it failed lands after all, or is lost.
UploadLands(w) ==
    /\ wpc[w] = "late"
    /\ wpc' = [wpc EXCEPT ![w] = "failed"]
    /\ \/ /\ docs[stamp[w]] = None \/ clobbers
          /\ docs' = [docs EXCEPT ![stamp[w]] = w]
       \/ UNCHANGED docs
    /\ UNCHANGED <<legacy, stamp, tried, rVars, dVars, history, clobbers>>

-----------------------------------------------------------------------------

\* Load lists the versions and settles on the newest, or on the legacy layout.
LoadList(r) ==
    /\ rpc[r] = "idle"
    /\ rkey' = [rkey EXCEPT ![r] = NewestVersion(Keys)]
    /\ rpc' = [rpc EXCEPT ![r] = "get"]
    /\ before' = [before EXCEPT ![r] = acked]
    /\ UNCHANGED <<docs, legacy, wVars, rval, dVars, acked, older, raced, clobbers>>

\* Load reads it; a document that is gone by now is NotFoundError.
LoadGet(r) ==
    /\ rpc[r] = "get"
    /\ rval' = [rval EXCEPT ![r] = IF rkey[r] = 0 THEN legacy ELSE docs[rkey[r]]]
    /\ rpc' = [rpc EXCEPT ![r] = "done"]
    /\ UNCHANGED <<docs, legacy, wVars, rkey, dVars, history, clobbers>>

-----------------------------------------------------------------------------

\* DeleteAll lists the versions...
DeleteList ==
    /\ dpc = "idle"
    /\ deletes < MaxDeletes
    /\ deletes' = deletes + 1
    /\ dpc' = "keys"
    /\ dkeys' = Keys
    /\ raced' = (\E w \in Writer : wpc[w] \in {"look", "upload", "late"})
    /\ UNCHANGED <<docs, legacy, wVars, rVars, acked, before, older, clobbers>>

\* Mutant: the newest version goes first.
DeleteKeyNewestFirst(n) ==
    /\ dpc = "keys"
    /\ n \in dkeys /\ \A m \in dkeys : m <= n
    /\ docs' = [docs EXCEPT ![n] = None]
    /\ dkeys' = dkeys \ {n}
    /\ UNCHANGED <<legacy, wVars, rVars, dpc, deletes, history, clobbers>>

\* ... deletes them in the order of the listing, oldest first ...
DeleteKey(n) ==
    /\ dpc = "keys"
    /\ n \in dkeys /\ \A m \in dkeys : n <= m
    /\ docs' = [docs EXCEPT ![n] = None]
    /\ dkeys' = dkeys \ {n}
    /\ UNCHANGED <<legacy, wVars, rVars, dpc, deletes, history, clobbers>>

DeleteKeysDone ==
    /\ dpc = "keys"
    /\ dkeys = {}
    /\ dpc' = "legacy"
    /\ UNCHANGED <<docs, legacy, wVars, rVars, dkeys, deletes, history, clobbers>>

\* ... and the legacy document last.
DeleteLegacy ==
    /\ dpc = "legacy"
    /\ legacy' = None
    /\ dpc' = "idle"
    /\ UNCHANGED <<docs, wVars, rVars, dkeys, deletes, history, clobbers>>

\* A call of it fails, or its caller dies: what is deleted stays deleted.
DeleteFails ==
    /\ dpc # "idle"
    /\ dpc' = "idle"
    /\ dkeys' = {}
    /\ UNCHANGED <<docs, legacy, wVars, rVars, deletes, history, clobbers>>

-----------------------------------------------------------------------------

AppendStep(w) ==
    \/ AppendList(w) \/ CreateLook(w) \/ CreateUpload(w)
    \/ AppendFails(w) \/ UploadLands(w)
LoadStep(r) == LoadList(r) \/ LoadGet(r)
DeleteStep ==
    \/ DeleteList \/ DeleteKeysDone \/ DeleteLegacy \/ DeleteFails
    \/ \E n \in Stamp : DeleteKey(n)

\* Every call has returned.
Finished ==
    /\ \A w \in Writer : Over(w)
    /\ \A r \in Reader : rpc[r] = "done"
    /\ UNCHANGED vars

Next ==
    \/ \E w \in Writer : AppendStep(w)
    \/ \E r \in Reader : LoadStep(r)
    \/ DeleteStep
    \/ Finished

Spec == Init /\ [][Next]_vars

-----------------------------------------------------------------------------
(* Properties.                                                              *)

\* "A write never touches what is already stored": an append that returned nil
\* is still stored under its name, unless it was deleted.  It takes a server that
\* refuses to overwrite: on one that overwrites silently, two appends that both
\* looked before either uploaded may replace each other's document.
AcknowledgedIsStored ==
    (~clobbers /\ deletes = 0) => \A w \in acked : docs[stamp[w]] = w

\* "A clock that jumps backwards must not be able to make a new record look older
\* than the one it supersedes": a Load that began after an append returned never
\* comes back with a version from before that append - not with the legacy
\* document, nor with what an append stored that was over when this one began,
\* whatever their clocks said.
LoadIsCurrent ==
    deletes = 0 =>
        \A r \in Reader :
            rpc[r] = "done" =>
                \A w \in before[r] : rval[r] \in Writer \ older[w]

\* A DeleteAll that fails half-way leaves the version that counts: as long as
\* no append runs alongside, deleting the oldest first never brings an older
\* version to the front.
NoOlderVersionComesBack ==
    [][(~raced /\ NewestVersion(Keys)' < NewestVersion(Keys))
          => NewestVersion(Keys)' = 0]_vars

=============================================================================
