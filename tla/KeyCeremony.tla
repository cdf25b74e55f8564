----------------------------- MODULE KeyCeremony -----------------------------
(***************************************************************************)
(* The keys of one Space: the setup ceremony and the replacement of the    *)
(* Recovery Key, from the page in the browser to the key store.            *)
(*                                                                         *)
(*   web/src/wizard/machine.ts          the key steps of the setup wizard  *)
(*   web/src/recoverykey/rotation.ts    the replacement page               *)
(*   internal/api/keys.go               the two handlers                   *)
(*   internal/keystore/keystore.go      the stored envelopes               *)
(*                                                                         *)
(* A ceremony makes a Recovery Key and the envelope it opens; both, and    *)
(* the one request that carries the envelope, go by the ceremony's number. *)
(* A setup ceremony makes a Data Key too, a replacement wraps the one it   *)
(* took out of the envelope it replaces.  Envelope 0 is the one of a Space *)
(* that was set up before envelopes were versioned.                        *)
(***************************************************************************)
EXTENDS Integers, FiniteSets

CONSTANTS
    Page,           \* the browsers at work on the Space
    MaxCeremonies,  \* bound: ceremonies
    MaxFaults,      \* bound: store calls that fail, and restarts
    Worlds          \* the troubles a behaviour may meet, and in which combinations

\* A handler outlives the page's patience ("straggle"), a write that timed out
\* lands after all ("late"), the body of an answer is cut off ("torn").
Trouble == {"straggle", "late", "torn"}

ASSUME CeremonyAssumption ==
    /\ MaxCeremonies \in Nat /\ MaxFaults \in Nat
    /\ Worlds \subseteq SUBSET Trouble

None == -1
Ceremony == 1..MaxCeremonies
Envelope == 0..MaxCeremonies

VARIABLES
    step,       \* what each page shows
    mine,       \* the ceremony whose key a page holds
    minted,     \* number of ceremonies so far
    dk,         \* the Data Key each envelope wraps
    replaces,   \* the envelope a ceremony replaces, None for a setup
    handler,    \* how far the request of a ceremony has got,
    answer,     \* ... and what it was answered
    holder,     \* the request that holds the Space's lock
    legacy,     \* what the pre-versioned record holds
    rk, srw,    \* the stored versions, <<place in the order, envelope>>
    place,      \* the last place taken
    late,       \* versions whose write timed out and is still under way
    faults,
    world,      \* the troubles of this behaviour
    told,       \* history: ceremonies whose key a page called the Space's
    binned      \* history: ceremonies whose key a page called void

pageVars == <<step, mine>>
ceremonyVars == <<minted, dk, replaces>>
serverVars == <<handler, answer, holder>>
storeVars == <<legacy, rk, srw, place, late>>
history == <<told, binned>>
vars == <<pageVars, ceremonyVars, serverVars, storeVars, faults, world, history>>

PageSteps == {"closed", "key_intro", "enter_current", "show_key", "confirm", "submit",
              "uncertain", "checking", "done", "already_protected", "replaced_elsewhere"}
HandlerSteps == {"none", "sent", "lock", "put_rk", "put_srw", "status", "ended"}
Answers == {"none", "ok", "conflict", "refused", "error"}
MaxPlace == 2 * MaxCeremonies
Version == (1..MaxPlace) \X Ceremony

TypeOK ==
    /\ step \in [Page -> PageSteps]
    /\ mine \in [Page -> Ceremony \cup {None}]
    /\ minted \in Envelope
    /\ dk \in [Envelope -> Envelope]
    /\ replaces \in [Ceremony -> Envelope \cup {None}]
    /\ handler \in [Ceremony -> HandlerSteps]
    /\ answer \in [Ceremony -> Answers]
    /\ holder \in Ceremony \cup {None}
    /\ legacy \in {"none", "half", "full"}
    /\ rk \subseteq Version /\ srw \subseteq Version
    /\ place \in 0..MaxPlace
    /\ late \subseteq {"rk", "srw"} \X Version
    /\ faults \in 0..MaxFaults
    /\ world \in Worlds
    /\ told \subseteq Ceremony /\ binned \subseteq Ceremony

Init ==
    /\ step = [p \in Page |-> "closed"]
    /\ mine = [p \in Page |-> None]
    /\ minted = 0
    /\ dk = [e \in Envelope |-> e]
    /\ replaces = [k \in Ceremony |-> None]
    /\ handler = [k \in Ceremony |-> "none"]
    /\ answer = [k \in Ceremony |-> "none"]
    /\ holder = None
    /\ legacy \in {"none", "half", "full"}
    /\ rk = {} /\ srw = {} /\ place = 0 /\ late = {}
    /\ faults = 0
    /\ world \in Worlds
    /\ told = {} /\ binned = {}

-----------------------------------------------------------------------------
(* The key store.                                                           *)

\* The envelope of the version that comes last.
Newest(versions) ==
    LET last == CHOOSE v \in versions : \A w \in versions : w[1] <= v[1] IN last[2]

\* The newest recovery envelope, or the one of the pre-versioned record.
CurrentRK == IF rk # {} THEN Newest(rk) ELSE IF legacy # "none" THEN 0 ELSE None

\* Mutant: the two halves are read as one document, the server's envelope
\* counting only beside the recovery envelope of its own ceremony.
CurrentSRWPaired ==
    IF CurrentRK # None /\ (CurrentRK = 0 => legacy = "full")
         /\ (CurrentRK # 0 => \E v \in srw : v[2] = CurrentRK)
      THEN CurrentRK ELSE None
\* The newest of the server's envelopes, which only a setup writes.
CurrentSRW == IF srw # {} THEN Newest(srw) ELSE IF legacy = "full" THEN 0 ELSE None

\* Status reports a complete setup.
Configured == CurrentRK # None /\ CurrentSRW # None

CanFail == faults < MaxFaults
Fail == CanFail /\ faults' = faults + 1

\* An append that succeeds, or fails with nothing stored, with the version
\* stored all the same, or with the write still under way.
Stored(versions, k) ==
    /\ place' = place + 1
    /\ versions' = versions \cup {<<place + 1, k>>}
    /\ UNCHANGED <<legacy, late>>
NotStored(kind, versions, k) ==
    /\ place' = place + 1
    /\ UNCHANGED <<legacy, versions>>
    /\ \/ UNCHANGED late
       \/ "late" \in world /\ late' = late \cup {<<kind, <<place + 1, k>>>>}

\* A write that timed out lands after all, in the place it had taken.
Land ==
    \E w \in late :
        /\ late' = late \ {w}
        /\ rk' = IF w[1] = "rk" THEN rk \cup {w[2]} ELSE rk
        /\ srw' = IF w[1] = "srw" THEN srw \cup {w[2]} ELSE srw
        /\ UNCHANGED <<pageVars, ceremonyVars, serverVars, legacy, place, faults, history, world>>

-----------------------------------------------------------------------------
(* The handlers.  Both take the Space's lock and answer once.               *)

IsSetup(k) == replaces[k] = None

\* Mutant: the lock is let go only on success.
EndKeepsLock(k, a) ==
    /\ handler' = [handler EXCEPT ![k] = "ended"]
    /\ answer' = [answer EXCEPT ![k] = a]
    /\ holder' = IF holder = k /\ a = "ok" THEN None ELSE holder

\* The handler returns; its lock, if it has it, is released.
End(k, a) ==
    /\ handler' = [handler EXCEPT ![k] = "ended"]
    /\ answer' = [answer EXCEPT ![k] = a]
    /\ holder' = IF holder = k THEN None ELSE holder

Goto(k, s) == handler' = [handler EXCEPT ![k] = s] /\ UNCHANGED <<answer, holder>>

\* assertNotConfigured, assertConfigured: setup wants a Space without keys, a
\* replacement one with them.
Admitted(k) == IsSetup(k) <=> ~Configured

\* The request is checked: a role that is missing or a bad body is refused.
Check(k) ==
    /\ handler[k] = "sent"
    /\ \/ End(k, "refused") /\ UNCHANGED faults
       \/ Fail /\ End(k, "error")
       \/ /\ UNCHANGED faults
          /\ \/ Admitted(k) /\ Goto(k, "lock")
             \/ ~Admitted(k) /\ End(k, IF IsSetup(k) THEN "conflict" ELSE "refused")
    /\ UNCHANGED <<pageVars, ceremonyVars, storeVars, history, world>>

\* Mutants: setup relies on its first check; a replacement does not compare.
StillValidOnce(k) == ~IsSetup(k) => CurrentRK = replaces[k]
StillValidBlind(k) == IsSetup(k) => ~Configured

\* What is checked again under the lock: the Space has no keys yet, or the
\* envelope is still the one the request names.
StillValid(k) == IF IsSetup(k) THEN ~Configured ELSE CurrentRK = replaces[k]

LockAndCheck(k) ==
    /\ handler[k] = "lock" /\ holder = None
    /\ \/ Fail /\ End(k, "error")
       \/ ~StillValid(k) /\ End(k, "conflict") /\ UNCHANGED faults
       \/ /\ StillValid(k)
          /\ holder' = k
          /\ handler' = [handler EXCEPT ![k] = "put_rk"]
          /\ UNCHANGED <<answer, faults>>
    /\ UNCHANGED <<pageVars, ceremonyVars, storeVars, history, world>>

PutRK(k) ==
    /\ handler[k] = "put_rk"
    /\ \/ Stored(rk, k) /\ Goto(k, IF IsSetup(k) THEN "put_srw" ELSE "status") /\ UNCHANGED faults
       \/ Fail /\ End(k, "error") /\ (Stored(rk, k) \/ NotStored("rk", rk, k))
    /\ UNCHANGED <<pageVars, ceremonyVars, srw, history, world>>

PutSRW(k) ==
    /\ handler[k] = "put_srw"
    /\ \/ Stored(srw, k) /\ Goto(k, "status") /\ UNCHANGED faults
       \/ Fail /\ End(k, "error") /\ (Stored(srw, k) \/ NotStored("srw", srw, k))
    /\ UNCHANGED <<pageVars, ceremonyVars, rk, history, world>>

ReadStatus(k) ==
    /\ handler[k] = "status"
    /\ \/ End(k, "ok") /\ UNCHANGED faults
       \/ Fail /\ End(k, "error")
    /\ UNCHANGED <<pageVars, ceremonyVars, storeVars, history, world>>

Handle(k) == Check(k) \/ LockAndCheck(k) \/ PutRK(k) \/ PutSRW(k) \/ ReadStatus(k)

Active(k) == handler[k] \in {"lock", "put_rk", "put_srw", "status"}

\* The service is restarted: its handlers and its locks are gone.
Restart ==
    /\ \E k \in Ceremony : Active(k)
    /\ Fail
    /\ handler' = [k \in Ceremony |-> IF Active(k) THEN "ended" ELSE handler[k]]
    /\ holder' = None
    /\ UNCHANGED <<pageVars, ceremonyVars, answer, storeVars, history, world>>

-----------------------------------------------------------------------------
(* The pages.                                                               *)

Show(p, s) == step' = [step EXCEPT ![p] = s]
Forget(p) == mine' = [mine EXCEPT ![p] = None]
Tell(p) == told' = told \cup {mine[p]} /\ UNCHANGED binned
Bin(p) == binned' = binned \cup {mine[p]} /\ UNCHANGED told

\* start: the wizard offers a Space without keys the ceremony, the replacement
\* page asks for the current key of a Space with them.
Open(p) ==
    /\ step[p] = "closed"
    /\ Show(p, IF Configured THEN "enter_current" ELSE "key_intro")
    /\ UNCHANGED <<mine, ceremonyVars, serverVars, storeVars, faults, history, world>>

\* A ceremony makes a key and shows it.
Mint(p, replaced) ==
    /\ minted < MaxCeremonies
    /\ minted' = minted + 1
    /\ mine' = [mine EXCEPT ![p] = minted + 1]
    /\ dk' = [dk EXCEPT ![minted + 1] = IF replaced = None THEN minted + 1 ELSE dk[replaced]]
    /\ replaces' = [replaces EXCEPT ![minted + 1] = replaced]
    /\ Show(p, "show_key")
    /\ UNCHANGED <<serverVars, storeVars, faults, history, world>>

CreateKey(p) == step[p] = "key_intro" /\ Mint(p, None)

\* The key the user types opens the envelope the page has fetched; one that
\* does not leaves the page as it is.
UseCurrentKey(p) == step[p] = "enter_current" /\ CurrentRK # None /\ Mint(p, CurrentRK)

KeySaved(p) ==
    /\ step[p] = "show_key"
    /\ Show(p, "confirm")
    /\ UNCHANGED <<mine, ceremonyVars, serverVars, storeVars, faults, history, world>>

ShowKeyAgain(p) ==
    /\ step[p] = "confirm"
    /\ Show(p, "show_key")
    /\ UNCHANGED <<mine, ceremonyVars, serverVars, storeVars, faults, history, world>>

\* The gate is passed and the request sent.
ConfirmKey(p) ==
    /\ step[p] = "confirm"
    /\ Show(p, "submit")
    /\ handler' = [handler EXCEPT ![mine[p]] = "sent"]
    /\ UNCHANGED <<mine, ceremonyVars, answer, holder, storeVars, faults, history, world>>

\* Nothing changed, the page says, and starts over.
Rejected(p) ==
    /\ Show(p, IF IsSetup(mine[p]) THEN "key_intro" ELSE "enter_current")
    /\ Forget(p) /\ Bin(p)

\* The Space has keys that are not this page's.
Overtaken(p) ==
    /\ Show(p, IF IsSetup(mine[p]) THEN "already_protected" ELSE "replaced_elsewhere")
    /\ Forget(p) /\ Bin(p)

Accepted(p) == Show(p, "done") /\ Forget(p) /\ Tell(p)

\* Mutant: a failure of the server counts as a refusal.
OutcomeRash(p, a) ==
    CASE a = "ok" -> Accepted(p)
      [] a = "conflict" -> Overtaken(p)
      [] OTHER -> Rejected(p)

\* submit, submitSetup: what the page makes of an answer.  A 5xx may have
\* landed (mayHaveLanded); an ok answer whose body is cut off is a
\* malformed_response with a 2xx status, which may not.
Outcome(p, a) ==
    CASE a = "ok" -> Accepted(p) \/ ("torn" \in world /\ Rejected(p))
      [] a = "conflict" -> Overtaken(p)
      [] a = "refused" -> Rejected(p)
      [] a = "error" -> Show(p, "uncertain") /\ UNCHANGED <<mine, history>>

Receive(p) ==
    /\ step[p] = "submit" /\ answer[mine[p]] # "none"
    /\ Outcome(p, answer[mine[p]])
    /\ UNCHANGED <<ceremonyVars, serverVars, storeVars, faults, world>>

\* No answer: the request was lost, the answer was, or the page stopped
\* waiting for it.
GiveUp(p) ==
    LET k == mine[p] IN
    /\ step[p] = "submit"
    /\ \/ handler[k] = "sent" /\ handler' = [handler EXCEPT ![k] = "ended"]
       \/ (handler[k] = "ended" \/ "straggle" \in world) /\ UNCHANGED handler
    /\ Show(p, "uncertain")
    /\ UNCHANGED <<mine, ceremonyVars, answer, holder, storeVars, faults, history, world>>

\* retryUncertain asks for the status: without keys, the request never landed.
RetryUncertain(p) ==
    /\ step[p] = "uncertain" /\ IsSetup(mine[p])
    /\ \/ ~Configured /\ Rejected(p)
       \/ Configured /\ Show(p, "checking") /\ UNCHANGED <<mine, history>>
    /\ UNCHANGED <<ceremonyVars, serverVars, storeVars, faults, world>>

\* ... and with keys, tries its own on the envelope.
RetryEnvelope(p) ==
    /\ step[p] = "checking"
    /\ IF CurrentRK = mine[p] THEN Accepted(p) ELSE Overtaken(p)
    /\ UNCHANGED <<ceremonyVars, serverVars, storeVars, faults, world>>

\* Either read may fail, and the question stays open.
RetryFails(p) ==
    /\ step[p] = "checking"
    /\ Show(p, "uncertain")
    /\ UNCHANGED <<mine, ceremonyVars, serverVars, storeVars, faults, history, world>>

\* checkAgain tries the new key and then the old one on the envelope.
CheckAgain(p) ==
    /\ step[p] = "uncertain" /\ ~IsSetup(mine[p])
    /\ CASE CurrentRK = mine[p] -> Accepted(p)
         [] CurrentRK = replaces[mine[p]] -> Rejected(p)
         [] OTHER -> Overtaken(p)
    /\ UNCHANGED <<ceremonyVars, serverVars, storeVars, faults, world>>

\* The page is left; what it had sent goes on.
Dispose(p) ==
    /\ step[p] # "closed"
    /\ Show(p, "closed") /\ Forget(p)
    /\ UNCHANGED <<ceremonyVars, serverVars, storeVars, faults, history, world>>

Browse(p) ==
    \/ Open(p) \/ CreateKey(p) \/ UseCurrentKey(p) \/ KeySaved(p) \/ ShowKeyAgain(p)
    \/ ConfirmKey(p) \/ Receive(p) \/ GiveUp(p) \/ RetryUncertain(p) \/ RetryEnvelope(p)
    \/ RetryFails(p) \/ CheckAgain(p) \/ Dispose(p)

-----------------------------------------------------------------------------

Next ==
    \/ Land \/ Restart
    \/ \E k \in Ceremony : Handle(k)
    \/ \E p \in Page : Browse(p)

Spec == Init /\ [][Next]_vars

\* Handlers make progress: each of their calls is bounded by storeTimeout.
FairSpec == Spec /\ \A k \in Ceremony : WF_vars(Handle(k))

-----------------------------------------------------------------------------
(* Properties.                                                              *)

\* The envelope the users' Recovery Key opens and the one the unattended runs
\* use hold the same Data Key, whatever ceremonies race or fail halfway: no
\* "two Data Keys, and a saved Recovery Key that opens nothing the unattended
\* runs write" (keys.go, handleKeySetup).  A write that timed out and lands
\* after a second ceremony has got half-way is what it cannot stand.
OneDataKey == ("late" \notin world /\ Configured) => dk[CurrentRK] = dk[CurrentSRW]

\* A key a page called the Space's is still the one that opens it, or someone
\* who had it replaced it: nobody loses a race without being told
\* (replaces_sha256).  Late writes break it: they land outside the lock.
NoSilentLoser ==
    "late" \notin world =>
        \A k \in told : CurrentRK = k \/ \E v \in rk : replaces[v[2]] = k

\* A key a page called void is not, and never becomes, the one that opens the
\* Space, as long as answers arrive whole and no call outlives the page that
\* waits for it.
VoidKeysStayVoid == (world = {} /\ Configured) => CurrentRK \notin binned

\* Once a Space has keys it keeps them, and no step changes its Data Key, late
\* writes apart.
DataKeyIsForEver ==
    [][("late" \notin world /\ Configured)
          => Configured' /\ dk'[CurrentSRW'] = dk[CurrentSRW]]_vars

\* Every request comes to its end, and lets the next one at the Space's lock.
RequestsEnd == \A k \in Ceremony : handler[k] = "lock" ~> handler[k] = "ended"

-----------------------------------------------------------------------------
(* What comments of the code claim and the code does not do.                *)

\* rotation.ts, submit: "Refused outright: nothing changed, the current key
\* still holds."  VoidKeysStayVoid, whatever becomes of the answers.
DiscardedKeyIsVoid == Configured => CurrentRK \notin binned

=============================================================================
