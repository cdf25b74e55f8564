--------------------------- MODULE KeyCeremonyProofs ---------------------------
(* Proofs about KeyCeremony, for any pages, ceremonies, faults and worlds.  *)
EXTENDS KeyCeremony, TLAPS

-----------------------------------------------------------------------------
(* The inductive invariant, in a world where no write that timed out lands. *)

\* What the proofs need to know of the types; that the places suffice is left
\* to TLC.
PagesTyped ==
    /\ step \in [Page -> PageSteps]
    /\ mine \in [Page -> Ceremony \cup {None}]
    /\ told \in SUBSET Ceremony /\ binned \in SUBSET Ceremony

CeremoniesTyped ==
    /\ minted \in Nat
    /\ dk \in [Envelope -> Envelope]
    /\ replaces \in [Ceremony -> Envelope \cup {None}]

ServerTyped ==
    /\ handler \in [Ceremony -> HandlerSteps]
    /\ answer \in [Ceremony -> Answers]
    /\ holder \in Ceremony \cup {None}

StoreTyped ==
    /\ legacy \in {"none", "half", "full"}
    /\ rk \in SUBSET (Nat \X Ceremony) /\ srw \in SUBSET (Nat \X Ceremony)
    /\ place \in Nat
    /\ late \in SUBSET ({"rk", "srw"} \X (Nat \X Ceremony))

Typed == PagesTyped /\ CeremoniesTyped /\ ServerTyped /\ StoreTyped

\* A ceremony that was not held has left no trace; a replacement replaces an
\* earlier envelope and wraps its Data Key.
CeremonyInv ==
    \A k \in Ceremony :
        /\ k > minted => handler[k] = "none" /\ replaces[k] = None
        /\ ~IsSetup(k) => replaces[k] < k /\ dk[k] = dk[replaces[k]]
        /\ answer[k] # "none" => handler[k] = "ended"

HoldsKey == {"show_key", "confirm", "submit", "uncertain", "checking"}

\* A page holds the key of a ceremony of its own, and sends it once.
PageInv ==
    /\ \A p \in Page :
          /\ mine[p] # None <=> step[p] \in HoldsKey
          /\ mine[p] # None => mine[p] <= minted
          /\ step[p] \in {"show_key", "confirm"} => handler[mine[p]] = "none"
    /\ \A p, q \in Page : (mine[p] # None /\ mine[p] = mine[q]) => p = q

\* The Space's lock is held by a handler that is past its second check.
LockInv == \A k \in Ceremony : handler[k] \in {"put_rk", "put_srw", "status"} <=> holder = k

-----------------------------------------------------------------------------
(* The store, and what it has to do with the handlers and the pages.        *)

\* One version comes last.
HasLast(versions) ==
    versions # {} => \E v \in versions : \A w \in versions : w # v => w[1] < v[1]

\* The versions are in the order of their places, of ceremonies that were held;
\* the server's envelope never comes alone.
StoreInv ==
    /\ late = {}
    /\ HasLast(rk) /\ HasLast(srw)
    /\ \A v \in rk \cup srw : v[1] <= place /\ v[2] <= minted
    /\ srw # {} => rk # {}

\* The key of k is, or was until a replacement of it, the Space's.
Stands(k) == CurrentRK = k \/ \E v \in rk : replaces[v[2]] = k

\* A setup that holds the lock works on a Space the unattended runs cannot use
\* yet, a replacement on the envelope it names.
HandlerOK(k) ==
    /\ (IsSetup(k) /\ handler[k] \in {"put_rk", "put_srw"}) => CurrentSRW = None
    /\ handler[k] = "put_srw" => IsSetup(k) /\ CurrentRK = k
    /\ (~IsSetup(k) /\ handler[k] = "put_rk") => CurrentRK = replaces[k]
    /\ (~IsSetup(k) /\ handler[k] \in {"lock", "put_rk", "put_srw", "status"}) => Configured
    /\ (handler[k] = "status" \/ answer[k] = "ok" \/ k \in told) => (Configured /\ Stands(k))
    /\ (handler[k] \in {"none", "sent", "lock", "put_rk"} \/ answer[k] \in {"refused", "conflict"})
          => \A v \in rk : v[2] # k

HandlerInv == \A k \in Ceremony : HandlerOK(k)

\* Where a page or a stored replacement says so, the Space has its keys.
ConfiguredInv ==
    /\ \A v \in rk : ~IsSetup(v[2]) => Configured
    /\ \A p \in Page : step[p] = "checking" => Configured

\* Without any trouble, a page that doubts or a key that was called void has no
\* request left under way.
VoidInv ==
    /\ \A p \in Page : step[p] \in {"uncertain", "checking"} => handler[mine[p]] = "ended"
    /\ \A k \in binned : handler[k] = "ended"

KeyInv ==
    "late" \notin world =>
        /\ Typed /\ CeremonyInv /\ PageInv /\ LockInv
        /\ StoreInv /\ HandlerInv /\ ConfiguredInv /\ OneDataKey
        /\ world = {} => VoidInv /\ VoidKeysStayVoid

-----------------------------------------------------------------------------
(* The stored envelopes.                                                    *)

\* A version in a place past all others is the newest.
LEMMA NewestAdded ==
  ASSUME NEW S \in SUBSET (Nat \X Ceremony), NEW n \in Nat, \A v \in S : v[1] <= n,
         NEW k \in Ceremony
  PROVE  Newest(S \cup {<<n + 1, k>>}) = k /\ HasLast(S \cup {<<n + 1, k>>})
  <1> DEFINE new == <<n + 1, k>>
  <1> DEFINE T == S \cup {new}
  <1>1. new \in T /\ new[1] = n + 1 /\ new[2] = k
    OBVIOUS
  <1>2. \A w \in T : w # new => w[1] < new[1]
    BY <1>1
  <1>3. \A w \in T : w[1] <= new[1]
    BY <1>1, <1>2
  <1>4. \A v \in T : (\A w \in T : w[1] <= v[1]) => v = new
    <2> SUFFICES ASSUME NEW v \in T, \A w \in T : w[1] <= v[1], v # new PROVE FALSE
      OBVIOUS
    <2>1. v[1] \in Nat /\ v[1] < new[1] /\ new[1] <= v[1]
      BY <1>1, <1>2
    <2> QED
      BY <1>1, <2>1
  <1> HIDE DEF T, new
  <1>5. (CHOOSE v \in T : \A w \in T : w[1] <= v[1]) = new
    BY <1>1, <1>3, <1>4
  <1>6. Newest(T) = k
    BY <1>1, <1>5 DEF Newest
  <1>7. HasLast(T)
    BY <1>1, <1>2 DEF HasLast
  <1> QED
    BY <1>6, <1>7 DEF T, new

\* The newest version is one of them.
LEMMA NewestThere ==
  ASSUME NEW S \in SUBSET (Nat \X Ceremony), HasLast(S), S # {}
  PROVE  \E v \in S : Newest(S) = v[2]
  <1>1. \E v \in S : \A w \in S : w[1] <= v[1]
    BY DEF HasLast
  <1> QED
    BY <1>1 DEF Newest

\* What the Space's envelopes may be; the server's alone tells whether it has
\* its keys.
LEMMA CurrentFacts ==
  ASSUME Typed, StoreInv
  PROVE  /\ CurrentRK \in Envelope \cup {None} /\ CurrentRK <= minted
         /\ CurrentSRW \in Envelope \cup {None} /\ CurrentSRW <= minted
         /\ \A k \in Ceremony : CurrentRK = k => \E v \in rk : v[2] = k
         /\ Configured <=> CurrentSRW # None
  <1> USE CeremonyAssumption DEF Typed, CeremoniesTyped, StoreTyped, StoreInv, Envelope, Ceremony, None
  <1>0. \A v \in rk \cup srw : v[2] \in 1..MaxCeremonies /\ v[2] <= minted
    OBVIOUS
  <1>1. rk # {} => \E v \in rk : CurrentRK = v[2]
    BY NewestThere DEF CurrentRK
  <1>2. srw # {} => \E v \in srw : CurrentSRW = v[2]
    BY NewestThere DEF CurrentSRW
  <1>3. rk = {} => CurrentRK \in {0, None}
    BY DEF CurrentRK
  <1>4. srw = {} => CurrentSRW \in {0, None}
    BY DEF CurrentSRW
  <1>5. CurrentSRW # None => CurrentRK # None
    <2>1. CASE rk # {}
      <3>1. PICK v \in rk : CurrentRK = v[2]
        BY <1>1, <2>1
      <3>2. v[2] \in 1..MaxCeremonies
        OBVIOUS
      <3> QED
        BY <3>1, <3>2
    <2>2. CASE rk = {}
      BY <2>2 DEF CurrentRK, CurrentSRW
    <2> QED
      BY <2>1, <2>2
  <1>6. CurrentRK \in Envelope \cup {None} /\ CurrentRK <= minted
    <2>1. CASE rk = {}
      BY <1>3, <2>1
    <2>2. CASE rk # {}
      <3>1. PICK v \in rk : CurrentRK = v[2]
        BY <1>1, <2>2
      <3>2. v[2] \in 1..MaxCeremonies /\ v[2] <= minted
        BY <1>0
      <3> QED
        BY <3>1, <3>2
    <2> QED
      BY <2>1, <2>2
  <1>7. CurrentSRW \in Envelope \cup {None} /\ CurrentSRW <= minted
    <2>1. CASE srw = {}
      BY <1>4, <2>1
    <2>2. CASE srw # {}
      <3>1. PICK v \in srw : CurrentSRW = v[2]
        BY <1>2, <2>2
      <3>2. v[2] \in 1..MaxCeremonies /\ v[2] <= minted
        BY <1>0
      <3> QED
        BY <3>1, <3>2
    <2> QED
      BY <2>1, <2>2
  <1>8. \A k \in Ceremony : CurrentRK = k => \E v \in rk : v[2] = k
    <2> SUFFICES ASSUME NEW k \in Ceremony, CurrentRK = k PROVE \E v \in rk : v[2] = k
      OBVIOUS
    <2>1. rk # {}
      BY <1>3
    <2> QED
      BY <1>1, <2>1
  <1> QED
    BY <1>5, <1>6, <1>7, <1>8 DEF Configured

\* Nothing is stored.
LEMMA SameStore ==
  ASSUME UNCHANGED <<legacy, rk, srw>>
  PROVE  CurrentRK' = CurrentRK /\ CurrentSRW' = CurrentSRW /\ Configured' = Configured
  BY DEF CurrentRK, CurrentSRW, Configured

\* A recovery envelope is stored.
LEMMA AddRK ==
  ASSUME Typed, StoreInv, CeremonyInv, NEW k \in Ceremony, k <= minted, minted' = minted,
         Stored(rk, k), UNCHANGED srw
  PROVE  /\ CurrentRK' = k /\ CurrentSRW' = CurrentSRW
         /\ \A v \in rk' : v \in rk \/ v[2] = k
         /\ \E v \in rk' : v[2] = k
         /\ rk \subseteq rk'
         /\ StoreInv'
  <1>1. rk' = rk \cup {<<place + 1, k>>} /\ place' = place + 1 /\ UNCHANGED <<legacy, late>>
    BY DEF Stored
  <1>2. Newest(rk') = k /\ HasLast(rk')
    <2>1. \A v \in rk : v[1] <= place
      BY DEF StoreInv
    <2>2. rk \in SUBSET (Nat \X Ceremony) /\ place \in Nat
      BY DEF Typed, StoreTyped
    <2>3. /\ Newest(rk \cup {<<place + 1, k>>}) = k
          /\ HasLast(rk \cup {<<place + 1, k>>})
      BY <2>1, <2>2, NewestAdded
    <2> QED
      BY <1>1, <2>3
  <1>3. CurrentRK' = k
    BY <1>1, <1>2 DEF CurrentRK
  <1>4. CurrentSRW' = CurrentSRW
    BY <1>1 DEF CurrentSRW
  <1>5. StoreInv'
    BY <1>1, <1>2 DEF StoreInv, Typed, StoreTyped
  <1>6. <<place + 1, k>> \in rk' /\ <<place + 1, k>>[2] = k
    BY <1>1
  <1>7. \A v \in rk' : v \in rk \/ v[2] = k
    BY <1>1
  <1> QED
    BY <1>1, <1>3, <1>4, <1>5, <1>6, <1>7

\* An envelope for the server is stored, beside a recovery envelope.
LEMMA AddSRW ==
  ASSUME Typed, StoreInv, CeremonyInv, NEW k \in Ceremony, k <= minted, minted' = minted,
         Stored(srw, k), UNCHANGED rk, CurrentRK = k
  PROVE  /\ CurrentSRW' = k /\ CurrentRK' = CurrentRK
         /\ StoreInv'
  <1>1. srw' = srw \cup {<<place + 1, k>>} /\ place' = place + 1 /\ UNCHANGED <<legacy, late>>
    BY DEF Stored
  <1>2. Newest(srw') = k /\ HasLast(srw')
    <2>1. \A v \in srw : v[1] <= place
      BY DEF StoreInv
    <2>2. srw \in SUBSET (Nat \X Ceremony) /\ place \in Nat
      BY DEF Typed, StoreTyped
    <2>3. /\ Newest(srw \cup {<<place + 1, k>>}) = k
          /\ HasLast(srw \cup {<<place + 1, k>>})
      BY <2>1, <2>2, NewestAdded
    <2> QED
      BY <1>1, <2>3
  <1>3. CurrentSRW' = k
    BY <1>1, <1>2 DEF CurrentSRW
  <1>4. CurrentRK' = CurrentRK
    BY <1>1 DEF CurrentRK
  <1>5. rk # {}
    BY CurrentFacts
  <1>6. StoreInv'
    BY <1>1, <1>2, <1>5 DEF StoreInv, Typed, StoreTyped
  <1> QED
    BY <1>3, <1>4, <1>6

-----------------------------------------------------------------------------
(* The ceremonies, the pages and the lock.                                  *)

BaseInv == Typed /\ CeremonyInv /\ PageInv /\ LockInv

\* No ceremony is called None, and all have an envelope.
LEMMA Numbers == None \notin Envelope /\ Ceremony \subseteq Envelope /\ 0 \in Envelope
  BY CeremonyAssumption DEF None, Envelope, Ceremony

\* What one step of a handler does to it, to the answer and to the lock.
Handled(k) ==
    /\ handler[k] \in {"sent", "lock", "put_rk", "put_srw", "status"}
    /\ handler'[k] \in HandlerSteps \ {"none", "sent"}
    /\ answer'[k] # "none" => handler'[k] = "ended"
    /\ handler'[k] \in {"put_rk", "put_srw", "status"} <=> holder' = k
    /\ \A j \in Ceremony \ {k} : /\ handler'[j] = handler[j] /\ answer'[j] = answer[j]
                                 /\ holder' = j <=> holder = j

\* A handler that ends answers its own ceremony and no other.
LEMMA EndFacts ==
  ASSUME BaseInv, NEW k \in Ceremony, NEW a \in Answers, End(k, a),
         handler[k] \in {"sent", "lock", "put_rk", "put_srw", "status"}
  PROVE  ServerTyped' /\ Handled(k) /\ handler'[k] = "ended" /\ answer'[k] = a
  BY Numbers DEF BaseInv, Typed, ServerTyped, End, Handled, HandlerSteps

\* A handler that goes on keeps its place in the order of its calls.
LEMMA GotoFacts ==
  ASSUME BaseInv, NEW k \in Ceremony, NEW h, Goto(k, h),
         \/ handler[k] = "sent" /\ h = "lock"
         \/ handler[k] \in {"put_rk", "put_srw"} /\ h \in {"put_srw", "status"}
  PROVE  ServerTyped' /\ Handled(k) /\ handler'[k] = h
  BY DEF BaseInv, Typed, ServerTyped, CeremonyInv, LockInv, Goto, Handled, HandlerSteps

\* Each step of a handler is of that kind.
LEMMA HandleFacts ==
  ASSUME BaseInv, NEW k \in Ceremony, Handle(k)
  PROVE  ServerTyped' /\ Handled(k)
  <1>1. CASE Check(k)
    BY <1>1, EndFacts, GotoFacts DEF Check, Answers
  <1>2. CASE LockAndCheck(k)
    <2>1. CASE \E a \in Answers : End(k, a)
      BY <1>2, <2>1, EndFacts DEF LockAndCheck
    <2>2. CASE holder = None /\ holder' = k /\ handler' = [handler EXCEPT ![k] = "put_rk"]
               /\ UNCHANGED answer
      BY <1>2, <2>2, Numbers
      DEF LockAndCheck, BaseInv, Typed, ServerTyped, CeremonyInv, LockInv, Handled,
          HandlerSteps
    <2> QED
      BY <1>2, <2>1, <2>2 DEF LockAndCheck, Answers
  <1>3. CASE PutRK(k)
    BY <1>3, EndFacts, GotoFacts DEF PutRK, Answers
  <1>4. CASE PutSRW(k)
    BY <1>4, EndFacts, GotoFacts DEF PutSRW, Answers
  <1>5. CASE ReadStatus(k)
    BY <1>5, EndFacts DEF ReadStatus, Answers
  <1> QED
    BY <1>1, <1>2, <1>3, <1>4, <1>5 DEF Handle

\* What is stored is versions of ceremonies.
LEMMA StoredTyped ==
  ASSUME StoreTyped, NEW k \in Ceremony,
         \/ UNCHANGED storeVars
         \/ Stored(rk, k) /\ UNCHANGED srw
         \/ Stored(srw, k) /\ UNCHANGED rk
         \/ NotStored("rk", rk, k) /\ UNCHANGED srw
         \/ NotStored("srw", srw, k) /\ UNCHANGED rk
  PROVE  StoreTyped'
  <1>1. <<place + 1, k>> \in Nat \X Ceremony /\ place + 1 \in Nat
    BY DEF StoreTyped
  <1> QED
    BY <1>1 DEF StoreTyped, Stored, NotStored, storeVars

\* A step of a handler keeps the invariant.
LEMMA HandleBase ==
  ASSUME BaseInv, NEW k \in Ceremony, Handle(k)
  PROVE  BaseInv'
  <1>1. ServerTyped' /\ Handled(k)
    BY HandleFacts
  <1>2. UNCHANGED <<pageVars, ceremonyVars, history, world>>
    BY DEF Handle, Check, LockAndCheck, PutRK, PutSRW, ReadStatus
  <1>3. StoreTyped'
    <2>1. CASE PutRK(k)
      BY <2>1, StoredTyped DEF PutRK, BaseInv, Typed
    <2>2. CASE PutSRW(k)
      BY <2>2, StoredTyped DEF PutSRW, BaseInv, Typed
    <2> QED
      BY <2>1, <2>2, StoredTyped DEF Handle, Check, LockAndCheck, ReadStatus, BaseInv, Typed
  <1>4. Typed'
    BY <1>1, <1>2, <1>3
    DEF BaseInv, Typed, PagesTyped, CeremoniesTyped, pageVars, ceremonyVars, history
  <1>5. CeremonyInv'
    BY <1>1, <1>2 DEF BaseInv, CeremonyInv, Handled, IsSetup, ceremonyVars
  <1>6. PageInv'
    BY <1>1, <1>2, Numbers
    DEF BaseInv, PageInv, Typed, PagesTyped, Handled, pageVars, ceremonyVars, HoldsKey
  <1>7. LockInv'
    BY <1>1 DEF BaseInv, LockInv, Handled
  <1> QED
    BY <1>4, <1>5, <1>6, <1>7 DEF BaseInv

\* A restart keeps it.
LEMMA RestartBase ==
  ASSUME BaseInv, Restart
  PROVE  BaseInv'
  <1> USE DEF Restart, BaseInv
  <1>1. handler' \in [Ceremony -> HandlerSteps]
    BY DEF Typed, ServerTyped, HandlerSteps
  <1>2. \A k \in Ceremony : handler'[k] = IF Active(k) THEN "ended" ELSE handler[k]
    OBVIOUS
  <1>3. Typed'
    BY <1>1 DEF Typed, PagesTyped, CeremoniesTyped, ServerTyped, StoreTyped, pageVars,
       ceremonyVars, storeVars, history
  <1>4. CeremonyInv'
    BY <1>2 DEF CeremonyInv, IsSetup, ceremonyVars, Active
  <1>5. PageInv'
    BY <1>2, Numbers
    DEF PageInv, Typed, PagesTyped, pageVars, ceremonyVars, HoldsKey, Active
  <1>6. LockInv'
    BY <1>2, Numbers DEF LockInv, Active
  <1> QED
    BY <1>3, <1>4, <1>5, <1>6

\* What a step of a page that holds no ceremony does to what it shows and to the
\* key it holds; it sends no request.
Turned(p, s) ==
    /\ Show(p, s) /\ s \in PageSteps
    /\ \/ mine' = mine /\ (s \in HoldsKey <=> mine[p] # None)
       \/ Forget(p) /\ s \notin HoldsKey
    /\ UNCHANGED ceremonyVars
    /\ s \in {"show_key", "confirm"} => step[p] \in {"show_key", "confirm"}
    /\ told' \in SUBSET Ceremony /\ binned' \in SUBSET Ceremony

\* Such a step keeps the pages in order, if no request goes back to the start.
LEMMA TurnedPage ==
  ASSUME BaseInv, NEW p \in Page, NEW s, Turned(p, s),
         \A k \in Ceremony : handler[k] = "none" => handler'[k] = "none"
  PROVE  PagesTyped' /\ PageInv'
  <1> USE Numbers DEF BaseInv, Typed, PagesTyped, Turned, Show, Forget
  <1>1. PagesTyped'
    OBVIOUS
  <1>2. /\ step'[p] = s /\ \A q \in Page \ {p} : step'[q] = step[q] /\ mine'[q] = mine[q]
        /\ minted' = minted
        /\ \/ mine'[p] = mine[p] /\ (s \in HoldsKey <=> mine[p] # None)
           \/ mine'[p] = None /\ s \notin HoldsKey
    BY DEF ceremonyVars
  <1>3. \A q \in Page : mine[q] \in Ceremony \cup {None}
    OBVIOUS
  <1>4. PageInv'
    BY <1>2, <1>3 DEF PageInv, HoldsKey
  <1> QED
    BY <1>1, <1>4

\* A page that turns and leaves the server alone keeps the invariant.
LEMMA TurnedBase ==
  ASSUME BaseInv, NEW p \in Page, NEW s, Turned(p, s), UNCHANGED <<serverVars, storeVars>>
  PROVE  BaseInv'
  <1>1. PagesTyped' /\ PageInv'
    BY TurnedPage DEF serverVars
  <1> QED
    BY <1>1
    DEF BaseInv, Typed, CeremoniesTyped, ServerTyped, StoreTyped, CeremonyInv, LockInv,
        IsSetup, Turned, ceremonyVars, serverVars, storeVars

\* A key a page calls the Space's, or void, is that of a ceremony.
LEMMA HeldKey ==
  ASSUME BaseInv, NEW p \in Page, step[p] \in HoldsKey
  PROVE  mine[p] \in Ceremony /\ mine[p] # None
  BY DEF BaseInv, Typed, PagesTyped, PageInv

\* What a page makes of an answer.
LEMMA ReceiveFacts ==
  ASSUME BaseInv, NEW p \in Page, Receive(p)
  PROVE  LET a == answer[mine[p]] IN
         \/ a = "ok" /\ Accepted(p)
         \/ a = "ok" /\ "torn" \in world /\ Rejected(p)
         \/ a = "conflict" /\ Overtaken(p)
         \/ a = "refused" /\ Rejected(p)
         \/ a = "error" /\ Show(p, "uncertain") /\ UNCHANGED <<mine, history>>
  <1>1. answer[mine[p]] \in {"ok", "conflict", "refused", "error"}
    BY HeldKey DEF Receive, HoldsKey, BaseInv, Typed, ServerTyped, Answers
  <1> QED
    BY <1>1 DEF Receive, Outcome

\* The steps of a page that only turn it.
LEMMA TurningBase ==
  ASSUME BaseInv, NEW p \in Page,
         \/ Open(p) \/ KeySaved(p) \/ ShowKeyAgain(p) \/ Receive(p) \/ RetryUncertain(p)
         \/ RetryEnvelope(p) \/ RetryFails(p) \/ CheckAgain(p) \/ Dispose(p)
  PROVE  \E s \in PageSteps : Turned(p, s) /\ UNCHANGED <<serverVars, storeVars>>
  <1> USE HeldKey DEF BaseInv, Typed, PagesTyped, Turned, PageSteps, HoldsKey, pageVars,
          history
  <1>1. CASE Open(p)
    BY <1>1 DEF Open, PageInv
  <1>2. CASE KeySaved(p)
    BY <1>2 DEF KeySaved
  <1>3. CASE ShowKeyAgain(p)
    BY <1>3 DEF ShowKeyAgain
  <1>4. CASE RetryFails(p)
    BY <1>4 DEF RetryFails
  <1>5. CASE Dispose(p)
    BY <1>5 DEF Dispose
  <1>6. CASE Receive(p)
    <2>1. UNCHANGED <<ceremonyVars, serverVars, storeVars>> /\ step[p] = "submit"
      BY <1>6 DEF Receive
    <2>2. CASE Accepted(p)
      BY <2>1, <2>2 DEF Accepted, Tell
    <2>3. CASE Rejected(p)
      BY <2>1, <2>3 DEF Rejected, Bin
    <2>4. CASE Overtaken(p)
      BY <2>1, <2>4 DEF Overtaken, Bin
    <2>5. CASE Show(p, "uncertain") /\ UNCHANGED <<mine, history>>
      BY <2>1, <2>5
    <2> QED
      BY <1>6, <2>2, <2>3, <2>4, <2>5, ReceiveFacts
  <1>7. CASE RetryUncertain(p)
    BY <1>7 DEF RetryUncertain, Rejected, Bin
  <1>8. CASE RetryEnvelope(p)
    BY <1>8 DEF RetryEnvelope, Accepted, Overtaken, Tell, Bin
  <1>9. CASE CheckAgain(p)
    BY <1>9 DEF CheckAgain, Accepted, Rejected, Overtaken, Tell, Bin
  <1> QED
    BY <1>1, <1>2, <1>3, <1>4, <1>5, <1>6, <1>7, <1>8, <1>9

\* A ceremony keeps it: its number is a new one, and it starts on one page.
LEMMA MintBase ==
  ASSUME BaseInv, NEW p \in Page, NEW e \in Envelope \cup {None}, e <= minted, Mint(p, e)
  PROVE  /\ BaseInv'
         /\ \A k \in Ceremony : k <= minted => replaces'[k] = replaces[k]
         /\ \A f \in Envelope : f <= minted => dk'[f] = dk[f]
  <1> DEFINE new == minted + 1
  <1> USE CeremonyAssumption DEF BaseInv
  <1>1. new \in Ceremony /\ new \in Envelope /\ new # None /\ minted \in Nat
    BY DEF Mint, Typed, CeremoniesTyped, Ceremony, Envelope, None
  <1>2. /\ minted' = new
        /\ mine' = [mine EXCEPT ![p] = new]
        /\ dk' = [dk EXCEPT ![new] = IF e = None THEN new ELSE dk[e]]
        /\ replaces' = [replaces EXCEPT ![new] = e]
        /\ step' = [step EXCEPT ![p] = "show_key"]
        /\ UNCHANGED <<serverVars, storeVars, history>>
    BY DEF Mint, Show
  <1>3. Typed'
    BY <1>1, <1>2
    DEF Typed, PagesTyped, CeremoniesTyped, ServerTyped, StoreTyped, serverVars, storeVars,
        history, PageSteps
  <1>4. /\ \A k \in Ceremony : k # new => replaces'[k] = replaces[k]
        /\ replaces'[new] = e
        /\ \A f \in Envelope : f # new => dk'[f] = dk[f]
        /\ dk'[new] = IF e = None THEN new ELSE dk[e]
    BY <1>1, <1>2 DEF Typed, CeremoniesTyped
  <1>5. \A k \in Ceremony : k \in Nat /\ (k <= minted => k # new) /\ (k > new => k > minted)
    BY <1>1 DEF Ceremony
  <1>6. \A f \in Envelope : f \in Nat /\ (f <= minted => f # new)
    BY <1>1 DEF Envelope
  <1>7. e # None => e \in Envelope /\ e # new /\ e < new
    BY <1>1, <1>6
  <1>8. CeremonyInv'
    <2> SUFFICES ASSUME NEW k \in Ceremony
                 PROVE  /\ k > minted' => handler'[k] = "none" /\ replaces'[k] = None
                        /\ replaces'[k] # None => replaces'[k] < k /\ dk'[k] = dk'[replaces'[k]]
                        /\ answer'[k] # "none" => handler'[k] = "ended"
      BY DEF CeremonyInv, IsSetup
    <2>1. handler' = handler /\ answer' = answer
      BY <1>2 DEF serverVars
    <2>2. CASE k = new
      BY <1>1, <1>2, <1>4, <1>7, <2>1, <2>2 DEF CeremonyInv
    <2>3. CASE k # new
      <3>1. replaces'[k] = replaces[k] /\ k \in Envelope /\ dk'[k] = dk[k]
        BY <1>4, <2>3, Numbers
      <3>2. replaces[k] # None => k <= minted /\ replaces[k] < k /\ replaces[k] \in Envelope
        BY <1>1, <1>5 DEF CeremonyInv, IsSetup, Typed, CeremoniesTyped
      <3>3. replaces[k] # None => dk'[replaces[k]] = dk[replaces[k]]
        BY <1>1, <1>4, <1>5, <1>6, <3>2
      <3> QED
        BY <1>2, <1>5, <2>1, <3>1, <3>2, <3>3 DEF CeremonyInv, IsSetup
    <2> QED
      BY <2>2, <2>3
  <1>9. PageInv'
    <2>1. /\ step'[p] = "show_key" /\ mine'[p] = new
          /\ \A q \in Page \ {p} : step'[q] = step[q] /\ mine'[q] = mine[q]
      BY <1>2 DEF Typed, PagesTyped
    <2>2. \A q \in Page : mine[q] # None => mine[q] \in Ceremony /\ mine[q] <= minted /\ mine[q] # new
      BY <1>5 DEF PageInv, Typed, PagesTyped
    <2>3. handler' = handler /\ handler[new] = "none"
      BY <1>1, <1>2 DEF serverVars, CeremonyInv
    <2>4. \A q \in Page : mine'[q] # None => mine'[q] <= minted'
      BY <1>1, <1>2, <1>5, <2>1, <2>2
    <2> QED
      BY <1>1, <2>1, <2>2, <2>3, <2>4 DEF PageInv, HoldsKey
  <1>10. LockInv'
    BY <1>2 DEF LockInv, serverVars
  <1> QED
    BY <1>3, <1>4, <1>5, <1>6, <1>8, <1>9, <1>10

\* Sending the request keeps it.
LEMMA ConfirmKeyBase ==
  ASSUME BaseInv, NEW p \in Page, ConfirmKey(p)
  PROVE  BaseInv'
  <1> USE DEF BaseInv
  <1> DEFINE k == mine[p]
  <1>1. k \in Ceremony /\ k # None /\ handler[k] = "none" /\ step[p] = "confirm"
    BY HeldKey DEF ConfirmKey, HoldsKey, PageInv
  <1>2. /\ step'[p] = "submit" /\ \A q \in Page \ {p} : step'[q] = step[q]
        /\ handler'[k] = "sent" /\ \A j \in Ceremony \ {k} : handler'[j] = handler[j]
        /\ UNCHANGED <<mine, ceremonyVars, answer, holder, storeVars, history>>
    BY <1>1 DEF ConfirmKey, Show, Typed, PagesTyped, ServerTyped
  <1>3. Typed'
    BY <1>1
    DEF ConfirmKey, Show, Typed, PagesTyped, CeremoniesTyped, ServerTyped, StoreTyped,
        ceremonyVars, storeVars, history, PageSteps, HandlerSteps
  <1>4. CeremonyInv'
    BY <1>1, <1>2 DEF CeremonyInv, PageInv, IsSetup, ceremonyVars, Typed, CeremoniesTyped,
       Ceremony
  <1>5. \A q \in Page \ {p} : mine[q] # None => mine[q] \in Ceremony /\ mine[q] # k
    BY <1>1 DEF PageInv, Typed, PagesTyped
  <1>6. PageInv'
    BY <1>1, <1>2, <1>5 DEF PageInv, HoldsKey, ceremonyVars
  <1>7. LockInv'
    BY <1>1, <1>2 DEF LockInv
  <1> QED
    BY <1>3, <1>4, <1>6, <1>7

\* A page that stops waiting keeps it.
LEMMA GiveUpBase ==
  ASSUME BaseInv, NEW p \in Page, GiveUp(p)
  PROVE  BaseInv'
  <1> USE DEF BaseInv
  <1> DEFINE k == mine[p]
  <1>1. k \in Ceremony /\ k # None /\ step[p] = "submit"
    BY HeldKey DEF GiveUp, HoldsKey
  <1>2. /\ handler' \in [Ceremony -> HandlerSteps]
        /\ \A j \in Ceremony : handler'[j] = handler[j]
                             \/ (handler[j] = "sent" /\ handler'[j] = "ended")
    <2>2. CASE handler[k] = "sent" /\ handler' = [handler EXCEPT ![k] = "ended"]
      BY <1>1, <2>2 DEF Typed, ServerTyped, HandlerSteps
    <2>3. CASE handler' = handler
      BY <2>3 DEF Typed, ServerTyped
    <2> QED
      BY <2>2, <2>3 DEF GiveUp
  <1>0. UNCHANGED <<mine, ceremonyVars, answer, holder, storeVars, history>>
    BY DEF GiveUp
  <1>3. Turned(p, "uncertain")
    BY <1>0, <1>1 DEF GiveUp, Turned, PageSteps, HoldsKey, Typed, PagesTyped, history
  <1>4. PagesTyped' /\ PageInv'
    BY <1>2, <1>3, TurnedPage
  <1>5. Typed'
    BY <1>0, <1>2, <1>4 DEF Typed, CeremoniesTyped, ServerTyped, StoreTyped, ceremonyVars, storeVars
  <1>6. CeremonyInv'
    BY <1>0, <1>2 DEF CeremonyInv, IsSetup, ceremonyVars
  <1>7. LockInv'
    BY <1>0, <1>2 DEF LockInv
  <1> QED
    BY <1>4, <1>5, <1>6, <1>7

-----------------------------------------------------------------------------
(* The store under the handlers.                                            *)

CalmInv == StoreInv /\ HandlerInv /\ ConfiguredInv /\ OneDataKey

\* A page that turns keeps it, if the keys it calls the Space's stand.
LEMMA TurnedCalm ==
  ASSUME BaseInv, CalmInv, NEW p \in Page, NEW s \in PageSteps, Turned(p, s),
         UNCHANGED <<serverVars, storeVars, world>>,
         \A k \in told' : k \in told \/ (Configured /\ Stands(k)),
         s = "checking" => Configured
  PROVE  CalmInv'
  <1>1. CurrentRK' = CurrentRK /\ CurrentSRW' = CurrentSRW /\ Configured' = Configured
    BY SameStore DEF storeVars
  <1>2. UNCHANGED <<serverVars, storeVars, ceremonyVars>>
    BY DEF Turned
  <1>3. StoreInv'
    BY <1>2 DEF CalmInv, StoreInv, storeVars, ceremonyVars
  <1>4. HandlerInv'
    BY <1>1, <1>2
    DEF CalmInv, HandlerInv, HandlerOK, Stands, IsSetup, serverVars, storeVars, ceremonyVars
  <1>5. \A q \in Page : step'[q] = "checking" => step[q] = "checking" \/ s = "checking"
    BY DEF Turned, Show, BaseInv, Typed, PagesTyped
  <1>6. ConfiguredInv'
    BY <1>1, <1>2, <1>5 DEF CalmInv, ConfiguredInv, IsSetup, storeVars, ceremonyVars
  <1>7. OneDataKey'
    BY <1>1, <1>2 DEF CalmInv, OneDataKey, ceremonyVars
  <1> QED
    BY <1>3, <1>4, <1>6, <1>7 DEF CalmInv

\* A step that stores nothing keeps it, if the handlers it moves are in order.
LEMMA UnstoredCalm ==
  ASSUME BaseInv, CalmInv, UNCHANGED <<pageVars, ceremonyVars, legacy, rk, srw, late, told, world>>,
         place' \in Nat, place <= place',
         \A j \in Ceremony : HandlerOK(j)'
            \/ (handler'[j] = handler[j] /\ answer'[j] = answer[j])
  PROVE  CalmInv'
  <1>1. CurrentRK' = CurrentRK /\ CurrentSRW' = CurrentSRW /\ Configured' = Configured
    BY SameStore
  <1>2. StoreInv'
    BY DEF CalmInv, StoreInv, ceremonyVars, BaseInv, Typed, StoreTyped
  <1>3. HandlerInv'
    BY <1>1 DEF CalmInv, HandlerInv, HandlerOK, Stands, IsSetup, ceremonyVars
  <1>4. ConfiguredInv'
    BY <1>1 DEF CalmInv, ConfiguredInv, IsSetup, pageVars, ceremonyVars
  <1>5. OneDataKey'
    BY <1>1 DEF CalmInv, OneDataKey, ceremonyVars
  <1> QED
    BY <1>2, <1>3, <1>4, <1>5 DEF CalmInv

\* So does a handler that ends without storing anything, with an answer it may
\* give.
LEMMA EndCalm ==
  ASSUME BaseInv, CalmInv, NEW k \in Ceremony, NEW a \in Answers, End(k, a),
         handler[k] \in {"sent", "lock", "put_rk", "put_srw", "status"},
         UNCHANGED <<pageVars, ceremonyVars, legacy, rk, srw, late, told, world>>,
         place' \in Nat, place <= place',
         a = "ok" => handler[k] = "status",
         a \in {"refused", "conflict"} => handler[k] \in {"sent", "lock"}
  PROVE  CalmInv'
  <1>1. handler'[k] = "ended" /\ answer'[k] = a /\ Handled(k)
    BY EndFacts
  <1>2. CurrentRK' = CurrentRK /\ CurrentSRW' = CurrentSRW /\ Configured' = Configured
    BY SameStore
  <1>3. HandlerOK(k)'
    BY <1>1, <1>2 DEF CalmInv, HandlerInv, HandlerOK, Stands, IsSetup, ceremonyVars
  <1> QED
    BY <1>1, <1>3, UnstoredCalm DEF Handled

\* A replacement, or a setup, stores its recovery envelope: the key it replaces
\* goes on standing, and the Data Key is the same.
LEMMA PutRKCalm ==
  ASSUME BaseInv, CalmInv, NEW k \in Ceremony, handler[k] = "put_rk", Stored(rk, k),
         Handled(k), answer'[k] \in {"none", "error"},
         \/ handler'[k] = "ended"
         \/ handler'[k] = IF IsSetup(k) THEN "put_srw" ELSE "status",
         UNCHANGED <<pageVars, ceremonyVars, srw, history, world>>
  PROVE  CalmInv'
  <1>1. k <= minted /\ k # None /\ (~IsSetup(k) => dk[k] = dk[replaces[k]])
    BY Numbers DEF BaseInv, CeremonyInv, Typed, CeremoniesTyped, Ceremony
  <1>2. minted' = minted /\ \A j \in Ceremony : IsSetup(j)' = IsSetup(j)
    BY DEF ceremonyVars, IsSetup
  <1>3. /\ CurrentRK' = k /\ CurrentSRW' = CurrentSRW
        /\ \A v \in rk' : v \in rk \/ v[2] = k
        /\ \E v \in rk' : v[2] = k
        /\ rk \subseteq rk'
        /\ StoreInv'
    BY <1>1, <1>2, AddRK DEF CalmInv, BaseInv
  <1>4. Configured' = Configured /\ (Configured <=> CurrentSRW # None)
    BY <1>1, <1>3, CurrentFacts DEF Configured, CalmInv, BaseInv
  <1>5. /\ IsSetup(k) => ~Configured
        /\ ~IsSetup(k) => Configured /\ CurrentRK = replaces[k]
    BY <1>4 DEF CalmInv, HandlerInv, HandlerOK
  <1>6. ASSUME NEW j \in Ceremony, Configured, Stands(j)
        PROVE  Stands(j)'
    <2>1. replaces' = replaces
      BY DEF ceremonyVars
    <2>2. CASE CurrentRK = j
      BY <1>3, <1>5, <1>6, <2>1, <2>2 DEF Stands
    <2>3. CASE \E v \in rk : replaces[v[2]] = j
      BY <1>3, <2>1, <2>3 DEF Stands
    <2> QED
      BY <1>6, <2>2, <2>3 DEF Stands
  <1>7. HandlerOK(k)'
    <2>1. Stands(k)'
      BY <1>3 DEF Stands
    <2>2. k \in told' => Configured
      BY DEF history, CalmInv, HandlerInv, HandlerOK
    <2> QED
      BY <1>2, <1>3, <1>4, <1>5, <2>1, <2>2 DEF HandlerOK
  <1>8. ASSUME NEW j \in Ceremony \ {k}
        PROVE  HandlerOK(j)'
    <2>1. handler'[j] = handler[j] /\ answer'[j] = answer[j] /\ told' = told
      BY DEF Handled, history
    <2>2. handler[j] \notin {"put_rk", "put_srw", "status"}
      BY Numbers DEF BaseInv, LockInv
    <2>3. (answer[j] = "ok" \/ j \in told) => (Configured /\ Stands(j))
      BY DEF CalmInv, HandlerInv, HandlerOK
    <2>4. (~IsSetup(j) /\ handler[j] = "lock") => Configured
      BY DEF CalmInv, HandlerInv, HandlerOK
    <2>5. (handler[j] \in {"none", "sent", "lock"} \/ answer[j] \in {"refused", "conflict"})
            => \A v \in rk' : v[2] # j
      BY <1>3 DEF CalmInv, HandlerInv, HandlerOK
    <2> QED
      BY <1>2, <1>4, <1>6, <2>1, <2>2, <2>3, <2>4, <2>5 DEF HandlerOK
  <1>9. ConfiguredInv'
    <2>1. replaces' = replaces /\ step' = step
      BY DEF ceremonyVars, pageVars
    <2>2. \A v \in rk' : replaces[v[2]] # None => Configured
      BY <1>3, <1>5 DEF CalmInv, ConfiguredInv, IsSetup
    <2>3. \A p \in Page : step[p] = "checking" => Configured
      BY DEF CalmInv, ConfiguredInv
    <2> QED
      BY <1>4, <2>1, <2>2, <2>3 DEF ConfiguredInv, IsSetup
  <1>10. OneDataKey'
    BY <1>1, <1>3, <1>4, <1>5 DEF CalmInv, OneDataKey, ceremonyVars
  <1> QED
    BY <1>3, <1>7, <1>8, <1>9, <1>10 DEF CalmInv, HandlerInv

\* A setup stores the server's envelope beside its own.
LEMMA PutSRWCalm ==
  ASSUME BaseInv, CalmInv, NEW k \in Ceremony, handler[k] = "put_srw", Stored(srw, k),
         Handled(k), answer'[k] \in {"none", "error"}, handler'[k] \in {"ended", "status"},
         UNCHANGED <<pageVars, ceremonyVars, rk, history, world>>
  PROVE  CalmInv'
  <1>1. k <= minted /\ k # None
    BY Numbers DEF BaseInv, CeremonyInv, Typed, CeremoniesTyped, Ceremony
  <1>2. minted' = minted /\ \A j \in Ceremony : IsSetup(j)' = IsSetup(j)
    BY DEF ceremonyVars, IsSetup
  <1>3. CurrentRK = k
    BY DEF CalmInv, HandlerInv, HandlerOK
  <1>4. CurrentSRW' = k /\ CurrentRK' = k /\ StoreInv'
    BY <1>1, <1>2, <1>3, AddSRW DEF CalmInv, BaseInv
  <1>5. Configured'
    BY <1>1, <1>4 DEF Configured
  <1>6. \A j \in Ceremony : Stands(j)' = Stands(j)
    BY <1>3, <1>4 DEF Stands, ceremonyVars
  <1>7. \A j \in Ceremony \ {k} : /\ handler'[j] = handler[j] /\ answer'[j] = answer[j]
                                  /\ handler[j] \notin {"put_rk", "put_srw", "status"}
    BY Numbers DEF Handled, BaseInv, LockInv
  <1>8. ASSUME NEW j \in Ceremony
        PROVE  HandlerOK(j)'
    <2>1. CASE j = k
      BY <1>3, <1>5, <1>6, <2>1 DEF HandlerOK, Stands
    <2>2. CASE j # k
      BY <1>2, <1>5, <1>6, <1>7, <2>2 DEF HandlerOK, CalmInv, HandlerInv, history
    <2> QED
      BY <2>1, <2>2
  <1>9. ConfiguredInv'
    BY <1>5 DEF ConfiguredInv
  <1>10. OneDataKey'
    BY <1>4 DEF OneDataKey
  <1> QED
    BY <1>4, <1>8, <1>9, <1>10 DEF CalmInv, HandlerInv

\* A step of a handler keeps the store in order.
LEMMA HandleCalm ==
  ASSUME BaseInv, CalmInv, "late" \notin world, NEW k \in Ceremony, Handle(k)
  PROVE  CalmInv'
  <1>0. place \in Nat /\ place + 1 \in Nat /\ place <= place + 1 /\ place <= place
    BY DEF BaseInv, Typed, StoreTyped
  <1>1. Handled(k) /\ ServerTyped'
    BY HandleFacts
  <1>2. CASE Check(k)
    <2>1. UNCHANGED <<pageVars, ceremonyVars, storeVars, history, world>> /\ handler[k] = "sent"
      BY <1>2 DEF Check
    <2>2. CASE \E a \in {"refused", "error", "conflict"} : End(k, a)
      BY <1>0, <2>1, <2>2, EndCalm DEF storeVars, history, Answers
    <2>3. CASE Admitted(k) /\ Goto(k, "lock")
      <3>1. handler'[k] = "lock" /\ answer' = answer /\ answer[k] = "none"
        BY <2>1, <2>3, GotoFacts DEF Goto, BaseInv, CeremonyInv
      <3>2. CurrentRK' = CurrentRK /\ CurrentSRW' = CurrentSRW /\ Configured' = Configured
        BY <2>1, SameStore DEF storeVars
      <3>3. HandlerOK(k)'
        BY <2>1, <2>3, <3>1, <3>2
        DEF Admitted, CalmInv, HandlerInv, HandlerOK, Stands, IsSetup, ceremonyVars,
            storeVars, history
      <3> QED
        BY <1>0, <1>1, <2>1, <3>3, UnstoredCalm DEF Handled, storeVars, history
    <2> QED
      BY <1>2, <2>2, <2>3 DEF Check
  <1>3. CASE LockAndCheck(k)
    <2>1. UNCHANGED <<pageVars, ceremonyVars, storeVars, history, world>> /\ handler[k] = "lock"
      BY <1>3 DEF LockAndCheck
    <2>2. CASE \E a \in {"error", "conflict"} : End(k, a)
      BY <1>0, <2>1, <2>2, EndCalm DEF storeVars, history, Answers
    <2>3. CASE StillValid(k) /\ handler' = [handler EXCEPT ![k] = "put_rk"] /\ UNCHANGED answer
      <3>1. handler'[k] = "put_rk" /\ answer' = answer /\ answer[k] = "none"
        BY <2>1, <2>3 DEF BaseInv, CeremonyInv, Typed, ServerTyped
      <3>2. CurrentRK' = CurrentRK /\ CurrentSRW' = CurrentSRW /\ Configured' = Configured
        BY <2>1, SameStore DEF storeVars
      <3>4. Configured <=> CurrentSRW # None
        BY CurrentFacts DEF BaseInv, CalmInv
      <3>3. HandlerOK(k)'
        BY <2>1, <2>3, <3>1, <3>2, <3>4
        DEF StillValid, CalmInv, HandlerInv, HandlerOK, Stands, IsSetup, ceremonyVars,
            storeVars, history
      <3> QED
        BY <1>0, <1>1, <2>1, <3>3, UnstoredCalm DEF Handled, storeVars, history
    <2> QED
      BY <1>3, <2>2, <2>3 DEF LockAndCheck
  <1>4. CASE PutRK(k)
    <2>1. UNCHANGED <<pageVars, ceremonyVars, srw, history, world>> /\ handler[k] = "put_rk"
      BY <1>4 DEF PutRK
    <2>2. CASE Stored(rk, k) /\ Goto(k, IF IsSetup(k) THEN "put_srw" ELSE "status")
      <3> DEFINE h == IF IsSetup(k) THEN "put_srw" ELSE "status"
      <3>2. h \in {"put_srw", "status"} /\ Goto(k, h)
        BY <2>2
      <3> HIDE DEF h
      <3>3. handler'[k] = h
        BY <2>1, <3>2, GotoFacts
      <3>4. answer'[k] = "none"
        BY <2>1, <3>2 DEF Goto, BaseInv, CeremonyInv
      <3>1. /\ handler'[k] = IF IsSetup(k) THEN "put_srw" ELSE "status"
            /\ answer'[k] \in {"none", "error"}
        BY <3>3, <3>4 DEF h
      <3> QED
        BY <1>1, <2>1, <2>2, <3>1, PutRKCalm
    <2>3. CASE End(k, "error") /\ Stored(rk, k)
      <3>1. handler'[k] = "ended" /\ answer'[k] = "error"
        BY <2>1, <2>3, EndFacts DEF Answers
      <3> QED
        BY <1>1, <2>1, <2>3, <3>1, PutRKCalm
    <2>4. CASE End(k, "error") /\ NotStored("rk", rk, k)
      <3>1. UNCHANGED <<legacy, rk, late>> /\ place' = place + 1
        BY <2>4 DEF NotStored
      <3> QED
        BY <1>0, <2>1, <2>4, <3>1, EndCalm DEF history, Answers
    <2> QED
      BY <1>4, <2>2, <2>3, <2>4 DEF PutRK
  <1>5. CASE PutSRW(k)
    <2>1. UNCHANGED <<pageVars, ceremonyVars, rk, history, world>> /\ handler[k] = "put_srw"
      BY <1>5 DEF PutSRW
    <2>2. CASE Stored(srw, k) /\ Goto(k, "status")
      <3>1. handler'[k] = "status" /\ answer'[k] \in {"none", "error"}
        BY <2>1, <2>2, GotoFacts DEF Goto, BaseInv, CeremonyInv
      <3> QED
        BY <1>1, <2>1, <2>2, <3>1, PutSRWCalm
    <2>3. CASE End(k, "error") /\ Stored(srw, k)
      <3>1. handler'[k] = "ended" /\ answer'[k] = "error"
        BY <2>1, <2>3, EndFacts DEF Answers
      <3> QED
        BY <1>1, <2>1, <2>3, <3>1, PutSRWCalm
    <2>4. CASE End(k, "error") /\ NotStored("srw", srw, k)
      <3>1. UNCHANGED <<legacy, srw, late>> /\ place' = place + 1
        BY <2>4 DEF NotStored
      <3> QED
        BY <1>0, <2>1, <2>4, <3>1, EndCalm DEF history, Answers
    <2> QED
      BY <1>5, <2>2, <2>3, <2>4 DEF PutSRW
  <1>6. CASE ReadStatus(k)
    <2>1. UNCHANGED <<pageVars, ceremonyVars, storeVars, history, world>> /\ handler[k] = "status"
      BY <1>6 DEF ReadStatus
    <2>2. CASE \E a \in {"ok", "error"} : End(k, a)
      BY <1>0, <2>1, <2>2, EndCalm DEF storeVars, history, Answers
    <2> QED
      BY <1>6, <2>2 DEF ReadStatus
  <1> QED
    BY <1>2, <1>3, <1>4, <1>5, <1>6 DEF Handle

\* A restart does.
LEMMA RestartCalm ==
  ASSUME BaseInv, CalmInv, Restart
  PROVE  CalmInv'
  <1>1. UNCHANGED <<pageVars, ceremonyVars, answer, storeVars, history, world>>
    BY DEF Restart
  <1>2. \A j \in Ceremony : handler'[j] = handler[j] \/ (Active(j) /\ handler'[j] = "ended")
    BY DEF Restart
  <1>3. CurrentRK' = CurrentRK /\ CurrentSRW' = CurrentSRW /\ Configured' = Configured
    BY <1>1, SameStore DEF storeVars
  <1>4. \A j \in Ceremony : HandlerOK(j)' \/ (handler'[j] = handler[j] /\ answer'[j] = answer[j])
    <2> SUFFICES ASSUME NEW j \in Ceremony, Active(j), handler'[j] = "ended"
                 PROVE HandlerOK(j)'
      BY <1>1, <1>2
    <2>1. answer'[j] = "none"
      BY <1>1 DEF Active, BaseInv, CeremonyInv
    <2> QED
      BY <1>1, <1>3, <2>1
      DEF CalmInv, HandlerInv, HandlerOK, Stands, IsSetup, ceremonyVars, storeVars, history
  <1>5. place' \in Nat /\ place <= place'
    BY <1>1 DEF storeVars, BaseInv, Typed, StoreTyped
  <1> QED
    BY <1>1, <1>4, <1>5, UnstoredCalm DEF storeVars, history

\* A page calls a key the Space's only when it stands.
LEMMA ToldStands ==
  ASSUME BaseInv, CalmInv, NEW p \in Page,
         \/ Open(p) \/ KeySaved(p) \/ ShowKeyAgain(p) \/ Receive(p) \/ RetryUncertain(p)
         \/ RetryEnvelope(p) \/ RetryFails(p) \/ CheckAgain(p) \/ Dispose(p)
  PROVE  /\ \A k \in told' : k \in told \/ (Configured /\ Stands(k))
         /\ step'[p] = "checking" => Configured
  <1> USE HeldKey
  <1>0. \A s : Show(p, s) => step'[p] = s
    BY DEF Show, BaseInv, Typed, PagesTyped
  <1>1. CASE Open(p) \/ KeySaved(p) \/ ShowKeyAgain(p) \/ RetryFails(p) \/ Dispose(p)
    BY <1>0, <1>1 DEF Open, KeySaved, ShowKeyAgain, RetryFails, Dispose, history
  <1>2. CASE Receive(p)
    <2>1. CASE answer[mine[p]] = "ok" /\ Accepted(p)
      <3>1. mine[p] \in Ceremony
        BY <1>2 DEF Receive, HoldsKey
      <3>2. Configured /\ Stands(mine[p])
        BY <2>1, <3>1 DEF CalmInv, HandlerInv, HandlerOK
      <3> QED
        BY <2>1, <3>2 DEF Accepted, Tell
    <2>2. CASE Rejected(p) \/ Overtaken(p)
      BY <1>0, <2>2 DEF Rejected, Overtaken, Bin
    <2>3. CASE Show(p, "uncertain") /\ UNCHANGED <<mine, history>>
      BY <1>0, <2>3 DEF history
    <2> QED
      BY <1>2, <2>1, <2>2, <2>3, ReceiveFacts
  <1>3. CASE RetryUncertain(p)
    BY <1>0, <1>3 DEF RetryUncertain, Rejected, Bin, history
  <1>4. CASE RetryEnvelope(p)
    <2>1. Configured
      BY <1>4 DEF RetryEnvelope, CalmInv, ConfiguredInv
    <2> QED
      BY <2>1, <1>0, <1>4 DEF RetryEnvelope, Accepted, Overtaken, Tell, Bin, Stands
  <1>5. CASE CheckAgain(p)
    <2>1. mine[p] \in Ceremony /\ replaces[mine[p]] # None
      BY <1>5 DEF CheckAgain, HoldsKey, IsSetup
    <2>2. mine[p] # replaces[mine[p]]
      BY <2>1, Numbers
      DEF BaseInv, CeremonyInv, IsSetup, Typed, CeremoniesTyped, Ceremony
    <2>3. CurrentRK = mine[p] => Configured /\ Stands(mine[p])
      BY <2>1, CurrentFacts DEF Stands, CalmInv, ConfiguredInv, IsSetup, BaseInv
    <2>4. \/ CurrentRK = mine[p] /\ Accepted(p)
          \/ Rejected(p)
          \/ Overtaken(p)
      BY <1>5, <2>2 DEF CheckAgain
    <2> QED
      BY <1>0, <2>3, <2>4 DEF Accepted, Rejected, Overtaken, Tell, Bin
  <1> QED
    BY <1>1, <1>2, <1>3, <1>4, <1>5

\* Turning a page changes nothing of what the pages hold.
LEMMA TurningCalm ==
  ASSUME BaseInv, CalmInv, NEW p \in Page,
         \/ Open(p) \/ KeySaved(p) \/ ShowKeyAgain(p) \/ Receive(p) \/ RetryUncertain(p)
         \/ RetryEnvelope(p) \/ RetryFails(p) \/ CheckAgain(p) \/ Dispose(p)
  PROVE  CalmInv'
  <1>1. PICK s \in PageSteps : Turned(p, s) /\ UNCHANGED <<serverVars, storeVars>>
    BY TurningBase
  <1>2. step'[p] = s
    BY <1>1 DEF Turned, Show, BaseInv, Typed, PagesTyped
  <1>3. world' = world
    BY DEF Open, KeySaved, ShowKeyAgain, Receive, RetryUncertain, RetryEnvelope, RetryFails,
       CheckAgain, Dispose
  <1> QED
    BY <1>1, <1>2, <1>3, ToldStands, TurnedCalm

\* A new ceremony has stored nothing.
LEMMA MintCalm ==
  ASSUME BaseInv, CalmInv, NEW p \in Page, NEW e \in Envelope \cup {None}, e <= minted, Mint(p, e)
  PROVE  CalmInv'
  <1>1. /\ \A k \in Ceremony : k <= minted => replaces'[k] = replaces[k]
        /\ \A f \in Envelope : f <= minted => dk'[f] = dk[f]
    BY MintBase
  <1>2. UNCHANGED <<serverVars, storeVars, history, world>> /\ minted' = minted + 1
        /\ Show(p, "show_key")
    BY DEF Mint
  <1>3. CurrentRK' = CurrentRK /\ CurrentSRW' = CurrentSRW /\ Configured' = Configured
    BY <1>2, SameStore DEF storeVars
  <1>4. /\ minted \in Nat /\ \A k \in Ceremony : k \in Nat
        /\ \A v \in rk \cup srw : v[2] \in Ceremony /\ v[2] <= minted
    BY DEF BaseInv, Typed, CeremoniesTyped, StoreTyped, CalmInv, StoreInv, Ceremony
  <1>5. \A v \in rk \cup srw : replaces'[v[2]] = replaces[v[2]]
    BY <1>1, <1>4
  <1>6. StoreInv'
    <2>1. \A v \in rk \cup srw : v[1] <= place /\ v[2] <= minted + 1
      BY <1>4 DEF CalmInv, StoreInv, Ceremony
    <2> QED
      BY <1>2, <2>1 DEF CalmInv, StoreInv, storeVars
  <1>7. ASSUME NEW j \in Ceremony
        PROVE  HandlerOK(j)'
    <2>1. handler' = handler /\ answer' = answer /\ told' = told /\ rk' = rk
      BY <1>2 DEF serverVars, history, storeVars
    <2>2. Stands(j)' <=> Stands(j)
      BY <1>3, <1>5, <2>1 DEF Stands
    <2>3. CASE j <= minted
      <3>1. replaces'[j] = replaces[j]
        BY <1>1, <2>3
      <3> QED
        BY <1>3, <2>1, <2>2, <3>1 DEF CalmInv, HandlerInv, HandlerOK, IsSetup
    <2>4. CASE j > minted
      <3>1. handler[j] = "none" /\ answer[j] = "none"
        BY <2>4 DEF BaseInv, CeremonyInv
      <3> QED
        BY <1>3, <2>1, <2>2, <3>1 DEF CalmInv, HandlerInv, HandlerOK
    <2> QED
      BY <1>4, <2>3, <2>4
  <1>8. ConfiguredInv'
    <2>1. rk' = rk
      BY <1>2 DEF storeVars
    <2>2. \A v \in rk : replaces'[v[2]] # None => Configured'
      BY <1>3, <1>5 DEF CalmInv, ConfiguredInv, IsSetup
    <2>3. \A q \in Page : step'[q] = "checking" => Configured'
      BY <1>2, <1>3 DEF CalmInv, ConfiguredInv, Show, BaseInv, Typed, PagesTyped
    <2> QED
      BY <2>1, <2>2, <2>3 DEF ConfiguredInv, IsSetup
  <1>9. OneDataKey'
    <2>1. Configured => /\ CurrentRK \in Envelope /\ CurrentRK <= minted
                        /\ CurrentSRW \in Envelope /\ CurrentSRW <= minted
      BY CurrentFacts DEF Configured, BaseInv, CalmInv
    <2> QED
      BY <1>1, <1>2, <1>3, <2>1 DEF CalmInv, OneDataKey
  <1> QED
    BY <1>6, <1>7, <1>8, <1>9 DEF CalmInv, HandlerInv

\* Nor has a request that is sent, or lost on the way.
LEMMA SentCalm ==
  ASSUME BaseInv, CalmInv, UNCHANGED <<ceremonyVars, answer, storeVars, history, world>>,
         \A j \in Ceremony : \/ handler'[j] = handler[j]
                             \/ handler[j] = "none" /\ handler'[j] = "sent"
                             \/ handler[j] = "sent" /\ handler'[j] = "ended",
         \A q \in Page : step'[q] = "checking" => step[q] = "checking"
  PROVE  CalmInv'
  <1>1. CurrentRK' = CurrentRK /\ CurrentSRW' = CurrentSRW /\ Configured' = Configured
    BY SameStore DEF storeVars
  <1>2. StoreInv'
    BY DEF CalmInv, StoreInv, storeVars, ceremonyVars
  <1>3. ASSUME NEW j \in Ceremony
        PROVE  HandlerOK(j)'
    <2>1. /\ answer'[j] = answer[j] /\ told' = told /\ rk' = rk
          /\ replaces'[j] = replaces[j] /\ (Stands(j)' <=> Stands(j))
      BY <1>1 DEF ceremonyVars, storeVars, history, Stands
    <2>2. handler[j] = "sent" => answer[j] = "none"
      BY DEF BaseInv, CeremonyInv
    <2>3. HandlerOK(j)
      BY DEF CalmInv, HandlerInv
    <2>4. CASE handler'[j] = handler[j]
      BY <1>1, <2>1, <2>3, <2>4 DEF HandlerOK, IsSetup
    <2>5. CASE handler[j] = "none" /\ handler'[j] = "sent"
      BY <1>1, <2>1, <2>3, <2>5 DEF HandlerOK, IsSetup
    <2>6. CASE handler[j] = "sent" /\ handler'[j] = "ended"
      BY <1>1, <2>1, <2>2, <2>3, <2>6 DEF HandlerOK, IsSetup
    <2> QED
      BY <2>4, <2>5, <2>6
  <1>4. ConfiguredInv'
    BY <1>1 DEF CalmInv, ConfiguredInv, IsSetup, storeVars, ceremonyVars
  <1>5. OneDataKey'
    BY <1>1 DEF CalmInv, OneDataKey, ceremonyVars
  <1> QED
    BY <1>2, <1>3, <1>4, <1>5 DEF CalmInv, HandlerInv

\* What a user does at a page keeps the invariant.
LEMMA BrowseCalm ==
  ASSUME BaseInv, CalmInv, NEW p \in Page, Browse(p)
  PROVE  BaseInv' /\ CalmInv'
  <1>1. CASE CreateKey(p)
    <2>1. None <= minted
      BY DEF BaseInv, Typed, CeremoniesTyped, None
    <2> QED
      BY <1>1, <2>1, MintBase, MintCalm DEF CreateKey
  <1>2. CASE UseCurrentKey(p)
    <2>1. CurrentRK \in Envelope \cup {None} /\ CurrentRK <= minted
      BY CurrentFacts DEF BaseInv, CalmInv
    <2> QED
      BY <1>2, <2>1, MintBase, MintCalm DEF UseCurrentKey
  <1>3. CASE ConfirmKey(p)
    <2>1. mine[p] \in Ceremony /\ handler[mine[p]] = "none"
      BY <1>3, HeldKey DEF ConfirmKey, HoldsKey, BaseInv, PageInv
    <2>2. UNCHANGED <<ceremonyVars, answer, storeVars, history, world>>
      BY <1>3 DEF ConfirmKey
    <2>3. /\ \A j \in Ceremony : handler'[j] = handler[j]
                                 \/ (handler[j] = "none" /\ handler'[j] = "sent")
          /\ \A q \in Page : step'[q] = "checking" => step[q] = "checking"
      BY <1>3, <2>1 DEF ConfirmKey, Show, BaseInv, Typed, PagesTyped, ServerTyped
    <2> QED
      BY <1>3, <2>2, <2>3, ConfirmKeyBase, SentCalm
  <1>4. CASE GiveUp(p)
    <2>1. mine[p] \in Ceremony
      BY <1>4, HeldKey DEF GiveUp, HoldsKey
    <2>2. UNCHANGED <<ceremonyVars, answer, storeVars, history, world>>
      BY <1>4 DEF GiveUp
    <2>3. \A q \in Page : step'[q] = "checking" => step[q] = "checking"
      BY <1>4 DEF GiveUp, Show, BaseInv, Typed, PagesTyped
    <2>4. \A j \in Ceremony : handler'[j] = handler[j]
                              \/ (handler[j] = "sent" /\ handler'[j] = "ended")
      BY <1>4, <2>1 DEF GiveUp, BaseInv, Typed, ServerTyped
    <2> QED
      BY <1>4, <2>2, <2>3, <2>4, GiveUpBase, SentCalm
  <1>5. CASE \/ Open(p) \/ KeySaved(p) \/ ShowKeyAgain(p) \/ Receive(p) \/ RetryUncertain(p)
             \/ RetryEnvelope(p) \/ RetryFails(p) \/ CheckAgain(p) \/ Dispose(p)
    BY <1>5, TurningBase, TurnedBase, TurningCalm
  <1> QED
    BY <1>1, <1>2, <1>3, <1>4, <1>5 DEF Browse

-----------------------------------------------------------------------------
(* The Data Key, and the keys that were called void.                        *)

\* A step of a handler changes the Space's key for its own or leaves it, and
\* leaves a Space that has its keys the same Data Key.
LEMMA HandleStore ==
  ASSUME BaseInv, CalmInv, "late" \notin world, NEW k \in Ceremony, Handle(k)
  PROVE  /\ CurrentRK' = k \/ (CurrentRK' = CurrentRK /\ Configured' = Configured)
         /\ Configured => Configured' /\ dk'[CurrentSRW'] = dk[CurrentSRW]
  <1>1. dk' = dk /\ minted' = minted /\ k <= minted /\ k # None
    <2>1. UNCHANGED ceremonyVars
      BY DEF Handle, Check, LockAndCheck, PutRK, PutSRW, ReadStatus
    <2>2. handler[k] # "none"
      BY DEF Handle, Check, LockAndCheck, PutRK, PutSRW, ReadStatus
    <2> QED
      BY <2>1, <2>2, Numbers
      DEF ceremonyVars, BaseInv, CeremonyInv, Typed, CeremoniesTyped, Ceremony
  <1>2. CASE UNCHANGED <<legacy, rk, srw>>
    BY <1>1, <1>2, SameStore
  <1>3. CASE PutRK(k) /\ Stored(rk, k) /\ UNCHANGED srw
    <2>1. CurrentRK' = k /\ CurrentSRW' = CurrentSRW
      BY <1>1, <1>3, AddRK DEF BaseInv, CalmInv
    <2> QED
      BY <1>1, <2>1 DEF Configured
  <1>4. CASE PutSRW(k) /\ Stored(srw, k) /\ UNCHANGED rk
    <2>1. CurrentRK = k /\ ~Configured
      BY <1>4 DEF PutSRW, CalmInv, HandlerInv, HandlerOK, Configured
    <2>2. CurrentRK' = k
      BY <1>1, <1>4, <2>1, AddSRW DEF BaseInv, CalmInv
    <2> QED
      BY <2>1, <2>2
  <1>5. \/ UNCHANGED <<legacy, rk, srw>>
        \/ PutRK(k) /\ Stored(rk, k) /\ UNCHANGED srw
        \/ PutSRW(k) /\ Stored(srw, k) /\ UNCHANGED rk
    BY DEF Handle, Check, LockAndCheck, PutRK, PutSRW, ReadStatus, NotStored, storeVars
  <1> QED
    BY <1>2, <1>3, <1>4, <1>5

\* Nothing else changes the store or the Data Key of an envelope.
LEMMA OthersStore ==
  ASSUME BaseInv, CalmInv, Restart \/ \E p \in Page : Browse(p)
  PROVE  /\ CurrentRK' = CurrentRK /\ CurrentSRW' = CurrentSRW /\ Configured' = Configured
         /\ Configured => dk'[CurrentSRW] = dk[CurrentSRW]
  <1>1. UNCHANGED storeVars
    BY DEF Restart, Browse, Open, CreateKey, UseCurrentKey, KeySaved, ShowKeyAgain, ConfirmKey,
       Receive, GiveUp, RetryUncertain, RetryEnvelope, RetryFails, CheckAgain, Dispose, Mint
  <1>2. CurrentRK \in Envelope \cup {None} /\ CurrentRK <= minted
    BY CurrentFacts DEF BaseInv, CalmInv
  <1>3. Configured => CurrentSRW \in Envelope /\ CurrentSRW <= minted
    BY CurrentFacts DEF Configured, BaseInv, CalmInv
  <1>4. CASE \E p \in Page : CreateKey(p) \/ UseCurrentKey(p)
    <2>1. None <= minted
      BY DEF BaseInv, Typed, CeremoniesTyped, None
    <2>2. \A f \in Envelope : f <= minted => dk'[f] = dk[f]
      BY <1>2, <1>4, <2>1, MintBase DEF CreateKey, UseCurrentKey
    <2> QED
      BY <1>1, <1>3, <2>2, SameStore DEF storeVars
  <1>5. CASE dk' = dk
    BY <1>1, <1>5, SameStore DEF storeVars
  <1>6. dk' = dk \/ \E p \in Page : CreateKey(p) \/ UseCurrentKey(p)
    BY DEF Restart, Browse, Open, KeySaved, ShowKeyAgain, ConfirmKey, Receive, GiveUp,
       RetryUncertain, RetryEnvelope, RetryFails, CheckAgain, Dispose, ceremonyVars
  <1> QED
    BY <1>4, <1>5, <1>6

StaysVoid == Configured => CurrentRK \notin binned

\* A handler that moves works for a key nobody called void.
LEMMA HandleVoid ==
  ASSUME BaseInv, CalmInv, VoidInv, StaysVoid, "late" \notin world, NEW k \in Ceremony, Handle(k)
  PROVE  VoidInv' /\ StaysVoid'
  <1>1. Handled(k)
    BY HandleFacts
  <1>2. UNCHANGED <<pageVars, history>>
    BY DEF Handle, Check, LockAndCheck, PutRK, PutSRW, ReadStatus
  <1>3. k \notin binned
    BY <1>1 DEF VoidInv, Handled
  <1>4. \A j \in Ceremony : handler[j] = "ended" => handler'[j] = "ended"
    BY <1>1 DEF Handled
  <1>5. VoidInv'
    <2>1. \A p \in Page : step[p] \in {"uncertain", "checking"} => mine[p] \in Ceremony
      BY HeldKey DEF HoldsKey
    <2>2. binned \subseteq Ceremony
      BY DEF BaseInv, Typed, PagesTyped
    <2> QED
      BY <1>2, <1>4, <2>1, <2>2 DEF VoidInv, pageVars, history
  <1>6. StaysVoid'
    BY <1>2, <1>3, HandleStore DEF StaysVoid, history
  <1> QED
    BY <1>5, <1>6

\* A page calls void a key whose request has ended, and which is not the Space's.
LEMMA BinnedVoid ==
  ASSUME BaseInv, CalmInv, VoidInv, world = {}, NEW p \in Page,
         \/ Open(p) \/ KeySaved(p) \/ ShowKeyAgain(p) \/ Receive(p) \/ RetryUncertain(p)
         \/ RetryEnvelope(p) \/ RetryFails(p) \/ CheckAgain(p) \/ Dispose(p)
  PROVE  /\ \A k \in binned' : k \in binned
                \/ (handler[k] = "ended" /\ (Configured => CurrentRK # k))
         /\ step'[p] \in {"uncertain", "checking"} => handler[mine[p]] = "ended"
  <1> USE HeldKey
  <1>0. \A s : Show(p, s) => step'[p] = s
    BY DEF Show, BaseInv, Typed, PagesTyped
  <1>1. CASE Open(p) \/ KeySaved(p) \/ ShowKeyAgain(p) \/ Dispose(p)
    BY <1>0, <1>1 DEF Open, KeySaved, ShowKeyAgain, Dispose, history
  <1>2. CASE Receive(p)
    <2>0. mine[p] \in Ceremony /\ handler[mine[p]] = "ended"
      BY <1>2 DEF Receive, HoldsKey, BaseInv, CeremonyInv
    <2>1. CASE Accepted(p) \/ (Show(p, "uncertain") /\ UNCHANGED <<mine, history>>)
      BY <1>0, <2>0, <2>1 DEF Accepted, Tell, history
    <2>2. CASE answer[mine[p]] \in {"refused", "conflict"} /\ (Rejected(p) \/ Overtaken(p))
      <3>1. CurrentRK # mine[p]
        BY <2>0, <2>2, CurrentFacts DEF CalmInv, HandlerInv, HandlerOK, BaseInv
      <3>2. step'[p] \notin {"uncertain", "checking"}
        BY <1>0, <2>2 DEF Rejected, Overtaken
      <3> QED
        BY <2>0, <2>2, <3>1, <3>2 DEF Rejected, Overtaken, Bin
    <2> QED
      BY <1>2, <2>1, <2>2, ReceiveFacts
  <1>3. CASE RetryUncertain(p)
    <2>1. handler[mine[p]] = "ended"
      BY <1>3 DEF RetryUncertain, VoidInv
    <2> QED
      BY <1>3, <2>1 DEF RetryUncertain, Rejected, Bin, history
  <1>4. CASE RetryEnvelope(p) \/ RetryFails(p)
    <2>1. handler[mine[p]] = "ended"
      BY <1>4 DEF RetryEnvelope, RetryFails, VoidInv
    <2> QED
      BY <1>4, <2>1 DEF RetryEnvelope, RetryFails, Accepted, Overtaken, Tell, Bin, history
  <1>5. CASE CheckAgain(p)
    <2>1. mine[p] \in Ceremony /\ replaces[mine[p]] # None /\ handler[mine[p]] = "ended"
      BY <1>5 DEF CheckAgain, HoldsKey, IsSetup, VoidInv
    <2>2. mine[p] # replaces[mine[p]]
      BY <2>1, Numbers
      DEF BaseInv, CeremonyInv, IsSetup, Typed, CeremoniesTyped, Ceremony
    <2>3. \/ Accepted(p)
          \/ CurrentRK # mine[p] /\ (Rejected(p) \/ Overtaken(p))
      BY <1>5, <2>2 DEF CheckAgain
    <2> QED
      BY <2>1, <2>3 DEF Accepted, Rejected, Overtaken, Tell, Bin
  <1> QED
    BY <1>1, <1>2, <1>3, <1>4, <1>5

\* Nothing a page does, and no restart, makes a void key the Space's.
LEMMA BrowseVoid ==
  ASSUME BaseInv, CalmInv, VoidInv, StaysVoid, world = {}, NEW p \in Page, Browse(p)
  PROVE  VoidInv' /\ StaysVoid'
  <1>0. CurrentRK' = CurrentRK /\ Configured' = Configured
    BY OthersStore
  <1>00. \A q \in Page : step[q] \in {"uncertain", "checking"} => mine[q] \in Ceremony
    BY HeldKey DEF HoldsKey
  <1>000. binned \subseteq Ceremony
    BY DEF BaseInv, Typed, PagesTyped
  <1>1. CASE CreateKey(p) \/ UseCurrentKey(p)
    <2>1. PICK e : Mint(p, e)
      BY <1>1 DEF CreateKey, UseCurrentKey
    <2>2. /\ step'[p] = "show_key"
          /\ \A q \in Page \ {p} : step'[q] = step[q] /\ mine'[q] = mine[q]
          /\ handler' = handler /\ binned' = binned
      BY <2>1 DEF Mint, Show, BaseInv, Typed, PagesTyped, serverVars, history
    <2> QED
      BY <1>0, <2>2 DEF VoidInv, StaysVoid
  <1>2. CASE ConfirmKey(p)
    <2>1. mine[p] \in Ceremony /\ handler[mine[p]] = "none"
      BY <1>2, HeldKey DEF ConfirmKey, HoldsKey, BaseInv, PageInv
    <2>2. /\ step'[p] = "submit"
          /\ \A q \in Page \ {p} : step'[q] = step[q]
          /\ \A j \in Ceremony : handler[j] = "ended" => handler'[j] = "ended"
          /\ mine' = mine /\ binned' = binned
      BY <1>2, <2>1 DEF ConfirmKey, Show, BaseInv, Typed, PagesTyped, ServerTyped, history
    <2> QED
      BY <1>0, <1>00, <1>000, <2>2 DEF VoidInv, StaysVoid
  <1>3. CASE GiveUp(p)
    <2>1. mine[p] \in Ceremony
      BY <1>3, HeldKey DEF GiveUp, HoldsKey
    <2>2. handler'[mine[p]] = "ended"
      BY <1>3, <2>1 DEF GiveUp, BaseInv, Typed, ServerTyped
    <2>3. /\ \A q \in Page \ {p} : step'[q] = step[q]
          /\ \A j \in Ceremony : handler[j] = "ended" => handler'[j] = "ended"
          /\ mine' = mine /\ binned' = binned
      BY <1>3, <2>1 DEF GiveUp, Show, BaseInv, Typed, PagesTyped, ServerTyped, history
    <2> QED
      BY <1>0, <1>00, <1>000, <2>2, <2>3 DEF VoidInv, StaysVoid
  <1>4. CASE \/ Open(p) \/ KeySaved(p) \/ ShowKeyAgain(p) \/ Receive(p) \/ RetryUncertain(p)
             \/ RetryEnvelope(p) \/ RetryFails(p) \/ CheckAgain(p) \/ Dispose(p)
    <2>1. PICK s \in PageSteps : Turned(p, s) /\ UNCHANGED <<serverVars, storeVars>>
      BY <1>4, TurningBase
    <2>2. /\ \A q \in Page \ {p} : step'[q] = step[q] /\ mine'[q] = mine[q]
          /\ mine'[p] = mine[p] \/ step'[p] \notin {"uncertain", "checking"}
          /\ handler' = handler
      BY <2>1 DEF Turned, Show, Forget, HoldsKey, BaseInv, Typed, PagesTyped, serverVars
    <2> QED
      BY <1>0, <1>4, <2>2, BinnedVoid DEF VoidInv, StaysVoid
  <1> QED
    BY <1>1, <1>2, <1>3, <1>4 DEF Browse

\* A restart stores nothing, so a void key stays void.
LEMMA RestartVoid ==
  ASSUME BaseInv, CalmInv, VoidInv, StaysVoid, Restart
  PROVE  VoidInv' /\ StaysVoid'
  <1>1. CurrentRK' = CurrentRK /\ Configured' = Configured
    BY OthersStore
  <1>2. UNCHANGED <<pageVars, history>>
    BY DEF Restart
  <1>3. \A j \in Ceremony : handler[j] = "ended" => handler'[j] = "ended"
    BY DEF Restart, Active
  <1>4. \A q \in Page : step[q] \in {"uncertain", "checking"} => mine[q] \in Ceremony
    BY HeldKey DEF HoldsKey
  <1>5. binned \subseteq Ceremony
    BY DEF BaseInv, Typed, PagesTyped
  <1> QED
    BY <1>1, <1>2, <1>3, <1>4, <1>5 DEF VoidInv, StaysVoid, pageVars, history

-----------------------------------------------------------------------------
(* The theorems.                                                            *)

\* The invariant holds of a Space as it is found, with or without keys.
LEMMA InitKeyInv == Init => KeyInv
  <1> SUFFICES ASSUME Init, "late" \notin world
               PROVE  BaseInv /\ CalmInv /\ VoidInv /\ StaysVoid
    BY DEF KeyInv, BaseInv, CalmInv, VoidKeysStayVoid, StaysVoid
  <1> USE CeremonyAssumption, Numbers DEF Init
  <1>1. Typed
    BY DEF Typed, PagesTyped, CeremoniesTyped, ServerTyped, StoreTyped, PageSteps, HandlerSteps,
       Answers
  <1>2. CeremonyInv
    BY DEF CeremonyInv, IsSetup
  <1>3. PageInv
    BY DEF PageInv, HoldsKey
  <1>4. LockInv
    BY DEF LockInv
  <1>5. StoreInv
    BY DEF StoreInv, HasLast
  <1>6. HandlerInv
    BY DEF HandlerInv, HandlerOK, IsSetup
  <1>7. ConfiguredInv
    BY DEF ConfiguredInv
  <1>8. OneDataKey
    BY DEF OneDataKey, Configured, CurrentRK, CurrentSRW
  <1>9. VoidInv /\ StaysVoid
    BY DEF VoidInv, StaysVoid
  <1> QED
    BY <1>1, <1>2, <1>3, <1>4, <1>5, <1>6, <1>7, <1>8, <1>9 DEF BaseInv, CalmInv

\* Every step keeps it.
LEMMA NextKeyInv == KeyInv /\ [Next]_vars => KeyInv'
  <1> SUFFICES ASSUME KeyInv, [Next]_vars, "late" \notin world'
               PROVE  /\ BaseInv' /\ CalmInv'
                      /\ world' = {} => VoidInv' /\ StaysVoid'
    BY DEF KeyInv, BaseInv, CalmInv, VoidKeysStayVoid, StaysVoid
  <1>0. world' = world
    BY DEF Next, Land, Restart, Handle, Check, LockAndCheck, PutRK, PutSRW, ReadStatus,
       Browse, Open, CreateKey, UseCurrentKey, KeySaved, ShowKeyAgain, ConfirmKey, Receive,
       GiveUp, RetryUncertain, RetryEnvelope, RetryFails, CheckAgain, Dispose, Mint, vars
  <1>1. BaseInv /\ CalmInv /\ (world = {} => VoidInv /\ StaysVoid) /\ "late" \notin world
    BY <1>0 DEF KeyInv, BaseInv, CalmInv, VoidKeysStayVoid, StaysVoid
  <1>2. CASE Land
    BY <1>1, <1>2 DEF Land, CalmInv, StoreInv
  <1>3. CASE Restart
    BY <1>0, <1>1, <1>3, RestartBase, RestartCalm, RestartVoid
  <1>4. CASE \E k \in Ceremony : Handle(k)
    BY <1>0, <1>1, <1>4, HandleBase, HandleCalm, HandleVoid
  <1>5. CASE \E p \in Page : Browse(p)
    BY <1>0, <1>1, <1>5, BrowseCalm, BrowseVoid
  <1>6. CASE UNCHANGED vars
    <2> USE DEF vars, pageVars, ceremonyVars, serverVars, storeVars, history
    <2>1. CurrentRK' = CurrentRK /\ CurrentSRW' = CurrentSRW /\ Configured' = Configured
      BY <1>6, SameStore
    <2>2. BaseInv'
      BY <1>1, <1>6
      DEF BaseInv, Typed, PagesTyped, CeremoniesTyped, ServerTyped, StoreTyped, CeremonyInv,
          PageInv, LockInv, IsSetup
    <2>3. CalmInv'
      BY <1>1, <1>6, <2>1
      DEF CalmInv, StoreInv, HandlerInv, HandlerOK, ConfiguredInv, OneDataKey, Stands, IsSetup
    <2>4. world' = {} => VoidInv' /\ StaysVoid'
      BY <1>1, <1>6, <2>1 DEF VoidInv, StaysVoid
    <2> QED
      BY <2>2, <2>3, <2>4
  <1> QED
    BY <1>2, <1>3, <1>4, <1>5, <1>6 DEF Next

\* The invariant is inductive.
LEMMA KeyInvHolds == Spec => []KeyInv
  BY InitKeyInv, NextKeyInv, PTL DEF Spec

\* The users' key and the server's open the same data, whatever ceremonies race
\* and whatever calls of the handlers fail, as long as no timed-out write lands.
THEOREM OneKeyForAll == Spec => []OneDataKey
  <1>1. KeyInv => OneDataKey
    BY DEF KeyInv, OneDataKey
  <1> QED
    BY <1>1, KeyInvHolds, PTL

\* Nobody who was told that their key is the Space's loses it to a race.
THEOREM KeysThatWereToldStand == Spec => []NoSilentLoser
  <1>1. KeyInv => NoSilentLoser
    <2> SUFFICES ASSUME KeyInv, "late" \notin world, NEW k \in told
                 PROVE  CurrentRK = k \/ \E v \in rk : replaces[v[2]] = k
      BY DEF NoSilentLoser
    <2>1. k \in Ceremony /\ HandlerOK(k)
      BY DEF KeyInv, Typed, PagesTyped, HandlerInv
    <2> QED
      BY <2>1 DEF HandlerOK, Stands
  <1> QED
    BY <1>1, KeyInvHolds, PTL

\* A key a page called void never opens the Space, in a world without trouble.
THEOREM VoidKeysNeverOpen == Spec => []VoidKeysStayVoid
  <1>1. KeyInv => VoidKeysStayVoid
    BY DEF KeyInv, VoidKeysStayVoid
  <1> QED
    BY <1>1, KeyInvHolds, PTL

\* A Space that has its keys keeps them, and the Data Key its backups are under.
THEOREM KeysAreKept == Spec => DataKeyIsForEver
  <1>1. KeyInv /\ [Next]_vars
          => [("late" \notin world /\ Configured)
                => Configured' /\ dk'[CurrentSRW'] = dk[CurrentSRW]]_vars
    <2> SUFFICES ASSUME KeyInv, Next, "late" \notin world, Configured
                 PROVE  Configured' /\ dk'[CurrentSRW'] = dk[CurrentSRW]
      OBVIOUS
    <2>1. BaseInv /\ CalmInv
      BY DEF KeyInv, BaseInv, CalmInv
    <2>2. CASE Land
      BY <2>1, <2>2 DEF Land, CalmInv, StoreInv
    <2>3. CASE Restart \/ \E p \in Page : Browse(p)
      BY <2>1, <2>3, OthersStore
    <2>4. CASE \E k \in Ceremony : Handle(k)
      BY <2>1, <2>4, HandleStore
    <2> QED
      BY <2>2, <2>3, <2>4 DEF Next
  <1> QED
    BY <1>1, KeyInvHolds, PTL DEF Spec, DataKeyIsForEver

=============================================================================
