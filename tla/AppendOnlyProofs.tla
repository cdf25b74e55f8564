--------------------------- MODULE AppendOnlyProofs ---------------------------
(* Proofs about AppendOnly, for any appends, loads, names and servers.      *)
EXTENDS AppendOnly, TLAPS, WellFoundedInduction

-----------------------------------------------------------------------------
(* Names.                                                                   *)

\* A listing that is not empty has a newest version.
LEMMA HasNewest ==
  ASSUME NEW S \in SUBSET Stamp, S # {}
  PROVE  \E n \in S : \A m \in S : m <= n
  <1> DEFINE T == {MaxStamp - n : n \in S}
  <1>1. T \subseteq Nat /\ T # {}
    <2>1. PICK n \in S : TRUE
      OBVIOUS
    <2>2. MaxStamp - n \in T
      OBVIOUS
    <2> QED
      BY <2>2, StampAssumption DEF Stamp
  <1>2. IsWellFoundedOn(OpToRel(<, Nat), Nat)
    BY NatLessThanWellFounded
  <1>3. PICK x \in T : \A y \in T : ~(<<y, x>> \in OpToRel(<, Nat))
    BY <1>1, <1>2, WFMin
  <1>4. \A y \in T : x <= y
    <2> SUFFICES ASSUME NEW y \in T PROVE x <= y
      OBVIOUS
    <2> HIDE DEF T
    <2>1. x \in Nat /\ y \in Nat
      BY <1>1
    <2>2. <<y, x>> \in Nat \X Nat /\ <<y, x>> \notin {ss \in Nat \X Nat : ss[1] < ss[2]}
      BY <1>3, <2>1 DEF OpToRel
    <2> QED
      BY <2>1, <2>2
  <1>5. PICK n \in S : x = MaxStamp - n
    OBVIOUS
  <1>6. \A m \in S : MaxStamp - n <= MaxStamp - m
    BY <1>4, <1>5
  <1> QED
    BY <1>6, StampAssumption DEF Stamp

\* NewestVersion is it.
LEMMA NewestFacts ==
  ASSUME NEW S \in SUBSET Stamp
  PROVE  /\ NewestVersion(S) \in 0..MaxStamp
         /\ S # {} => NewestVersion(S) \in S
         /\ S = {} => NewestVersion(S) = 0
         /\ \A m \in S : m <= NewestVersion(S)
  <1>1. CASE S = {}
    BY <1>1, StampAssumption DEF NewestVersion
  <1>2. CASE S # {}
    <2>1. NewestVersion(S) \in S /\ \A m \in S : m <= NewestVersion(S)
      BY <1>2, HasNewest, Zenon DEF NewestVersion
    <2>2. NewestVersion(S) \in 1..MaxStamp
      BY <2>1 DEF Stamp
    <2> QED
      BY <1>2, <2>1, <2>2, StampAssumption
  <1> QED
    BY <1>1, <1>2

\* More versions make the newest no older.
LEMMA NewestGrows ==
  ASSUME NEW S \in SUBSET Stamp, NEW T \in SUBSET S
  PROVE  NewestVersion(T) <= NewestVersion(S)
  <1>1. CASE T = {}
    BY <1>1, NewestFacts DEF Stamp
  <1>2. CASE T # {}
    <2>1. NewestVersion(T) \in S
      BY <1>2, NewestFacts
    <2> QED
      BY <2>1, NewestFacts
  <1> QED
    BY <1>1, <1>2

-----------------------------------------------------------------------------
(* The inductive invariant.                                                 *)

\* An append that has picked a name has one, as long as it goes on it has names
\* left to try, and only one that returned has been acknowledged.
WriterInv ==
    /\ \A w \in Writer : wpc[w] \in {"idle", "look", "upload"} => tried[w] < Attempts
    /\ \A w \in Writer : wpc[w] \in {"look", "upload", "late", "done"} => stamp[w] \in Stamp
    /\ acked \subseteq {w \in Writer : wpc[w] = "done"}
    /\ \A r \in Reader : before[r] \subseteq acked

\* What is stored under a name was stored by an append that picked it and will
\* pick no other.
DocsInv ==
    \A n \in Stamp : docs[n] # None =>
        stamp[docs[n]] = n /\ Over(docs[n])

\* Until the first DeleteAll a name that was acknowledged stays in use.
UsedInv ==
    deletes = 0 => /\ dpc = "idle"
                   /\ \A w \in acked : docs[stamp[w]] # None

\* A load that has settled on a name found no acknowledged append past it; what
\* it returned is the work of an append that is over.
ReaderInv ==
    \A r \in Reader :
        /\ (rpc[r] = "get" /\ deletes = 0) =>
              /\ rkey[r] # 0 => docs[rkey[r]] # None
              /\ \A w \in before[r] : rkey[r] # 0 /\ stamp[w] <= rkey[r]
        /\ (rpc[r] = "done" /\ rval[r] \in Writer) => Over(rval[r])

\* What an append found in use when it began it filed itself past: of the appends
\* that were over by then, those still stored have an earlier name.
OrderInv ==
    \A w \in Writer : \A v \in older[w] :
        /\ Over(v) /\ wpc[w] # "idle"
        /\ (stamp[v] \in Stamp /\ docs[stamp[v]] = v) => stamp[v] < stamp[w]

\* DeleteAll, as long as no append runs alongside, has all the versions that are
\* left before it.
DeleteInv ==
    ~raced =>
        /\ dpc # "idle" => \A w \in Writer : wpc[w] \notin {"look", "upload", "late"}
        /\ dpc = "keys" => dkeys = Keys

IInv ==
    /\ TypeOK
    /\ WriterInv /\ DocsInv /\ UsedInv /\ ReaderInv /\ OrderInv /\ DeleteInv
    /\ AcknowledgedIsStored /\ LoadIsCurrent

-----------------------------------------------------------------------------
(* Every step keeps it.                                                     *)

\* Listing and picking a name keeps it.
LEMMA AppendListStep ==
  ASSUME IInv, NEW w \in Writer, AppendList(w)
  PROVE  IInv'
  <1> USE WriterAssumption, StampAssumption DEF IInv, TypeOK, AppendList, rVars, dVars, history, Over
  <1>1. TypeOK'
    <2>1. stamp' \in [Writer -> 0..MaxStamp]
      BY DEF Stamp
    <2> QED
      BY <2>1
  <1>2. WriterInv'
    BY DEF WriterInv
  <1>3. DocsInv'
    BY DEF WriterInv, DocsInv
  <1>4. UsedInv'
    BY DEF WriterInv, UsedInv
  <1>5. ReaderInv'
    BY DEF Stamp, WriterInv, DocsInv, UsedInv, ReaderInv
  <1>6. DeleteInv'
    BY DEF WriterInv, DeleteInv, Keys
  <1>7. AcknowledgedIsStored'
    BY DEF WriterInv, UsedInv, AcknowledgedIsStored
  <1>8. LoadIsCurrent'
    BY DEF Stamp, WriterInv, DocsInv, UsedInv, ReaderInv, LoadIsCurrent
  <1>9. OrderInv'
    <2>0. Keys \in SUBSET Stamp
      BY DEF Keys
    <2>1. \A n \in Keys : n < stamp'[w]
      <3>1. PICK at \in 1..MaxAt : stamp'[w] = FirstName(at, Keys)
        OBVIOUS
      <3>2. NewestVersion(Keys) \in 0..MaxStamp /\ \A n \in Keys : n <= NewestVersion(Keys)
        BY <2>0, NewestFacts
      <3>3. NewestVersion(Keys) < FirstName(at, Keys) /\ FirstName(at, Keys) \in Int
        BY <3>2 DEF FirstName
      <3> QED
        BY <2>0, <3>1, <3>2, <3>3 DEF Stamp
    <2>2. \A v \in Writer : v # w => stamp'[v] = stamp[v] /\ wpc'[v] = wpc[v]
      OBVIOUS
    <2>3. \A v \in older'[w] : Over(v)' /\ v \in Writer /\ v # w
      OBVIOUS
    <2>4. \A v \in older'[w] : (stamp'[v] \in Stamp /\ docs'[stamp'[v]] = v) => stamp'[v] < stamp'[w]
      BY <2>1, <2>2, <2>3 DEF Keys
    <2>5. \A u \in Writer : u # w => \A v \in older[u] : v # w
      BY DEF OrderInv
    <2> QED
      BY <2>2, <2>3, <2>4, <2>5 DEF OrderInv
  <1> QED
    BY <1>1, <1>2, <1>3, <1>4, <1>5, <1>6, <1>7, <1>8, <1>9

\* An append whose name is taken has a next one to try, or gives up.
LEMMA NameTakenFacts ==
  ASSUME TypeOK, WriterInv, NEW w \in Writer, wpc[w] \in {"look", "upload"}, NameTaken(w)
  PROVE  /\ wpc'[w] = "look" => stamp'[w] \in Stamp /\ tried'[w] < Attempts
         /\ wpc'[w] \in {"look", "failed"}
         /\ stamp'[w] \in 0..MaxStamp /\ tried'[w] \in 0..Attempts
  <1> USE StampAssumption DEF TypeOK, WriterInv, NameTaken, Stamp
  <1>1. stamp[w] \in 1..MaxStamp /\ tried[w] < Attempts /\ tried'[w] = tried[w] + 1
    OBVIOUS
  <1>2. CASE tried'[w] < Attempts /\ stamp[w] < MaxStamp
    BY <1>1, <1>2
  <1>3. CASE ~(tried'[w] < Attempts /\ stamp[w] < MaxStamp)
    BY <1>1, <1>3
  <1> QED
    BY <1>2, <1>3

\* Looking whether the name is taken keeps it.
LEMMA CreateLookStep ==
  ASSUME IInv, NEW w \in Writer, CreateLook(w)
  PROVE  IInv'
  <1> USE WriterAssumption, StampAssumption DEF IInv, TypeOK, CreateLook, NameTaken, Taken, rVars, dVars, history, Over
  <1>0. /\ \A v \in Writer : wpc[v] \in {"done", "failed"} =>
                                stamp'[v] = stamp[v] /\ wpc'[v] = wpc[v]
        /\ \A n \in Stamp : docs[n] # None => docs'[n] # None
    OBVIOUS
  <1>1. TypeOK'
    BY DEF WriterInv
  <1>2. WriterInv'
    BY NameTakenFacts DEF WriterInv
  <1>3. DocsInv'
    BY DEF WriterInv, DocsInv
  <1>4. UsedInv'
    BY DEF WriterInv, UsedInv
  <1>5. ReaderInv'
    BY <1>0 DEF Stamp, WriterInv, ReaderInv
  <1>6. DeleteInv'
    BY DEF WriterInv, DeleteInv, Keys
  <1>7. AcknowledgedIsStored'
    BY DEF WriterInv, UsedInv, AcknowledgedIsStored
  <1>8. LoadIsCurrent'
    BY <1>0 DEF WriterInv, ReaderInv, LoadIsCurrent
  <1>9. OrderInv'
    <2>1. \A v \in Writer : stamp[v] <= stamp'[v] /\ (wpc[v] # "idle" => wpc'[v] # "idle")
      BY NameTakenFacts
    <2> QED
      BY <1>0, <1>1, <2>1 DEF OrderInv
  <1> QED
    BY <1>1, <1>2, <1>3, <1>4, <1>5, <1>6, <1>7, <1>8, <1>9

\* An upload keeps it.
LEMMA CreateUploadStep ==
  ASSUME IInv, NEW w \in Writer, CreateUpload(w)
  PROVE  IInv'
  <1> USE WriterAssumption, StampAssumption DEF IInv, TypeOK, CreateUpload, NameTaken, rVars, dVars, history, Over
  <1>0. /\ \A v \in Writer : wpc[v] \in {"done", "failed"} =>
                                stamp'[v] = stamp[v] /\ wpc'[v] = wpc[v]
        /\ \A n \in Stamp : docs[n] # None => docs'[n] # None
    OBVIOUS
  <1>1. TypeOK'
    BY DEF WriterInv
  <1>2. WriterInv'
    BY NameTakenFacts DEF WriterInv
  <1>3. DocsInv'
    BY DEF WriterInv, DocsInv
  <1>4. UsedInv'
    BY DEF WriterInv, UsedInv
  <1>5. ReaderInv'
    BY <1>0 DEF Stamp, WriterInv, ReaderInv
  <1>6. DeleteInv'
    BY DEF WriterInv, DeleteInv, Keys
  <1>7. AcknowledgedIsStored'
    BY DEF WriterInv, UsedInv, AcknowledgedIsStored
  <1>8. LoadIsCurrent'
    BY <1>0 DEF WriterInv, ReaderInv, LoadIsCurrent
  <1>9. OrderInv'
    BY DEF Stamp, WriterInv, DocsInv, OrderInv
  <1> QED
    BY <1>1, <1>2, <1>3, <1>4, <1>5, <1>6, <1>7, <1>8, <1>9

\* An append that fails keeps it.
LEMMA AppendFailsStep ==
  ASSUME IInv, NEW w \in Writer, AppendFails(w)
  PROVE  IInv'
  <1> USE WriterAssumption, StampAssumption DEF IInv, TypeOK, AppendFails, rVars, dVars, history, Over
  <1>1. TypeOK'
    BY DEF WriterInv
  <1>2. WriterInv'
    BY DEF WriterInv
  <1>3. DocsInv'
    BY DEF WriterInv, DocsInv
  <1>4. UsedInv'
    BY DEF WriterInv, UsedInv
  <1>5. ReaderInv'
    <2>1. \A v \in Writer : Over(v) => Over(v)'
      OBVIOUS
    <2>2. \A n \in Stamp : docs[n] # None => docs'[n] # None
      OBVIOUS
    <2> QED
      BY <2>1, <2>2 DEF Stamp, ReaderInv
  <1>6. DeleteInv'
    BY DEF WriterInv, DeleteInv, Keys
  <1>7. AcknowledgedIsStored'
    BY DEF WriterInv, UsedInv, AcknowledgedIsStored
  <1>8. LoadIsCurrent'
    BY DEF Stamp, WriterInv, DocsInv, UsedInv, ReaderInv, LoadIsCurrent
  <1>9. OrderInv'
    BY DEF Stamp, WriterInv, DocsInv, OrderInv
  <1> QED
    BY <1>1, <1>2, <1>3, <1>4, <1>5, <1>6, <1>7, <1>8, <1>9

\* An upload that lands late keeps it.
LEMMA UploadLandsStep ==
  ASSUME IInv, NEW w \in Writer, UploadLands(w)
  PROVE  IInv'
  <1> USE WriterAssumption, StampAssumption DEF IInv, TypeOK, UploadLands, rVars, dVars, history, Over
  <1>1. TypeOK'
    BY DEF WriterInv
  <1>2. WriterInv'
    BY DEF WriterInv
  <1>3. DocsInv'
    BY DEF WriterInv, DocsInv
  <1>4. UsedInv'
    BY DEF WriterInv, UsedInv
  <1>5. ReaderInv'
    BY DEF Stamp, WriterInv, DocsInv, UsedInv, ReaderInv
  <1>6. DeleteInv'
    BY DEF WriterInv, DeleteInv, Keys
  <1>7. AcknowledgedIsStored'
    BY DEF WriterInv, UsedInv, AcknowledgedIsStored
  <1>8. LoadIsCurrent'
    BY DEF Stamp, WriterInv, DocsInv, UsedInv, ReaderInv, LoadIsCurrent
  <1>9. OrderInv'
    BY DEF Stamp, WriterInv, DocsInv, OrderInv
  <1> QED
    BY <1>1, <1>2, <1>3, <1>4, <1>5, <1>6, <1>7, <1>8, <1>9

\* A load that lists keeps it.
LEMMA LoadListStep ==
  ASSUME IInv, NEW r \in Reader, LoadList(r)
  PROVE  IInv'
  <1> USE WriterAssumption, StampAssumption DEF IInv, TypeOK, LoadList, wVars, dVars, history, Over
  <1>1. TypeOK'
    <2>1. NewestVersion(Keys) \in 0..MaxStamp
      BY NewestFacts DEF Keys
    <2> QED
      BY <2>1
  <1>2. WriterInv'
    BY DEF WriterInv
  <1>3. DocsInv'
    BY DEF WriterInv, DocsInv
  <1>4. UsedInv'
    BY DEF WriterInv, UsedInv
  <1>5. ReaderInv'
    <2>1. /\ NewestVersion(Keys) \in 0..MaxStamp
          /\ \A m \in Keys : m <= NewestVersion(Keys)
          /\ NewestVersion(Keys) # 0 => docs[NewestVersion(Keys)] # None
      BY NewestFacts DEF Keys
    <2>2. deletes = 0 => \A w \in acked : stamp[w] \in Keys
      BY DEF WriterInv, UsedInv, Keys
    <2>3. \A w \in acked : stamp[w] \in Stamp
      BY DEF WriterInv
    <2> QED
      BY <2>1, <2>2, <2>3 DEF ReaderInv, Stamp
  <1>6. DeleteInv'
    BY DEF WriterInv, DeleteInv, Keys
  <1>7. AcknowledgedIsStored'
    BY DEF WriterInv, UsedInv, AcknowledgedIsStored
  <1>8. LoadIsCurrent'
    BY DEF Stamp, WriterInv, DocsInv, UsedInv, ReaderInv, LoadIsCurrent
  <1>9. OrderInv'
    BY DEF Stamp, WriterInv, DocsInv, OrderInv
  <1> QED
    BY <1>1, <1>2, <1>3, <1>4, <1>5, <1>6, <1>7, <1>8, <1>9

\* A load that reads keeps it.
LEMMA LoadGetStep ==
  ASSUME IInv, NEW r \in Reader, LoadGet(r)
  PROVE  IInv'
  <1> USE WriterAssumption, StampAssumption DEF IInv, TypeOK, LoadGet, wVars, dVars, history, Over
  <1>1. TypeOK'
    BY DEF Stamp
  <1>2. WriterInv'
    BY DEF WriterInv
  <1>3. DocsInv'
    BY DEF WriterInv, DocsInv
  <1>4. UsedInv'
    BY DEF WriterInv, UsedInv
  <1>5. ReaderInv'
    BY DEF Stamp, WriterInv, DocsInv, UsedInv, ReaderInv
  <1>6. DeleteInv'
    BY DEF WriterInv, DeleteInv, Keys
  <1>7. AcknowledgedIsStored'
    BY DEF WriterInv, UsedInv, AcknowledgedIsStored
  <1>8. LoadIsCurrent'
    <2> SUFFICES ASSUME deletes = 0, NEW q \in Reader, rpc'[q] = "done", NEW w \in before[q]
                 PROVE  rval'[q] \in Writer \ older[w]
      BY DEF LoadIsCurrent
    <2>1. CASE q # r
      BY <2>1 DEF LoadIsCurrent
    <2>2. CASE q = r
      <3>1. /\ rkey[r] # 0 /\ stamp[w] <= rkey[r] /\ rkey[r] \in Stamp /\ docs[rkey[r]] # None
            /\ w \in Writer /\ rval'[r] = docs[rkey[r]]
        BY <2>2 DEF ReaderInv, Stamp
      <3>2. docs[rkey[r]] \in Writer /\ stamp[docs[rkey[r]]] = rkey[r]
        BY <3>1 DEF DocsInv
      <3>3. docs[rkey[r]] \notin older[w]
        BY <3>1, <3>2 DEF OrderInv, Stamp
      <3> QED
        BY <2>2, <3>1, <3>2, <3>3
    <2> QED
      BY <2>1, <2>2
  <1>9. OrderInv'
    BY DEF Stamp, WriterInv, DocsInv, OrderInv
  <1> QED
    BY <1>1, <1>2, <1>3, <1>4, <1>5, <1>6, <1>7, <1>8, <1>9

\* A DeleteAll that lists keeps it.
LEMMA DeleteListStep ==
  ASSUME IInv, DeleteList
  PROVE  IInv'
  <1> USE WriterAssumption, StampAssumption DEF IInv, TypeOK, DeleteList, wVars, rVars, history, Over
  <1>1. TypeOK'
    <2>1. raced' \in BOOLEAN
      OBVIOUS
    <2>2. dkeys' \in SUBSET Stamp
      BY DEF Keys
    <2> QED
      BY <2>1, <2>2
  <1>2. WriterInv'
    BY DEF WriterInv
  <1>3. DocsInv'
    BY DEF WriterInv, DocsInv
  <1>4. UsedInv'
    BY DEF WriterInv, UsedInv
  <1>5. ReaderInv'
    BY DEF Stamp, WriterInv, DocsInv, UsedInv, ReaderInv
  <1>6. DeleteInv'
    BY DEF WriterInv, DeleteInv, Keys
  <1>7. AcknowledgedIsStored'
    BY DEF WriterInv, UsedInv, AcknowledgedIsStored
  <1>8. LoadIsCurrent'
    BY DEF Stamp, WriterInv, DocsInv, UsedInv, ReaderInv, LoadIsCurrent
  <1>9. OrderInv'
    BY DEF Stamp, WriterInv, DocsInv, OrderInv
  <1> QED
    BY <1>1, <1>2, <1>3, <1>4, <1>5, <1>6, <1>7, <1>8, <1>9

\* A DeleteAll that has no version left keeps it.
LEMMA DeleteKeysDoneStep ==
  ASSUME IInv, DeleteKeysDone
  PROVE  IInv'
  <1> USE WriterAssumption, StampAssumption DEF IInv, TypeOK, DeleteKeysDone, wVars, rVars, history, Over
  <1>1. TypeOK'
    BY DEF WriterInv
  <1>2. WriterInv'
    BY DEF WriterInv
  <1>3. DocsInv'
    BY DEF WriterInv, DocsInv
  <1>4. UsedInv'
    BY DEF WriterInv, UsedInv
  <1>5. ReaderInv'
    BY DEF Stamp, WriterInv, DocsInv, UsedInv, ReaderInv
  <1>6. DeleteInv'
    BY DEF WriterInv, DeleteInv, Keys
  <1>7. AcknowledgedIsStored'
    BY DEF WriterInv, UsedInv, AcknowledgedIsStored
  <1>8. LoadIsCurrent'
    BY DEF Stamp, WriterInv, DocsInv, UsedInv, ReaderInv, LoadIsCurrent
  <1>9. OrderInv'
    BY DEF Stamp, WriterInv, DocsInv, OrderInv
  <1> QED
    BY <1>1, <1>2, <1>3, <1>4, <1>5, <1>6, <1>7, <1>8, <1>9

\* Deleting the legacy document keeps it.
LEMMA DeleteLegacyStep ==
  ASSUME IInv, DeleteLegacy
  PROVE  IInv'
  <1> USE WriterAssumption, StampAssumption DEF IInv, TypeOK, DeleteLegacy, wVars, rVars, history, Over
  <1>1. TypeOK'
    BY DEF WriterInv
  <1>2. WriterInv'
    BY DEF WriterInv
  <1>3. DocsInv'
    BY DEF WriterInv, DocsInv
  <1>4. UsedInv'
    BY DEF WriterInv, UsedInv
  <1>5. ReaderInv'
    BY DEF Stamp, WriterInv, DocsInv, UsedInv, ReaderInv
  <1>6. DeleteInv'
    BY DEF WriterInv, DeleteInv, Keys
  <1>7. AcknowledgedIsStored'
    BY DEF WriterInv, UsedInv, AcknowledgedIsStored
  <1>8. LoadIsCurrent'
    BY DEF Stamp, WriterInv, DocsInv, UsedInv, ReaderInv, LoadIsCurrent
  <1>9. OrderInv'
    BY DEF Stamp, WriterInv, DocsInv, OrderInv
  <1> QED
    BY <1>1, <1>2, <1>3, <1>4, <1>5, <1>6, <1>7, <1>8, <1>9

\* A DeleteAll that fails keeps it.
LEMMA DeleteFailsStep ==
  ASSUME IInv, DeleteFails
  PROVE  IInv'
  <1> USE WriterAssumption, StampAssumption DEF IInv, TypeOK, DeleteFails, wVars, rVars, history, Over
  <1>1. TypeOK'
    BY DEF WriterInv
  <1>2. WriterInv'
    BY DEF WriterInv
  <1>3. DocsInv'
    BY DEF WriterInv, DocsInv
  <1>4. UsedInv'
    BY DEF WriterInv, UsedInv
  <1>5. ReaderInv'
    BY DEF Stamp, WriterInv, DocsInv, UsedInv, ReaderInv
  <1>6. DeleteInv'
    BY DEF WriterInv, DeleteInv, Keys
  <1>7. AcknowledgedIsStored'
    BY DEF WriterInv, UsedInv, AcknowledgedIsStored
  <1>8. LoadIsCurrent'
    BY DEF Stamp, WriterInv, DocsInv, UsedInv, ReaderInv, LoadIsCurrent
  <1>9. OrderInv'
    BY DEF Stamp, WriterInv, DocsInv, OrderInv
  <1> QED
    BY <1>1, <1>2, <1>3, <1>4, <1>5, <1>6, <1>7, <1>8, <1>9

\* Deleting a version keeps it.
LEMMA DeleteKeyStep ==
  ASSUME IInv, NEW n \in Stamp, DeleteKey(n)
  PROVE  IInv'
  <1> USE WriterAssumption, StampAssumption DEF IInv, TypeOK, DeleteKey, wVars, rVars, history, Over
  <1>1. TypeOK'
    BY DEF WriterInv
  <1>2. WriterInv'
    BY DEF WriterInv
  <1>3. DocsInv'
    BY DEF WriterInv, DocsInv
  <1>4. UsedInv'
    BY DEF WriterInv, UsedInv
  <1>5. ReaderInv'
    BY DEF Stamp, WriterInv, DocsInv, UsedInv, ReaderInv
  <1>6. DeleteInv'
    BY DEF WriterInv, DeleteInv, Keys
  <1>7. AcknowledgedIsStored'
    BY DEF WriterInv, UsedInv, AcknowledgedIsStored
  <1>8. LoadIsCurrent'
    BY DEF Stamp, WriterInv, DocsInv, UsedInv, ReaderInv, LoadIsCurrent
  <1>9. OrderInv'
    BY DEF Stamp, WriterInv, DocsInv, OrderInv
  <1> QED
    BY <1>1, <1>2, <1>3, <1>4, <1>5, <1>6, <1>7, <1>8, <1>9

-----------------------------------------------------------------------------
(* The theorems.                                                            *)

\* The initial states satisfy the invariant.
LEMMA InitIInv == Init => IInv
  <1> SUFFICES ASSUME Init PROVE IInv
    OBVIOUS
  <1> USE WriterAssumption, StampAssumption DEF Init
  <1>1. TypeOK
    <2>1. legacy \in {Legacy, None} /\ raced \in BOOLEAN /\ clobbers \in Servers
      OBVIOUS
    <2>2. rval \in [Reader -> Writer \cup {Legacy, None}]
      OBVIOUS
    <2> QED
      BY <2>1, <2>2 DEF TypeOK
  <1>2. WriterInv /\ DocsInv
    BY DEF WriterInv, DocsInv
  <1>3. UsedInv /\ ReaderInv /\ OrderInv /\ DeleteInv
    BY DEF UsedInv, ReaderInv, OrderInv, DeleteInv
  <1>4. AcknowledgedIsStored /\ LoadIsCurrent
    BY DEF AcknowledgedIsStored, LoadIsCurrent
  <1> QED
    BY <1>1, <1>2, <1>3, <1>4 DEF IInv

\* So does every state a step leads to.
LEMMA NextIInv == IInv /\ [Next]_vars => IInv'
  <1> SUFFICES ASSUME IInv, [Next]_vars PROVE IInv'
    OBVIOUS
  <1>1. CASE UNCHANGED vars
    BY <1>1 DEF vars, wVars, rVars, dVars, history, Over, OrderInv, IInv, TypeOK, WriterInv, DocsInv, UsedInv,
       ReaderInv, DeleteInv, Keys, AcknowledgedIsStored, LoadIsCurrent
  <1>2. ASSUME NEW w \in Writer, AppendStep(w) PROVE IInv'
    BY <1>2, AppendListStep, CreateLookStep, CreateUploadStep, AppendFailsStep,
       UploadLandsStep
    DEF AppendStep
  <1>3. ASSUME NEW r \in Reader, LoadStep(r) PROVE IInv'
    BY <1>3, LoadListStep, LoadGetStep DEF LoadStep
  <1>4. CASE DeleteStep
    BY <1>4, DeleteListStep, DeleteKeyStep, DeleteKeysDoneStep, DeleteLegacyStep,
       DeleteFailsStep DEF DeleteStep
  <1> QED
    BY <1>1, <1>2, <1>3, <1>4 DEF Next, Finished

\* On a server that refuses to overwrite, what Append acknowledged is stored
\* under the name it picked, whichever appends and failures come between.
THEOREM AppendsStand == Spec => []AcknowledgedIsStored
  <1>1. IInv => AcknowledgedIsStored
    BY DEF IInv
  <1> QED
    BY <1>1, InitIInv, NextIInv, PTL DEF Spec

\* A Load never comes back with a version from before an append acknowledged when
\* it began, in whichever order the clocks put them, on a server of either kind.
THEOREM LoadsAreCurrent == Spec => []LoadIsCurrent
  <1>1. IInv => LoadIsCurrent
    BY DEF IInv
  <1> QED
    BY <1>1, InitIInv, NextIInv, PTL DEF Spec

\* Deleting the oldest version first, interrupted anywhere, either keeps the
\* newest version in front or leaves none.
LEMMA DeletingKeepsNewest ==
  ASSUME IInv, [Next]_vars, ~raced, NewestVersion(Keys)' < NewestVersion(Keys)
  PROVE  NewestVersion(Keys)' = 0
  <1> USE StampAssumption
  <1>1. Keys \in SUBSET Stamp /\ Keys' \in SUBSET Stamp
    BY DEF Keys
  <1>2. NewestVersion(Keys)' = NewestVersion(Keys')
    BY DEF NewestVersion
  <1>3. ~(Keys \subseteq Keys')
    BY <1>1, <1>2, NewestFacts, NewestGrows
  <1>4. PICK n \in Stamp : DeleteKey(n)
    <2>1. CASE UNCHANGED vars
      BY <1>3, <2>1 DEF vars, Keys
    <2>2. ASSUME NEW w \in Writer, AppendStep(w) PROVE FALSE
      BY <1>3, <2>2, WriterAssumption
      DEF AppendStep, AppendList, CreateLook, CreateUpload, AppendFails, UploadLands, NameTaken,
          Keys, IInv, TypeOK
    <2>3. ASSUME NEW r \in Reader, LoadStep(r) PROVE FALSE
      BY <1>3, <2>3 DEF LoadStep, LoadList, LoadGet, Keys
    <2>4. CASE DeleteList \/ DeleteKeysDone \/ DeleteLegacy \/ DeleteFails
      BY <1>3, <2>4 DEF DeleteList, DeleteKeysDone, DeleteLegacy, DeleteFails, Keys
    <2> QED
      BY <2>1, <2>2, <2>3, <2>4 DEF Next, DeleteStep, Finished
  <1>5. /\ \A m \in Keys : n <= m
        /\ Keys' = Keys \ {n}
    BY <1>4 DEF DeleteKey, IInv, TypeOK, DeleteInv, Keys
  <1>6. CASE Keys' = {}
    BY <1>1, <1>2, <1>6, NewestFacts
  <1>7. CASE Keys' # {}
    <2>1. PICK m \in Keys' : TRUE
      BY <1>7
    <2>2. m \in Keys /\ m # n /\ n <= m
      BY <1>5, <2>1
    <2>3. NewestVersion(Keys) # n
      BY <1>1, <2>2, NewestFacts DEF Stamp
    <2>4. NewestVersion(Keys) \in Keys'
      BY <1>1, <1>5, <2>2, <2>3, NewestFacts
    <2>5. NewestVersion(Keys) <= NewestVersion(Keys')
      BY <1>1, <2>4, NewestFacts
    <2> QED
      BY <1>1, <1>2, <2>5, NewestFacts
  <1> QED
    BY <1>6, <1>7

\* So a DeleteAll that fails half-way never brings an older version back.
THEOREM DeletesInOrder == Spec => NoOlderVersionComesBack
  <1>1. IInv /\ [Next]_vars =>
           [(~raced /\ NewestVersion(Keys)' < NewestVersion(Keys))
               => NewestVersion(Keys)' = 0]_vars
    BY DeletingKeepsNewest
  <1> QED
    BY <1>1, InitIInv, NextIInv, PTL DEF Spec, NoOlderVersionComesBack

=============================================================================
