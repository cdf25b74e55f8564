---------------------------- MODULE SpaceClient ----------------------------
(***************************************************************************)
(* Reaching OpenCloud: the CS3 client (internal/cs3) with its shared       *)
(* service-account token, and the calls the state store makes of it        *)
(* (internal/cs3state).  What those calls do to the records is AppendOnly; *)
(* here it is whether they get through, and whether they ever end.         *)
(*                                                                         *)
(* The gateway may be given another secret, so that tokens minted before   *)
(* are refused; it may fail any call, take its time over a file it still   *)
(* processes, and stop sending in the middle of one.                       *)
(***************************************************************************)
EXTENDS Integers, Sequences

CONSTANTS
    Worker,
    TokenTTL,       \* how long the gateway accepts a token
    Margin,         \* tokenRefreshMargin
    Window,         \* DefaultNotReadyWait, in units of notReadyFirstDelay
    MaxDelay,       \* notReadyMaxDelay, in the same units
    MaxClock,       \* bound of the clock
    MaxSecrets      \* bound: changes of the gateway's secret

ASSUME SpaceClientAssumption ==
    /\ TokenTTL \in Nat /\ Margin \in Nat /\ Window \in Nat /\ MaxDelay \in Nat \ {0}
    /\ MaxClock \in Nat /\ MaxSecrets \in Nat

VARIABLES
    now, secret,
    held,       \* the cached token and when it stops being used; NoToken when none
    resolved,   \* the state Space has been found
    dirKnown,   \* its folder has been made, as far as the store knows
    job         \* what each worker is doing

clientVars == <<now, secret, held, resolved, dirKnown, job>>

NoToken == [secret |-> 0, exp |-> 0, until |-> 0]
Off == [pc |-> "off"]

\* The calls behind each operation of the store.  Replace goes on past its
\* upload only when the file is already there.
Calls == [get     |-> <<"resolve", "open">>,
          create  |-> <<"resolve", "mkdir", "list", "upload">>,
          replace |-> <<"resolve", "mkdir", "upload", "delete", "upload">>,
          remove  |-> <<"resolve", "delete">>,
          list    |-> <<"resolve", "list">>]

-----------------------------------------------------------------------------
(* One call after another.                                                  *)

Is(w, pc) == job[w].pc = pc
Doing(w, call) == job[w] # Off /\ job[w].todo[1] = call
GoTo(w, pc) == job' = [job EXCEPT ![w].pc = pc]
GiveUp(w) == job' = [job EXCEPT ![w] = Off]
WithCalls(w, todo) ==
    job' = [job EXCEPT ![w] = IF todo = <<>> THEN Off
                              ELSE [@ EXCEPT !.pc = "token", !.todo = todo, !.token = NoToken]]
Following(w) == WithCalls(w, Tail(job[w].todo))

Operate(w, op) ==
    /\ Is(w, "off")
    /\ job' = [job EXCEPT ![w] = [pc |-> "token", todo |-> Calls[op], token |-> NoToken,
                                  left |-> Window, delay |-> 1]]
    /\ UNCHANGED <<now, secret, held, resolved, dirKnown>>

\* resolve and ensureDir remember what they found or made.
Known(w) == (Doing(w, "resolve") /\ resolved) \/ (Doing(w, "mkdir") /\ dirKnown)

Remembered(w) ==
    /\ Is(w, "token") /\ Known(w)
    /\ Following(w)
    /\ UNCHANGED <<now, secret, held, resolved, dirKnown>>

\* The call needs a token.
NeedsToken(w) == Is(w, "token") /\ ~Known(w)

TokenCached(w) ==
    /\ NeedsToken(w)
    /\ held # NoToken /\ now < held.until
    /\ job' = [job EXCEPT ![w].pc = "call", ![w].token = [secret |-> held.secret, exp |-> held.exp]]
    /\ UNCHANGED <<now, secret, held, resolved, dirKnown>>

\* Minting is not under the lock: others mint meanwhile, or change the secret.
Mint(w) ==
    /\ NeedsToken(w)
    /\ ~(held # NoToken /\ now < held.until)
    /\ job' = [job EXCEPT ![w].pc = "keep", ![w].token = [secret |-> secret, exp |-> now + TokenTTL]]
    /\ UNCHANGED <<now, secret, held, resolved, dirKnown>>

KeepToken(w) ==
    /\ Is(w, "keep")
    /\ held' = [secret |-> job[w].token.secret, exp |-> job[w].token.exp,
                until |-> job[w].token.exp - Margin]
    /\ GoTo(w, "call")
    /\ UNCHANGED <<now, secret, resolved, dirKnown>>

-----------------------------------------------------------------------------
(* The gateway's answers.                                                   *)

Accepts(token) == token.secret = secret /\ now < token.exp

\* Mutant: a refused token is kept until it expires.
KeepsRefused(w) ==
    /\ Is(w, "call") \/ Is(w, "data")
    /\ ~Accepts(job[w].token)
    /\ GiveUp(w)
    /\ UNCHANGED <<now, secret, held, resolved, dirKnown>>

\* UNAUTHENTICATED, or a 401 of the data gateway: whatever token is cached by
\* now is dropped, and the call fails.
Refused(w) ==
    /\ Is(w, "call") \/ Is(w, "data")
    /\ ~Accepts(job[w].token)
    /\ held' = NoToken
    /\ GiveUp(w)
    /\ UNCHANGED <<now, secret, resolved, dirKnown>>

\* Any other failure: of the transport, or with another status.
Broken(w) ==
    /\ job[w].pc \in {"token", "call", "data"}
    /\ GiveUp(w)
    /\ UNCHANGED <<now, secret, held, resolved, dirKnown>>

Called(w, call) == Is(w, "call") /\ Doing(w, call) /\ Accepts(job[w].token)

\* ListSpaces found the Space, or MakeDir made the folder or found it there.
Remember(w) ==
    /\ \/ Called(w, "resolve") /\ resolved' = TRUE /\ UNCHANGED dirKnown
       \/ Called(w, "mkdir") /\ dirKnown' = TRUE /\ UNCHANGED resolved
    /\ Following(w)
    /\ UNCHANGED <<now, secret, held>>

\* ListDir and Delete, for which "not there" is an answer too.
Plain(w) ==
    /\ Called(w, "list") \/ Called(w, "delete")
    /\ Following(w)
    /\ UNCHANGED <<now, secret, held, resolved, dirKnown>>

\* InitiateFileDownload: at once, TOO_EARLY, or NOT_FOUND, which ends a get.
Download(w) ==
    /\ Called(w, "open")
    /\ GoTo(w, "data") \/ GoTo(w, "wait") \/ GiveUp(w)
    /\ UNCHANGED <<now, secret, held, resolved, dirKnown>>

\* InitiateFileUpload: on with the body, or, for an empty file, Stat whether
\* the initiation made it; ALREADY_EXISTS ends a create and takes a replace to
\* its delete.
Upload(w) ==
    /\ Called(w, "upload")
    /\ \/ GoTo(w, "data") \/ GoTo(w, "confirm") \/ GiveUp(w)
       \/ Len(job[w].todo) = 3 /\ Following(w)
    /\ UNCHANGED <<now, secret, held, resolved, dirKnown>>

\* confirmCreated: a file that is not there is an error, never a success.
Confirm(w) ==
    /\ Is(w, "confirm")
    /\ GiveUp(w)
    /\ UNCHANGED <<now, secret, held, resolved, dirKnown>>

\* The data gateway starts to send or take the body, or says 425.
Stream(w) ==
    /\ Is(w, "data") /\ Accepts(job[w].token)
    /\ \/ GoTo(w, "moving")
       \/ Doing(w, "open") /\ GoTo(w, "wait")
    /\ UNCHANGED <<now, secret, held, resolved, dirKnown>>

\* Mutant: every attempt starts the window anew.
WindowRestarts(w) ==
    /\ Is(w, "wait")
    /\ job' = [job EXCEPT ![w].pc = "token", ![w].left = Window]
    /\ UNCHANGED <<now, secret, held, resolved, dirKnown>>

\* openWhenReady: a pause that doubles, until the window is used up.
Wait(w) ==
    /\ Is(w, "wait")
    /\ IF job[w].left <= 0 THEN GiveUp(w)
       ELSE LET pause == IF job[w].delay < job[w].left THEN job[w].delay ELSE job[w].left IN
            job' = [job EXCEPT ![w].pc = "token", ![w].token = NoToken, ![w].left = @ - pause,
                               ![w].delay = IF 2 * @ < MaxDelay THEN 2 * @ ELSE MaxDelay]
    /\ UNCHANGED <<now, secret, held, resolved, dirKnown>>

\* The last byte, after which the store's call, or its operation, is done.
Finish(w) ==
    /\ Is(w, "moving")
    /\ IF Doing(w, "upload") THEN GiveUp(w) ELSE Following(w)
    /\ UNCHANGED <<now, secret, held, resolved, dirKnown>>

\* No byte comes any more.
FallSilent(w) ==
    /\ Is(w, "moving")
    /\ GoTo(w, "silent")
    /\ UNCHANGED <<now, secret, held, resolved, dirKnown>>

\* The stall guard's timer, which every byte restarts, cancels the request.
Stalled(w) ==
    /\ Is(w, "silent")
    /\ GiveUp(w)
    /\ UNCHANGED <<now, secret, held, resolved, dirKnown>>

-----------------------------------------------------------------------------
ChangeSecret ==
    /\ secret < MaxSecrets
    /\ secret' = secret + 1
    /\ UNCHANGED <<now, held, resolved, dirKnown, job>>

\* No call takes longer than the margin: those that do fail with Broken.
PassTime ==
    /\ now < MaxClock
    /\ now' = now + 1
    /\ UNCHANGED <<secret, held, resolved, dirKnown, job>>

ClientInit ==
    /\ now = 0 /\ secret = 1
    /\ held = NoToken /\ resolved = FALSE /\ dirKnown = FALSE
    /\ job = [w \in Worker |-> Off]

Works(w) ==
    \/ Remembered(w) \/ TokenCached(w) \/ Mint(w) \/ KeepToken(w)
    \/ Refused(w) \/ Broken(w) \/ Remember(w) \/ Plain(w) \/ Download(w) \/ Upload(w)
    \/ Confirm(w) \/ Stream(w) \/ Wait(w) \/ Finish(w) \/ FallSilent(w) \/ Stalled(w)

ClientNext ==
    \/ \E w \in Worker : Works(w) \/ \E op \in DOMAIN Calls : Operate(w, op)
    \/ ChangeSecret \/ PassTime

\* The runtime runs every goroutine, calls are answered or fail, and a timer
\* that is set fires.
ClientFairness == \A w \in Worker : WF_clientVars(Works(w))

-----------------------------------------------------------------------------
(* Properties.                                                              *)

\* Every operation on the state Space ends: a file that never becomes ready
\* uses up its window however the pauses are cut, and one that stops half-way
\* is cancelled by the stall guard.
TransfersEnd == \A w \in Worker : job[w] # Off ~> job[w] = Off

\* Once the gateway keeps its secret, refusals come to an end, although a
\* worker that minted slowly may put an old token into the cache after others
\* have dropped theirs, and a refusal may drop a good token.
RefusalsEnd == <>[][\A w \in Worker : ~Refused(w)]_clientVars

=============================================================================
