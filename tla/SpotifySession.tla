--------------------------- MODULE SpotifySession ---------------------------
(***************************************************************************)
(* The login to Spotify and everyone who shares it (external/spotify):     *)
(* calls that open a stream build the login together (provider.go,         *)
(* flight.go) and rebuild it when Spotify drops it (streamer.go), the user *)
(* signs in through the browser, the Connect receiver follows the login    *)
(* (connect.go), and Close takes it away.  A Session keeps its place while *)
(* a reconnect replaces the login and the player inside it (session.go).   *)
(*                                                                         *)
(* A login is its number, and a Session has the number of the login it was *)
(* built with.  p.mu is held from step to step by Close alone; the write   *)
(* lock of a Session is a guard, "no reader is in it".                     *)
(***************************************************************************)
EXTENDS Naturals, FiniteSets

CONSTANTS
  Calls,      \* the goroutines that call NewStreamer, once each
  SignIns,    \* the goroutines that call Authenticate, once each
  MaxBegun,   \* bound: how many of them call
  MaxBuilt,   \* bound: logins built
  None

ASSUME SessionAssumption == MaxBuilt \in Nat /\ None \notin SignIns

VARIABLES
  session,                     \* p.session: a Session or Nil
  flight,                      \* is a call of sessionFlight under way?
  authCancel, authGen,         \* the sign-in each names
  canceled,                    \* sign-ins whose context is over
  built, closed,               \* logins built, and those closed
  inner, sessCh,               \* the Sessions: the login, the generation of the channel
  call, worker,                \* each NewStreamer, and the read lock its worker holds
  signIn,                      \* each Authenticate
  connect, stopped, receiver,  \* the receivers: referred to, stopped, and their goroutines
  closer                       \* the caller of Close, which holds p.mu while it waits

loginVars == <<built, closed, inner, sessCh>>
authVars == <<authCancel, authGen, canceled>>
receiverVars == <<connect, stopped, receiver>>
vars == <<session, flight, authVars, loginVars, call, worker, signIn, receiverVars, closer>>

Nil == 0
Logins == 1..MaxBuilt

Off == [pc |-> "off", bound |-> Nil, seen |-> 0]
NoCall == [pc |-> "new", sess |-> Nil, new |-> Nil, tries |-> 0]
Returned == [NoCall EXCEPT !.pc = "returned"]
NoSignIn == [pc |-> "new", existing |-> Nil, new |-> Nil]

Init ==
  /\ session = Nil /\ flight = FALSE
  /\ authCancel = None /\ authGen = None /\ canceled = {}
  /\ built = 0 /\ closed = {}
  /\ inner = [s \in Logins |-> Nil] /\ sessCh = [s \in Logins |-> 0]
  /\ call = [c \in Calls |-> NoCall] /\ worker = [c \in Calls |-> Nil]
  /\ signIn = [a \in SignIns |-> NoSignIn]
  /\ connect = {} /\ stopped = {} /\ receiver = [s \in Logins |-> Off]
  /\ closer = "open"

MuFree == closer # "tear"

MayBegin ==
  Cardinality({c \in Calls : call[c].pc # "new"})
    + Cardinality({a \in SignIns : signIn[a].pc # "new"}) < MaxBegun

(* s.mu.Lock of Session s: nobody holds its read lock.                     *)
Alone(s) == \A c \in Calls : worker[c] = Nil \/ call[c].sess # s

(* A builder of a login ends with one, and its player.                     *)
Build ==
  /\ built < MaxBuilt
  /\ built' = built + 1
  /\ inner' = [inner EXCEPT ![built'] = built']
  /\ UNCHANGED <<closed, sessCh>>

(* p.session and, with it, startConnectLocked.                             *)
Publish(s) ==
  /\ MuFree
  /\ session' = s
  /\ connect' = connect \cup {s}
  /\ receiver' = [receiver EXCEPT ![s].pc = "loop"]
  /\ UNCHANGED stopped

BadMaySwap(s) == TRUE
MaySwap(s) == Alone(s)

(* The locked part of reconnect.                                           *)
Swap(s, new) ==
  /\ MaySwap(s)
  /\ closed' = closed \cup {inner[s]}
  /\ inner' = [inner EXCEPT ![s] = new, ![new] = Nil]
  /\ sessCh' = IF sessCh[s] = 0 THEN sessCh ELSE [sessCh EXCEPT ![s] = @ + 1]
  /\ UNCHANGED built

-----------------------------------------------------------------------------
(* NewStreamer and ensureSession                                           *)

CallStep == UNCHANGED <<authVars, signIn, closer>>
To(c, place) == call' = [call EXCEPT ![c].pc = place]

Ensure(c) ==
  /\ call[c].pc = "new" /\ MayBegin /\ MuFree
  /\ To(c, IF session = Nil THEN "do" ELSE "capture")
  /\ CallStep /\ UNCHANGED <<session, flight, loginVars, worker, receiverVars>>

Do(c) ==
  /\ call[c].pc = "do"
  /\ To(c, IF flight THEN "join" ELSE "lead")
  /\ flight' = TRUE
  /\ CallStep /\ UNCHANGED <<session, loginVars, worker, receiverVars>>

Lead(c) ==
  /\ call[c].pc = "lead" /\ MuFree
  /\ To(c, IF session = Nil THEN "build" ELSE "landed")
  /\ CallStep /\ UNCHANGED <<session, flight, loginVars, worker, receiverVars>>

BuildSession(c) ==
  /\ call[c].pc = "build"
  /\ \/ Build /\ call' = [call EXCEPT ![c].pc = "publish", ![c].new = built']
     \/ To(c, "failed") /\ UNCHANGED loginVars
  /\ CallStep /\ UNCHANGED <<session, flight, worker, receiverVars>>

PublishSession(c) ==
  /\ call[c].pc = "publish" /\ Publish(call[c].new)
  /\ call' = [call EXCEPT ![c].pc = "landed", ![c].new = Nil]
  /\ CallStep /\ UNCHANGED <<flight, loginVars, worker>>

(* The end of a flight wakes all who joined it.                            *)
BadLanded(c) == {c}
Landed(c) == {c} \cup {d \in Calls : call[d].pc = "join"}

Land(c) ==
  /\ call[c].pc \in {"landed", "failed"}
  /\ flight' = FALSE
  /\ call' = [d \in Calls |->
                IF d \notin Landed(c) THEN call[d]
                ELSE IF call[c].pc = "failed" THEN Returned
                ELSE [call[d] EXCEPT !.pc = "capture"]]
  /\ CallStep /\ UNCHANGED <<session, loginVars, worker, receiverVars>>

Capture(c) ==
  /\ call[c].pc = "capture" /\ MuFree
  /\ call' = [call EXCEPT ![c] =
                IF session = Nil THEN Returned
                ELSE [@ EXCEPT !.pc = "try", !.sess = session, !.tries = 1]]
  /\ CallStep /\ UNCHANGED <<session, flight, loginVars, worker, receiverVars>>

(* NewStream's worker enters the player of the Session.                    *)
EnterPlayer(c) ==
  /\ call[c].pc = "try"
  /\ worker' = [worker EXCEPT ![c] = inner[call[c].sess]]
  /\ To(c, "open")
  /\ CallStep /\ UNCHANGED <<session, flight, loginVars, receiverVars>>

(* A stream or an error that ends the call, one that is tried again after  *)
(* a moment, or one that asks for a new login.  A refusal shortly after a  *)
(* login that did not help, keyRefusedRecently, ends the call too.         *)
LeavePlayer(c) ==
  /\ call[c].pc = "open"
  /\ worker' = [worker EXCEPT ![c] = Nil]
  /\ \/ call' = [call EXCEPT ![c] = Returned]
     \/ call[c].tries = 1 /\ call' = [call EXCEPT ![c].pc = "try", ![c].tries = 2]
     \/ call[c].tries < 3 /\ To(c, "reconnect")
  /\ CallStep /\ UNCHANGED <<session, flight, loginVars, receiverVars>>

(* awaitSpotifyStream gives up after its time; its worker keeps the lock   *)
(* until the player returns.                                               *)
TimeOut(c) ==
  /\ call[c].pc \in {"try", "open"}
  /\ call' = [call EXCEPT ![c] = IF worker[c] = Nil THEN Returned ELSE [@ EXCEPT !.pc = "left"]]
  /\ CallStep /\ UNCHANGED <<session, flight, loginVars, worker, receiverVars>>

WorkerReturns(c) ==
  /\ call[c].pc = "left"
  /\ worker' = [worker EXCEPT ![c] = Nil]
  /\ call' = [call EXCEPT ![c] = Returned]
  /\ CallStep /\ UNCHANGED <<session, flight, loginVars, receiverVars>>

Reconnect(c) ==
  /\ call[c].pc = "reconnect"
  /\ \/ Build /\ call' = [call EXCEPT ![c].pc = "swap", ![c].new = built']
     \/ call' = [call EXCEPT ![c] = Returned] /\ UNCHANGED loginVars
  /\ CallStep /\ UNCHANGED <<session, flight, worker, receiverVars>>

SwapLogin(c) ==
  /\ call[c].pc = "swap" /\ Swap(call[c].sess, call[c].new)
  /\ call' = [call EXCEPT ![c].pc = "try", ![c].new = Nil, ![c].tries = 3]
  /\ CallStep /\ UNCHANGED <<session, flight, worker, receiverVars>>

-----------------------------------------------------------------------------
(* Authenticate                                                            *)

SignInStep == UNCHANGED <<flight, call, worker, closer>>

Register(a) ==
  /\ signIn[a].pc = "new" /\ MayBegin /\ MuFree
  /\ canceled' = (canceled \cup {authCancel}) \ {None}
  /\ authCancel' = a /\ authGen' = a
  /\ signIn' = [signIn EXCEPT ![a] = [NoSignIn EXCEPT !.pc = "browser", !.existing = session]]
  /\ SignInStep /\ UNCHANGED <<session, loginVars, receiverVars>>

(* The browser's answer, or none in time; a canceled flow has no answer.   *)
Browser(a) ==
  /\ signIn[a].pc = "browser"
  /\ \/ /\ a \notin canceled /\ Build
        /\ signIn' = [signIn EXCEPT ![a].new = built',
                        ![a].pc = IF signIn[a].existing = Nil THEN "signed in" ELSE "swap"]
     \/ signIn' = [signIn EXCEPT ![a].pc = "failed"] /\ UNCHANGED loginVars
  /\ SignInStep /\ UNCHANGED <<session, authVars, receiverVars>>

SwapSignedIn(a) ==
  /\ signIn[a].pc = "swap" /\ Swap(signIn[a].existing, signIn[a].new)
  /\ signIn' = [signIn EXCEPT ![a].pc = "signed in", ![a].new = Nil]
  /\ SignInStep /\ UNCHANGED <<session, authVars, receiverVars>>

(* "counts sign-ins, so a call clears only its own authCancel"             *)
BadOwn(a) == TRUE
Own(a) == authGen = a

ClearCancel(a) ==
  /\ signIn[a].pc \in {"signed in", "failed"} /\ MuFree
  /\ authCancel' = IF Own(a) THEN None ELSE authCancel
  /\ signIn' = [signIn EXCEPT ![a].pc = IF @ = "failed" THEN "returned" ELSE "publish"]
  /\ SignInStep /\ UNCHANGED <<session, authGen, canceled, loginVars, receiverVars>>

PublishSignIn(a) ==
  /\ signIn[a].pc = "publish" /\ MuFree
  /\ IF signIn[a].new = Nil THEN UNCHANGED <<session, receiverVars>> ELSE Publish(signIn[a].new)
  /\ signIn' = [signIn EXCEPT ![a] = [NoSignIn EXCEPT !.pc = "returned"]]
  /\ SignInStep /\ UNCHANGED <<authVars, loginVars>>

-----------------------------------------------------------------------------
(* connectReceiver.run                                                     *)

ReceiverStep == UNCHANGED <<session, flight, authVars, built, closed, inner, call, worker,
                            signIn, closer>>
Receive(s, r) == receiver' = [receiver EXCEPT ![s] = r]
Gone(s) == s \in stopped /\ Receive(s, Off)

(* sessionSwap makes the channel when there is none.                       *)
SessionSwap(s) ==
  /\ Alone(s)
  /\ sessCh' = IF sessCh[s] = 0 THEN [sessCh EXCEPT ![s] = 1] ELSE sessCh

Bind(s) ==
  /\ receiver[s].pc = "loop"
  /\ \/ Gone(s) /\ UNCHANGED sessCh
     \/ /\ s \notin stopped /\ SessionSwap(s)
        /\ Receive(s, [pc |-> "serve", bound |-> inner[s], seen |-> 0])
  /\ ReceiverStep /\ UNCHANGED <<connect, stopped>>

(* The dealer of a closed login ends; any may.                             *)
ServeEnds(s) ==
  /\ receiver[s].pc = "serve"
  /\ Receive(s, [receiver[s] EXCEPT !.pc = "served"])
  /\ ReceiverStep /\ UNCHANGED <<connect, stopped, sessCh>>

Logout(s) ==
  /\ receiver[s].pc = "serve" /\ Alone(s)
  /\ connect' = connect \ {s} /\ stopped' = stopped \cup {s}
  /\ ReceiverStep /\ UNCHANGED <<receiver, sessCh>>

Served(s) ==
  /\ receiver[s].pc = "served"
  /\ \/ Gone(s)
     \/ s \notin stopped /\ Receive(s, [receiver[s] EXCEPT
          !.pc = IF inner[s] = receiver[s].bound THEN "swap" ELSE "loop"])
  /\ ReceiverStep /\ UNCHANGED <<connect, stopped, sessCh>>

Park(s) ==
  /\ receiver[s].pc = "swap" /\ SessionSwap(s)
  /\ Receive(s, [receiver[s] EXCEPT !.pc = "parked", !.seen = sessCh'[s]])
  /\ ReceiverStep /\ UNCHANGED <<connect, stopped>>

(* The channel that was captured closes, or the retry interval passes.     *)
BadAwakes(s) == sessCh[s] # receiver[s].seen
Awakes(s) == TRUE

Unpark(s) ==
  /\ receiver[s].pc = "parked"
  /\ \/ Gone(s)
     \/ Awakes(s) /\ Receive(s, [receiver[s] EXCEPT !.pc = "loop"])
  /\ ReceiverStep /\ UNCHANGED <<connect, stopped, sessCh>>

-----------------------------------------------------------------------------
(* Close, with p.mu held throughout                                        *)

CloseBegin ==
  /\ closer = "open"
  /\ canceled' = (canceled \cup {authCancel}) \ {None}
  /\ authCancel' = None
  /\ closer' = IF session = Nil THEN "closed" ELSE "tear"
  /\ UNCHANGED <<session, flight, authGen, loginVars, call, worker, signIn, receiverVars>>

CloseSession ==
  /\ closer = "tear" /\ Alone(session)
  /\ connect' = connect \ {session} /\ stopped' = stopped \cup (connect \cap {session})
  /\ sessCh' = [sessCh EXCEPT ![session] = 0]
  /\ closed' = closed \cup {inner[session]}
  /\ session' = Nil
  /\ closer' = "closed"
  /\ UNCHANGED <<flight, authVars, built, inner, call, worker, signIn, receiver>>

-----------------------------------------------------------------------------

Call(c) ==
  \/ Do(c) \/ Lead(c) \/ BuildSession(c) \/ PublishSession(c) \/ Land(c) \/ Capture(c)
  \/ EnterPlayer(c) \/ LeavePlayer(c) \/ WorkerReturns(c) \/ Reconnect(c) \/ SwapLogin(c)

SignIn(a) == Browser(a) \/ SwapSignedIn(a) \/ ClearCancel(a) \/ PublishSignIn(a)

Receiver(s) ==
  \/ Bind(s) \/ Served(s) \/ Park(s) \/ Unpark(s)
  \/ receiver[s].bound \in closed /\ ServeEnds(s)

Next ==
  \/ \E c \in Calls : \/ Ensure(c) \/ Do(c) \/ Lead(c) \/ BuildSession(c) \/ PublishSession(c)
                      \/ Land(c) \/ Capture(c) \/ EnterPlayer(c) \/ LeavePlayer(c) \/ TimeOut(c)
                      \/ WorkerReturns(c) \/ Reconnect(c) \/ SwapLogin(c)
  \/ \E a \in SignIns : \/ Register(a) \/ Browser(a) \/ SwapSignedIn(a) \/ ClearCancel(a)
                        \/ PublishSignIn(a)
  \/ \E s \in Logins : \/ Bind(s) \/ ServeEnds(s) \/ Logout(s) \/ Served(s) \/ Park(s) \/ Unpark(s)
  \/ CloseBegin \/ CloseSession

Spec == Init /\ [][Next]_vars

(* Every request has a time limit, timers expire, the dealer of a closed   *)
(* login ends, and whoever can go on does at last: one of the callers, and *)
(* each receiver.  Callers need no more, as there are finitely many steps  *)
(* to wait for.                                                            *)
Fairness ==
  /\ WF_vars((\E c \in Calls : Call(c)) \/ (\E a \in SignIns : SignIn(a)) \/ CloseSession)
  /\ \A s \in Logins : WF_vars(Receiver(s))

FairSpec == Spec /\ Fairness

-----------------------------------------------------------------------------
(* Properties *)

TypeOK ==
  /\ session \in 0..built /\ built \in 0..MaxBuilt /\ closed \subseteq 1..built
  /\ flight \in BOOLEAN /\ canceled \subseteq SignIns
  /\ authCancel \in SignIns \cup {None} /\ authGen \in SignIns \cup {None}
  /\ \A s \in Logins : inner[s] \in 0..built /\ receiver[s].bound \in 0..built
  /\ closer \in {"open", "tear", "closed"}

(* "oldPlayer.Close() is never called while a NewStream is still using the *)
(* old player pointer": no step, a reconnect's, a sign-in's or Close's,    *)
(* closes a login whose player a worker is in, one that its call has left  *)
(* by timeout included.                                                    *)
PlayersKept ==
  [][\A c \in Calls : worker[c] # Nil /\ worker[c] \notin closed => worker[c] \notin closed']_vars

(* "a newer call or Close always finds the flow that runs": a sign-in that *)
(* waits for the browser can be canceled, or has been.                     *)
SignInCancelable ==
  \A a \in SignIns : signIn[a].pc = "browser" => a = authCancel \/ a \in canceled

(* A stream is opened or refused, and Close returns, whoever builds, joins *)
(* or replaces the login meanwhile.                                        *)
AllReturned ==
  /\ \A c \in Calls : call[c].pc \in {"new", "returned"}
  /\ closer # "tear"

(* "the receiver rebinds itself across session reconnects", though a login *)
(* may be replaced between its two looks at the Session.                   *)
ReceiversFollow ==
  \A s \in Logins : receiver[s].pc = "off" \/ receiver[s].bound = inner[s]

(* Nobody waits for good: neither those who call nor the receivers, which  *)
(* miss a swap of the login between their looks at it (connect.go, run).   *)
(* Each calls once, so at last all have returned and follow.               *)
NobodyStuck == <>[](AllReturned /\ ReceiversFollow)

(* What callers need not hold for themselves the provider holds: when all  *)
(* have returned, a login that is open is the provider's.                  *)
NoneLost ==
  /\ \A c \in Calls : call[c].pc \in {"new", "returned"}
  /\ \A a \in SignIns : signIn[a].pc \in {"new", "returned"}
  =>
  1..built \ closed \subseteq {IF session = Nil THEN Nil ELSE inner[session]}
=============================================================================
