--------------------------- MODULE SpotifyProofs ---------------------------
(***************************************************************************)
(* Proofs about SpotifySession.tla: no player is closed under a call that  *)
(* uses it, and a sign-in that waits can always be canceled, whatever the  *)
(* numbers of calls, sign-ins and logins.  And about SpotifyConnect.tla:   *)
(* what Spotify asks of cliamp holds, and Spotify follows what cliamp      *)
(* does, for any number of commands and refused PUTs.                      *)
(***************************************************************************)
EXTENDS MCSpotify, TLAPS

CallPlaces == {"new", "do", "join", "lead", "build", "publish", "landed", "failed", "capture",
               "try", "open", "left", "reconnect", "swap", "returned"}
SignInPlaces == {"new", "browser", "swap", "signed in", "failed", "publish", "returned"}

CallRecords == [Calls -> [pc : CallPlaces, sess : Nat, new : Nat, tries : Nat]]
SignInRecords == [SignIns -> [pc : SignInPlaces, existing : Nat, new : Nat]]

SessionType ==
  /\ built \in Nat /\ session \in Nat /\ inner \in [Logins -> Nat]
  /\ call \in CallRecords /\ signIn \in SignInRecords /\ worker \in [Calls -> Nat]

(* Only logins that were built are referred to.                            *)
BoundInv ==
  /\ built <= MaxBuilt /\ session <= built
  /\ \A s \in Logins : inner[s] <= built
  /\ \A c \in Calls : call[c].sess <= built /\ call[c].new <= built
  /\ \A a \in SignIns : signIn[a].existing <= built /\ signIn[a].new <= built

(* A Session that nobody has seen yet.                                     *)
Unseen(x) ==
  /\ x # session
  /\ \A c \in Calls : call[c].sess # x
  /\ \A a \in SignIns : signIn[a].existing # x

(* A login that was built and not handed over yet has one owner and is in  *)
(* its own Session.                                                        *)
OwnInv ==
  /\ \A c \in Calls : call[c].new # Nil =>
       /\ inner[call[c].new] = call[c].new /\ Unseen(call[c].new)
       /\ \A d \in Calls \ {c} : call[d].new # call[c].new
  /\ \A a \in SignIns : signIn[a].new # Nil =>
       /\ inner[signIn[a].new] = signIn[a].new /\ Unseen(signIn[a].new)
       /\ \A b \in SignIns \ {a} : signIn[b].new # signIn[a].new
       /\ \A c \in Calls : call[c].new # signIn[a].new

(* No login is in two Sessions.                                            *)
ApartInv == \A s, t \in Logins : s # t /\ inner[s] # Nil => inner[s] # inner[t]

(* Who needs a Session or a login has one.                                 *)
CallPlaced(c) ==
  /\ call[c].pc \in {"try", "open", "left", "reconnect", "swap"} => call[c].sess # Nil
  /\ call[c].pc \in {"publish", "swap"} => call[c].new # Nil
SignInPlaced(a) == signIn[a].pc = "swap" => signIn[a].existing # Nil /\ signIn[a].new # Nil

(* A worker is in the player of the Session of its call.                   *)
InPlayer(c) ==
  worker[c] # Nil => call[c].pc \in {"open", "left"} /\ worker[c] = inner[call[c].sess]

UserInv ==
  /\ \A c \in Calls : CallPlaced(c) /\ InPlayer(c)
  /\ \A a \in SignIns : SignInPlaced(a)
  /\ closer = "tear" => session # Nil

SharedInv == SessionType /\ BoundInv /\ OwnInv /\ ApartInv /\ UserInv

(* The sign-in that a cancellation would find is the last that registered. *)
CancelInv ==
  /\ authCancel \in {None, authGen} /\ authGen \in SignIns \cup {None}
  /\ SignInCancelable

-----------------------------------------------------------------------------
(* What the steps do to the logins, and that each keeps the invariant      *)

(* Nothing is built or handed over; owners may let go, and users of the    *)
(* provider's Session come and go.                                         *)
Passes ==
  /\ UNCHANGED <<built, inner>> /\ session' \in {session, Nil}
  /\ \A c \in Calls : /\ call'[c].new \in {Nil, call[c].new}
                      /\ call'[c].sess \in {Nil, session, call[c].sess}
  /\ \A a \in SignIns : /\ signIn'[a].new \in {Nil, signIn[a].new}
                        /\ signIn'[a].existing \in {Nil, session, signIn[a].existing}

LEMMA PassesKeeps ==
  ASSUME SessionType, BoundInv, OwnInv, ApartInv, Passes
  PROVE  BoundInv' /\ OwnInv' /\ ApartInv'
<1>1. BoundInv'
  BY DEF Passes, SessionType, BoundInv, Nil, Logins
<1>2. \A x \in Nat : x # Nil /\ Unseen(x) => Unseen(x)'
  BY DEF Passes, Unseen
<1>3. \A c \in Calls : call[c].new \in Nat
  BY DEF SessionType, CallRecords
<1>4. \A a \in SignIns : signIn[a].new \in Nat
  BY DEF SessionType, SignInRecords
<1>5. OwnInv'
  BY <1>2, <1>3, <1>4 DEF Passes, OwnInv
<1>6. ApartInv'
  BY DEF Passes, ApartInv
<1> QED BY <1>1, <1>5, <1>6

(* A call or a sign-in builds a login and owns it.                         *)
Builds ==
  /\ Build /\ UNCHANGED session
  /\ \A c \in Calls : call'[c].sess = call[c].sess
  /\ \A a \in SignIns : signIn'[a].existing = signIn[a].existing
  /\ \/ \E c \in Calls : /\ call'[c].new = built'
                         /\ \A d \in Calls \ {c} : call'[d].new = call[d].new
                         /\ \A a \in SignIns : signIn'[a].new = signIn[a].new
     \/ \E a \in SignIns : /\ signIn'[a].new = built'
                           /\ \A b \in SignIns \ {a} : signIn'[b].new = signIn[b].new
                           /\ \A c \in Calls : call'[c].new = call[c].new

LEMMA BuildsKeeps ==
  ASSUME SessionType, BoundInv, OwnInv, ApartInv, Builds
  PROVE  BoundInv' /\ OwnInv' /\ ApartInv' /\ inner' \in [Logins -> Nat] /\ built' \in Nat
<1>0. PICK n \in Nat : n = built + 1
  BY DEF SessionType
<1>1. built' = n /\ n \in Logins /\ n # Nil /\ n <= MaxBuilt
  BY <1>0, SessionAssumption DEF Builds, Build, SessionType, Logins, Nil
<1>2. inner' = [inner EXCEPT ![n] = n]
  BY <1>1 DEF Builds, Build
<1>3. \A s \in Logins \ {n} : inner'[s] = inner[s] /\ inner[s] # n
  BY <1>0, <1>1, <1>2 DEF SessionType, BoundInv
<1>4. inner'[n] = n
  BY <1>1, <1>2 DEF SessionType
<1>5. /\ \A c \in Calls : call[c].sess \in Nat /\ call[c].new \in Nat
      /\ \A a \in SignIns : signIn[a].existing \in Nat /\ signIn[a].new \in Nat
  BY DEF SessionType, CallRecords, SignInRecords
<1>6. /\ n # session
      /\ \A c \in Calls : call[c].sess # n /\ call[c].new # n
      /\ \A a \in SignIns : signIn[a].existing # n /\ signIn[a].new # n
  BY <1>0, <1>5 DEF SessionType, BoundInv
<1>7. \A x \in Nat : Unseen(x) => Unseen(x)'
  BY DEF Builds, Unseen
<1>8. Unseen(n)'
  BY <1>6 DEF Builds, Unseen
<1>9. /\ \A c \in Calls : call[c].new # Nil => call[c].new \in Logins
      /\ \A a \in SignIns : signIn[a].new # Nil => signIn[a].new \in Logins
  BY <1>5, SessionAssumption DEF SessionType, BoundInv, Logins, Nil
<1>10. BoundInv'
  <2>1. session' <= n /\ \A s \in Logins : inner'[s] <= n
    BY <1>0, <1>3, <1>4 DEF Builds, SessionType, BoundInv
  <2>2. /\ \A c \in Calls : call'[c].sess <= n
        /\ \A a \in SignIns : signIn'[a].existing <= n
    BY <1>0, <1>5 DEF Builds, SessionType, BoundInv
  <2>3. /\ \A c \in Calls : call[c].new <= n
        /\ \A a \in SignIns : signIn[a].new <= n
    BY <1>0, <1>5 DEF SessionType, BoundInv
  <2>4. /\ \A c \in Calls : call'[c].new <= n
        /\ \A a \in SignIns : signIn'[a].new <= n
    BY <1>1, <2>3 DEF Builds
  <2> QED BY <1>1, <2>1, <2>2, <2>4 DEF BoundInv
<1>11. OwnInv'
  BY <1>1, <1>3, <1>4, <1>5, <1>6, <1>7, <1>8, <1>9 DEF Builds, OwnInv
<1>12. ApartInv'
  BY <1>1, <1>3, <1>4 DEF ApartInv
<1> QED BY <1>1, <1>2, <1>10, <1>11, <1>12 DEF SessionType

(* An owner makes its login the provider's Session.                        *)
Publishes(x) ==
  /\ x \in Nat /\ x # Nil /\ x <= built /\ Unseen(x)
  /\ UNCHANGED <<built, inner>> /\ session' = x
  /\ \A c \in Calls : call'[c].new \in {Nil, call[c].new} \ {x} /\ call'[c].sess = call[c].sess
  /\ \A a \in SignIns : /\ signIn'[a].new \in {Nil, signIn[a].new} \ {x}
                        /\ signIn'[a].existing \in {Nil, signIn[a].existing}

LEMMA PublishesKeeps ==
  ASSUME SessionType, BoundInv, OwnInv, ApartInv, NEW x, Publishes(x)
  PROVE  BoundInv' /\ OwnInv' /\ ApartInv'
<1>1. BoundInv'
  BY DEF Publishes, SessionType, BoundInv, Nil, Logins
<1>2. \A y \in Nat : y # Nil /\ y # x /\ Unseen(y) => Unseen(y)'
  BY DEF Publishes, Unseen
<1>3. /\ \A c \in Calls : call[c].new \in Nat
      /\ \A a \in SignIns : signIn[a].new \in Nat
  BY DEF SessionType, CallRecords, SignInRecords
<1>4. OwnInv'
  BY <1>2, <1>3 DEF Publishes, OwnInv
<1>5. ApartInv'
  BY DEF Publishes, ApartInv
<1> QED BY <1>1, <1>4, <1>5

(* An owner puts its login into a Session that is in use.                  *)
Swaps(s, x) ==
  /\ s \in Logins /\ x \in Logins /\ ~Unseen(s) /\ Unseen(x) /\ inner[x] = x
  /\ Swap(s, x) /\ UNCHANGED session
  /\ \A c \in Calls : call'[c].new \in {Nil, call[c].new} \ {x} /\ call'[c].sess = call[c].sess
  /\ \A a \in SignIns : /\ signIn'[a].new \in {Nil, signIn[a].new} \ {x}
                        /\ signIn'[a].existing = signIn[a].existing

LEMMA SwapsKeeps ==
  ASSUME SessionType, BoundInv, OwnInv, ApartInv, NEW s, NEW x, Swaps(s, x)
  PROVE  BoundInv' /\ OwnInv' /\ ApartInv' /\ inner' \in [Logins -> Nat] /\ UNCHANGED built
<1>1. s \in Logins /\ x \in Logins /\ s # x /\ x # Nil /\ x \in Nat /\ inner[x] = x
  BY SessionAssumption DEF Swaps, Logins, Nil
<1>2. inner' = [inner EXCEPT ![s] = x, ![x] = Nil] /\ UNCHANGED built
  BY DEF Swaps, Swap
<1>3. /\ inner'[s] = x /\ inner'[x] = Nil
      /\ \A t \in Logins \ {s, x} : inner'[t] = inner[t] /\ inner[t] # x
  BY <1>1, <1>2 DEF SessionType, ApartInv
<1>4. \A y \in Nat : Unseen(y) => y # s /\ Unseen(y)'
  BY DEF Swaps, Unseen
<1>5. /\ \A c \in Calls : call[c].new \in Nat
      /\ \A a \in SignIns : signIn[a].new \in Nat
  BY DEF SessionType, CallRecords, SignInRecords
<1>6. /\ \A c \in Calls : call[c].new # Nil => call[c].new \in Logins
      /\ \A a \in SignIns : signIn[a].new # Nil => signIn[a].new \in Logins
  BY <1>5, SessionAssumption DEF SessionType, BoundInv, Logins, Nil
<1>7. BoundInv'
  <2>1. \A t \in Logins : inner'[t] <= built'
    BY <1>1, <1>2, <1>3 DEF SessionType, BoundInv, Nil
  <2> QED BY <1>2, <2>1 DEF Swaps, SessionType, BoundInv, Nil
<1>8. OwnInv'
  BY <1>1, <1>3, <1>4, <1>5, <1>6 DEF Swaps, OwnInv
<1>9. ApartInv'
  BY <1>1, <1>3 DEF ApartInv
<1> QED BY <1>1, <1>2, <1>7, <1>8, <1>9 DEF SessionType, Nil

-----------------------------------------------------------------------------
(* The steps of the calls                                                  *)

LEMMA InitKeeps == Init => SharedInv /\ CancelInv
<1> SUFFICES ASSUME Init PROVE SharedInv /\ CancelInv
  OBVIOUS
<1>1. SessionType
  BY DEF Init, SessionType, NoCall, NoSignIn, CallRecords, SignInRecords, CallPlaces, SignInPlaces, Nil
<1>2. BoundInv /\ OwnInv /\ ApartInv
  BY SessionAssumption DEF Init, BoundInv, OwnInv, ApartInv, NoCall, NoSignIn, Nil
<1>3. UserInv
  BY DEF Init, UserInv, CallPlaced, SignInPlaced, InPlayer, NoCall, NoSignIn, Nil
<1>4. CancelInv
  BY DEF Init, CancelInv, SignInCancelable, NoSignIn
<1> QED BY <1>1, <1>2, <1>3, <1>4 DEF SharedInv

(* Steps that leave the logins and the provider's Session as they are.     *)
LEMMA QuietCall ==
  ASSUME SharedInv, UNCHANGED <<session, built, inner, signIn, closer>>,
         call' \in CallRecords, worker' \in [Calls -> Nat],
         \A d \in Calls : /\ call'[d].new \in {Nil, call[d].new}
                          /\ call'[d].sess \in {Nil, session, call[d].sess}
                          /\ CallPlaced(d)' /\ InPlayer(d)'
  PROVE  SharedInv'
<1>1. Passes
  BY DEF Passes
<1>2. BoundInv' /\ OwnInv' /\ ApartInv'
  BY <1>1, PassesKeeps DEF SharedInv
<1>3. SessionType'
  BY DEF SharedInv, SessionType
<1>4. UserInv'
  BY DEF SharedInv, UserInv, SignInPlaced
<1> QED BY <1>2, <1>3, <1>4 DEF SharedInv

(* One call changes, and its worker with it.                               *)
LEMMA QuietChange ==
  ASSUME SharedInv, UNCHANGED <<session, built, inner, signIn, closer>>, NEW c \in Calls,
         call' \in CallRecords, worker' \in [Calls -> Nat],
         \A d \in Calls \ {c} : call'[d] = call[d] /\ worker'[d] = worker[d],
         call'[c].new \in {Nil, call[c].new}, call'[c].sess \in {Nil, session, call[c].sess},
         call'[c].pc \notin {"publish", "swap"},
         call'[c].pc \in {"try", "open", "left", "reconnect"} => call'[c].sess # Nil,
         worker'[c] # Nil =>
           call'[c].pc \in {"open", "left"} /\ worker'[c] = inner[call'[c].sess]
  PROVE  SharedInv'
<1>1. \A d \in Calls : CallPlaced(d)'
  BY DEF CallPlaced, SharedInv, UserInv
<1>2. \A d \in Calls : InPlayer(d)'
  BY DEF InPlayer, SharedInv, UserInv
<1>3. \A d \in Calls : /\ call'[d].new \in {Nil, call[d].new}
                       /\ call'[d].sess \in {Nil, session, call[d].sess}
  OBVIOUS
<1> QED BY <1>1, <1>2, <1>3, QuietCall

(* It goes to another place, and its worker to or from its player.         *)
LEMMA QuietTo ==
  ASSUME SharedInv, UNCHANGED <<session, built, inner, signIn, closer>>,
         NEW c \in Calls, NEW place \in CallPlaces, To(c, place), worker' \in [Calls -> Nat],
         \A d \in Calls \ {c} : worker'[d] = worker[d],
         worker'[c] # Nil => place \in {"open", "left"} /\ worker'[c] = inner[call[c].sess],
         place \notin {"publish", "swap"},
         place \in {"try", "open", "left", "reconnect"} => call[c].sess # Nil
  PROVE  SharedInv'
<1>1. call \in CallRecords
  BY DEF SharedInv, SessionType
<1>2. call' \in CallRecords
  BY <1>1 DEF To, CallRecords
<1>3. /\ call'[c].pc = place /\ call'[c].sess = call[c].sess /\ call'[c].new = call[c].new
      /\ \A d \in Calls \ {c} : call'[d] = call[d]
  BY <1>1 DEF To, CallRecords
<1> QED BY <1>2, <1>3, QuietChange

(* It returns.                                                             *)
LEMMA QuietReturn ==
  ASSUME SharedInv, UNCHANGED <<session, built, inner, signIn, closer>>, NEW c \in Calls,
         call' = [call EXCEPT ![c] = Returned], worker' = [worker EXCEPT ![c] = Nil]
  PROVE  SharedInv'
<1>1. call \in CallRecords /\ worker \in [Calls -> Nat]
  BY DEF SharedInv, SessionType
<1>2. /\ Returned \in [pc : CallPlaces, sess : Nat, new : Nat, tries : Nat]
      /\ Returned.pc = "returned" /\ Returned.new = Nil /\ Returned.sess = Nil
  BY DEF Returned, NoCall, Nil, CallPlaces
<1>3. /\ call' \in CallRecords /\ worker' \in [Calls -> Nat]
      /\ call'[c] = Returned /\ worker'[c] = Nil
      /\ \A d \in Calls \ {c} : call'[d] = call[d] /\ worker'[d] = worker[d]
  BY <1>1, <1>2 DEF CallRecords, Nil
<1> QED BY <1>2, <1>3, QuietChange

LEMMA EnsureKeeps == ASSUME SharedInv, NEW c \in Calls, Ensure(c) PROVE SharedInv'
<1>1. worker[c] = Nil /\ worker \in [Calls -> Nat]
  BY DEF Ensure, SharedInv, SessionType, UserInv, InPlayer
<1>2. PICK place \in {"do", "capture"} : To(c, place)
  BY DEF Ensure
<1> QED BY <1>1, <1>2, QuietTo DEF Ensure, CallStep, loginVars, CallPlaces

LEMMA DoKeeps == ASSUME SharedInv, NEW c \in Calls, Do(c) PROVE SharedInv'
<1>1. worker[c] = Nil /\ worker \in [Calls -> Nat]
  BY DEF Do, SharedInv, SessionType, UserInv, InPlayer
<1>2. PICK place \in {"join", "lead"} : To(c, place)
  BY DEF Do
<1> QED BY <1>1, <1>2, QuietTo DEF Do, CallStep, loginVars, CallPlaces

LEMMA LeadKeeps == ASSUME SharedInv, NEW c \in Calls, Lead(c) PROVE SharedInv'
<1>1. worker[c] = Nil /\ worker \in [Calls -> Nat]
  BY DEF Lead, SharedInv, SessionType, UserInv, InPlayer
<1>2. PICK place \in {"build", "landed"} : To(c, place)
  BY DEF Lead
<1> QED BY <1>1, <1>2, QuietTo DEF Lead, CallStep, loginVars, CallPlaces

LEMMA LandKeeps == ASSUME SharedInv, NEW c \in Calls, Land(c) PROVE SharedInv'
<1>1. call \in CallRecords /\ worker' = worker /\ worker \in [Calls -> Nat]
  BY DEF SharedInv, SessionType, Land, loginVars
<1>2. \A d \in Landed(c) : worker[d] = Nil
  BY DEF Land, Landed, SharedInv, UserInv, InPlayer
<1>3. \A d \in Calls : \/ call'[d] = call[d]
                       \/ d \in Landed(c) /\ call'[d] = Returned
                       \/ d \in Landed(c) /\ call'[d] = [call[d] EXCEPT !.pc = "capture"]
  BY DEF Land
<1>4. Returned \in [pc : CallPlaces, sess : Nat, new : Nat, tries : Nat]
      /\ Returned.pc = "returned" /\ Returned.sess = Nil /\ Returned.new = Nil
  BY DEF Returned, NoCall, Nil, CallPlaces
<1>5. \A d \in Calls :
        /\ [call[d] EXCEPT !.pc = "capture"]
             \in [pc : CallPlaces, sess : Nat, new : Nat, tries : Nat]
        /\ [call[d] EXCEPT !.pc = "capture"].pc = "capture"
        /\ [call[d] EXCEPT !.pc = "capture"].sess = call[d].sess
        /\ [call[d] EXCEPT !.pc = "capture"].new = call[d].new
  BY <1>1 DEF CallRecords, CallPlaces
<1>6. call' \in CallRecords
  <2>0. \A d \in Calls : call[d] \in [pc : CallPlaces, sess : Nat, new : Nat, tries : Nat]
    BY <1>1 DEF CallRecords
  <2>1. ASSUME NEW d \in Calls
        PROVE  call'[d] \in [pc : CallPlaces, sess : Nat, new : Nat, tries : Nat]
    <3>1. CASE call'[d] = call[d]
      BY <2>0, <3>1
    <3>2. CASE call'[d] = Returned
      BY <1>4, <3>2
    <3>3. CASE call'[d] = [call[d] EXCEPT !.pc = "capture"]
      BY <1>5, <3>3
    <3> QED BY <1>3, <3>1, <3>2, <3>3
  <2> QED BY <2>1 DEF Land, CallRecords
<1>7. \A d \in Calls : /\ call'[d].new \in {Nil, call[d].new}
                       /\ call'[d].sess \in {Nil, session, call[d].sess}
  BY <1>3, <1>4, <1>5
<1>8. \A d \in Calls : CallPlaced(d)'
  BY <1>3, <1>4, <1>5 DEF CallPlaced, SharedInv, UserInv
<1>9. \A d \in Calls : InPlayer(d)'
  BY <1>1, <1>2, <1>3, <1>4, <1>5 DEF InPlayer, SharedInv, UserInv, Land, loginVars
<1> QED BY <1>1, <1>6, <1>7, <1>8, <1>9, QuietCall DEF Land, CallStep, loginVars

LEMMA CaptureKeeps == ASSUME SharedInv, NEW c \in Calls, Capture(c) PROVE SharedInv'
<1>1. worker[c] = Nil /\ session \in Nat /\ worker \in [Calls -> Nat] /\ call \in CallRecords
  BY DEF Capture, SharedInv, SessionType, UserInv, InPlayer
<1>2. worker' = worker /\ UNCHANGED <<session, built, inner, signIn, closer>>
  BY DEF Capture, CallStep, loginVars
<1>3. CASE session = Nil
  <2>1. worker' = [worker EXCEPT ![c] = Nil] /\ call' = [call EXCEPT ![c] = Returned]
    BY <1>1, <1>2, <1>3 DEF Capture
  <2> QED BY <1>2, <2>1, QuietReturn
<1>4. CASE session # Nil
  <2>1. call' = [call EXCEPT ![c] = [@ EXCEPT !.pc = "try", !.sess = session, !.tries = 1]]
    BY <1>4 DEF Capture
  <2>2. /\ call' \in CallRecords
        /\ call'[c].pc = "try" /\ call'[c].sess = session /\ call'[c].new = call[c].new
        /\ \A d \in Calls \ {c} : call'[d] = call[d]
    BY <1>1, <2>1 DEF CallRecords, CallPlaces
  <2> QED BY <1>1, <1>2, <1>4, <2>2, QuietChange
<1> QED BY <1>3, <1>4

LEMMA EnterPlayerKeeps == ASSUME SharedInv, NEW c \in Calls, EnterPlayer(c) PROVE SharedInv'
<1>1. call[c].sess \in Logins /\ call[c].sess # Nil /\ inner[call[c].sess] \in Nat
      /\ worker \in [Calls -> Nat]
  BY SessionAssumption
  DEF EnterPlayer, SharedInv, SessionType, CallRecords, BoundInv, UserInv, CallPlaced, Logins, Nil
<1>2. /\ worker' \in [Calls -> Nat] /\ worker'[c] = inner[call[c].sess]
      /\ \A d \in Calls \ {c} : worker'[d] = worker[d]
  BY <1>1 DEF EnterPlayer
<1>3. UNCHANGED <<session, built, inner, signIn, closer>> /\ To(c, "open")
  BY DEF EnterPlayer, CallStep, loginVars
<1> QED BY <1>1, <1>2, <1>3, QuietTo DEF CallPlaces

LEMMA LeavePlayerKeeps == ASSUME SharedInv, NEW c \in Calls, LeavePlayer(c) PROVE SharedInv'
<1>1. /\ call \in CallRecords /\ call[c].sess # Nil
      /\ worker \in [Calls -> Nat] /\ worker' = [worker EXCEPT ![c] = Nil]
  BY DEF LeavePlayer, SharedInv, SessionType, UserInv, CallPlaced
<1>2. UNCHANGED <<session, built, inner, signIn, closer>>
  BY DEF LeavePlayer, CallStep, loginVars
<1>3. /\ worker' \in [Calls -> Nat] /\ worker'[c] = Nil
      /\ \A d \in Calls \ {c} : worker'[d] = worker[d]
  BY <1>1 DEF Nil
<1>4. CASE call' = [call EXCEPT ![c] = Returned]
  BY <1>1, <1>2, <1>4, QuietReturn
<1>5. CASE call' = [call EXCEPT ![c].pc = "try", ![c].tries = 2]
  <2>1. /\ call' \in CallRecords
        /\ call'[c].pc = "try" /\ call'[c].sess = call[c].sess /\ call'[c].new = call[c].new
        /\ \A d \in Calls \ {c} : call'[d] = call[d]
    BY <1>1, <1>5 DEF CallRecords, CallPlaces
  <2> QED BY <1>1, <1>2, <1>3, <2>1, QuietChange
<1>6. CASE To(c, "reconnect")
  BY <1>1, <1>2, <1>3, <1>6, QuietTo DEF CallPlaces
<1> QED BY <1>4, <1>5, <1>6 DEF LeavePlayer

LEMMA TimeOutKeeps == ASSUME SharedInv, NEW c \in Calls, TimeOut(c) PROVE SharedInv'
<1>1. /\ call[c].sess # Nil /\ worker \in [Calls -> Nat]
      /\ worker[c] # Nil => worker[c] = inner[call[c].sess]
  BY DEF TimeOut, SharedInv, SessionType, UserInv, CallPlaced, InPlayer
<1>2. UNCHANGED <<session, built, inner, signIn, closer>> /\ worker' = worker
  BY DEF TimeOut, CallStep, loginVars
<1>3. CASE worker[c] = Nil
  <2>1. call' = [call EXCEPT ![c] = Returned]
    BY <1>3 DEF TimeOut
  <2>2. worker' = [worker EXCEPT ![c] = Nil]
    BY <1>1, <1>2, <1>3
  <2> QED BY <1>2, <2>1, <2>2, QuietReturn
<1>4. CASE worker[c] # Nil
  <2>1. To(c, "left")
    BY <1>4 DEF TimeOut, To
  <2> QED BY <1>1, <1>2, <2>1, QuietTo DEF CallPlaces
<1> QED BY <1>3, <1>4

LEMMA WorkerReturnsKeeps ==
  ASSUME SharedInv, NEW c \in Calls, WorkerReturns(c) PROVE SharedInv'
<1>1. UNCHANGED <<session, built, inner, signIn, closer>>
  BY DEF WorkerReturns, CallStep, loginVars
<1> QED BY <1>1, QuietReturn DEF WorkerReturns

(* A login that is built has a new number, and no player is moved.         *)
LEMMA BuildNext ==
  ASSUME SharedInv, Build
  PROVE  \E n \in Nat : n = built + 1 /\ built' = n /\ n # Nil
  BY DEF SharedInv, SessionType, Build, Nil

LEMMA BuildKeepsPlayers ==
  ASSUME SharedInv, Build, NEW d \in Calls, worker[d] # Nil
  PROVE  /\ call[d].pc \in {"open", "left"} /\ worker[d] = inner[call[d].sess]
         /\ inner'[call[d].sess] = inner[call[d].sess]
<1>0. PICK n \in Nat : n = built + 1 /\ built' = n /\ n # Nil
  BY BuildNext
<1>1. /\ worker[d] = inner[call[d].sess] /\ call[d].pc \in {"open", "left"}
      /\ call[d].sess # Nil
  BY DEF SharedInv, UserInv, InPlayer, CallPlaced
<1>2. call[d].sess \in Nat /\ call[d].sess <= built /\ built <= MaxBuilt /\ built \in Nat
  BY DEF SharedInv, BoundInv, SessionType, CallRecords
<1>3. call[d].sess \in Logins /\ call[d].sess # n
  BY <1>0, <1>1, <1>2, SessionAssumption DEF Logins, Nil
<1>4. inner' = [inner EXCEPT ![n] = n] /\ inner \in [Logins -> Nat]
  BY <1>0 DEF Build, SharedInv, SessionType
<1> QED BY <1>1, <1>3, <1>4

(* A call builds a login, at the start or for the one that was dropped.    *)
LEMMA CallBuilds ==
  ASSUME SharedInv, Build, UNCHANGED <<session, signIn, closer, worker>>,
         NEW c \in Calls, call[c].pc \in {"build", "reconnect"}, worker[c] = Nil,
         NEW place \in {"publish", "swap"},
         place = "swap" => call[c].sess # Nil,
         call' = [call EXCEPT ![c].pc = place, ![c].new = built']
  PROVE  SharedInv'
<1>0. PICK n \in Nat : n = built + 1 /\ built' = n /\ n # Nil
  BY BuildNext
<1>1. call \in CallRecords /\ worker \in [Calls -> Nat]
  BY DEF SharedInv, SessionType
<1>2. call' = [call EXCEPT ![c].pc = place, ![c].new = n]
  BY <1>0
<1>3. call' \in CallRecords
  <2>1. place \in CallPlaces
    <3>1. "publish" \in CallPlaces /\ "swap" \in CallPlaces
      BY Zenon DEF CallPlaces
    <3> QED BY <3>1
  <2> DEFINE r == [call[c] EXCEPT !.pc = place, !.new = n]
  <2>2. r \in [pc : CallPlaces, sess : Nat, new : Nat, tries : Nat]
    BY <1>0, <1>1, <2>1 DEF CallRecords
  <2>3. call' = [call EXCEPT ![c] = r]
    BY <1>2
  <2> HIDE DEF r
  <2> QED BY <1>1, <2>2, <2>3 DEF CallRecords
<1>4. /\ call'[c].pc = place /\ call'[c].sess = call[c].sess /\ call'[c].new = n
      /\ \A d \in Calls \ {c} : call'[d] = call[d]
  BY <1>1, <1>2 DEF CallRecords
<1>5. Builds
  BY <1>0, <1>4 DEF Builds
<1>6. BoundInv' /\ OwnInv' /\ ApartInv' /\ inner' \in [Logins -> Nat] /\ built' \in Nat
  BY <1>5, BuildsKeeps DEF SharedInv
<1>7. SessionType'
  BY <1>3, <1>6 DEF SharedInv, SessionType
<1>8. \A d \in Calls : CallPlaced(d)'
  BY <1>0, <1>4 DEF CallPlaced, SharedInv, UserInv
<1>9. \A d \in Calls : InPlayer(d)'
  <2> SUFFICES ASSUME NEW d \in Calls, worker[d] # Nil PROVE InPlayer(d)'
    BY DEF InPlayer
  <2>1. call'[d] = call[d]
    BY <1>4
  <2> QED BY <2>1, BuildKeepsPlayers DEF InPlayer
<1>10. UserInv'
  BY <1>8, <1>9 DEF SharedInv, UserInv, SignInPlaced
<1> QED BY <1>6, <1>7, <1>10 DEF SharedInv

LEMMA BuildSessionKeeps ==
  ASSUME SharedInv, NEW c \in Calls, BuildSession(c) PROVE SharedInv'
<1>1. worker[c] = Nil /\ worker \in [Calls -> Nat] /\ call[c].pc = "build"
      /\ UNCHANGED <<session, signIn, closer, worker>>
  BY DEF BuildSession, CallStep, SharedInv, SessionType, UserInv, InPlayer
<1>2. CASE Build /\ call' = [call EXCEPT ![c].pc = "publish", ![c].new = built']
  BY <1>1, <1>2, CallBuilds
<1>3. CASE To(c, "failed") /\ UNCHANGED loginVars
  BY <1>1, <1>3, QuietTo DEF loginVars, CallPlaces
<1> QED BY <1>2, <1>3 DEF BuildSession

LEMMA ReconnectKeeps == ASSUME SharedInv, NEW c \in Calls, Reconnect(c) PROVE SharedInv'
<1>1. worker[c] = Nil /\ worker \in [Calls -> Nat] /\ call[c].pc = "reconnect"
      /\ call[c].sess # Nil /\ UNCHANGED <<session, signIn, closer, worker>>
  BY DEF Reconnect, CallStep, SharedInv, SessionType, UserInv, InPlayer, CallPlaced
<1>2. CASE Build /\ call' = [call EXCEPT ![c].pc = "swap", ![c].new = built']
  BY <1>1, <1>2, CallBuilds
<1>3. CASE call' = [call EXCEPT ![c] = Returned] /\ UNCHANGED loginVars
  <2>1. worker' = [worker EXCEPT ![c] = Nil]
    BY <1>1
  <2> QED BY <1>1, <1>3, <2>1, QuietReturn DEF loginVars
<1> QED BY <1>2, <1>3 DEF Reconnect

LEMMA PublishSessionKeeps ==
  ASSUME SharedInv, NEW c \in Calls, PublishSession(c) PROVE SharedInv'
<1>1. call \in CallRecords /\ call[c].new \in Nat /\ call[c].new # Nil
  BY DEF PublishSession, SharedInv, SessionType, CallRecords, UserInv, CallPlaced
<1>2. /\ call' = [call EXCEPT ![c].pc = "landed", ![c].new = Nil] /\ session' = call[c].new
      /\ UNCHANGED <<signIn, closer, worker, built, inner>> /\ closer # "tear"
  BY DEF PublishSession, Publish, MuFree, CallStep, loginVars
<1>3. /\ call' \in CallRecords
      /\ call'[c].pc = "landed" /\ call'[c].sess = call[c].sess /\ call'[c].new = Nil
      /\ \A d \in Calls \ {c} : call'[d] = call[d]
  BY <1>1, <1>2 DEF CallRecords, CallPlaces, Nil
<1>4. Unseen(call[c].new) /\ call[c].new <= built
      /\ (\A d \in Calls \ {c} : call[d].new # call[c].new)
      /\ \A a \in SignIns : signIn[a].new # call[c].new
  BY <1>1 DEF SharedInv, OwnInv, BoundInv
<1>5. Publishes(call[c].new)
  <2>1. /\ \A d \in Calls : call'[d].sess = call[d].sess
        /\ \A d \in Calls : call'[d].new \in {Nil, call[d].new} \ {call[c].new}
    BY <1>1, <1>3, <1>4
  <2> QED BY <1>1, <1>2, <1>4, <2>1 DEF Publishes
<1>6. BoundInv' /\ OwnInv' /\ ApartInv'
  BY <1>5, PublishesKeeps DEF SharedInv
<1>7. SessionType'
  BY <1>1, <1>2, <1>3 DEF SharedInv, SessionType
<1>8. \A d \in Calls : CallPlaced(d)'
  BY <1>3 DEF CallPlaced, SharedInv, UserInv
<1>9. \A d \in Calls : InPlayer(d)'
  BY <1>2, <1>3 DEF InPlayer, SharedInv, UserInv, PublishSession
<1>10. UserInv'
  BY <1>2, <1>8, <1>9 DEF SharedInv, UserInv, SignInPlaced
<1> QED BY <1>6, <1>7, <1>10 DEF SharedInv

(* A swap leaves the players that a call is in where they are.             *)
LEMMA SwapKeepsPlayers ==
  ASSUME SharedInv, NEW s, NEW x, Swaps(s, x), NEW d \in Calls, worker[d] # Nil
  PROVE  /\ call[d].sess \in Logins \ {s, x} /\ call[d].sess # Nil
         /\ inner'[call[d].sess] = inner[call[d].sess]
<1>1. call[d].pc \in {"open", "left"} /\ call[d].sess # Nil /\ call[d].sess \in Nat
  BY DEF SharedInv, UserInv, InPlayer, CallPlaced, SessionType, CallRecords
<1>2. call[d].sess \in Logins
  BY <1>1, SessionAssumption DEF SharedInv, BoundInv, SessionType, Logins, Nil
<1>3. call[d].sess # s
  BY DEF Swaps, Swap, MaySwap, Alone
<1>4. call[d].sess # x
  BY DEF Swaps, Unseen
<1>5. inner' = [inner EXCEPT ![s] = x, ![x] = Nil] /\ inner \in [Logins -> Nat]
  BY DEF Swaps, Swap, SharedInv, SessionType
<1> QED BY <1>1, <1>2, <1>3, <1>4, <1>5

LEMMA SwapLoginSwaps ==
  ASSUME SharedInv, NEW c \in Calls, SwapLogin(c)
  PROVE  /\ Swaps(call[c].sess, call[c].new) /\ call' \in CallRecords
         /\ call'[c].pc = "try" /\ call'[c].sess = call[c].sess
         /\ \A d \in Calls \ {c} : call'[d] = call[d]
<1>1. /\ call \in CallRecords /\ call[c].new \in Nat /\ call[c].new # Nil
      /\ call[c].sess \in Nat /\ call[c].sess # Nil
  BY DEF SwapLogin, SharedInv, SessionType, CallRecords, UserInv, CallPlaced
<1>2. /\ call' = [call EXCEPT ![c].pc = "try", ![c].new = Nil, ![c].tries = 3]
      /\ Swap(call[c].sess, call[c].new) /\ UNCHANGED <<session, signIn>>
  BY DEF SwapLogin, CallStep
<1>3. /\ call' \in CallRecords
      /\ call'[c].pc = "try" /\ call'[c].sess = call[c].sess /\ call'[c].new = Nil
      /\ \A d \in Calls \ {c} : call'[d] = call[d]
  BY <1>1, <1>2 DEF CallRecords, CallPlaces, Nil
<1>4. call[c].new \in Logins /\ call[c].sess \in Logins
  BY <1>1, SessionAssumption DEF SharedInv, BoundInv, SessionType, Logins, Nil
<1>5. Unseen(call[c].new) /\ inner[call[c].new] = call[c].new
      /\ (\A d \in Calls \ {c} : call[d].new # call[c].new)
      /\ \A a \in SignIns : signIn[a].new # call[c].new
  BY <1>1 DEF SharedInv, OwnInv
<1>6. ~Unseen(call[c].sess)
  BY DEF Unseen
<1>7. \A d \in Calls : /\ call'[d].new \in {Nil, call[d].new} \ {call[c].new}
                       /\ call'[d].sess = call[d].sess
  BY <1>1, <1>3, <1>5
<1>8. \A a \in SignIns : /\ signIn'[a].new \in {Nil, signIn[a].new} \ {call[c].new}
                         /\ signIn'[a].existing = signIn[a].existing
  BY <1>2, <1>5
<1>9. Swaps(call[c].sess, call[c].new)
  BY <1>2, <1>4, <1>5, <1>6, <1>7, <1>8 DEF Swaps
<1> QED BY <1>3, <1>9

LEMMA SwapLoginKeeps == ASSUME SharedInv, NEW c \in Calls, SwapLogin(c) PROVE SharedInv'
<1>1. /\ Swaps(call[c].sess, call[c].new) /\ call' \in CallRecords
      /\ call'[c].pc = "try" /\ call'[c].sess = call[c].sess
      /\ \A d \in Calls \ {c} : call'[d] = call[d]
  BY SwapLoginSwaps
<1>2. UNCHANGED <<session, signIn, closer, worker>> /\ call[c].pc = "swap"
  BY DEF SwapLogin, CallStep
<1>3. BoundInv' /\ OwnInv' /\ ApartInv' /\ inner' \in [Logins -> Nat] /\ UNCHANGED built
  BY <1>1, SwapsKeeps DEF SharedInv
<1>4. SessionType'
  BY <1>1, <1>2, <1>3 DEF SharedInv, SessionType
<1>5. \A d \in Calls : CallPlaced(d)'
  BY <1>1, <1>2 DEF CallPlaced, SharedInv, UserInv
<1>6. \A d \in Calls : InPlayer(d)'
  <2> SUFFICES ASSUME NEW d \in Calls, worker[d] # Nil PROVE InPlayer(d)'
    BY <1>2 DEF InPlayer
  <2>1. inner'[call[d].sess] = inner[call[d].sess]
    BY <1>1, SwapKeepsPlayers
  <2>2. d # c /\ call[d].pc \in {"open", "left"} /\ worker[d] = inner[call[d].sess]
    BY <1>2 DEF SharedInv, UserInv, InPlayer
  <2> QED BY <1>1, <1>2, <2>1, <2>2 DEF InPlayer
<1>7. UserInv'
  BY <1>2, <1>5, <1>6 DEF SharedInv, UserInv, SignInPlaced
<1> QED BY <1>3, <1>4, <1>7 DEF SharedInv

-----------------------------------------------------------------------------
(* The steps of the sign-ins                                               *)

LEMMA QuietSignIn ==
  ASSUME SharedInv, UNCHANGED <<session, built, inner, call, worker, closer>>,
         NEW a \in SignIns, signIn' \in SignInRecords,
         \A b \in SignIns \ {a} : signIn'[b] = signIn[b],
         signIn'[a].new \in {Nil, signIn[a].new},
         signIn'[a].existing \in {Nil, session, signIn[a].existing},
         signIn'[a].pc # "swap"
  PROVE  SharedInv'
<1>1. Passes
  BY DEF Passes
<1>2. BoundInv' /\ OwnInv' /\ ApartInv'
  BY <1>1, PassesKeeps DEF SharedInv
<1>3. SessionType'
  BY DEF SharedInv, SessionType
<1>4. UserInv'
  BY DEF SharedInv, UserInv, CallPlaced, InPlayer, SignInPlaced
<1> QED BY <1>2, <1>3, <1>4 DEF SharedInv

LEMMA RegisterKeeps == ASSUME SharedInv, NEW a \in SignIns, Register(a) PROVE SharedInv'
<1>1. signIn \in SignInRecords /\ session \in Nat
  BY DEF SharedInv, SessionType
<1>2. signIn' = [signIn EXCEPT ![a] = [NoSignIn EXCEPT !.pc = "browser", !.existing = session]]
      /\ UNCHANGED <<session, built, inner, call, worker, closer>>
  BY DEF Register, SignInStep, loginVars
<1>3. /\ signIn' \in SignInRecords
      /\ signIn'[a].pc = "browser" /\ signIn'[a].existing = session /\ signIn'[a].new = Nil
      /\ \A b \in SignIns \ {a} : signIn'[b] = signIn[b]
  BY <1>1, <1>2 DEF NoSignIn, SignInRecords, SignInPlaces, Nil
<1> QED BY <1>2, <1>3, QuietSignIn

LEMMA BrowserKeeps == ASSUME SharedInv, NEW a \in SignIns, Browser(a) PROVE SharedInv'
<1>1. signIn \in SignInRecords /\ signIn[a].existing \in Nat
      /\ UNCHANGED <<session, call, worker, closer>>
  BY DEF Browser, SignInStep, SharedInv, SessionType, SignInRecords
<1>2. CASE signIn' = [signIn EXCEPT ![a].pc = "failed"] /\ UNCHANGED loginVars
  <2>1. /\ signIn' \in SignInRecords
        /\ signIn'[a].pc = "failed" /\ signIn'[a].existing = signIn[a].existing
        /\ signIn'[a].new = signIn[a].new
        /\ \A b \in SignIns \ {a} : signIn'[b] = signIn[b]
    BY <1>1, <1>2 DEF SignInRecords, SignInPlaces
  <2> QED BY <1>1, <1>2, <2>1, QuietSignIn DEF loginVars
<1>3. CASE /\ Build
           /\ signIn' = [signIn EXCEPT ![a].new = built',
                           ![a].pc = IF signIn[a].existing = Nil THEN "signed in" ELSE "swap"]
  <2>0. PICK n \in Nat : n = built + 1 /\ built' = n /\ n # Nil
    BY <1>3, BuildNext
  <2>1. PICK place \in {"signed in", "swap"} :
          /\ place = "swap" => signIn[a].existing # Nil
          /\ signIn' = [signIn EXCEPT ![a].new = n, ![a].pc = place]
    BY <1>3, <2>0
  <2>2. signIn' \in SignInRecords
    BY <1>1, <2>1 DEF SignInRecords, SignInPlaces
  <2>3. /\ signIn'[a].pc = place /\ signIn'[a].existing = signIn[a].existing
        /\ signIn'[a].new = n
        /\ \A b \in SignIns \ {a} : signIn'[b] = signIn[b]
    BY <1>1, <2>1 DEF SignInRecords
  <2>4. Builds
    BY <1>1, <1>3, <2>0, <2>3 DEF Builds
  <2>5. BoundInv' /\ OwnInv' /\ ApartInv' /\ inner' \in [Logins -> Nat] /\ built' \in Nat
    BY <2>4, BuildsKeeps DEF SharedInv
  <2>6. SessionType'
    BY <1>1, <2>2, <2>5 DEF SharedInv, SessionType
  <2>7. \A d \in Calls : InPlayer(d)'
    <3> SUFFICES ASSUME NEW d \in Calls, worker[d] # Nil PROVE InPlayer(d)'
      BY <1>1 DEF InPlayer
    <3> QED BY <1>1, <1>3, BuildKeepsPlayers DEF InPlayer
  <2>8. \A b \in SignIns : SignInPlaced(b)'
    BY <2>0, <2>1, <2>3 DEF SignInPlaced, SharedInv, UserInv
  <2>9. UserInv'
    BY <1>1, <2>7, <2>8 DEF SharedInv, UserInv, CallPlaced
  <2> QED BY <2>5, <2>6, <2>9 DEF SharedInv
<1> QED BY <1>2, <1>3 DEF Browser

LEMMA SwapSignedInSwaps ==
  ASSUME SharedInv, NEW a \in SignIns, SwapSignedIn(a)
  PROVE  /\ Swaps(signIn[a].existing, signIn[a].new) /\ signIn' \in SignInRecords
         /\ signIn'[a].pc = "signed in"
         /\ \A b \in SignIns \ {a} : signIn'[b] = signIn[b]
<1>1. /\ signIn \in SignInRecords /\ signIn[a].new \in Nat /\ signIn[a].new # Nil
      /\ signIn[a].existing \in Nat /\ signIn[a].existing # Nil
  BY DEF SwapSignedIn, SharedInv, SessionType, SignInRecords, UserInv, SignInPlaced
<1>2. /\ signIn' = [signIn EXCEPT ![a].pc = "signed in", ![a].new = Nil]
      /\ Swap(signIn[a].existing, signIn[a].new) /\ UNCHANGED <<session, call>>
  BY DEF SwapSignedIn, SignInStep
<1>3. /\ signIn' \in SignInRecords
      /\ signIn'[a].pc = "signed in" /\ signIn'[a].existing = signIn[a].existing
      /\ signIn'[a].new = Nil
      /\ \A b \in SignIns \ {a} : signIn'[b] = signIn[b]
  BY <1>1, <1>2 DEF SignInRecords, SignInPlaces, Nil
<1>4. signIn[a].new \in Logins /\ signIn[a].existing \in Logins
  BY <1>1, SessionAssumption DEF SharedInv, BoundInv, SessionType, Logins, Nil
<1>5. Unseen(signIn[a].new) /\ inner[signIn[a].new] = signIn[a].new
      /\ (\A b \in SignIns \ {a} : signIn[b].new # signIn[a].new)
      /\ \A c \in Calls : call[c].new # signIn[a].new
  BY <1>1 DEF SharedInv, OwnInv
<1>6. ~Unseen(signIn[a].existing)
  BY DEF Unseen
<1>7. \A c \in Calls : /\ call'[c].new \in {Nil, call[c].new} \ {signIn[a].new}
                       /\ call'[c].sess = call[c].sess
  BY <1>2, <1>5
<1>8. \A b \in SignIns : /\ signIn'[b].new \in {Nil, signIn[b].new} \ {signIn[a].new}
                         /\ signIn'[b].existing = signIn[b].existing
  BY <1>1, <1>3, <1>5
<1>9. Swaps(signIn[a].existing, signIn[a].new)
  BY <1>2, <1>4, <1>5, <1>6, <1>7, <1>8 DEF Swaps
<1> QED BY <1>3, <1>9

LEMMA SwapSignedInKeeps ==
  ASSUME SharedInv, NEW a \in SignIns, SwapSignedIn(a) PROVE SharedInv'
<1>1. /\ Swaps(signIn[a].existing, signIn[a].new) /\ signIn' \in SignInRecords
      /\ signIn'[a].pc = "signed in"
      /\ \A b \in SignIns \ {a} : signIn'[b] = signIn[b]
  BY SwapSignedInSwaps
<1>2. UNCHANGED <<session, call, closer, worker>>
  BY DEF SwapSignedIn, SignInStep
<1>3. BoundInv' /\ OwnInv' /\ ApartInv' /\ inner' \in [Logins -> Nat] /\ UNCHANGED built
  BY <1>1, SwapsKeeps DEF SharedInv
<1>4. SessionType'
  BY <1>1, <1>2, <1>3 DEF SharedInv, SessionType
<1>5. \A d \in Calls : InPlayer(d)'
  <2> SUFFICES ASSUME NEW d \in Calls, worker[d] # Nil PROVE InPlayer(d)'
    BY <1>2 DEF InPlayer
  <2>1. inner'[call[d].sess] = inner[call[d].sess]
    BY <1>1, SwapKeepsPlayers
  <2> QED BY <1>2, <2>1 DEF SharedInv, UserInv, InPlayer
<1>6. \A b \in SignIns : SignInPlaced(b)'
  BY <1>1 DEF SignInPlaced, SharedInv, UserInv
<1>7. UserInv'
  BY <1>2, <1>5, <1>6 DEF SharedInv, UserInv, CallPlaced
<1> QED BY <1>3, <1>4, <1>7 DEF SharedInv

LEMMA ClearCancelKeeps ==
  ASSUME SharedInv, NEW a \in SignIns, ClearCancel(a) PROVE SharedInv'
<1>1. signIn \in SignInRecords
  BY DEF SharedInv, SessionType
<1>2. PICK place \in {"returned", "publish"} : signIn' = [signIn EXCEPT ![a].pc = place]
  BY DEF ClearCancel
<1>3. /\ signIn' \in SignInRecords
      /\ signIn'[a].pc = place /\ signIn'[a].existing = signIn[a].existing
      /\ signIn'[a].new = signIn[a].new
      /\ \A b \in SignIns \ {a} : signIn'[b] = signIn[b]
  BY <1>1, <1>2 DEF SignInRecords, SignInPlaces
<1> QED BY <1>3, QuietSignIn DEF ClearCancel, SignInStep, loginVars

LEMMA PublishSignInKeeps ==
  ASSUME SharedInv, NEW a \in SignIns, PublishSignIn(a) PROVE SharedInv'
<1>1. signIn \in SignInRecords /\ signIn[a].new \in Nat
  BY DEF SharedInv, SessionType, SignInRecords
<1>2. /\ signIn' = [signIn EXCEPT ![a] = [NoSignIn EXCEPT !.pc = "returned"]]
      /\ UNCHANGED <<call, closer, worker, built, inner>> /\ closer # "tear"
  BY DEF PublishSignIn, MuFree, SignInStep, loginVars
<1>3. /\ signIn' \in SignInRecords
      /\ signIn'[a].pc = "returned" /\ signIn'[a].existing = Nil /\ signIn'[a].new = Nil
      /\ \A b \in SignIns \ {a} : signIn'[b] = signIn[b]
  BY <1>1, <1>2 DEF NoSignIn, SignInRecords, SignInPlaces, Nil
<1>4. CASE signIn[a].new = Nil
  BY <1>2, <1>3, <1>4, QuietSignIn DEF PublishSignIn
<1>5. CASE signIn[a].new # Nil
  <2>1. session' = signIn[a].new
    BY <1>5 DEF PublishSignIn, Publish
  <2>2. Unseen(signIn[a].new) /\ signIn[a].new <= built
        /\ (\A b \in SignIns \ {a} : signIn[b].new # signIn[a].new)
        /\ \A c \in Calls : call[c].new # signIn[a].new
    BY <1>1, <1>5 DEF SharedInv, OwnInv, BoundInv
  <2>3. Publishes(signIn[a].new)
    BY <1>1, <1>2, <1>3, <1>5, <2>1, <2>2 DEF Publishes
  <2>4. BoundInv' /\ OwnInv' /\ ApartInv'
    BY <2>3, PublishesKeeps DEF SharedInv
  <2>5. SessionType'
    BY <1>1, <1>2, <1>3, <2>1 DEF SharedInv, SessionType
  <2>6. UserInv'
    BY <1>2, <1>3 DEF SharedInv, UserInv, CallPlaced, InPlayer, SignInPlaced
  <2> QED BY <2>4, <2>5, <2>6 DEF SharedInv
<1> QED BY <1>4, <1>5

-----------------------------------------------------------------------------
(* The receivers, Close, and every step                                    *)

LEMMA ReceiverKeeps ==
  ASSUME SharedInv, UNCHANGED <<session, built, inner, call, worker, signIn, closer>>
  PROVE  SharedInv'
  BY DEF SharedInv, SessionType, BoundInv, OwnInv, Unseen, ApartInv, UserInv, CallPlaced,
         InPlayer, SignInPlaced

LEMMA CloseBeginKeeps == ASSUME SharedInv, CloseBegin PROVE SharedInv'
<1>1. UNCHANGED <<session, built, inner, call, worker, signIn>>
      /\ (closer' = "tear" => session # Nil)
  BY DEF CloseBegin, loginVars
<1>2. SessionType' /\ BoundInv' /\ OwnInv' /\ ApartInv'
  BY <1>1 DEF SharedInv, SessionType, BoundInv, OwnInv, Unseen, ApartInv
<1>3. UserInv'
  BY <1>1 DEF SharedInv, UserInv, CallPlaced, InPlayer, SignInPlaced
<1> QED BY <1>2, <1>3 DEF SharedInv

LEMMA CloseSessionKeeps == ASSUME SharedInv, CloseSession PROVE SharedInv'
<1>1. UNCHANGED <<built, inner, call, worker, signIn>> /\ session' = Nil /\ closer' = "closed"
  BY DEF CloseSession
<1>2. Passes
  BY <1>1 DEF Passes
<1>3. BoundInv' /\ OwnInv' /\ ApartInv'
  BY <1>2, PassesKeeps DEF SharedInv
<1>4. SessionType'
  BY <1>1 DEF SharedInv, SessionType, Nil
<1>5. UserInv'
  BY <1>1 DEF SharedInv, UserInv, CallPlaced, InPlayer, SignInPlaced
<1> QED BY <1>3, <1>4, <1>5 DEF SharedInv

LEMMA StepKeeps == ASSUME SharedInv, [Next]_vars PROVE SharedInv'
<1>1. CASE UNCHANGED vars
  BY <1>1, ReceiverKeeps DEF vars, loginVars
<1>2. ASSUME NEW c \in Calls,
             \/ Ensure(c) \/ Do(c) \/ Lead(c) \/ BuildSession(c) \/ PublishSession(c)
             \/ Land(c) \/ Capture(c) \/ EnterPlayer(c) \/ LeavePlayer(c) \/ TimeOut(c)
             \/ WorkerReturns(c) \/ Reconnect(c) \/ SwapLogin(c)
      PROVE  SharedInv'
  BY <1>2, EnsureKeeps, DoKeeps, LeadKeeps, BuildSessionKeeps, PublishSessionKeeps, LandKeeps,
     CaptureKeeps, EnterPlayerKeeps, LeavePlayerKeeps, TimeOutKeeps, WorkerReturnsKeeps,
     ReconnectKeeps, SwapLoginKeeps
<1>3. ASSUME NEW a \in SignIns,
             \/ Register(a) \/ Browser(a) \/ SwapSignedIn(a) \/ ClearCancel(a)
             \/ PublishSignIn(a)
      PROVE  SharedInv'
  BY <1>3, RegisterKeeps, BrowserKeeps, SwapSignedInKeeps, ClearCancelKeeps, PublishSignInKeeps
<1>4. ASSUME NEW s \in Logins,
             Bind(s) \/ ServeEnds(s) \/ Logout(s) \/ Served(s) \/ Park(s) \/ Unpark(s)
      PROVE  SharedInv'
  <2>1. UNCHANGED <<session, built, inner, call, worker, signIn, closer>>
    BY <1>4 DEF Bind, ServeEnds, Logout, Served, Park, Unpark, ReceiverStep
  <2> QED BY <2>1, ReceiverKeeps
<1> QED BY <1>1, <1>2, <1>3, <1>4, CloseBeginKeeps, CloseSessionKeeps DEF Next

-----------------------------------------------------------------------------
(* The players that are in use                                             *)

Kept == \A c \in Calls : worker[c] # Nil /\ worker[c] \notin closed => worker[c] \notin closed'

(* Only a swap and Close close a login, and both wait for its Session.     *)
LEMMA InUse ==
  ASSUME SharedInv, NEW s \in Logins, Alone(s), closed' = closed \cup {inner[s]}
  PROVE  Kept
<1> SUFFICES ASSUME NEW c \in Calls, worker[c] # Nil PROVE worker[c] # inner[s]
  BY DEF Kept
<1>1. /\ call[c].sess # s /\ worker[c] = inner[call[c].sess]
      /\ call[c].sess # Nil /\ call[c].sess \in Nat
  BY DEF Alone, SharedInv, UserInv, InPlayer, CallPlaced, SessionType, CallRecords
<1>2. call[c].sess \in Logins
  BY <1>1, SessionAssumption DEF SharedInv, SessionType, BoundInv, Logins, Nil
<1> QED BY <1>1, <1>2 DEF SharedInv, ApartInv

LEMMA StepKeepsPlayers == ASSUME SharedInv, [Next]_vars PROVE Kept
<1>1. CASE UNCHANGED closed
  BY <1>1 DEF Kept
<1>2. ASSUME NEW c \in Calls, SwapLogin(c) PROVE Kept
  <2>1. Swaps(call[c].sess, call[c].new)
    BY <1>2, SwapLoginSwaps
  <2> QED BY <2>1, InUse DEF Swaps, Swap, MaySwap
<1>3. ASSUME NEW a \in SignIns, SwapSignedIn(a) PROVE Kept
  <2>1. Swaps(signIn[a].existing, signIn[a].new)
    BY <1>3, SwapSignedInSwaps
  <2> QED BY <2>1, InUse DEF Swaps, Swap, MaySwap
<1>4. CASE CloseSession
  <2>1. session \in Nat /\ session # Nil /\ session <= built /\ built <= MaxBuilt
    BY <1>4 DEF CloseSession, SharedInv, SessionType, BoundInv, UserInv
  <2>2. session \in Logins
    BY <2>1, SessionAssumption DEF SharedInv, SessionType, Logins, Nil
  <2> QED BY <1>4, <2>2, InUse DEF CloseSession
<1>5. ASSUME NEW c \in Calls,
             \/ Ensure(c) \/ Do(c) \/ Lead(c) \/ BuildSession(c) \/ PublishSession(c)
             \/ Land(c) \/ Capture(c) \/ EnterPlayer(c) \/ LeavePlayer(c) \/ TimeOut(c)
             \/ WorkerReturns(c) \/ Reconnect(c)
      PROVE  UNCHANGED closed
  BY <1>5 DEF Ensure, Do, Lead, BuildSession, PublishSession, Land, Capture, EnterPlayer,
              LeavePlayer, TimeOut, WorkerReturns, Reconnect, Build, loginVars
<1>6. ASSUME NEW a \in SignIns, Register(a) \/ Browser(a) \/ ClearCancel(a) \/ PublishSignIn(a)
      PROVE  UNCHANGED closed
  BY <1>6 DEF Register, Browser, ClearCancel, PublishSignIn, Build, loginVars
<1>7. ASSUME NEW s \in Logins,
             Bind(s) \/ ServeEnds(s) \/ Logout(s) \/ Served(s) \/ Park(s) \/ Unpark(s)
      PROVE  UNCHANGED closed
  BY <1>7 DEF Bind, ServeEnds, Logout, Served, Park, Unpark, ReceiverStep
<1>8. CASE CloseBegin
  BY <1>1, <1>8 DEF CloseBegin, loginVars
<1>9. CASE UNCHANGED vars
  BY <1>1, <1>9 DEF vars, loginVars
<1> QED BY <1>1, <1>2, <1>3, <1>4, <1>5, <1>6, <1>7, <1>8, <1>9 DEF Next

(* For any number of calls, sign-ins and logins: no step closes a login    *)
(* whose player a worker is in, be it a reconnect's, a sign-in's or        *)
(* Close's (session.go, reconnect; provider.go, Close).                    *)
THEOREM PlayersAreKept == Spec => PlayersKept
<1>1. Init => SharedInv
  BY InitKeeps
<1>2. SharedInv /\ [Next]_vars => SharedInv'
  BY StepKeeps
<1>3. SharedInv /\ [Next]_vars => Kept
  BY StepKeepsPlayers
<1> QED BY <1>1, <1>2, <1>3, PTL DEF Spec, PlayersKept, Kept

-----------------------------------------------------------------------------
(* The sign-in that can be canceled                                        *)

LEMMA StepKeepsCancel == ASSUME SharedInv, CancelInv, [Next]_vars PROVE CancelInv'
<1>0. signIn \in SignInRecords
  BY DEF SharedInv, SessionType
<1>1. CASE UNCHANGED <<authVars, signIn>>
  BY <1>1 DEF CancelInv, SignInCancelable, authVars
<1>2. ASSUME NEW a \in SignIns, Register(a) PROVE CancelInv'
  <2>1. /\ authCancel' = a /\ authGen' = a /\ canceled' = (canceled \cup {authCancel}) \ {None}
        /\ \A b \in SignIns \ {a} : signIn'[b] = signIn[b]
    BY <1>0, <1>2 DEF Register, SignInRecords
  <2> QED BY <2>1, SessionAssumption DEF CancelInv, SignInCancelable
<1>3. ASSUME NEW a \in SignIns, Browser(a) \/ SwapSignedIn(a) \/ PublishSignIn(a)
      PROVE  CancelInv'
  <2>1. UNCHANGED authVars /\ \A b \in SignIns \ {a} : signIn'[b] = signIn[b]
    BY <1>0, <1>3 DEF Browser, SwapSignedIn, PublishSignIn, SignInRecords
  <2>2. signIn'[a].pc # "browser"
    BY <1>0, <1>3 DEF Browser, SwapSignedIn, PublishSignIn, SignInRecords, NoSignIn
  <2> QED BY <2>1, <2>2 DEF CancelInv, SignInCancelable, authVars
<1>4. ASSUME NEW a \in SignIns, ClearCancel(a) PROVE CancelInv'
  <2>1. /\ signIn[a].pc # "browser" /\ UNCHANGED <<authGen, canceled>>
        /\ authCancel' = IF authGen = a THEN None ELSE authCancel
        /\ \A b \in SignIns \ {a} : signIn'[b] = signIn[b]
    BY <1>0, <1>4 DEF ClearCancel, Own, SignInRecords
  <2>2. signIn'[a].pc # "browser"
    BY <1>0, <1>4 DEF ClearCancel, SignInRecords
  <2> QED BY <2>1, <2>2, SessionAssumption DEF CancelInv, SignInCancelable
<1>5. CASE CloseBegin
  BY <1>5, SessionAssumption DEF CloseBegin, CancelInv, SignInCancelable
<1>6. ASSUME NEW c \in Calls,
             \/ Ensure(c) \/ Do(c) \/ Lead(c) \/ BuildSession(c) \/ PublishSession(c)
             \/ Land(c) \/ Capture(c) \/ EnterPlayer(c) \/ LeavePlayer(c) \/ TimeOut(c)
             \/ WorkerReturns(c) \/ Reconnect(c) \/ SwapLogin(c)
      PROVE  UNCHANGED <<authVars, signIn>>
  BY <1>6 DEF Ensure, Do, Lead, BuildSession, PublishSession, Land, Capture, EnterPlayer,
              LeavePlayer, TimeOut, WorkerReturns, Reconnect, SwapLogin, CallStep
<1>7. ASSUME NEW s \in Logins,
             Bind(s) \/ ServeEnds(s) \/ Logout(s) \/ Served(s) \/ Park(s) \/ Unpark(s)
      PROVE  UNCHANGED <<authVars, signIn>>
  BY <1>7 DEF Bind, ServeEnds, Logout, Served, Park, Unpark, ReceiverStep
<1>8. CASE CloseSession
  BY <1>1, <1>8 DEF CloseSession
<1>9. CASE UNCHANGED vars
  BY <1>1, <1>9 DEF vars
<1> QED BY <1>1, <1>2, <1>3, <1>4, <1>5, <1>6, <1>7, <1>8, <1>9 DEF Next

(* For any number of sign-ins: one that waits for the browser is the one   *)
(* that authCancel names or is canceled, whoever ends, starts or closes    *)
(* meanwhile (provider.go, Authenticate, authCancel).                      *)
THEOREM SignInsCancelable == Spec => []SignInCancelable
<1>1. Init => SharedInv /\ CancelInv
  BY InitKeeps
<1>2. SharedInv /\ CancelInv /\ [Next]_vars => (SharedInv /\ CancelInv)'
  BY StepKeeps, StepKeepsCancel
<1>3. CancelInv => SignInCancelable
  BY DEF CancelInv
<1> QED BY <1>1, <1>2, <1>3, PTL DEF Spec

-----------------------------------------------------------------------------
(* The receiver and the TUI                                                *)

Names == Tracks \cup Uris \cup {First, None}
TuiStates == [track : Names, playing : BOOLEAN, paused : BOOLEAN,
              load : {"no", "opening", "open", "failed"}, hold : BOOLEAN]
Messages == [kind : {"tracks", "pause", "resume", "next", "volume"}, track : Names,
             paused : BOOLEAN]
Snapshots == [track : Names, status : {"stopped", "paused", "playing"}]
SleepTimers == [timer : BOOLEAN, end : BOOLEAN, track : Names,
                state : {"none", "timestamp", "end of track"}]

(* The types of what the receiver and the TUI tell each other.             *)
ConnectType ==
  /\ tui \in TuiStates
  /\ snap \in Snapshots
  /\ inbox = <<>> \/ \E m \in Messages : inbox = <<m>>
  /\ at \in {"select", "load", "off"}
  /\ at = "load" => job \in [track : Uris, paused : BOOLEAN]
  /\ sleep \in SleepTimers
  /\ limited \in Nat

(* A takeover that Spotify was told of is backed by the claim, or by a TUI *)
(* that plays and that nothing on its way stops.                           *)
TakeInv ==
  /\ ~tui.playing => snap.status = "stopped"
  /\ taking =>
       /\ shown.status # "stopped"
       /\ at = "load" => claim # None
       /\ at # "load" => inbox = <<>> \/ inbox[1].kind # "next"
       /\ claim # None => ~claim.late
       /\ claim = None => snap.status # "stopped"

(* Nothing goes on but what is held as soon as it is open.                 *)
Held ==
  CASE tui.load = "no" -> tui.paused \/ ~tui.playing
    [] tui.load = "opening" -> tui.hold
    [] tui.load = "open" -> tui.hold \/ tui.paused \/ ~tui.playing
    [] tui.load = "failed" -> TRUE

PauseInv ==
  wish = "pause" =>
    IF inbox = <<>> \/ inbox[1].kind = "volume" THEN Held
    ELSE inbox[1].kind = "pause" \/ (inbox[1].kind = "tracks" /\ inbox[1].paused)

(* What Spotify was told is out of date while an update or a PUT is due,   *)
(* after a PUT that got lost, or with a takeover that was not fulfilled.   *)
ToldInv ==
  /\ spotConnID /\ ~dirty /\ ~putTimer => Remote!Told \/ lost \/ Remote!Unfulfilled
  /\ ~dirty => ~Remote!TrackEnded
  /\ ~spotConnID => ~sleep.end

ConnectInv == ConnectType /\ TakeInv /\ PauseInv /\ ToldInv

(* It holds when the receiver starts.                                      *)
LEMMA ConnectInit ==
  ASSUME Remote!Init
  PROVE  ConnectInv
<1> USE DEF Remote!Init
<1>1. snap \in Snapshots /\ (~tui.playing => snap.status = "stopped")
  BY DEF Remote!State, Snapshots, Names
<1>2. tui \in TuiStates
  BY DEF TuiStates, Names
<1>3. sleep \in SleepTimers /\ sleep.end = FALSE
  BY DEF Remote!Awake, SleepTimers, Names
<1>4. ConnectType
  BY <1>1, <1>2, <1>3 DEF ConnectType
<1>5. TakeInv
  BY <1>1 DEF TakeInv
<1>6. PauseInv
  BY DEF PauseInv
<1>7. ToldInv
  BY <1>3 DEF ToldInv, Remote!TrackEnded
<1> QED BY <1>4, <1>5, <1>6, <1>7 DEF ConnectInv

(* What a PUT tells, with c the claim that stands in. *)
LEMMA FlushTells ==
  ASSUME ConnectType, NEW c, NEW timer, spotConnID', Remote!Flush(c, timer), UNCHANGED snap
  PROVE  /\ claim' # None => claim' = c /\ ~c.late /\ ~Remote!Loaded(c)
         /\ claim' = None => c = None \/ c.late \/ Remote!Loaded(c)
         /\ limited' \in Nat
         /\ \/ /\ limited' = limited /\ putTimer' = timer
               /\ claim' # None => shown'.status \in {"paused", "playing"}
               /\ claim' = None => shown'.status = snap.status
               /\ Remote!Told' \/ Remote!Unfulfilled'
            \/ limited' # limited /\ putTimer' = TRUE /\ UNCHANGED shown
            \/ lost' = TRUE /\ UNCHANGED shown
<1>1. claim' = Remote!ActiveClaim(c)
  BY DEF Remote!Flush
<1>2. /\ claim' # None => claim' = c /\ ~c.late /\ ~Remote!Loaded(c)
      /\ claim' = None => c = None \/ c.late \/ Remote!Loaded(c)
  BY <1>1 DEF Remote!ActiveClaim
<1>3. CASE shown' = Remote!PlayerState(claim') /\ putTimer' = timer /\ limited' = limited
  <2>1. ASSUME claim' # None
        PROVE  /\ shown'.status \in {"paused", "playing"} /\ shown'.track = c.uri
               /\ shown'.buffering = TRUE
    BY <1>2, <1>3, <2>1 DEF Remote!PlayerState
  <2>2. ASSUME claim' = None
        PROVE  /\ shown'.track = IF snap.track \in Uris THEN snap.track ELSE None
               /\ shown'.status = snap.status /\ shown'.sleep = sleep'.state
    BY <1>3, <2>2 DEF Remote!PlayerState
  <2>3. claim' # None => Remote!Unfulfilled'
    BY <1>2, <2>1 DEF Remote!Unfulfilled, Remote!Loaded
  <2>4. claim' = None => Remote!Told'
    BY <2>2 DEF Remote!Told
  <2>5. limited \in Nat
    BY DEF ConnectType
  <2> QED BY <1>2, <1>3, <2>1, <2>2, <2>3, <2>4, <2>5
<1>4. CASE limited < MaxLimited /\ limited' = limited + 1 /\ putTimer' = TRUE /\ UNCHANGED shown
  <2>0. limited \in Nat
    BY DEF ConnectType
  <2>1. limited' \in Nat /\ limited' # limited
    BY <1>4, <2>0
  <2> QED BY <1>2, <1>4, <2>1
<1>5. CASE lost' = TRUE /\ UNCHANGED <<shown, limited>>
  <2>1. limited' \in Nat
    BY <1>5 DEF ConnectType
  <2> QED BY <1>2, <1>5, <2>1
<1> QED BY <1>3, <1>4, <1>5 DEF Remote!Flush


(* A command of Spotify that takes the playback over, or is refused.       *)
LEMMA TakeoverKeeps ==
  ASSUME ConnectInv, NEW t \in Uris, NEW paused \in BOOLEAN,
         Remote!CmdTransfer(t, paused) \/ Remote!CmdPlay(t, paused)
  PROVE  ConnectInv'
<1> USE DEF ConnectInv
<1>1. /\ at = "select" /\ spotConnID
      /\ UNCHANGED <<spotConnID, sleep, dirty, inbox, wish, tui, snap>>
  BY DEF Remote!CmdTransfer, Remote!CmdPlay, Remote!Command, Remote!Message, Remote!TakesOver, Remote!Keeps
<1>2. CASE Remote!Refuse
  <2>1. UNCHANGED <<at, job, taking, claim, putTimer, early, shown, lost, limited>>
    BY <1>2 DEF Remote!Refuse, Remote!KeepsPut, Remote!putVars
  <2>2. ConnectType'
    BY <1>1, <2>1 DEF ConnectType
  <2>3. TakeInv' /\ PauseInv' /\ ToldInv'
    BY <1>1, <2>1 DEF TakeInv, PauseInv, Held, ToldInv, Remote!Told, Remote!Unfulfilled, Remote!TrackEnded
  <2> QED BY <2>2, <2>3
<1>3. ASSUME Remote!ClaimPlayback(t, paused),
             \/ /\ at' = "load" /\ job' = [track |-> t, paused |-> paused]
                /\ taking' = (limited' = limited /\ ~lost' /\ claim' # None)
             \/ taking' = FALSE /\ UNCHANGED <<at, job>>
      PROVE  ConnectInv'
  <2> DEFINE c == [uri |-> t, paused |-> paused, late |-> FALSE]
  <2>1. Remote!Flush(c, putTimer)
    BY <1>3 DEF Remote!ClaimPlayback
  <2>2. ~c.late
    OBVIOUS
  <2> HIDE DEF c
  <2>3. /\ claim' # None => claim' = c
        /\ limited' \in Nat
        /\ \/ /\ limited' = limited /\ putTimer' = putTimer
              /\ claim' # None => shown'.status \in {"paused", "playing"}
              /\ Remote!Told' \/ Remote!Unfulfilled'
           \/ limited' # limited /\ putTimer' = TRUE
           \/ lost' = TRUE
    BY <1>1, <2>1, FlushTells
  <2>4. ConnectType'
    BY <1>1, <1>3, <2>3 DEF ConnectType
  <2>5. TakeInv'
    BY <1>1, <1>3, <2>2, <2>3 DEF TakeInv
  <2>6. PauseInv'
    BY <1>1 DEF PauseInv, Held
  <2>7. ToldInv'
    BY <1>1, <2>3 DEF ToldInv, Remote!TrackEnded
  <2> QED BY <2>4, <2>5, <2>6, <2>7
<1> QED BY <1>2, <1>3 DEF Remote!CmdTransfer, Remote!CmdPlay, Remote!Load

(* Commands that tell Spotify nothing yet. *)
LEMMA CommandsKeep ==
  ASSUME ConnectInv,
         \/ Remote!PlayOn \/ Remote!Pick \/ Remote!Yield \/ Remote!Logout \/ Remote!Bind
         \/ \E kind \in {"pause", "resume", "next", "volume"} : Remote!Forward(kind)
         \/ \E type \in {"duration", "end_of_track", "off"} : Remote!CmdSleepTimer(type)
         \/ Remote!LoadTrackList
  PROVE  ConnectInv'
<1> USE DEF ConnectInv, Remote!Command, Remote!Message, Remote!Keeps, Remote!KeepsPut, Remote!putVars,
            Remote!Send, Remote!Ask
<1>0. UNCHANGED <<tui, snap, early, shown, lost, limited, putTimer>>
  BY DEF Remote!PlayOn, Remote!Pick, Remote!Yield, Remote!Logout, Remote!Bind, Remote!Forward,
         Remote!CmdSleepTimer, Remote!LoadTrackList
<1>a. \A kind \in {"pause", "resume", "next", "volume"} :
         [kind |-> kind, track |-> None, paused |-> FALSE] \in Messages
  BY DEF Messages, Names
<1>1. CASE Remote!PlayOn
  <2>1. ConnectType'
    BY <1>0, <1>a, <1>1 DEF Remote!PlayOn, ConnectType
  <2>2. TakeInv'
    BY <1>0, <1>1 DEF Remote!PlayOn, TakeInv
  <2>3. PauseInv'
    BY <1>1 DEF Remote!PlayOn, PauseInv
  <2>4. ToldInv'
    BY <1>0, <1>1 DEF Remote!PlayOn, ToldInv, Remote!Told, Remote!Unfulfilled, Remote!TrackEnded
  <2> QED BY <2>1, <2>2, <2>3, <2>4
<1>2. CASE Remote!Pick
  <2>1. ConnectType' /\ PauseInv'
    BY <1>0, <1>2 DEF Remote!Pick, ConnectType, PauseInv, Held
  <2>2. TakeInv'
    BY <1>0, <1>2 DEF Remote!Pick, TakeInv
  <2>3. ToldInv'
    BY <1>2 DEF Remote!Pick, ToldInv
  <2> QED BY <2>1, <2>2, <2>3
<1>3. CASE Remote!Yield
  <2>1. ConnectType'
    BY <1>0, <1>a, <1>3 DEF Remote!Yield, ConnectType
  <2>2. TakeInv'
    BY <1>0, <1>3 DEF Remote!Yield, TakeInv
  <2>3. PauseInv'
    BY <1>3 DEF Remote!Yield, PauseInv
  <2>4. ToldInv'
    BY <1>0, <1>3 DEF Remote!Yield, ToldInv, Remote!Told, Remote!Unfulfilled, Remote!TrackEnded
  <2> QED BY <2>1, <2>2, <2>3, <2>4
<1>4. CASE Remote!Logout
  <2>1. ConnectType' /\ PauseInv'
    BY <1>0, <1>4 DEF Remote!Logout, ConnectType, PauseInv, Held
  <2>2. TakeInv'
    BY <1>0, <1>4 DEF Remote!Logout, TakeInv
  <2>4. ToldInv'
    BY <1>0, <1>4 DEF Remote!Logout, ToldInv, Remote!Told, Remote!Unfulfilled, Remote!TrackEnded
  <2> QED BY <2>1, <2>2, <2>4
<1>5. CASE Remote!Bind
  <2>0. sleep' \in SleepTimers /\ ~sleep'.end
    BY <1>5 DEF Remote!Bind, Remote!Awake, ConnectType, SleepTimers, Names
  <2>1. ConnectType' /\ PauseInv'
    BY <1>0, <1>5, <2>0 DEF Remote!Bind, ConnectType, PauseInv, Held
  <2>2. TakeInv'
    BY <1>0, <1>5 DEF Remote!Bind, TakeInv
  <2>4. ToldInv'
    BY <1>5, <2>0 DEF Remote!Bind, ToldInv, Remote!TrackEnded
  <2> QED BY <2>1, <2>2, <2>4
<1>6. ASSUME NEW kind \in {"pause", "resume", "next", "volume"}, Remote!Forward(kind)
      PROVE  ConnectInv'
  <2>0. inbox = <<>> /\ inbox' = <<[kind |-> kind, track |-> None, paused |-> FALSE]>>
    BY <1>6 DEF Remote!Forward
  <2>1. ConnectType'
    BY <1>0, <1>a, <1>6 DEF Remote!Forward, ConnectType
  <2>2. TakeInv'
    BY <1>0, <1>6 DEF Remote!Forward, TakeInv
  <2>3. PauseInv'
    BY <1>0, <1>6 DEF Remote!Forward, PauseInv, Held
  <2>4. ToldInv'
    BY <1>6 DEF Remote!Forward, ToldInv
  <2> QED BY <2>1, <2>2, <2>3, <2>4
<1>7. ASSUME NEW type \in {"duration", "end_of_track", "off"}, Remote!CmdSleepTimer(type)
      PROVE  ConnectInv'
  <2>0. sleep' \in SleepTimers
    BY <1>7 DEF Remote!CmdSleepTimer, ConnectType, SleepTimers, Snapshots
  <2>1. ConnectType' /\ PauseInv'
    BY <1>0, <1>7, <2>0 DEF Remote!CmdSleepTimer, ConnectType, PauseInv, Held
  <2>2. TakeInv'
    BY <1>0, <1>7 DEF Remote!CmdSleepTimer, TakeInv
  <2>3. ToldInv'
    BY <1>7 DEF Remote!CmdSleepTimer, ToldInv
  <2> QED BY <2>1, <2>2, <2>3
<1>8. CASE Remote!LoadTrackList
  <2>0. [kind |-> "tracks", track |-> job.track, paused |-> job.paused] \in Messages
    BY <1>8 DEF Remote!LoadTrackList, ConnectType, Messages, Names
  <2>1. ConnectType'
    BY <1>0, <1>8, <2>0 DEF Remote!LoadTrackList, ConnectType
  <2>2. TakeInv'
    BY <1>0, <1>8 DEF Remote!LoadTrackList, TakeInv
  <2>3. PauseInv'
    BY <1>0, <1>8 DEF Remote!LoadTrackList, PauseInv
  <2>4. ToldInv'
    BY <1>8 DEF Remote!LoadTrackList, ToldInv
  <2> QED BY <2>1, <2>2, <2>3, <2>4
<1> QED BY <1>1, <1>2, <1>3, <1>4, <1>5, <1>6, <1>7, <1>8

(* What the receiver does on its own: PUTs, its timers and time.           *)
LEMMA ServingKeeps ==
  ASSUME ConnectInv,
         \/ Remote!ConnectionId \/ Remote!SchedulePut \/ Remote!PutTimer \/ Remote!SleepTimer
         \/ Remote!TimePasses \/ Remote!ClaimExpires
  PROVE  ConnectInv'
<1> USE DEF ConnectInv, Remote!Keeps, Remote!putVars, Remote!Serve
<1>0. UNCHANGED <<tui, snap, at, job>>
  BY DEF Remote!ConnectionId, Remote!SchedulePut, Remote!PutTimer, Remote!SleepTimer,
         Remote!TimePasses, Remote!ClaimExpires
<1>a. /\ [kind |-> "pause", track |-> None, paused |-> FALSE] \in Messages
      /\ sleep \in SleepTimers
      /\ limited \in Nat
  BY DEF Messages, Names, ConnectType
<1>b. /\ [sleep EXCEPT !.end = FALSE, !.state = "none"] \in SleepTimers
      /\ [sleep EXCEPT !.timer = FALSE, !.state = "none"] \in SleepTimers
      /\ ~[sleep EXCEPT !.end = FALSE, !.state = "none"].end
  BY <1>a DEF SleepTimers
<1>1. CASE Remote!ConnectionId \/ Remote!PutTimer
  <2>1. /\ UNCHANGED <<inbox, dirty, sleep, wish, taking>> /\ at = "select"
        /\ \E timer \in {putTimer, FALSE} : Remote!Flush(claim, timer)
        /\ spotConnID' = TRUE \/ UNCHANGED spotConnID
    BY <1>1 DEF Remote!ConnectionId, Remote!PutTimer
  <2>2. CASE ~spotConnID'
    <3>1. /\ UNCHANGED <<spotConnID, shown, limited>> /\ claim' = claim
      BY <2>1, <2>2 DEF Remote!Flush
    <3> QED BY <1>0, <2>1, <2>2, <3>1
            DEF ConnectType, TakeInv, PauseInv, Held, ToldInv, Remote!TrackEnded
  <2>3. CASE spotConnID'
    <3>1. PICK timer \in {putTimer, FALSE} : Remote!Flush(claim, timer)
      BY <2>1
    <3>2. /\ claim' # None => claim' = claim
          /\ claim' = None => claim = None \/ claim.late \/ Remote!Loaded(claim)
          /\ limited' \in Nat
          /\ \/ /\ claim' # None => shown'.status \in {"paused", "playing"}
                /\ claim' = None => shown'.status = snap.status
                /\ Remote!Told' \/ Remote!Unfulfilled'
             \/ putTimer' = TRUE /\ UNCHANGED shown
             \/ lost' = TRUE /\ UNCHANGED shown
      BY <1>0, <2>3, <3>1, FlushTells
    <3>3. ConnectType' /\ PauseInv'
      BY <1>0, <2>1, <3>2 DEF ConnectType, PauseInv, Held
    <3>4. TakeInv'
      BY <1>0, <2>1, <3>2 DEF TakeInv, Remote!Loaded
    <3>5. ToldInv'
      BY <1>0, <2>1, <2>3, <3>2 DEF ToldInv, Remote!TrackEnded
    <3> QED BY <3>3, <3>4, <3>5
  <2> QED BY <2>2, <2>3
<1>2. CASE Remote!SchedulePut
  <2>1. /\ UNCHANGED <<spotConnID, taking>> /\ at = "select" /\ ~dirty'
    BY <1>2 DEF Remote!SchedulePut
  <2>2. /\ \/ UNCHANGED <<inbox, wish, sleep>>
           \/ /\ inbox' = <<[kind |-> "pause", track |-> None, paused |-> FALSE]>>
              /\ wish' = "pause" /\ sleep' = [sleep EXCEPT !.end = FALSE, !.state = "none"]
        /\ spotConnID => ~Remote!TrackEnded'
        /\ ~spotConnID => UNCHANGED sleep
    BY <1>0, <1>2, <1>b DEF Remote!SchedulePut, Remote!Send, Remote!Ask, Remote!TrackEnded
  <2>3. /\ sleep' \in SleepTimers
        /\ inbox' = <<>> \/ \E m \in Messages : inbox' = <<m>>
    <3>1. inbox = <<>> \/ \E m \in Messages : inbox = <<m>>
      BY DEF ConnectType
    <3> QED BY <1>a, <1>b, <2>2, <3>1
  <2>4. PauseInv' /\ (inbox' = inbox \/ inbox'[1].kind = "pause")
    <3>1. CASE UNCHANGED <<inbox, wish, sleep>>
      BY <1>0, <3>1 DEF PauseInv, Held
    <3>2. CASE inbox' = <<[kind |-> "pause", track |-> None, paused |-> FALSE]>>
      BY <3>2 DEF PauseInv
    <3> QED BY <2>2, <3>1, <3>2
  <2>5. ~Remote!TrackEnded' /\ (~spotConnID' => ~sleep'.end)
    BY <2>1, <2>2 DEF ToldInv, Remote!TrackEnded
  <2>6. CASE spotConnID /\ early
    <3>1. putTimer' = TRUE /\ UNCHANGED <<limited, shown, claim>>
      BY <1>2, <2>6 DEF Remote!SchedulePut, Remote!Wait
    <3>2. ConnectType' /\ TakeInv'
      BY <1>0, <1>a, <2>1, <2>3, <2>4, <3>1 DEF ConnectType, TakeInv
    <3> QED BY <2>4, <2>5, <3>1, <3>2 DEF ToldInv
  <2>7. CASE ~spotConnID
    <3>1. UNCHANGED <<limited, shown>> /\ claim' = claim
      BY <1>2, <2>1, <2>7 DEF Remote!SchedulePut, Remote!Flush
    <3>2. ConnectType' /\ TakeInv'
      BY <1>0, <1>a, <2>1, <2>3, <2>4, <3>1 DEF ConnectType, TakeInv
    <3> QED BY <2>1, <2>4, <2>5, <2>7, <3>2 DEF ToldInv
  <2>8. CASE spotConnID /\ ~early
    <3>1. Remote!Flush(claim, putTimer)
      BY <1>2, <2>8 DEF Remote!SchedulePut
    <3>2. /\ claim' # None => claim' = claim
          /\ claim' = None => claim = None \/ claim.late \/ Remote!Loaded(claim)
          /\ limited' \in Nat
          /\ \/ /\ claim' # None => shown'.status \in {"paused", "playing"}
                /\ claim' = None => shown'.status = snap.status
                /\ Remote!Told' \/ Remote!Unfulfilled'
             \/ putTimer' = TRUE /\ UNCHANGED shown
             \/ lost' = TRUE /\ UNCHANGED shown
      BY <1>0, <2>1, <2>8, <3>1, FlushTells
    <3>3. ConnectType'
      BY <1>0, <2>1, <2>3, <3>2 DEF ConnectType
    <3>4. TakeInv'
      BY <1>0, <2>1, <2>4, <3>2 DEF TakeInv, Remote!Loaded
    <3>5. ToldInv'
      BY <2>5, <3>2 DEF ToldInv
    <3> QED BY <2>4, <3>3, <3>4, <3>5
  <2> QED BY <2>6, <2>7, <2>8
<1>3. CASE Remote!SleepTimer
  <2>1. /\ inbox = <<>> /\ inbox' = <<[kind |-> "pause", track |-> None, paused |-> FALSE]>>
        /\ sleep' = [sleep EXCEPT !.timer = FALSE, !.state = "none"] /\ dirty' = TRUE
        /\ UNCHANGED <<spotConnID, taking, claim, putTimer, shown, lost, limited>>
    BY <1>3 DEF Remote!SleepTimer, Remote!Send, Remote!Ask, Remote!KeepsPut
  <2>2. ConnectType'
    BY <1>0, <1>a, <1>b, <2>1 DEF ConnectType
  <2>3. TakeInv' /\ PauseInv'
    BY <1>0, <2>1 DEF TakeInv, PauseInv
  <2>4. sleep'.end = sleep.end
    BY <1>a, <2>1 DEF SleepTimers
  <2>5. ToldInv'
    BY <2>1, <2>4 DEF ToldInv
  <2> QED BY <2>2, <2>3, <2>5
<1>4. CASE Remote!TimePasses
  <2>1. UNCHANGED <<tui, snap, inbox, at, job, spotConnID, claim, sleep, dirty, putTimer, shown, lost,
                    limited, wish, taking>>
    BY <1>4 DEF Remote!TimePasses
  <2>2. ConnectType' /\ TakeInv'
    BY <2>1 DEF ConnectType, TakeInv
  <2>3. PauseInv' /\ ToldInv'
    BY <2>1 DEF PauseInv, Held, ToldInv, Remote!Told, Remote!Unfulfilled, Remote!TrackEnded
  <2> QED BY <2>2, <2>3
<1>5. CASE Remote!ClaimExpires
  <2>1. /\ UNCHANGED <<tui, snap, inbox, at, job, spotConnID, sleep, dirty, putTimer, shown, lost, limited,
                       wish>>
        /\ ~taking'
    BY <1>5 DEF Remote!ClaimExpires
  <2>2. ConnectType' /\ TakeInv'
    BY <2>1 DEF ConnectType, TakeInv
  <2>3. PauseInv' /\ ToldInv'
    BY <2>1 DEF PauseInv, Held, ToldInv, Remote!Told, Remote!Unfulfilled, Remote!TrackEnded
  <2> QED BY <2>2, <2>3
<1> QED BY <1>1, <1>2, <1>3, <1>4, <1>5

(* What the TUI makes of its state stays one, and only StopPlayback ends   *)
(* what plays.                                                             *)
LEMMA TuiTyped ==
  ASSUME NEW m \in TuiStates, NEW t \in Names
  PROVE  /\ Remote!Start(m, t) \in TuiStates /\ Remote!Start(m, t).playing = m.playing
         /\ Remote!StopPlayback(m) \in TuiStates
         /\ Remote!Pause(m) \in TuiStates /\ Remote!Pause(m).playing = m.playing
         /\ Remote!Pause(m).load = m.load /\ (Remote!Pause(m).paused \/ ~m.playing)
         /\ Remote!TogglePlayPause(m) \in TuiStates /\ Remote!TogglePlayPause(m).playing = m.playing
         /\ \A paused \in BOOLEAN :
              LET p == Remote!PlayRemoteTracks(m, t, paused) IN
              p \in TuiStates /\ p.playing = m.playing /\ p.load = "opening" /\ p.hold = paused
         /\ Remote!NextTracks(m) \subseteq TuiStates
<1>1. m.track \in Names /\ \A u \in Tracks : u \in Names
  BY DEF TuiStates, Names
<1>2. \A u \in Names : Remote!Start(m, u) \in TuiStates /\ Remote!Start(m, u).playing = m.playing
  BY DEF Remote!Start, TuiStates
<1>3. Remote!StopPlayback(m) \in TuiStates
  BY DEF Remote!StopPlayback, TuiStates
<1>4. /\ Remote!Pause(m) \in TuiStates /\ Remote!Pause(m).playing = m.playing
      /\ Remote!Pause(m).load = m.load
  BY DEF Remote!Pause, TuiStates
<1>5. Remote!Pause(m).paused \/ ~m.playing
  BY DEF Remote!Pause, TuiStates
<1>6. Remote!TogglePlayPause(m) \in TuiStates /\ Remote!TogglePlayPause(m).playing = m.playing
  <2>1. /\ [m EXCEPT !.paused = ~@] \in TuiStates
        /\ [m EXCEPT !.paused = ~@].playing = m.playing
    BY DEF TuiStates
  <2> QED BY <1>1, <1>2, <2>1 DEF Remote!TogglePlayPause
<1>7. ASSUME NEW paused \in BOOLEAN
      PROVE  LET p == Remote!PlayRemoteTracks(m, t, paused) IN
             p \in TuiStates /\ p.playing = m.playing /\ p.load = "opening" /\ p.hold = paused
  BY DEF Remote!PlayRemoteTracks, Remote!Start, TuiStates
<1>8. Remote!NextTracks(m) \subseteq TuiStates
  BY <1>1, <1>2, <1>3 DEF Remote!NextTracks
<1> QED BY <1>2, <1>3, <1>4, <1>5, <1>6, <1>7, <1>8

(* An update of the TUI: the receiver has the new snapshot, and is woken   *)
(* if it differs from the last.                                            *)
LEMMA UpdateTells ==
  ASSUME ConnectInv, NEW m \in TuiStates, Remote!Update(m)
  PROVE  /\ tui' = m /\ snap' \in Snapshots
         /\ m.playing <=> snap'.status # "stopped"
         /\ UNCHANGED <<at, job, claim, sleep, shown, lost, limited>>
         /\ ToldInv'
<1> USE DEF ConnectInv
<1>1. /\ tui' = m /\ snap' = Remote!State(m) /\ dirty' = (dirty \/ Remote!State(m) # snap)
      /\ UNCHANGED <<at, job, claim, sleep, shown, lost, limited, spotConnID, putTimer>>
  BY DEF Remote!Update, Remote!NotifyUpdate, Remote!putVars
<1>2. snap' \in Snapshots /\ (m.playing <=> snap'.status # "stopped")
  BY <1>1 DEF Remote!State, Snapshots, TuiStates
<1>3. ToldInv'
  <2>1. CASE Remote!State(m) # snap
    BY <1>1, <2>1 DEF ToldInv
  <2>2. CASE Remote!State(m) = snap
    BY <1>1, <2>2 DEF ToldInv, Remote!Told, Remote!Unfulfilled, Remote!TrackEnded
  <2> QED BY <2>1, <2>2
<1> QED BY <1>1, <1>2, <1>3

(* The messages of the TUI.                                                *)
LEMMA HandleKeeps ==
  ASSUME ConnectInv, Remote!Handle
  PROVE  ConnectInv'
<1> USE DEF ConnectInv
<1>1. PICK m \in Messages : inbox = <<m>>
  BY DEF Remote!Handle, ConnectType
<1>2. inbox[1] = m /\ inbox' = <<>> /\ UNCHANGED <<taking, commands>>
  BY <1>1 DEF Remote!Handle
<1>3. /\ tui \in TuiStates /\ m.track \in Names /\ m.paused \in BOOLEAN
      /\ m.kind \in {"tracks", "pause", "resume", "next", "volume"}
  BY DEF ConnectType, Messages
<1>4. wish' = IF m.kind = "pause" /\ tui.load = "opening" /\ wish = "pause" THEN "lost" ELSE wish
  BY <1>2 DEF Remote!Handle
<1>5. CASE m.kind # "next"
  <2> DEFINE n == CASE m.kind = "tracks" -> Remote!PlayRemoteTracks(tui, m.track, m.paused)
                    [] m.kind = "pause" -> Remote!Pause(tui)
                    [] m.kind = "resume" ->
                         IF tui.playing /\ ~tui.paused THEN tui ELSE Remote!TogglePlayPause(tui)
                    [] m.kind = "volume" -> tui
  <2>1. Remote!Update(n)
    BY <1>2, <1>3, <1>5 DEF Remote!Handle
  <2>2. n \in TuiStates /\ n.playing = tui.playing
    BY <1>3, <1>5, TuiTyped
  <2>3. wish' = "pause" => m.kind # "resume"
    BY <1>1, <1>2, <1>4 DEF PauseInv
  <2>4. ASSUME wish' = "pause" PROVE Held'
    <3>1. wish = "pause" /\ ~(m.kind = "pause" /\ tui.load = "opening")
      BY <1>4, <2>4
    <3>2. tui' = n
      BY <2>1 DEF Remote!Update
    <3>3. CASE m.kind = "tracks"
      <4> HIDE DEF n
      <4>1. m.paused = TRUE
        BY <1>1, <1>2, <1>3, <3>1, <3>3 DEF PauseInv
      <4> USE DEF n
      <4>2. n.load = "opening" /\ n.hold = m.paused
        BY <1>3, <3>3, TuiTyped
      <4> QED BY <3>2, <4>1, <4>2 DEF Held
    <3>4. CASE m.kind = "pause"
      <4>1. /\ n.load = tui.load /\ n.load \in {"no", "opening", "open", "failed"}
            /\ n.paused \/ ~n.playing
        BY <1>3, <2>2, <3>4, TuiTyped DEF TuiStates
      <4> QED BY <3>1, <3>2, <3>4, <4>1 DEF Held
    <3>5. CASE m.kind = "volume"
      <4>1. Held
        BY <1>1, <1>2, <3>1, <3>5 DEF PauseInv
      <4> QED BY <3>2, <3>5, <4>1 DEF Held
    <3> QED BY <1>3, <1>5, <2>3, <2>4, <3>3, <3>4, <3>5
  <2> HIDE DEF n
  <2>5. /\ tui' = n /\ snap' \in Snapshots
        /\ n.playing <=> snap'.status # "stopped"
        /\ UNCHANGED <<at, job, claim, sleep, shown, lost, limited>>
        /\ ToldInv'
    BY <2>1, <2>2, UpdateTells
  <2>6. ConnectType'
    BY <1>2, <2>2, <2>5 DEF ConnectType
  <2>7. TakeInv'
    BY <1>2, <1>3, <2>2, <2>5 DEF TakeInv
  <2>8. PauseInv'
    BY <1>2, <2>4 DEF PauseInv
  <2> QED BY <2>5, <2>6, <2>7, <2>8
<1>6. CASE m.kind = "next"
  <2>1. PICK n \in Remote!NextTracks(tui) : Remote!Update(n)
    BY <1>2, <1>6 DEF Remote!Handle
  <2>2. n \in TuiStates
    BY <1>3, <2>1, TuiTyped
  <2>3. /\ tui' = n /\ snap' \in Snapshots
        /\ n.playing <=> snap'.status # "stopped"
        /\ UNCHANGED <<at, job, claim, sleep, shown, lost, limited>>
        /\ ToldInv'
    BY <2>1, <2>2, UpdateTells
  <2>4. ConnectType'
    BY <1>2, <2>2, <2>3 DEF ConnectType
  <2>5. taking => at = "load" /\ claim # None
    BY <1>1, <1>2, <1>6 DEF TakeInv
  <2>6. TakeInv'
    BY <1>2, <2>3, <2>5 DEF TakeInv
  <2>7. wish # "pause" /\ wish' = wish
    BY <1>1, <1>2, <1>4, <1>6 DEF PauseInv
  <2> QED BY <2>3, <2>4, <2>6, <2>7 DEF PauseInv
<1> QED BY <1>5, <1>6

(* What the TUI does on its own, its user included.                        *)
LEMMA PlayingKeeps ==
  ASSUME ConnectInv,
         Remote!UserActs \/ Remote!Opens \/ Remote!StreamPlayed \/ Remote!TrackEnds \/ Remote!Tick
  PROVE  ConnectInv'
<1> USE DEF ConnectInv
<1>1. tui \in TuiStates
  BY DEF ConnectType
<1>2. \A n \in TuiStates : Remote!Update(n) =>
        /\ tui' = n /\ snap' \in Snapshots
        /\ n.playing <=> snap'.status # "stopped"
        /\ UNCHANGED <<at, job, claim, sleep, shown, lost, limited>>
        /\ ToldInv'
  BY UpdateTells
<1>3. CASE Remote!UserActs
  <2>1. PICK n \in Remote!NextTracks(tui) \cup {Remote!TogglePlayPause(tui)} : Remote!Update(n)
    BY <1>3 DEF Remote!UserActs
  <2>2. n \in TuiStates
    BY <1>1, <2>1, TuiTyped DEF TuiStates
  <2>3. wish' = "free" /\ taking' = FALSE /\ UNCHANGED inbox
    BY <1>3 DEF Remote!UserActs
  <2>4. ConnectType' /\ ToldInv'
    BY <1>2, <2>1, <2>2, <2>3 DEF ConnectType
  <2>5. TakeInv' /\ PauseInv'
    BY <1>2, <2>1, <2>2, <2>3 DEF TakeInv, PauseInv
  <2> QED BY <2>4, <2>5
<1>4. CASE Remote!Opens
  <2>1. /\ UNCHANGED <<snap, inbox, at, job, spotConnID, claim, sleep, dirty, putTimer, shown, lost, limited,
                       wish, taking>>
        /\ tui.load = "opening"
    BY <1>4 DEF Remote!Opens, Remote!putVars
  <2>2. \/ tui' = [tui EXCEPT !.load = "failed"]
        \/ tui' = [tui EXCEPT !.load = "open", !.playing = TRUE, !.paused = FALSE]
    BY <1>4 DEF Remote!Opens
  <2>3. /\ tui' \in TuiStates /\ tui'.hold = tui.hold /\ tui'.load \in {"failed", "open"}
        /\ ~tui'.playing => ~tui.playing
    BY <1>1, <2>2 DEF TuiStates
  <2>4. ConnectType'
    BY <2>1, <2>3 DEF ConnectType
  <2>5. TakeInv'
    BY <2>1, <2>3 DEF TakeInv
  <2>6. PauseInv'
    BY <2>1, <2>3 DEF PauseInv, Held
  <2>7. ToldInv'
    BY <2>1 DEF ToldInv, Remote!Told, Remote!Unfulfilled, Remote!TrackEnded
  <2> QED BY <2>4, <2>5, <2>6, <2>7
<1>5. CASE Remote!StreamPlayed
  <2>1. taking' = FALSE /\ UNCHANGED inbox
    BY <1>5 DEF Remote!StreamPlayed
  <2>2. ASSUME NEW n \in TuiStates, Remote!Update(n), PauseInv'
        PROVE  ConnectInv'
    <3>1. ConnectType' /\ ToldInv'
      BY <1>2, <2>1, <2>2 DEF ConnectType
    <3>2. TakeInv'
      BY <1>2, <2>1, <2>2 DEF TakeInv
    <3> QED BY <2>2, <3>1, <3>2
  <2>3. CASE tui.load = "failed"
    <3>1. PICK n \in {[tui EXCEPT !.load = "no"]} \cup Remote!NextTracks(tui) :
            Remote!Update(n) /\ wish' = "free"
      BY <1>5, <2>3 DEF Remote!StreamPlayed
    <3>2. [tui EXCEPT !.load = "no"] \in TuiStates
      BY <1>1 DEF TuiStates
    <3>3. n \in TuiStates
      BY <1>1, <3>1, <3>2, TuiTyped DEF TuiStates
    <3> QED BY <2>2, <3>1, <3>3 DEF PauseInv
  <2>4. CASE tui.load = "open"
    <3> DEFINE p == IF tui.hold THEN Remote!Pause(tui) ELSE tui
               n == [p EXCEPT !.load = "no", !.hold = FALSE]
    <3>1. Remote!Update(n) /\ UNCHANGED wish
      BY <1>5, <2>4 DEF Remote!StreamPlayed
    <3>2. p \in TuiStates /\ (tui.hold => p.paused \/ ~p.playing) /\ (~tui.hold => p = tui)
      BY <1>1, TuiTyped DEF TuiStates
    <3> HIDE DEF p
    <3>3. n \in TuiStates /\ n.load = "no" /\ n.paused = p.paused /\ n.playing = p.playing
      BY <3>2 DEF TuiStates
    <3> HIDE DEF n
    <3>4. tui' = n
      BY <3>1 DEF Remote!Update
    <3>5. Held => Held'
      BY <2>4, <3>2, <3>3, <3>4 DEF Held
    <3>6. PauseInv'
      BY <2>1, <3>1, <3>5 DEF PauseInv
    <3> QED BY <2>2, <3>1, <3>3, <3>6
  <2> QED BY <1>5, <2>3, <2>4 DEF Remote!StreamPlayed
<1>6. CASE Remote!TrackEnds
  <2>1. PICK n \in Remote!NextTracks(tui) \cup {[tui EXCEPT !.track = t] : t \in Tracks} : Remote!Update(n)
    BY <1>6 DEF Remote!TrackEnds
  <2>2. \A t \in Tracks : [tui EXCEPT !.track = t] \in TuiStates
    BY <1>1 DEF TuiStates, Names
  <2>3. n \in TuiStates
    BY <1>1, <2>1, <2>2, TuiTyped DEF TuiStates
  <2>4. /\ taking' => taking /\ claim # None
        /\ UNCHANGED <<inbox, wish>>
        /\ tui.load = "no" /\ tui.playing /\ ~tui.paused
    BY <1>6 DEF Remote!TrackEnds
  <2>5. ConnectType' /\ ToldInv'
    BY <1>2, <2>1, <2>3, <2>4 DEF ConnectType
  <2>6. TakeInv'
    BY <1>2, <2>1, <2>3, <2>4 DEF TakeInv
  <2>7. PauseInv'
    <3>1. ~Held
      BY <2>4 DEF Held
    <3> QED BY <2>4, <3>1 DEF PauseInv
  <2> QED BY <2>5, <2>6, <2>7
<1>7. CASE Remote!Tick
  <2>1. Remote!Update(tui) /\ UNCHANGED <<inbox, wish, taking>>
    BY <1>7 DEF Remote!Tick
  <2>2. ConnectType' /\ ToldInv'
    BY <1>1, <1>2, <2>1 DEF ConnectType
  <2>3. TakeInv'
    BY <1>1, <1>2, <2>1 DEF TakeInv
  <2>4. PauseInv'
    BY <1>1, <1>2, <2>1 DEF PauseInv, Held
  <2> QED BY <2>2, <2>3, <2>4
<1> QED BY <1>3, <1>4, <1>5, <1>6, <1>7

(* No step of anyone disturbs the invariant.                               *)
LEMMA ConnectStep ==
  ASSUME ConnectInv, [Remote!Next]_remoteVars
  PROVE  ConnectInv'
<1>1. CASE UNCHANGED remoteVars
  <2>1. UNCHANGED <<tui, snap, inbox, at, job, spotConnID, claim, sleep, dirty, putTimer, shown, lost,
                    limited, wish, taking>>
    BY <1>1 DEF remoteVars
  <2>2. ConnectType' /\ TakeInv'
    BY <2>1 DEF ConnectInv, ConnectType, TakeInv
  <2>3. PauseInv' /\ ToldInv'
    BY <2>1 DEF ConnectInv, PauseInv, Held, ToldInv, Remote!Told, Remote!Unfulfilled, Remote!TrackEnded
  <2> QED BY <2>2, <2>3 DEF ConnectInv
<1>2. CASE Remote!Cloud
  BY <1>2, TakeoverKeeps, CommandsKeep DEF Remote!Cloud
<1>3. CASE Remote!Receiver \/ Remote!TimePasses \/ Remote!ClaimExpires
  BY <1>3, CommandsKeep, ServingKeeps DEF Remote!Receiver
<1>4. CASE Remote!UserActs \/ Remote!TrackEnds \/ Remote!TUI
  BY <1>4, HandleKeeps, PlayingKeeps DEF Remote!TUI
<1> QED BY <1>1, <1>2, <1>3, <1>4 DEF Remote!Next

(* So it always holds.                                                     *)
LEMMA ConnectAlways == SpotifySpec => []ConnectInv
<1>1. SpotifyInit => ConnectInv
  BY ConnectInit DEF SpotifyInit
<1>2. ConnectInv /\ [OfLogin(Next) \/ OfRemote(Remote!Next)]_allVars => ConnectInv'
  BY ConnectStep DEF OfLogin, OfRemote, allVars
<1> QED BY <1>1, <1>2, PTL DEF SpotifySpec

(* For any number of commands: once Spotify was told of a takeover it does *)
(* not read "stopped" while the track loads, and what asks for a pause has *)
(* one (connect.go, claimPlayback, flushState; update.go, PauseMsg).       *)
THEOREM TakeoversAreHeld == SpotifySpec => []TakeoversHold
<1>1. ConnectInv => TakeoversHold
  BY DEF ConnectInv, TakeInv, PauseInv, Held, TakeoversHold, Remote!TakeoversHold,
         Remote!NeverReadsStopped, Remote!PausesHold
<1> QED BY <1>1, ConnectAlways, PTL

(* For any number of updates, timers and refused PUTs: once all is settled *)
(* Spotify has the last state, unless the last PUT failed otherwise than   *)
(* for its rate or a takeover that it was told of is not what the TUI      *)
(* plays, and no end-of-track timer has missed its edge (connect.go,       *)
(* schedulePut, flushState).                                               *)
THEOREM ControllersFollow == SpotifySpec => []ControllerFollows
<1>1. ConnectInv => ControllerFollows
  BY DEF ConnectInv, ToldInv, ControllerFollows, Remote!ControllerFollows, Remote!Settled
<1> QED BY <1>1, ConnectAlways, PTL

=============================================================================
