----------------------------- MODULE MCSpotify -----------------------------
(***************************************************************************)
(* The Spotify login and what the Connect receiver does with one, for TLC: *)
(* a behaviour is either of the two, and the other stays as it began.      *)
(* SpotifySession has the receiver come and go with the logins,            *)
(* SpotifyConnect what it does while it serves one.                        *)
(***************************************************************************)
EXTENDS SpotifySession

CONSTANTS Tracks, First, Uris, MaxCommands, MaxLimited

VARIABLES
  part,
  tui, snap, inbox, at, job, spotConnID, active, claim, sleep, dirty, putTimer, early, shown,
  lost, wish, taking, commands, limited

Remote == INSTANCE SpotifyConnect

remoteVars == <<tui, snap, inbox, at, job, spotConnID, active, claim, sleep, dirty, putTimer,
                early, shown, lost, wish, taking, commands, limited>>
allVars == <<part, vars, remoteVars>>

SpotifyInit ==
  /\ part \in {"login", "remote"} /\ Init /\ Remote!Init
  /\ part = "login" => ~tui.playing

OfLogin(action) == part = "login" /\ action /\ UNCHANGED <<part, remoteVars>>
OfRemote(action) == part = "remote" /\ action /\ UNCHANGED <<part, vars>>

(* The fairness of the login; what is said of the receiver needs none.     *)
SpotifySpec ==
  /\ SpotifyInit /\ [][OfLogin(Next) \/ OfRemote(Remote!Next)]_allVars
  /\ WF_allVars(OfLogin((\E c \in Calls : Call(c)) \/ (\E a \in SignIns : SignIn(a)) \/ CloseSession))
  /\ \A s \in Logins : WF_allVars(OfLogin(Receiver(s)))

-----------------------------------------------------------------------------

(* What Spotify asks of cliamp holds: once it was told of a takeover it    *)
(* does not read "stopped" while the track loads, and what asks for a      *)
(* pause has one (connect.go, claimPlayback; update.go, PauseMsg).         *)
TakeoversHold == Remote!TakeoversHold

(* Spotify's apps stay in sync, however updates of the TUI, the time       *)
(* between two PUTs and PUTs refused for their rate fall; but for a PUT    *)
(* that failed for another reason, which nothing repeats, and a takeover   *)
(* whose track the TUI does not play (connect.go, schedulePut, flushState).*)
ControllerFollows == Remote!ControllerFollows

(* "cliamp pauses and the remote device takes over" (docs/spotify.md).     *)
YieldsHold == Remote!YieldsHold

(* A claim stands in for the TUI's state for a limited time (connect.go,   *)
(* connectClaimTimeout).                                                   *)
ClaimsEnd == Remote!ClaimsEnd
=============================================================================
