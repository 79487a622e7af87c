------------------------------ MODULE MCBroker ------------------------------
(***************************************************************************)
(* The IPC server for TLC: a behaviour is one of its broker, or of the     *)
(* programs that share the path of its socket, and the other part stays as *)
(* it began.  The first topic is a plugin's.                               *)
(***************************************************************************)
EXTENDS Broker, TLC

CONSTANTS Programs, Peers, None, Garbled

VARIABLES part, step, sock, pidFile, link, overlapped

Two == 1 .. 2
Three == 1 .. 3
First == {1}

Symmetry == Permutations(Publishers) \cup Permutations(Conns)

Path == INSTANCE IpcServer

pathVars == <<step, sock, pidFile, link, overlapped>>
allVars == <<part, vars, pathVars>>

OfBroker(action) == part = "broker" /\ action /\ UNCHANGED <<part, pathVars>>
OfPath(action) == part = "path" /\ action /\ UNCHANGED <<part, vars>>

BothInit == part \in {"broker", "path"} /\ Init /\ Path!Init
BothNext == OfBroker(Next) \/ OfPath(Path!Next)
BothSpec == BothInit /\ [][BothNext]_allVars

(* The fairness of the two, Broker!FairSpec and IpcServer!Fairness.        *)
ServerSpec ==
  /\ BothSpec
  /\ \A p \in Publishers : WF_allVars(OfBroker(Sends(p)))
  /\ \A c \in Conns : SF_allVars(OfBroker(Unsubscribe(c)))
  /\ \A p \in Programs : WF_allVars(OfPath(Path!Close(p)))
  /\ \A k \in Peers : WF_allVars(OfPath(Path!Handle(k)))

(* Here every consumer reads, too, until its peer leaves.                  *)
ReadersSpec ==
  /\ ServerSpec
  /\ \A c \in Conns : WF_allVars(OfBroker(Receive(c))) /\ WF_allVars(OfBroker(SeeClosed(c)))

-----------------------------------------------------------------------------

(* A program that serves is the one that the socket's path and the PID     *)
(* file name, whoever starts, closes or dies (cleanStaleSocket, Close),    *)
(* unless two have started at once.                                        *)
ServersReachable == Path!ServersReachable

(* Close of the server returns: connections are closed, those that come    *)
(* late too, and a subscribed one gets b.mu to leave (Server.Close,        *)
(* addConn, streamSubscription).  Left out: a publication that waits for   *)
(* good, under b.mu, for a subscriber that never reads its full replay.    *)
ServerCloses == LeaverGone /\ Path!CloseEnds

(* "a live server is never displaced" (server.go:563).                     *)
NeverDisplaced == Path!NeverDisplaced

(* "so a new instance can start right after it returns" (ipc_client.go).   *)
StartsAfterQuit == Path!StartsAfterQuit
=============================================================================
