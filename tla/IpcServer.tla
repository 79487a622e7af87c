----------------------------- MODULE IpcServer -----------------------------
(***************************************************************************)
(* How cliamp programs share one socket path: the check at the start, the  *)
(* cleaning up after a dead program, listening, the PID file, connections, *)
(* and Close (ipc/server.go, main.go).  Programs are processes, so every   *)
(* system call is a step; any of them may be killed at any moment and      *)
(* leaves its files behind.                                                *)
(*                                                                         *)
(* Left out: requests, which the other modules have; bind and listen are   *)
(* one step; errors of probes, directories and removals.                   *)
(***************************************************************************)
CONSTANTS
  Programs,   \* each starts once; a program is also its pid
  Peers,      \* those who connect, once each
  None,
  Garbled     \* what a PID file holds that is not written yet

VARIABLES
  step,       \* where each program is
  sock,       \* whose socket the path names, dead ones too
  pidFile,
  link,       \* the connection of each peer: its server, and where handleConn is
  overlapped  \* history: two starts have run at once

vars == <<step, sock, pidFile, link, overlapped>>

NoLink == [server |-> None, at |-> "none"]

Init ==
  /\ step = [p \in Programs |-> "new"]
  /\ sock = None /\ pidFile = None
  /\ link = [k \in Peers |-> NoLink] /\ overlapped = FALSE

Starting == {"probed", "stale", "orphan", "clean", "bound", "named", "writing", "undo"}
Accepting == {"bound", "named", "writing", "undo", "serving", "done"}
Closing == {"closed", "cut", "drained", "unbound"}

Goes(p, from, to) == step[p] = from /\ step' = [step EXCEPT ![p] = to]
KeepsFiles == UNCHANGED <<sock, pidFile>>
Keeps == UNCHANGED <<link, overlapped>>

(* Listening(sockPath).                                                    *)
Answers == sock # None /\ step[sock] \in Accepting

-----------------------------------------------------------------------------
(* Start *)

CheckNotRunning(p) ==
  /\ Goes(p, "new", IF Answers THEN "gone" ELSE "checked") /\ KeepsFiles /\ Keeps

Probe(p) ==
  /\ Goes(p, "checked", IF Answers THEN "refused" ELSE "probed")
  /\ overlapped' = (overlapped \/ (~Answers /\ \E q \in Programs : step[q] \in Starting))
  /\ KeepsFiles /\ UNCHANGED link

(* Whether a process has the pid: the program, or one that came after it.  *)
ProcessAlive(q) == IF step[q] \in {"gone", "dead"} THEN BOOLEAN ELSE {TRUE}

ReadPid(p) ==
  /\ \/ pidFile = None /\ Goes(p, "probed", "orphan")
     \/ pidFile = Garbled /\ Goes(p, "probed", "stale")
     \/ /\ pidFile \in Programs
        /\ \E alive \in ProcessAlive(pidFile) :
             Goes(p, "probed", IF alive THEN "blocked" ELSE "stale")
  /\ KeepsFiles /\ Keeps

RemoveStalePid(p) == Goes(p, "stale", "orphan") /\ pidFile' = None /\ UNCHANGED sock /\ Keeps
RemoveStaleSocket(p) == Goes(p, "orphan", "clean") /\ sock' = None /\ UNCHANGED pidFile /\ Keeps

ListenSocket(p) ==
  /\ \/ sock = None /\ sock' = p /\ Goes(p, "clean", "bound")
     \/ sock # None /\ UNCHANGED sock /\ Goes(p, "clean", "refused")
  /\ UNCHANGED pidFile /\ Keeps

Chmod(p) ==
  /\ Goes(p, "bound", IF sock = None THEN "undo" ELSE "named") /\ KeepsFiles /\ Keeps

(* os.WriteFile makes the file empty before it writes; either may fail.    *)
CreatePid(p) ==
  /\ \/ Goes(p, "named", "writing") /\ pidFile' = Garbled
     \/ Goes(p, "named", "undo") /\ UNCHANGED pidFile
  /\ UNCHANGED sock /\ Keeps

WritePid(p) ==
  /\ \/ Goes(p, "writing", "serving") /\ pidFile' = p
     \/ Goes(p, "writing", "undo") /\ UNCHANGED pidFile
  /\ UNCHANGED sock /\ Keeps

(* ln.Close removes what the path names, and so does os.Remove.            *)
Undo(p) == Goes(p, "undo", "refused") /\ sock' = None /\ UNCHANGED pidFile /\ Keeps

Start(p) ==
  \/ CheckNotRunning(p) \/ Probe(p) \/ ReadPid(p) \/ RemoveStalePid(p) \/ RemoveStaleSocket(p)
  \/ ListenSocket(p) \/ Chmod(p) \/ CreatePid(p) \/ WritePid(p) \/ Undo(p)

-----------------------------------------------------------------------------
(* Connections *)

Accept(k, p) ==
  /\ sock = p /\ step[p] = "serving" /\ link[k] = NoLink
  /\ link' = [link EXCEPT ![k] = [server |-> p, at |-> "accepted"]]
  /\ UNCHANGED <<step, overlapped>> /\ KeepsFiles

Of(p, at) == {k \in Peers : link[k].server = p /\ link[k].at \in at}
Moves(S, at) == link' = [k \in Peers |-> IF k \in S THEN [link[k] EXCEPT !.at = at] ELSE link[k]]

BadRegisters(p) == TRUE
Registers(p) == step[p] = "serving"

(* addConn, or the end of the connection; and the end of one whose socket  *)
(* closeConns has closed.                                                  *)
AddConn(k) ==
  /\ link[k].at = "accepted"
  /\ Moves({k}, IF Registers(link[k].server) THEN "open" ELSE "gone")
  /\ UNCHANGED <<step, overlapped>> /\ KeepsFiles

SeeCut(k) ==
  /\ link[k].at = "cut" /\ Moves({k}, "gone") /\ UNCHANGED <<step, overlapped>> /\ KeepsFiles

(* The peer leaves or idles for too long: it need not.                     *)
PeerEnds(k) ==
  /\ link[k].at = "open" /\ Moves({k}, "gone") /\ UNCHANGED <<step, overlapped>> /\ KeepsFiles

-----------------------------------------------------------------------------
(* Close *)

CloseDone(p) == Goes(p, "serving", "done") /\ KeepsFiles /\ Keeps

(* A closed listener removes what its path names.                          *)
CloseListener(p) == Goes(p, "done", "closed") /\ sock' = None /\ UNCHANGED pidFile /\ Keeps

CloseConns(p) ==
  /\ Goes(p, "closed", "cut") /\ Moves(Of(p, {"open"}), "cut")
  /\ UNCHANGED overlapped /\ KeepsFiles

Wait(p) ==
  /\ Of(p, {"accepted", "open", "cut"}) = {}
  /\ Goes(p, "cut", "drained") /\ KeepsFiles /\ Keeps

BadRemoveFiles(p) ==
  /\ \/ Goes(p, "drained", "unbound") /\ pidFile' = None /\ UNCHANGED sock
     \/ Goes(p, "unbound", "gone") /\ sock' = None /\ UNCHANGED pidFile
  /\ Keeps
RemoveFiles(p) ==
  /\ \/ Goes(p, "drained", "unbound") /\ sock' = None /\ UNCHANGED pidFile
     \/ Goes(p, "unbound", "gone") /\ pidFile' = None /\ UNCHANGED sock
  /\ Keeps

Close(p) == CloseListener(p) \/ CloseConns(p) \/ Wait(p) \/ RemoveFiles(p)

Kill(p) ==
  /\ step[p] \notin {"new", "gone", "dead"}
  /\ step' = [step EXCEPT ![p] = "dead"] /\ Moves(Of(p, {"accepted", "open", "cut"}), "gone")
  /\ UNCHANGED overlapped /\ KeepsFiles

-----------------------------------------------------------------------------

Handle(k) == AddConn(k) \/ SeeCut(k)

Next ==
  \/ \E p \in Programs : Start(p) \/ CloseDone(p) \/ Close(p) \/ Kill(p)
  \/ \E k \in Peers : (\E p \in Programs : Accept(k, p)) \/ Handle(k) \/ PeerEnds(k)

(* A program that closes goes on, and so do its goroutines; peers owe      *)
(* nothing.                                                                *)
Fairness == /\ \A p \in Programs : WF_vars(Close(p))
            /\ \A k \in Peers : WF_vars(Handle(k))

Spec == Init /\ [][Next]_vars /\ Fairness

-----------------------------------------------------------------------------
(* Properties *)

Steps ==
  {"new", "checked", "refused", "blocked"} \cup Starting \cup {"serving", "done"} \cup Closing
    \cup {"gone", "dead"}

TypeOK ==
  /\ step \in [Programs -> Steps]
  /\ sock \in Programs \cup {None}
  /\ pidFile \in Programs \cup {None, Garbled}
  /\ overlapped \in BOOLEAN

Reachable(p) == step[p] \in {"serving", "done"} => sock = p /\ pidFile = p

(* As long as no two starts have run at once, whatever is killed and       *)
(* whoever starts or closes meanwhile, a program that serves is the one    *)
(* that the path and the PID file name (cleanStaleSocket, Close).          *)
ServersReachable == overlapped \/ \A p \in Programs : Reachable(p)

(* Why that holds: the PID file keeps everybody from the files of a        *)
(* program from before it serves until it has removed its socket.          *)
Holding == {"serving", "done"} \cup Closing
Cleaning == {"stale", "orphan", "clean", "bound", "named", "writing", "undo"}

AloneInv == \A p, q \in Programs : step[p] \in Starting /\ step[q] \in Starting => p = q
PidInv == \A p \in Programs : step[p] \in Holding => pidFile = p
SockInv ==
  \A p \in Programs : step[p] \in {"bound", "named", "writing", "serving", "done"} => sock = p
ClearInv ==
  \A p, q \in Programs :
    /\ step[p] \in Starting => step[q] \notin {"serving", "done"}
    /\ step[p] \in Cleaning => step[q] \notin Holding

PathInv == TypeOK /\ (overlapped \/ (AloneInv /\ PidInv /\ SockInv /\ ClearInv))

(* Close returns, or its program dies, though no peer hangs up (addConn,   *)
(* closeConns).                                                            *)
CloseEnds == \A p \in Programs : []<>(step[p] \notin {"done"} \cup Closing)

(* "a live server is never displaced because its PID file is missing,      *)
(* stale, or malformed" (cleanStaleSocket).                                *)
NeverDisplaced == \A p \in Programs : step[p] = "serving" => sock = p

(* ipcQuit waits until the socket closes, "so a new instance can start     *)
(* right after it returns": no start is refused for the PID of a program   *)
(* whose socket is closed.                                                 *)
StartsAfterQuit ==
  \A p \in Programs : step[p] = "blocked" =>
    pidFile \notin Programs \/ step[pidFile] \notin Closing
=============================================================================
