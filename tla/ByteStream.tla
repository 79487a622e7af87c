----------------------------- MODULE ByteStream -----------------------------
(***************************************************************************)
(* What a buffer between a network stream and its listeners promises: each *)
(* listener gets the stream from its beginning, in order, without a gap or *)
(* a repetition, and is told that the stream ended only when it has all of *)
(* it.  A buffer may fail a listener at any time.                          *)
(***************************************************************************)
EXTENDS Naturals, Sequences

CONSTANT Listeners

VARIABLES
  source,   \* the whole stream
  got,      \* what each listener has got of it
  ended     \* what each listener was told last: "no", "eof" or "failed"

streamVars == <<source, got, ended>>

Init ==
  /\ got = [l \in Listeners |-> <<>>]
  /\ ended = [l \in Listeners |-> "no"]

(* A listener gets some more, possibly nothing, and is told how it stands. *)
Hand(l) ==
  /\ ended[l] = "no"
  /\ \E n \in Len(got[l])..Len(source), told \in {"no", "eof", "failed"} :
       /\ told = "eof" => n = Len(source)
       /\ got' = [got EXCEPT ![l] = SubSeq(source, 1, n)]
       /\ ended' = [ended EXCEPT ![l] = told]
  /\ UNCHANGED source

Next == \E l \in Listeners : Hand(l)

Spec == Init /\ [][Next]_streamVars
=============================================================================
