-------------------------- MODULE MCPlaylistSession --------------------------
(***************************************************************************)
(* PlaylistUndo.tla for TLC, with two kinds of session: one edits and      *)
(* undoes, from an empty list.  The other only listens, and bookmarks:     *)
(* from any loaded list under repeat-all, at any place of it and with      *)
(* anything queued, tracks end and Next runs.                              *)
(***************************************************************************)
EXTENDS PlaylistUndo

CONSTANTS a, b, c, s, NumRows

VARIABLE listens  \* which session this is

sessionVars == <<undoVars, listens>>

TwoIds  == {a, b}
OneId   == {a}
Recommended == {s}
RowIds == <<a, b, c>>

Rows == {[k \in 1..NumRows |-> [id |-> RowIds[k], unplayable |-> k \in dead,
                                smart |-> FALSE, bookmark |-> FALSE]] :
            dead \in SUBSET (1..NumRows)}

ListenInit ==
  /\ tracks \in Rows
  /\ shuffle \in BOOLEAN /\ smart = FALSE /\ repeat = "All"
  /\ order \in IF shuffle THEN Orders(NumRows) ELSE {TrackOrder(NumRows)}
  /\ pos \in 1..NumRows
  /\ queue \in {<<>>} \cup {<<k>> : k \in 1..NumRows}
  /\ queuePositions = FirstPositions(queue)
  /\ queuedIdx \in {None} \cup {k \in DOMAIN tracks : Playable(k)}
  /\ revision = 0 /\ undo = NoUndo

SessionInit ==
  \/ listens = TRUE /\ ListenInit
  \/ listens = FALSE /\ UndoInit

ListenNext == listens /\ NextTrack /\ UNCHANGED <<undo, listens>>

ListenFlip == listens /\ FlipBookmark /\ UNCHANGED <<undo, listens>>

EditNext == ~listens /\ UndoNext /\ UNCHANGED listens

SessionSpec ==
  /\ SessionInit
  /\ [][ListenNext \/ ListenFlip \/ EditNext]_sessionVars
  /\ WF_sessionVars(ListenNext)

(* Shuffle and repeat-all starve no row: while tracks keep ending, every   *)
(* playable row becomes the active one again and again, whatever the       *)
(* reshuffles draw and however often a bookmark is flipped between.        *)
EveryRowPlays ==
  listens =>
    \A k \in 1..NumRows :
      (Playable(k) /\ tracks[k].id = RowIds[k]) => []<>(CurrentIndex = k)

=============================================================================
