---------------------------- MODULE PlaylistUndo ----------------------------
(***************************************************************************)
(* Ctrl+Z over the playlist (ui/model/playback.go, queue_ops.go,           *)
(* keys_queue.go, track_menu.go): a removal stores a snapshot of the       *)
(* playlist and the revision it left; undo restores the snapshot only      *)
(* while the revision is still that one.  The saved playlist file that a   *)
(* persisted removal also edits is not modelled here.                      *)
(***************************************************************************)
EXTENDS Playlist

VARIABLE undo   \* m.playlistUndo; after is a ghost: the state the edit left

NoUndo == [active |-> FALSE]

undoVars == <<vars, undo>>

(* Bound: the runs stop before the revision wraps. *)
BelowBound == revision < RevisionModulus - 1

(* recordPlaylistUndo after an edit that ran in this same key press. *)
Record(force) ==
  undo' = [active |-> TRUE, snapshot |-> Snapshot, revision |-> revision',
           force |-> force, after |-> Snapshot']

RemoveRow(i) == Remove(i) /\ Record(FALSE)

RemoveRowRemotely(i) == Remove(i) /\ UNCHANGED undo

RemoveQueued(k, force) == RemoveQueueAt(k) /\ Record(force)

ClearQueued == ClearQueue /\ Record(FALSE)

(* replacePlaylist forgets the undo of the old list unless it is forced. *)
ReplaceList(rows) ==
  /\ Replace(rows)
  /\ undo' = IF undo.active /\ undo.force THEN undo ELSE NoUndo

BadStaleNever == FALSE

Stale == ~undo.force /\ undo.revision # revision

UndoMutation ==
  /\ undo.active
  /\ ~Stale
  /\ Restore(undo.snapshot)
  /\ undo' = NoUndo

UndoRefused ==
  /\ undo.active
  /\ Stale
  /\ undo' = NoUndo
  /\ UNCHANGED vars

(* The Z key: smart mode implies shuffle, and needs a row whose provider   *)
(* can recommend.                                                          *)
ToggleSmartShuffle ==
  \/ smart /\ DisableSmart
  \/ ~smart /\ tracks # <<>> /\ shuffle /\ EnableSmart
  \/ ~smart /\ tracks # <<>> /\ ~shuffle /\ smart' = TRUE /\ FlipShuffle

(* handleSmartRecommends: an answer fetched for the list as it is now.     *)
SmartRecommends(rows) == smart /\ tracks # <<>> /\ AddSmart(rows)

OtherEdit ==
  /\ \/ \E rows \in RowLists(Ids \ Listed) : Add(rows)
     \/ \E i \in DOMAIN tracks : Queue(i) \/ Dequeue(i)
     \/ FlipBookmark
     \/ MarkUnplayable
     \/ \E i, j \in DOMAIN tracks : Move(i, j)
     \/ \E k, l \in DOMAIN queue : MoveQueue(k, l)
     \/ ToggleShuffle
     \/ CycleRepeat
     \/ ToggleSmartShuffle
     \/ \E rows \in RowLists(SmartIds \ Listed) : SmartRecommends(rows)
     \/ NextTrack
     \/ PrevTrack
     \/ ActivateSelected
     \/ \E i \in DOMAIN tracks : SetIndex(i)
  /\ UNCHANGED undo

UndoInit == Init /\ undo = NoUndo

UndoNext ==
  /\ BelowBound
  /\ \/ \E i \in DOMAIN tracks : RemoveRow(i) \/ RemoveRowRemotely(i)
     \/ \E k \in DOMAIN queue : \E force \in BOOLEAN : RemoveQueued(k, force)
     \/ ClearQueued
     \/ \E rows \in RowLists(Ids) : ReplaceList(rows)
     \/ UndoMutation
     \/ UndoRefused
     \/ OtherEdit

UndoSpec == UndoInit /\ [][UndoNext]_undoVars

-----------------------------------------------------------------------------

(* "Restoring the snapshot would drop every change since the edit": an     *)
(* undo that is not forced runs only while the rows, the order, the queue  *)
(* and the position are those the edit left.                               *)
UndoDropsNothing ==
  [][UndoMutation /\ ~undo.force => Matches(Snapshot, undo.after)]_undoVars

(* Undo trusts the revision to tell whether anything has changed since the *)
(* edit (undoPlaylistMutation), so an edit that kept it would be lost.     *)
RevisionsGuardUndo == UndoDropsNothing /\ RevisionTracksEdits

(* What an undo brings back is a playlist whose indices are sound. *)
UndoKeepsIntegrity == PlayOrderIntegrity /\ QueuePositionsExact

=============================================================================
