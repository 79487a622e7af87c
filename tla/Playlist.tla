------------------------------ MODULE Playlist ------------------------------
(***************************************************************************)
(* The playlist of package playlist (playlist/playlist.go): the track      *)
(* rows, the play order over them, the position in that order, the         *)
(* play-next queue and the shuffle, Smart Shuffle and repeat modes.        *)
(*                                                                         *)
(* Every exported method holds p.mu for its whole body, so one call is one *)
(* action.  Indices are one higher than in the source (sequences start at  *)
(* 1): pos = 1 stands for p.pos = 0, and None = 0 for the "-1" of          *)
(* queuedIdx.  A nil slice and an empty one are the same sequence.         *)
(***************************************************************************)
EXTENDS Integers, Sequences, FiniteSets, FiniteSetsExt

CONSTANTS
  Ids,              \* identities of the tracks a user can add
  SmartIds,         \* identities of the tracks a provider can recommend
  BookmarkIds,      \* bound: rows whose bookmark the user flips
  UnplayableIds,    \* bound: rows that may be unplayable
  MaxAdd,           \* bound: rows handed to one Add, AddSmart or Replace
  MaxQueue,         \* bound: entries of the play-next queue
  RevisionModulus   \* revision is a uint64: it counts modulo 2^64 there

ASSUME RevisionAssumption == RevisionModulus \in Nat \ {0}
ASSUME BoundsAssumption == MaxAdd \in Nat /\ MaxQueue \in Nat

None == 0
RepeatModes == {"Off", "All", "One"}

(* What the playlist reads of a track; id stands for the rest of it. *)
Row == [id : Ids \cup SmartIds, unplayable : BOOLEAN, smart : BOOLEAN, bookmark : BOOLEAN]

VARIABLES
  tracks, order, pos, shuffle, smart, repeat, queue, queuePositions, queuedIdx,
  revision

playVars == <<order, pos, queue, queuePositions, queuedIdx>>
modeVars == <<shuffle, smart, repeat>>
vars == <<tracks, playVars, modeVars, revision>>

(* Operators named Bad... are the code with one plausible mistake.  No     *)
(* action uses them: each run is repeated with one in place of the         *)
(* operator it varies, to see that the run would notice.                   *)
BadBumpNoWrap(n) == revision + n

Bump(n) == (revision + n) % RevisionModulus

-----------------------------------------------------------------------------
(* Helpers *)

(* All play orders of n rows. *)
Orders(n) == {o \in [1..n -> 1..n] :
                 /\ \A i, j \in 1..n : o[i] = o[j] => i = j
                 /\ \A k \in 1..n : \E i \in 1..n : o[i] = k}

TrackOrder(n) == [k \in 1..n |-> k]

(* The elements of a finite set K of numbers in increasing order. *)
InOrder(K) == CHOOSE f \in [1..Cardinality(K) -> K] :
                 /\ \A i, j \in 1..Cardinality(K) : i < j => f[i] < f[j]
                 /\ \A k \in K : \E i \in 1..Cardinality(K) : f[i] = k

(* The place of row i among the rows of kept. *)
PlaceIn(kept, i) == CHOOSE k \in DOMAIN kept : kept[k] = i

Pick(seq, slots) == [k \in 1..Len(slots) |-> seq[slots[k]]]

(* First queue position of every queued row. *)
FirstPositions(q) ==
  [i \in {q[k] : k \in DOMAIN q} |-> Min({k \in DOMAIN q : q[k] = i})]

Playable(i) == i \in DOMAIN tracks /\ ~tracks[i].unplayable

PlayableSlots(ord, from, to) ==
  {s \in from..to : s \in DOMAIN ord /\ Playable(ord[s])}

CurrentIndex ==
  IF order = <<>> THEN None ELSE IF queuedIdx # None THEN queuedIdx ELSE order[pos]

(* doShuffle: the row at slot p first, the others in any order behind it. *)
Shuffles(ord, p) == {o \in Orders(Len(ord)) : o[1] = ord[p]}

(* The tail shuffle of Add: any order of the rows behind slot p. *)
TailShuffles(ord, p) == {o \in Orders(Len(ord)) : \A i \in 1..p : o[i] = ord[i]}

-----------------------------------------------------------------------------
(* Where playback goes next *)

AtShuffleWrap(q) ==
  repeat = "All" /\ shuffle /\ q = <<>> /\ queuedIdx = None /\ pos >= Len(order)

(* Reshuffle at the end of a pass: the row that just played moves to the   *)
(* front and is chosen only if nothing else can play.                      *)
BadWrapSlotSkipsOne(o) ==
  IF PlayableSlots(o, 3, Len(o)) # {} THEN Min(PlayableSlots(o, 3, Len(o))) ELSE 1

WrapSlot(o) ==
  IF PlayableSlots(o, 2, Len(o)) # {} THEN Min(PlayableSlots(o, 2, Len(o))) ELSE 1

ShuffleWrapTargets ==
  {<<o, WrapSlot(o)>> : o \in {s \in Shuffles(order, pos) : PlayableSlots(s, 1, Len(s)) # {}}}

(* The <<order, slot>> pairs advanceFromOrder can answer with; {} is "not ok". *)
AdvanceTargets(q) ==
  LET later == PlayableSlots(order, pos + 1, Len(order))
      any   == PlayableSlots(order, 1, Len(order))
  IN IF later # {} THEN {<<order, Min(later)>>}
     ELSE IF repeat # "All" \/ any = {} THEN {}
     ELSE IF AtShuffleWrap(q) THEN ShuffleWrapTargets
     ELSE {<<order, Min(any)>>}

PlayableQueued == {k \in DOMAIN queue : Playable(queue[k])}

(* A return of a transport call: ok, the row it names, the state it leaves. *)
Outcome(ok, i, ord, p, q, qi) ==
  [ok |-> ok, row |-> i, order |-> ord, pos |-> p, queue |-> q, queuedIdx |-> qi]

(* Every way Next can return.  A queue without a playable entry is dropped *)
(* before the order is looked at.                                          *)
NextOutcomes ==
  LET stay == Outcome(FALSE, None, order, pos, <<>>, queuedIdx)
      k == Min(PlayableQueued)
  IN IF tracks = <<>> THEN {Outcome(FALSE, None, order, pos, queue, queuedIdx)}
     ELSE IF PlayableQueued # {}
     THEN {Outcome(TRUE, queue[k], order, pos, SubSeq(queue, k + 1, Len(queue)), queue[k])}
     ELSE IF repeat = "One"
     THEN {IF Playable(order[pos]) THEN Outcome(TRUE, order[pos], order, pos, <<>>, None) ELSE stay}
     ELSE IF AdvanceTargets(<<>>) = {} THEN {stay}
     ELSE {Outcome(TRUE, t[1][t[2]], t[1], t[2], <<>>, None) : t \in AdvanceTargets(<<>>)}

BadPeekInOrderAcrossWrap ==
  IF AdvanceTargets(queue) = {} THEN None
  ELSE LET t == CHOOSE t \in AdvanceTargets(queue) : TRUE IN t[1][t[2]]

PeekInOrder ==
  IF AtShuffleWrap(queue) \/ AdvanceTargets(queue) = {} THEN None
  ELSE LET t == CHOOSE t \in AdvanceTargets(queue) : TRUE IN t[1][t[2]]

(* The row PeekNext predicts, None when it predicts nothing. *)
PeekNext ==
  IF tracks = <<>> THEN None
  ELSE IF PlayableQueued # {} THEN queue[Min(PlayableQueued)]
  ELSE IF repeat = "One" THEN IF Playable(order[pos]) THEN order[pos] ELSE None
  ELSE PeekInOrder

BadHasNextNoWrap ==
  /\ tracks # <<>>
  /\ \/ PlayableQueued # {}
     \/ repeat = "One" /\ Playable(order[pos])
     \/ repeat # "One" /\ PlayableSlots(order, pos + 1, Len(order)) # {}

HasNext ==
  /\ tracks # <<>>
  /\ \/ PlayableQueued # {}
     \/ repeat = "One" /\ Playable(order[pos])
     \/ repeat # "One" /\ PlayableSlots(order, pos + 1, Len(order)) # {}
     \/ repeat = "All" /\ PlayableSlots(order, 1, Len(order)) # {}

PrevOutcomes ==
  LET before == PlayableSlots(order, 1, pos - 1)
      any    == PlayableSlots(order, 1, Len(order))
      back(S) == Outcome(TRUE, order[Max(S)], order, Max(S), queue, None)
  IN IF tracks = <<>> THEN {}
     ELSE IF before # {} THEN {back(before)}
     ELSE IF repeat = "All" /\ any # {} THEN {back(any)}
     ELSE {Outcome(FALSE, CurrentIndex, order, pos, queue, queuedIdx)}

(* The slot ActivateSelected and PeekSelected resolve to, None for "not ok". *)
SelectedSlot ==
  LET later   == PlayableSlots(order, pos + 1, Len(order))
      earlier == PlayableSlots(order, 1, pos - 1)
  IN IF order = <<>> THEN None
     ELSE IF Playable(order[pos]) THEN pos
     ELSE IF later # {} THEN Min(later)
     ELSE IF repeat = "All" /\ earlier # {} THEN Min(earlier) ELSE None

PeekSelected == IF SelectedSlot = None THEN None ELSE order[SelectedSlot]

-----------------------------------------------------------------------------
(* Transport *)

Take(r) ==
  /\ order' = r.order
  /\ pos' = r.pos
  /\ queue' = r.queue
  /\ queuePositions' = FirstPositions(r.queue)
  /\ queuedIdx' = r.queuedIdx
  /\ revision' = IF <<order, pos, queue, queuedIdx>>' = <<order, pos, queue, queuedIdx>>
                 THEN revision ELSE Bump(1)
  /\ UNCHANGED <<tracks, modeVars>>

NextTrack == \E r \in NextOutcomes : Take(r)

PrevTrack == \E r \in PrevOutcomes : Take(r)

ActivateSelected ==
  /\ SelectedSlot # None
  /\ Take(Outcome(TRUE, order[SelectedSlot], order, SelectedSlot, queue, None))

SetIndex(i) ==
  LET at == {s \in DOMAIN order : order[s] = i}
  IN Take(Outcome(TRUE, i, order, IF at = {} THEN pos ELSE Min(at), queue, None))

-----------------------------------------------------------------------------
(* The play-next queue *)

BadSetQueueSilent(q) ==
  /\ queue' = q
  /\ queuePositions' = FirstPositions(q)
  /\ UNCHANGED <<tracks, order, pos, queuedIdx, modeVars, revision>>

SetQueue(q) ==
  /\ queue' = q
  /\ queuePositions' = FirstPositions(q)
  /\ revision' = Bump(1)
  /\ UNCHANGED <<tracks, order, pos, queuedIdx, modeVars>>

BadExtendPositionsLast(i) ==
  [k \in DOMAIN queuePositions \cup {i} |->
     IF k = i THEN Len(queue) + 1 ELSE queuePositions[k]]

(* Queue extends the position map in place; the other edits rebuild it. *)
ExtendPositions(i) ==
  [k \in DOMAIN queuePositions \cup {i} |->
     IF k \in DOMAIN queuePositions THEN queuePositions[k] ELSE Len(queue) + 1]

Queue(i) ==
  /\ i \in DOMAIN tracks
  /\ Len(queue) < MaxQueue
  /\ queue' = Append(queue, i)
  /\ queuePositions' = ExtendPositions(i)
  /\ revision' = Bump(1)
  /\ UNCHANGED <<tracks, order, pos, queuedIdx, modeVars>>

DeleteAt(q, k) == SubSeq(q, 1, k - 1) \o SubSeq(q, k + 1, Len(q))

Dequeue(i) ==
  LET at == {k \in DOMAIN queue : queue[k] = i}
  IN at # {} /\ SetQueue(DeleteAt(queue, Min(at)))

RemoveQueueAt(k) == k \in DOMAIN queue /\ SetQueue(DeleteAt(queue, k))

MoveQueue(from, to) ==
  /\ {from, to} \subseteq DOMAIN queue /\ from # to
  /\ SetQueue([queue EXCEPT ![from] = queue[to], ![to] = queue[from]])

ClearQueue == queue # <<>> /\ SetQueue(<<>>)

-----------------------------------------------------------------------------
(* Rows *)

Replace(rows) ==
  LET n == Len(rows)
  IN /\ tracks' = rows
     /\ pos' = 1
     /\ order' \in IF shuffle /\ n > 0 THEN Shuffles(TrackOrder(n), 1) ELSE {TrackOrder(n)}
     /\ queue' = <<>>
     /\ queuePositions' = FirstPositions(<<>>)
     /\ queuedIdx' = None
     /\ \/ revision' = Bump(1)
        \/ /\ <<tracks, order, pos, queue, queuedIdx>>' = <<tracks, order, pos, queue, queuedIdx>>
           /\ revision' = revision   \* the same state; nil and empty slices may still differ
     /\ UNCHANGED modeVars

(* Rows land behind the others; in shuffle mode they are mixed into the    *)
(* part of the order that has not played.  pos lies inside the order (see  *)
(* PlayOrderIntegrity), so the recovery branch of the source is dead code. *)
AppendRows(rows) ==
  LET n        == Len(tracks)
      appended == order \o [k \in 1..Len(rows) |-> n + k]
  IN /\ tracks' = tracks \o rows
     /\ order' \in IF ~shuffle THEN {appended}
                   ELSE IF n = 0 THEN Shuffles(appended, 1)
                   ELSE TailShuffles(appended, pos)
     /\ pos' = IF shuffle /\ n = 0 THEN 1 ELSE pos
     /\ UNCHANGED <<queue, queuePositions, queuedIdx, modeVars>>

Add(rows) == rows # <<>> /\ AppendRows(rows) /\ revision' = Bump(1)

(* Recommended rows are mixed in without a new revision. *)
AddSmart(rows) ==
  /\ shuffle
  /\ rows # <<>>
  /\ AppendRows([k \in DOMAIN rows |-> [rows[k] EXCEPT !.smart = TRUE]])
  /\ UNCHANGED revision

SlotsBefore(gone) == {s \in DOMAIN order : order[s] \in gone /\ s < pos}

BadPosUnclamped(gone, left) == pos - Cardinality(SlotsBefore(gone))

Clamped(p, left) == IF left < 1 \/ p < 1 THEN 1 ELSE IF p > left THEN left ELSE p

BadPosKept(gone, left) == Clamped(pos, left)

(* The position among the left rows that stay. *)
PosAfterRemoval(gone, left) == Clamped(pos - Cardinality(SlotsBefore(gone)), left)

(* removeLocked for every index of gone at once, highest first in the      *)
(* source: rows, order and queue close up, references follow their row.    *)
RemoveRows(gone) ==
  LET kept     == InOrder(DOMAIN tracks \ gone)
      slots    == InOrder({s \in DOMAIN order : order[s] \notin gone})
      left     == InOrder({k \in DOMAIN queue : queue[k] \notin gone})
  IN /\ tracks' = Pick(tracks, kept)
     /\ order' = [k \in 1..Len(slots) |-> PlaceIn(kept, order[slots[k]])]
     /\ queue' = [k \in 1..Len(left) |-> PlaceIn(kept, queue[left[k]])]
     /\ queuePositions' = FirstPositions(queue')
     /\ queuedIdx' = IF queuedIdx \in gone \cup {None} THEN None ELSE PlaceIn(kept, queuedIdx)
     /\ pos' = PosAfterRemoval(gone, Cardinality(DOMAIN tracks \ gone))
     /\ revision' = Bump(Cardinality(gone))

Remove(i) ==
  /\ i \in DOMAIN tracks
  /\ RemoveRows({i})
  /\ UNCHANGED modeVars

BadPendingSmartWithCurrent ==
  {order[s] : s \in {k \in DOMAIN order : k >= pos /\ tracks[order[k]].smart}}

(* The unplayed Smart rows: those behind the position. *)
PendingSmart == {order[s] : s \in {k \in DOMAIN order : k > pos /\ tracks[order[k]].smart}}

EnableSmart == smart' = TRUE /\ UNCHANGED <<tracks, playVars, shuffle, repeat, revision>>

DisableSmart ==
  /\ smart' = FALSE
  /\ RemoveRows(PendingSmart)
  /\ UNCHANGED <<shuffle, repeat>>

Swapped(i, from, to) == IF i = from THEN to ELSE IF i = to THEN from ELSE i

SwappedIn(seq, from, to) == [k \in DOMAIN seq |-> Swapped(seq[k], from, to)]

BadOrderAfterMoveKept(from, to) == SwappedIn(order, from, to)

OrderAfterMove(from, to) ==
  IF shuffle THEN SwappedIn(order, from, to) ELSE TrackOrder(Len(tracks))

(* Swap two rows.  Every reference follows its row; without shuffle the    *)
(* track order then becomes the play order.                                *)
Move(from, to) ==
  /\ {from, to} \subseteq DOMAIN tracks /\ from # to
  /\ tracks' = [tracks EXCEPT ![from] = tracks[to], ![to] = tracks[from]]
  /\ queue' = SwappedIn(queue, from, to)
  /\ queuePositions' = FirstPositions(queue')
  /\ queuedIdx' = Swapped(queuedIdx, from, to)
  /\ order' = OrderAfterMove(from, to)
  /\ pos' = IF shuffle THEN pos ELSE Swapped(order[pos], from, to)
  /\ revision' = Bump(1)
  /\ UNCHANGED modeVars

SetTrack(i, row) ==
  /\ i \in DOMAIN tracks /\ tracks[i] # row
  /\ tracks' = [tracks EXCEPT ![i] = row]
  /\ revision' = Bump(1)
  /\ UNCHANGED <<playVars, modeVars>>

ToggleBookmark(i) ==
  /\ i \in DOMAIN tracks
  /\ tracks' = [tracks EXCEPT ![i].bookmark = ~@]
  /\ revision' = Bump(1)
  /\ UNCHANGED <<playVars, modeVars>>

-----------------------------------------------------------------------------
(* Modes *)

FlipShuffle ==
  /\ shuffle' = ~shuffle
  /\ IF tracks = <<>> THEN UNCHANGED <<order, pos>>
     ELSE IF shuffle THEN order' = TrackOrder(Len(tracks)) /\ pos' = order[pos]
     ELSE order' \in Shuffles(order, pos) /\ pos' = 1
  /\ revision' = Bump(1)
  /\ UNCHANGED <<tracks, queue, queuePositions, queuedIdx, repeat>>

ToggleShuffle == FlipShuffle /\ UNCHANGED smart

SetRepeat(mode) ==
  /\ repeat # mode
  /\ repeat' = mode
  /\ revision' = Bump(1)
  /\ UNCHANGED <<tracks, playVars, shuffle, smart>>

CycleRepeat ==
  SetRepeat(CASE repeat = "Off" -> "All" [] repeat = "All" -> "One" [] repeat = "One" -> "Off")

-----------------------------------------------------------------------------
(* Snapshots *)

Snapshot == [tracks |-> tracks, order |-> order, pos |-> pos, shuffle |-> shuffle,
             smart |-> smart, repeat |-> repeat, queue |-> queue, queuedIdx |-> queuedIdx]

(* matches compares everything but the smart flag. *)
Matches(s, t) == [s EXCEPT !.smart = FALSE] = [t EXCEPT !.smart = FALSE]

BadRestoreKeepsPositions(s) ==
  /\ tracks' = s.tracks /\ order' = s.order /\ pos' = s.pos
  /\ shuffle' = s.shuffle /\ smart' = s.smart /\ repeat' = s.repeat
  /\ queue' = s.queue /\ queuedIdx' = s.queuedIdx
  /\ revision' = Bump(1)
  /\ UNCHANGED queuePositions

Restore(s) ==
  /\ tracks' = s.tracks /\ order' = s.order /\ pos' = s.pos
  /\ shuffle' = s.shuffle /\ smart' = s.smart /\ repeat' = s.repeat
  /\ queue' = s.queue /\ queuedIdx' = s.queuedIdx
  /\ queuePositions' = FirstPositions(s.queue)
  /\ revision' \in IF Matches(Snapshot, s) THEN {revision, Bump(1)} ELSE {Bump(1)}

-----------------------------------------------------------------------------

Init ==
  /\ tracks = <<>> /\ order = <<>> /\ pos = 1
  /\ shuffle = FALSE /\ smart = FALSE /\ repeat = "Off"
  /\ queue = <<>> /\ queuePositions = FirstPositions(<<>>) /\ queuedIdx = None
  /\ revision = 0

Listed == {tracks[i].id : i \in DOMAIN tracks}

NewRows(ids) == {r \in Row : /\ r.id \in ids /\ ~r.smart /\ ~r.bookmark
                             /\ r.unplayable => r.id \in UnplayableIds}

(* What callers pass in: rows not in the list yet, at most MaxAdd of them. *)
RowLists(ids) ==
  UNION {{rows \in [1..n -> NewRows(ids)] :
            \A i, j \in 1..n : rows[i].id = rows[j].id => i = j} : n \in 1..MaxAdd}

(* ToggleBookmark on a row that the bound allows. *)
FlipBookmark ==
  \E i \in DOMAIN tracks : tracks[i].id \in BookmarkIds /\ ToggleBookmark(i)

(* SetTrack on such a row: its file has gone, or is there again.           *)
MarkUnplayable ==
  \E i \in DOMAIN tracks, u \in BOOLEAN :
    tracks[i].id \in UnplayableIds /\ SetTrack(i, [tracks[i] EXCEPT !.unplayable = u])

Edit ==
  \/ \E rows \in RowLists(Ids \ Listed) : Add(rows)
  \/ \E i \in DOMAIN tracks : Queue(i) \/ Dequeue(i) \/ Remove(i)
  \/ FlipBookmark
  \/ MarkUnplayable
  \/ \E i, j \in DOMAIN tracks : Move(i, j)
  \/ \E k \in DOMAIN queue : RemoveQueueAt(k)
  \/ \E k, l \in DOMAIN queue : MoveQueue(k, l)
  \/ ClearQueue
  \/ ToggleShuffle
  \/ CycleRepeat
  \/ \E mode \in RepeatModes : SetRepeat(mode)

SmartEdit ==
  \/ EnableSmart
  \/ DisableSmart
  \/ \E rows \in RowLists(SmartIds \ Listed) : AddSmart(rows)

Transport ==
  \/ NextTrack
  \/ PrevTrack
  \/ ActivateSelected
  \/ \E i \in DOMAIN tracks : SetIndex(i)
  \/ \E rows \in RowLists(Ids) : Replace(rows)

Next == Edit \/ SmartEdit \/ Transport

Spec == Init /\ [][Next]_vars

-----------------------------------------------------------------------------
(* Properties *)

(* The indices always refer to rows that exist: order is a permutation of  *)
(* the rows and pos a slot of it, queue entries and queuedIdx are rows,    *)
(* and the position map agrees with the queue.  Every slice access of      *)
(* playlist.go relies on it, none checks it.                               *)
PlayOrderIntegrity ==
  /\ order \in Orders(Len(tracks))
  /\ pos \in DOMAIN order \/ (order = <<>> /\ pos = 1)
  /\ \A k \in DOMAIN queue : queue[k] \in DOMAIN tracks
  /\ queuedIdx \in DOMAIN tracks \cup {None}

QueuePositionsExact == queuePositions = FirstPositions(queue)

TypeOK ==
  /\ tracks \in Seq(Row)
  /\ order \in Seq(Nat) /\ pos \in Nat
  /\ queue \in Seq(Nat) /\ queuedIdx \in Nat
  /\ shuffle \in BOOLEAN /\ smart \in BOOLEAN /\ repeat \in RepeatModes
  /\ revision \in 0..RevisionModulus - 1

(* Without shuffle the play order is the track order: OrderPosition and    *)
(* the queue view answer from the track index alone.                       *)
TrackOrderUnlessShuffled == ~shuffle => order = TrackOrder(Len(tracks))

(* All index structures are sound at once: none of the parts is inductive  *)
(* alone, since each edit rewrites order, pos, queue, the position map and *)
(* queuedIdx from one another.                                             *)
IndexInv ==
  /\ TypeOK
  /\ PlayOrderIntegrity
  /\ QueuePositionsExact
  /\ TrackOrderUnlessShuffled

(* HasNext (IPC can_next, MPRIS CanGoNext) and Next agree on whether        *)
(* anything follows, and what Next starts can play.                        *)
HasNextMeansNext ==
  \A r \in NextOutcomes : r.ok = HasNext /\ (r.ok => Playable(r.row))

(* A prediction of PeekNext is what Next then plays, and it declines to    *)
(* predict only at a reshuffle or at the end: the gapless preload is built *)
(* from it.  A queue holding unplayable rows only is left out, see         *)
(* PeekNextExact.                                                          *)
PeekNextGuidesPreload ==
  (queue = <<>> \/ PlayableQueued # {}) =>
    IF PeekNext = None
    THEN HasNext => AtShuffleWrap(queue)
    ELSE \A r \in NextOutcomes : r.ok /\ r.row = PeekNext

(* What the UI asks before Next runs comes true when it runs: whether      *)
(* anything follows, and which row the engine was given to preload.        *)
PredictionsHold == HasNextMeansNext /\ PeekNextGuidesPreload

(* "PeekNext returns the next track ... Returns false when the next track  *)
(* can't be predicted (e.g., shuffle wrap)": with no exception.            *)
PeekNextExact ==
  PeekNext # None => \A r \in NextOutcomes : r.ok /\ r.row = PeekNext

CurrentId == IF CurrentIndex = None THEN None ELSE tracks[CurrentIndex].id

IdsOf(indices) == [k \in DOMAIN indices |-> tracks[indices[k]].id]

(* The elements of seq that are among ids, in their order. *)
Among(seq, ids) == Pick(seq, InOrder({k \in DOMAIN seq : seq[k] \in ids}))

RowEdit ==
  \/ /\ Len(tracks') > Len(tracks)
     /\ Add(SubSeq(tracks', Len(tracks) + 1, Len(tracks')))
  \/ /\ Len(tracks') < Len(tracks)
     /\ \E i \in DOMAIN tracks : Remove(i)
  \/ /\ Len(tracks') = Len(tracks) /\ tracks' # tracks
     /\ \E i, j \in DOMAIN tracks : Move(i, j)

SmartRowEdit ==
  \/ smart' # smart /\ (EnableSmart \/ DisableSmart)
  \/ Len(tracks') < Len(tracks) /\ DisableSmart
  \/ Len(tracks') > Len(tracks) /\ \E rows \in RowLists(SmartIds \ Listed) : AddSmart(rows)

(* Row edits leave the listener alone: the active row stays the active one *)
(* unless it is itself removed, the queue keeps its rows in their order,   *)
(* and under shuffle so does everything up to the position.                *)
RowEditKeepsPlace ==
  RowEdit =>
    /\ tracks # <<>> /\ CurrentId \in Listed' => CurrentId' = CurrentId
    /\ IdsOf(queue)' = Among(IdsOf(queue), Listed')
    /\ shuffle /\ tracks # <<>> =>
         LET played == Among(IdsOf(SubSeq(order, 1, pos)), Listed')
         IN played = SubSeq(IdsOf(order)', 1, Len(played))

(* A recommendation batch never disturbs what already played nor what      *)
(* plays, and dropping the unplayed Smart rows keeps every other row, the  *)
(* play order among them and the active row, unless a queued Smart row     *)
(* plays (see DisableSmartKeepsPlaying).                                   *)
SmartEditKeepsPlace ==
  SmartRowEdit =>
    /\ tracks # <<>> =>
         /\ \A k \in 1..pos : k \in DOMAIN order' /\ IdsOf(order)'[k] = IdsOf(order)[k]
         /\ CurrentId \in Listed' => CurrentId' = CurrentId
    /\ IdsOf(queue)' = Among(IdsOf(queue), Listed')
    /\ DisableSmart => \A s \in DOMAIN order' : s > pos' => ~tracks'[order'[s]].smart

(* Neither the user's edits nor the recommendations move the listener from *)
(* the active row or lose what is queued.                                  *)
EditsKeepPlace == [][RowEditKeepsPlace /\ SmartEditKeepsPlace]_vars

(* "Smart rows that already played (including the current one) stay."      *)
DisableSmartKeepsPlaying ==
  [][DisableSmart => CurrentId' = CurrentId]_vars

(* A client that sees the same revision twice sees the same state; the     *)
(* smart flag and recommended rows are left out, see RevisionTracksRows.  *)
RevisionTracksEdits ==
  [][revision' = revision =>
       \/ Matches(Snapshot, Snapshot')
       \/ \E rows \in RowLists(SmartIds \ Listed) : AddSmart(rows)]_vars

(* "Revision returns the monotonic version of the playlist's mutable       *)
(* state": a change of the rows is a new version.                          *)
RevisionTracksRows == [][tracks' # tracks => revision' # revision]_vars

(* "If the removed track was the active one, the position stays at the     *)
(* same order slot so playback advances naturally on next": the row that   *)
(* followed the removed one is the one Next goes to.                       *)
RemovedRowsSuccessorIsNext ==
  [][\A i \in DOMAIN tracks :
       /\ Remove(i)
       /\ i = CurrentIndex /\ queuedIdx = None /\ Playable(i)
       /\ queue = <<>> /\ repeat = "Off"
       /\ pos < Len(order) /\ Playable(order[pos + 1])
       => (\A r \in NextOutcomes : r.ok /\ tracks[r.row].id = IdsOf(order)[pos])']_vars

=============================================================================
