----------------------------- MODULE AtomicFile -----------------------------
(***************************************************************************)
(* What the small files of cliamp promise their readers: a list that       *)
(* changes by whole operations, each applied to the list as it is, and     *)
(* that a power loss takes back to an earlier whole list at worst, never   *)
(* past one that was settled on the disk.                                  *)
(***************************************************************************)
EXTENDS Naturals, Sequences, SequencesExt

CONSTANTS
  Items,   \* the tracks or stations of the list
  Cap      \* the longest history

VARIABLES
  value,   \* the list
  recent   \* the lists a power loss may leave

(* favorites.Store.Toggle, radio.Favorites.Toggle and radio.Pins.Toggle,   *)
(* which know from their memory what the user wants, history.Store.Record  *)
(* and Clear.                                                              *)
Operations ==
  [name : {"toggle", "record"}, item : Items]
    \cup [name : {"want"}, item : Items, wanted : BOOLEAN]
    \cup [name : {"clear"}]

Without(list, x) == SelectSeq(list, LAMBDA y : y # x)

Holds(list, x) == x \in Range(list)

Apply(o, list) ==
  CASE o.name = "toggle" ->
         IF Holds(list, o.item) THEN Without(list, o.item) ELSE <<o.item>> \o list
    [] o.name = "want" ->
         IF Holds(list, o.item) = o.wanted THEN list
         ELSE IF o.wanted THEN Append(list, o.item) ELSE Without(list, o.item)
    [] o.name = "record" ->
         LET l == <<o.item>> \o Without(list, o.item)
         IN IF Len(l) > Cap THEN SubSeq(l, 1, Cap) ELSE l
    [] o.name = "clear" -> <<>>

Init == value = <<>> /\ recent = {<<>>}

Change ==
  \E o \in Operations :
    /\ value' = Apply(o, value)
    /\ recent' = recent \cup {value'}

Settle == recent' = {value} /\ UNCHANGED value

PowerLoss == value' \in recent /\ recent' = {value'}

Next == Change \/ Settle \/ PowerLoss

Spec == Init /\ [][Next]_<<value, recent>>
=============================================================================
