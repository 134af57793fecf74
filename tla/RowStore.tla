------------------------------ MODULE RowStore -----------------------------
(***************************************************************************)
(* What the columns of a table promise: every row that is reserved has a   *)
(* key once it is given one, an epoch, the timestamps of the values its    *)
(* index holds, and a value per column, of which the newest write stays.   *)
(* Storage implements it.                                                  *)
(***************************************************************************)
EXTENDS Integers

CONSTANTS
  Epochs,       \* number of epochs before they start again
  Slots, StoreColumns, CellValues, StoreTimes, RowKeys, RowLimit

VARIABLE rows   \* row -> [key, epoch, stamps, values]

\* A row that has never been written.
NewRow ==
  [key |-> "none", epoch |-> 0, stamps |-> [s \in Slots |-> [ts |-> 0, valid |-> FALSE]],
   values |-> [c \in StoreColumns |-> [ts |-> 0, value |-> "none"]]]

Grow ==
  /\ DOMAIN rows \subseteq DOMAIN rows' /\ DOMAIN rows' \in {0..n - 1 : n \in 1..RowLimit}
  /\ rows' = [i \in DOMAIN rows' |-> IF i \in DOMAIN rows THEN rows[i] ELSE NewRow]

Name(i) ==
  /\ rows[i].key = "none"
  /\ rows'[i].key \in RowKeys
  /\ rows' = [rows EXCEPT ![i].key = rows'[i].key]

\* The timestamps of a row are set, under its next epoch.
Restamp(i) ==
  /\ rows'[i].stamps \in [Slots -> [ts : StoreTimes, valid : BOOLEAN]]
  /\ rows' = [rows EXCEPT ![i].epoch = (@ + 1) % Epochs, ![i].stamps = rows'[i].stamps]

\* Some columns of a row are written, each to something newer.
Newer(old, new) == new.ts > old.ts /\ new \in [ts : StoreTimes, value : CellValues]
Write(i) ==
  /\ \A c \in StoreColumns :
        rows'[i].values[c] = rows[i].values[c] \/ Newer(rows[i].values[c], rows'[i].values[c])
  /\ rows' = [rows EXCEPT ![i].values = [c \in StoreColumns |-> rows'[i].values[c]]]

Init == rows = << >>
Next == Grow \/ \E i \in DOMAIN rows : Name(i) \/ Restamp(i) \/ Write(i)
Spec == Init /\ [][Next]_rows
=============================================================================
