---------------------------- MODULE TablistSpec -----------------------------
(***************************************************************************)
(* What a tablist promises (tablist.move): a table whose keys keep the     *)
(* order in which they were added, so that who has read one key is told    *)
(* the one before and the one after it, also when the key was removed.     *)
(***************************************************************************)
EXTENDS SequencesExt

CONSTANTS Keys, Values, NONE

VARIABLES
  list,      \* the keys, in the order of their addition
  values,    \* the value of each
  returned   \* by the last call: [value, previous, next]

vars == <<list, values, returned>>

Nothing == [value |-> NONE, previous |-> NONE, next |-> NONE]

Init == list = << >> /\ values = << >> /\ returned = Nothing

KeyAt(i) == IF i \in DOMAIN list THEN list[i] ELSE NONE

Position(key) == CHOOSE i \in DOMAIN list : list[i] = key

Answer(key) ==
  [value |-> values[key], previous |-> KeyAt(Position(key) - 1),
   next |-> KeyAt(Position(key) + 1)]

Add(key, value) ==
  /\ key \notin ToSet(list)
  /\ list' = Append(list, key)
  /\ values' = [k \in ToSet(list) \cup {key} |->
                 IF k = key THEN value ELSE values[k]]
  /\ returned' = Nothing

BorrowIterable(key) ==
  /\ key \in ToSet(list)
  /\ returned' = Answer(key)
  /\ UNCHANGED <<list, values>>

Assign(key, value) ==
  /\ key \in ToSet(list)
  /\ returned' = [Answer(key) EXCEPT !.value = value]
  /\ values' = [values EXCEPT ![key] = value]
  /\ UNCHANGED list

RemoveIterable(key) ==
  /\ key \in ToSet(list)
  /\ returned' = Answer(key)
  /\ list' = RemoveAt(list, Position(key))
  /\ values' = [k \in ToSet(list) \ {key} |-> values[k]]

Next == \E key \in Keys : \/ \E value \in Values : \/ Add(key, value)
                                                   \/ Assign(key, value)
                          \/ BorrowIterable(key)
                          \/ RemoveIterable(key)

Spec == Init /\ [][Next]_vars
=============================================================================
