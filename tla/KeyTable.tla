------------------------------- MODULE KeyTable -------------------------------
(***************************************************************************)
(* What the configuration store promises: a table of keys in which a call  *)
(* sets (or clears) the one key it names, at once or not at all; a call    *)
(* that goes blind, having failed to read the table, starts a new one.     *)
(***************************************************************************)
CONSTANTS Key, Value, NoValue

VARIABLES table, blind

Blank == [key \in Key |-> NoValue]

Init == table \in [Key -> Value \cup {NoValue}]

Put(key, value) == table' = [table EXCEPT ![key] = value]

PutBlind(key, value) == blind /\ table' = [Blank EXCEPT ![key] = value]

Next ==
    \E key \in Key, value \in Value \cup {NoValue} : Put(key, value) \/ PutBlind(key, value)

Spec == Init /\ [][Next]_table

=============================================================================
