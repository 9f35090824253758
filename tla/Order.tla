------------------------------- MODULE Order -------------------------------
(***************************************************************************)
(* `Order` of scheduler.rs: a FIFO kept as a doubly linked list in a map,  *)
(* so that a token can be unlinked from the middle.  Module Ready treats   *)
(* each FIFO as a sequence with PushBack and Without; here the history     *)
(* variable `fifo` is that sequence, and Represents says that the links    *)
(* stand for it.  Every method runs under the mutex of Ready.              *)
(***************************************************************************)
EXTENDS Ready

CONSTANT None              \* Option::None

ASSUME NoneAssumption == None \notin Token

VARIABLES first, last,     \* Option<Token>
          links,           \* the keys of the map
          previous, next,  \* Links of each key; None for a token without one
          fifo             \* history: the sequence that module Ready uses

list == <<first, last, links, previous, next>>
vars == <<list, fifo>>

Option == Token \cup {None}

Init ==
    /\ first = None /\ last = None /\ links = {}
    /\ previous = [t \in Token |-> None] /\ next = [t \in Token |-> None]
    /\ fifo = <<>>

\* A token that is linked already keeps its place.
Link(t) ==
    IF t \in links THEN UNCHANGED list
    ELSE /\ links' = links \cup {t}
         /\ previous' = [previous EXCEPT ![t] = last]
         /\ next' = IF last = None THEN [next EXCEPT ![t] = None]
                    ELSE [next EXCEPT ![t] = None, ![last] = t]
         /\ first' = IF last = None THEN t ELSE first
         /\ last' = t

MutUnlinkForward(t) ==
    IF t \notin links THEN UNCHANGED list
    ELSE /\ links' = links \ {t}
         /\ next' = IF previous[t] = None THEN [next EXCEPT ![t] = None]
                    ELSE [next EXCEPT ![t] = None, ![previous[t]] = next[t]]
         /\ first' = IF previous[t] = None THEN next[t] ELSE first
         /\ previous' = [previous EXCEPT ![t] = None]
         /\ last' = IF next[t] = None THEN previous[t] ELSE last

\* Both neighbours are joined; a missing neighbour moves first or last.
Unlink(t) ==
    IF t \notin links THEN UNCHANGED list
    ELSE /\ links' = links \ {t}
         /\ next' = IF previous[t] = None THEN [next EXCEPT ![t] = None]
                    ELSE [next EXCEPT ![t] = None, ![previous[t]] = next[t]]
         /\ first' = IF previous[t] = None THEN next[t] ELSE first
         /\ previous' = IF next[t] = None THEN [previous EXCEPT ![t] = None]
                        ELSE [previous EXCEPT ![t] = None, ![next[t]] = previous[t]]
         /\ last' = IF next[t] = None THEN previous[t] ELSE last

PushBackToken(t) == Link(t) /\ fifo' = PushBack(fifo, t)

RemoveToken(t) == Unlink(t) /\ fifo' = Without(fifo, t)

PopFront ==
    IF first = None THEN UNCHANGED vars
    ELSE Unlink(first) /\ fifo' = Tail(fifo)

Next == PopFront \/ \E t \in Token : PushBackToken(t) \/ RemoveToken(t)

Spec == Init /\ [][Next]_vars

-----------------------------------------------------------------------------

\* What stands at position i of s, if it has one.
At(s, i) == IF i \in 1..Len(s) THEN s[i] ELSE None

\* The links stand for the sequence: same members, once each, the same order
\* in both directions, the right ends, and nothing left over from a token that
\* was unlinked.  It is what makes every `expect("linked token is present")`
\* hold and every FIFO of module Ready a sequence.
Represents ==
    /\ fifo \in Seq(Token)
    /\ \A i, j \in 1..Len(fifo) : fifo[i] = fifo[j] => i = j
    /\ links = Members(fifo)
    /\ first = At(fifo, 1) /\ last = At(fifo, Len(fifo))
    /\ \A i \in 1..Len(fifo) : /\ next[fifo[i]] = At(fifo, i + 1)
                               /\ previous[fifo[i]] = At(fifo, i - 1)
    /\ previous \in [Token -> Option] /\ next \in [Token -> Option]
    /\ \A t \in Token \ links : previous[t] = None /\ next[t] = None
=============================================================================
