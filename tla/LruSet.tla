------------------------------- MODULE LruSet -------------------------------
(***************************************************************************)
(* What the replacement in sram.c promises: a set of the cache holds the   *)
(* blocks used last, as many as it has lines, and gives up the one whose   *)
(* last use is the longest ago.                                            *)
(***************************************************************************)
EXTENDS Integers, Sequences

CONSTANTS
    Tag,         \* the blocks that compete for the set
    NLine        \* the lines of the set

VARIABLE
    recent       \* the tags in the set, the one used last first

Present(t) == \E n \in DOMAIN recent : recent[n] = t

\* t goes first, and what was before place p moves back by one
ToFront(t, p) ==
    recent' = [n \in 1 .. (IF p > Len(recent) THEN p ELSE Len(recent)) |->
                  IF n = 1 THEN t ELSE IF n <= p THEN recent[n - 1] ELSE recent[n]]

\* its own place, a new one, or the last one, of which it takes the block's
Use(t) ==
    \/ \E p \in DOMAIN recent : recent[p] = t /\ ToFront(t, p)
    \/ ~Present(t) /\ Len(recent) < NLine /\ ToFront(t, Len(recent) + 1)
    \/ ~Present(t) /\ Len(recent) = NLine /\ ToFront(t, NLine)

Reset == recent' = <<>>

Init == recent = <<>>

Next == Reset \/ \E t \in Tag : Use(t)

Spec == Init /\ [][Next]_recent
=============================================================================
