----------------------------- MODULE DelayQueue -----------------------------
(***************************************************************************)
(* What a TimeoutQueue promises, without its goroutines: an entry waits    *)
(* until it is due or removed; entries that are due leave together, the    *)
(* earliest first, and are taken one by one in the order they left.        *)
(***************************************************************************)
EXTENDS Integers, Sequences

CONSTANT Keys

\* An entry.  Its number tells it from others of the same key.
Entry == [key : Keys, id : Nat, due : Int]

VARIABLES
    now,      \* the clock
    waiting,  \* the entries that wait
    out,      \* the entries that have left, and were not taken yet
    taken     \* how many were taken

vars == <<now, waiting, out, taken>>

Init == now = 0 /\ waiting = {} /\ out = << >> /\ taken = 0

Tick == now' = now + 1 /\ UNCHANGED <<waiting, out, taken>>

Offer ==
    \E e \in waiting' \ waiting :
        /\ e \in Entry
        /\ \A w \in waiting : w.id # e.id
        /\ \A i \in DOMAIN out : out[i].id # e.id
        /\ waiting' = waiting \cup {e}
        /\ UNCHANGED <<now, out, taken>>

Remove == \E e \in waiting : waiting' = waiting \ {e} /\ UNCHANGED <<now, out, taken>>

\* Entries leave when they are due, none before one that is due earlier.
Release ==
    \E n \in 1..Len(out') - Len(out) :
        LET left == {out'[Len(out) + i] : i \in 1..n} IN
        /\ Len(out') = Len(out) + n
        /\ \A i \in 1..Len(out) : out'[i] = out[i]
        /\ \A i, j \in 1..n : i <= j => out'[Len(out) + i].due <= out'[Len(out) + j].due
        /\ left \subseteq waiting
        /\ waiting' = waiting \ left
        /\ \A e \in left : e.due <= now /\ \A w \in waiting' : e.due <= w.due
        /\ UNCHANGED <<now, taken>>

Take ==
    /\ out # << >>
    /\ out' = Tail(out)
    /\ taken' = taken + 1
    /\ UNCHANGED <<now, waiting>>

Next == Tick \/ Offer \/ Remove \/ Release \/ Take

Spec == Init /\ [][Next]_vars
=============================================================================
