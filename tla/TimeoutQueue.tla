---------------------------- MODULE TimeoutQueue ----------------------------
(***************************************************************************)
(* The TimeoutQueue of arhat.dev/pkg/queue: entries that become due at a   *)
(* given time, in a slice with an index by key, behind one mutex.  One     *)
(* goroutine owns the timer: it sets it to what arrives on resetCh, and    *)
(* sorts when it fires.  Another one hands the expired entries over, one   *)
(* by one.  The clients offer and remove entries; one of them, the         *)
(* consumer, also takes what has timed out, and may offer it again.        *)
(*                                                                         *)
(* Time is counted in units of at least a millisecond, the slack of sort.  *)
(* Stopping the queue, Clear, Forbid, Allow and Remains, which this        *)
(* program does not use while it runs, are left out.                       *)
(***************************************************************************)
EXTENDS Integers, Sequences

CONSTANTS
    Keys,
    Clients,     \* goroutines that use the queue
    Consumer,    \* the one of them that takes what has timed out
    Horizon,     \* last instant of the clock, which stands for all later ones
    MaxOffers,   \* bound on the entries offered
    MaxRemoves   \* bound on the entries removed

ASSUME ConsumerAssumption == Consumer \in Clients /\ {"none", "timer"} \cap Clients = {}
ASSUME BoundsAssumption ==
    Horizon \in Nat /\ MaxOffers \in Nat /\ MaxRemoves \in Nat

\* An entry.  Its number, the count of offers before it, is its identity.
Entry == [key : Keys, id : Nat, due : Nat]

VARIABLES
    now,        \* the clock
    data,       \* the entries that wait, in the order of the slice
    index,      \* position in data of an entry of each key
    nextSort,   \* when the goroutine of the timer is expected to sort next
    mu,         \* who holds the mutex
    sending,    \* what the holder of the mutex is sending on resetCh, if anything
    resetCh,    \* channel of new waits for the timer, of capacity one
    alarm,      \* when the timer fires, if it is set
    rung,       \* the timer fired, and its channel was not read yet (timeGot = 0)
    sorter,     \* what the goroutine of the timer is doing
    after,      \* the wait it sets the timer to after sorting, if any
    count,      \* how many entries it found expired
    expired,    \* what is left of expiredData to hand over
    signaled,   \* expireSignaled
    timeoutCh,  \* channel of entries that timed out, of capacity one
    handling,   \* the key the consumer handles and needs the queue for, if any
    taken,      \* how many entries the consumer took
    offers,     \* how many entries were offered
    removes     \* how many entries were removed

queue == <<data, index, nextSort>>
timer == <<alarm, rung, sorter, after, count>>
delivery == <<expired, signaled, timeoutCh>>
client == <<handling, taken>>
vars == <<now, queue, mu, sending, resetCh, timer, delivery, client, offers, removes>>

-----------------------------------------------------------------------------
(* The slice and its index. *)

KeysOf(s) == {s[i].key : i \in DOMAIN s}

\* A faulty variant of the next definition, used by no specification: positions
\* are not looked up again.
WrongRebuilt(gone, s) == [k \in DOMAIN index \ gone |-> index[k]]

\* The index after the entries of the keys gone are deleted and data becomes s.
\* Of several entries of a key, the last one is found.
Rebuilt(gone, s) ==
    [k \in (DOMAIN index \ gone) \cup KeysOf(s) |->
        IF k \in KeysOf(s)
        THEN CHOOSE i \in DOMAIN s :
                s[i].key = k /\ \A j \in DOMAIN s : s[j].key = k => j <= i
        ELSE index[k]]

Sorted(s) == \A i \in 1..Len(s) - 1 : s[i].due <= s[i + 1].due

\* How many entries at the front of the sorted s are due.
DueAtFront(s) ==
    CHOOSE n \in 0..Len(s) :
        /\ \A i \in 1..n : s[i].due <= now
        /\ n < Len(s) => s[n + 1].due > now

\* A faulty variant of the next definition, used by no specification: a wait is taken
\* for an instant.
WrongFiresAt(wait) == IF wait < Horizon THEN wait ELSE Horizon

\* When a timer that is set to wait will fire.
FiresAt(wait) == IF now + wait < Horizon THEN now + wait ELSE Horizon

-----------------------------------------------------------------------------
(* The clients.  Everything between Lock and Unlock that does not block is   *)
(* one step.                                                                 *)

\* Faulty variants of the next definition, used by no specification: only the first
\* entry, or only an entry due before the next sort, wakes the goroutine of the timer.
WrongWakesTimerFirst(due) == data = << >>
WrongWakesTimerEarlier(due) == nextSort > due

\* The timer has to be set for an entry that is alone or due before the next sort.
WakesTimer(due) == data = << >> \/ nextSort > due

\* OfferWithTime; OfferWithDelay computes due first.  The send on resetCh
\* happens with the mutex held.
OfferWithTime(c, key, due) ==
    /\ mu = "none"
    /\ offers < MaxOffers
    /\ offers' = offers + 1
    /\ data' = Append(data, [key |-> key, id |-> offers, due |-> due])
    /\ index' = [k \in DOMAIN index \cup {key} |-> IF k = key THEN Len(data) + 1 ELSE index[k]]
    /\ IF WakesTimer(due)
       THEN nextSort' = due /\ mu' = c /\ sending' = <<due - now>>
       ELSE UNCHANGED <<nextSort, mu, sending>>
    /\ UNCHANGED <<now, resetCh, timer, delivery, taken, removes>>

Offer ==
    \E c \in Clients \ {Consumer}, key \in Keys, due \in 0..Horizon :
        /\ OfferWithTime(c, key, due)
        /\ UNCHANGED handling

\* The consumer offers the key it handles again.
OfferAgain ==
    \E due \in 0..Horizon :
        /\ handling # << >>
        /\ OfferWithTime(Consumer, handling[1], due)
        /\ handling' = << >>

\* The consumer looks for the key it handles, finds it and leaves it at that (as it
\* does when the bound on offers is reached).
Find ==
    /\ handling # << >>
    /\ mu = "none"
    /\ handling[1] \in DOMAIN index \/ offers = MaxOffers
    /\ handling' = << >>
    /\ UNCHANGED <<now, queue, mu, sending, resetCh, timer, delivery, taken, offers, removes>>

\* Remove; of a key without an entry it changes nothing.  nextSort stays.
Remove ==
    \E key \in DOMAIN index :
        LET i == index[key]
            rest == SubSeq(data, 1, i - 1) \o SubSeq(data, i + 1, Len(data)) IN
        /\ mu = "none"
        /\ removes < MaxRemoves
        /\ removes' = removes + 1
        /\ data' = rest
        /\ index' = Rebuilt({key}, rest)
        /\ UNCHANGED <<now, nextSort, mu, sending, resetCh, timer, delivery, client, offers>>

\* The send of a client goes through, and it unlocks.
Sent ==
    /\ mu \in Clients
    /\ resetCh = << >>
    /\ resetCh' = sending
    /\ sending' = << >>
    /\ mu' = "none"
    /\ UNCHANGED <<now, queue, timer, delivery, client, offers, removes>>

\* The consumer takes an entry from TakeCh, and either needs the queue to handle
\* it or not.
Take ==
    /\ handling = << >>
    /\ timeoutCh # << >>
    /\ timeoutCh' = << >>
    /\ handling' \in {<< >>, <<timeoutCh[1].key>>}
    /\ mu # Consumer
    /\ taken' = taken + 1
    /\ UNCHANGED <<now, queue, mu, sending, resetCh, timer, expired, signaled, offers, removes>>

-----------------------------------------------------------------------------
(* The goroutine of the timer. *)

Tick ==
    /\ now < Horizon
    /\ now' = now + 1
    /\ UNCHANGED <<queue, mu, sending, resetCh, timer, delivery, client, offers, removes>>

\* The timer of the runtime fires.
Ring ==
    /\ alarm # << >>
    /\ alarm[1] <= now
    /\ alarm' = << >>
    /\ rung' = TRUE
    /\ UNCHANGED <<now, queue, mu, sending, resetCh, sorter, after, count,
                   delivery, client, offers, removes>>

\* A wait arrives: the timer is set to it, after sorting first if the timer fired
\* and nobody has read that.
Reset ==
    /\ sorter = "select"
    /\ resetCh # << >>
    /\ resetCh' = << >>
    /\ rung' = FALSE
    /\ IF rung
       THEN alarm' = << >> /\ sorter' = "lock" /\ after' = resetCh
       ELSE alarm' = <<FiresAt(resetCh[1])>> /\ UNCHANGED <<sorter, after>>
    /\ UNCHANGED <<now, queue, mu, sending, count, delivery, client, offers, removes>>

\* The timer's channel is read.
Expire ==
    /\ sorter = "select"
    /\ rung
    /\ rung' = FALSE
    /\ sorter' = "lock"
    /\ UNCHANGED <<now, queue, mu, sending, resetCh, alarm, after, count,
                   delivery, client, offers, removes>>

\* The end of sort: back to the select, setting the timer if that is left to do.
Return ==
    /\ sorter' = "select"
    /\ alarm' = IF after = << >> THEN alarm ELSE <<FiresAt(after[1])>>
    /\ after' = << >>
    /\ count' = 0
    /\ UNCHANGED rung

SortLock ==
    /\ sorter = "lock"
    /\ mu = "none"
    /\ IF data = << >>
       THEN Return /\ UNCHANGED mu
       ELSE mu' = "timer" /\ sorter' = "sort" /\ UNCHANGED <<alarm, rung, after, count>>
    /\ UNCHANGED <<now, queue, sending, resetCh, delivery, client, offers, removes>>

\* One step of sort.Sort (an insertion sort): Swap of two neighbours.
Swap ==
    \E i \in 1..Len(data) - 1 :
        /\ sorter = "sort"
        /\ data[i].due > data[i + 1].due
        /\ data' = [data EXCEPT ![i] = data[i + 1], ![i + 1] = data[i]]
        /\ index' = [index EXCEPT ![data[i + 1].key] = i, ![data[i].key] = i + 1]
        /\ UNCHANGED <<now, nextSort, mu, sending, resetCh, timer, delivery,
                       client, offers, removes>>

\* The loop over the sorted entries: count those that are due, and have the timer
\* set for the next one.
Scan ==
    /\ sorter = "sort"
    /\ Sorted(data)
    /\ count' = DueAtFront(data)
    /\ IF count' < Len(data)
       THEN LET next == data[count' + 1] IN
            nextSort' = next.due /\ sending' = <<next.due - now>> /\ sorter' = "send"
       ELSE sorter' = "spin" /\ UNCHANGED <<nextSort, sending>>
    /\ UNCHANGED <<now, data, index, mu, resetCh, alarm, rung, after,
                   delivery, client, offers, removes>>

\* The send goes through.  Without expired entries that was all.
SortSent ==
    /\ sorter = "send"
    /\ resetCh = << >>
    /\ resetCh' = sending
    /\ sending' = << >>
    /\ IF count = 0
       THEN Return /\ mu' = "none"
       ELSE sorter' = "spin" /\ UNCHANGED <<mu, alarm, rung, after, count>>
    /\ UNCHANGED <<now, queue, delivery, client, offers, removes>>

\* When the last batch has been handed over, the expired entries become the next.
HandOver ==
    /\ sorter = "spin"
    /\ ~signaled
    /\ LET batch == SubSeq(data, 1, count)
           rest == SubSeq(data, count + 1, Len(data)) IN
       /\ expired' = batch
       /\ data' = rest
       /\ index' = Rebuilt(KeysOf(batch), rest)
    /\ signaled' = TRUE
    /\ mu' = "none"
    /\ Return
    /\ UNCHANGED <<now, nextSort, sending, resetCh, timeoutCh, client, offers, removes>>

-----------------------------------------------------------------------------
(* The goroutine that hands expired entries over. *)

\* A faulty variant of the next definition, used by no specification: an entry that
\* the consumer did not take in time is overwritten.
WrongDeliver ==
    /\ expired # << >>
    /\ timeoutCh' = <<Head(expired)>>
    /\ expired' = Tail(expired)
    /\ UNCHANGED <<now, queue, mu, sending, resetCh, timer, signaled, client, offers, removes>>

Deliver ==
    /\ expired # << >>
    /\ timeoutCh = << >>
    /\ timeoutCh' = <<Head(expired)>>
    /\ expired' = Tail(expired)
    /\ UNCHANGED <<now, queue, mu, sending, resetCh, timer, signaled, client, offers, removes>>

Delivered ==
    /\ signaled
    /\ expired = << >>
    /\ signaled' = FALSE
    /\ UNCHANGED <<now, queue, mu, sending, resetCh, timer, expired, timeoutCh,
                   client, offers, removes>>

-----------------------------------------------------------------------------

Init ==
    /\ now = 0
    /\ data = << >>
    /\ index = << >>
    /\ nextSort = 0
    /\ mu = "none"
    /\ sending = << >>
    /\ resetCh = << >>
    /\ alarm = << >>
    /\ rung = FALSE
    /\ sorter = "select"
    /\ after = << >>
    /\ count = 0
    /\ expired = << >>
    /\ signaled = FALSE
    /\ timeoutCh = << >>
    /\ handling = << >>
    /\ taken = 0
    /\ offers = 0
    /\ removes = 0

\* What the goroutine of the timer does next.
Timer == Reset \/ Expire \/ SortLock \/ Swap \/ Scan \/ SortSent \/ HandOver

Next ==
    \/ Tick \/ Offer \/ OfferAgain \/ Find \/ Remove \/ Sent \/ Take
    \/ Ring \/ Timer \/ Deliver \/ Delivered

Spec == Init /\ [][Next]_vars

\* The clock goes on, the runtime runs every goroutine and fires the timer, and the
\* consumer goes on taking and handling what it took.
Fairness ==
    /\ WF_vars(Tick) /\ WF_vars(Ring) /\ WF_vars(Timer)
    /\ WF_vars(Deliver) /\ WF_vars(Delivered)
    /\ WF_vars(Take) /\ WF_vars(OfferAgain \/ Find) /\ WF_vars(Sent)

FairSpec == Spec /\ Fairness

-----------------------------------------------------------------------------
(* Properties. *)

TypeOK ==
    /\ now \in 0..Horizon
    /\ data \in Seq(Entry)
    /\ DOMAIN index \subseteq Keys /\ \A k \in DOMAIN index : index[k] \in Nat
    /\ nextSort \in Nat
    /\ mu \in Clients \cup {"none", "timer"}
    /\ sending \in Seq(Int) /\ resetCh \in Seq(Int)
    /\ alarm \in Seq(0..Horizon) /\ after \in Seq(Int)
    /\ rung \in BOOLEAN /\ signaled \in BOOLEAN
    /\ sorter \in {"select", "lock", "sort", "send", "spin"}
    /\ count \in Nat
    /\ expired \in Seq(Entry) /\ timeoutCh \in Seq(Entry)
    /\ handling \in Seq(Keys) /\ taken \in Nat
    /\ offers \in 0..MaxOffers /\ removes \in 0..MaxRemoves

\* What Find and Remove rely on, although entries are sorted, cut off at the front and
\* taken out of the middle, and a key may have several: exactly the keys that wait
\* have a position, and it is one of an entry of theirs.
IndexRight ==
    /\ DOMAIN index = KeysOf(data)
    /\ \A k \in DOMAIN index : index[k] \in DOMAIN data /\ data[index[k]].key = k

\* While entries wait, a wake-up of the goroutine of the timer is on its way, and
\* none of them is due before the time it is expected: OfferWithTime leaves the timer
\* alone for entries due later, and Remove always does.
WakesInTime ==
    data # << >> =>
        /\ rung \/ sorter # "select" \/ \E s \in {alarm, resetCh, sending} : s # << >>
        /\ sorter \in {"send", "spin"} \/ \A i \in DOMAIN data : nextSort <= data[i].due

\* Taken for what its users see, this is a DelayQueue: TakeCh gives the entries that
\* timed out one by one, none early, lost or twice, an earlier batch first.
Abstract == INSTANCE DelayQueue WITH
    waiting <- {data[i] : i \in DOMAIN data}, out <- timeoutCh \o expired
ImplementsDelayQueue == Abstract!Spec

\* Everyone waits for everyone, in one of three ways: the mutex is held by a client
\* that sends on resetCh, full, and the goroutine that reads it waits for the mutex;
\* that goroutine holds the mutex, and sends on resetCh itself; or it waits for the
\* last batch to be taken, and the consumer waits for the mutex.  All three happen,
\* and nothing but a restart of the process ends them.
Jammed ==
    \/ resetCh # << >> /\ mu \in Clients /\ sorter = "lock"
    \/ resetCh # << >> /\ sorter = "send"
    \/ sorter = "spin" /\ expired # << >> /\ timeoutCh # << >> /\ handling # << >>

Waits(id) == \E i \in DOMAIN data : data[i].id = id
Leaves(id) == \E i \in DOMAIN (timeoutCh \o expired) : (timeoutCh \o expired)[i].id = id

\* Unless the queue jams, an entry that was offered times out or is removed, and one
\* that timed out is taken.
EntriesTimeOut ==
    \A id \in 0..MaxOffers - 1 :
        /\ Waits(id) ~> (~Waits(id) \/ Jammed)
        /\ Leaves(id) ~> (~Leaves(id) \/ Jammed)
=============================================================================
