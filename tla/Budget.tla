------------------------------- MODULE Budget -------------------------------
(***************************************************************************)
(* The byte account of memory.rs under concurrency: a ByteBudget that      *)
(* several receivers use one after the other and the application may copy  *)
(* into, the RetentionTracker entries that tickets report, the drop of a   *)
(* payload on any thread, and the one subscription that turns a refund     *)
(* into a byte credit.  Module Tasks joins these steps; here every lock    *)
(* that is taken is a step of its own.                                     *)
(***************************************************************************)
EXTENDS Integers, FiniteSets, FiniteSetsExt

CONSTANTS Charge,      \* identities of OwnedBytes values, reused once free
          Receiver,    \* receivers bound to the budget; each runs once
          Conn,        \* connections with a RetentionTracker entry
          Nobody,      \* Option::None
          Sizes,       \* payload lengths, the empty one included
          Capacity     \* ByteBudget::capacity

ASSUME BudgetConstants ==
    /\ IsFiniteSet(Charge) /\ Nobody \notin Receiver \cup Conn
    /\ Sizes \subseteq Nat /\ Capacity \in Nat \ {0}

VARIABLES used, subscriber,   \* BudgetState
          retained,           \* RetentionTracker: bytes of each connection
          charge,             \* how far each OwnedBytes is
          run,                \* each receiver: "bound", "running" or "ended"
          credit,             \* receivers whose Bytes flag is raised
          wants               \* bytes the head byte waiter was refused, or 0

vars == <<used, subscriber, retained, charge, run, credit, wants>>

\* "reserved" is charged to the budget, "owned" also to the tracker; a drop
\* leaves the tracker first ("untracked"), then the budget, and "refunded" has
\* still to wake the subscriber it found.
Stages == {"free", "reserved", "owned", "untracked", "refunded"}
Free == [at |-> "free", bytes |-> 0, id |-> Nobody, waker |-> Nobody]

Init ==
    /\ used = 0 /\ subscriber = Nobody
    /\ retained = [id \in Conn |-> 0]
    /\ charge = [c \in Charge |-> Free]
    /\ run = [w \in Receiver |-> "bound"] /\ credit = {}
    /\ wants = [w \in Receiver |-> 0]

-----------------------------------------------------------------------------

Available(n) == n <= Capacity - used

\* try_copy_tracked up to the end of reserve.  The worker copies for a
\* connection and parks when the budget is full; the application's try_copy
\* has no connection and just fails.  A length beyond Capacity changes nothing.
Reserve(c, id, n) ==
    /\ charge[c].at = "free" /\ n <= Capacity
    /\ id # Nobody => subscriber # Nobody
    /\ IF Available(n)
       THEN /\ used' = used + n
            /\ charge' = [charge EXCEPT ![c] =
                             [at |-> "reserved", bytes |-> n, id |-> id, waker |-> Nobody]]
            /\ UNCHANGED wants
       ELSE /\ id # Nobody
            /\ wants' = [wants EXCEPT ![subscriber] = n]
            /\ UNCHANGED <<used, charge>>
    /\ UNCHANGED <<subscriber, retained, run, credit>>

MutTracksReplaces(c, step) ==
    retained' = IF charge[c].id = Nobody THEN retained
                ELSE [retained EXCEPT ![charge[c].id] =
                         IF step = 1 THEN charge[c].bytes ELSE @ - charge[c].bytes]

\* The tracker's entry grows and shrinks by the payload; an empty payload and
\* an untracked one touch nothing.
Tracks(c, step) ==
    retained' = IF charge[c].id = Nobody THEN retained
                ELSE [retained EXCEPT ![charge[c].id] = @ + step * charge[c].bytes]

\* RetentionTracker::add, after which the copy is complete.
Track(c) ==
    /\ charge[c].at = "reserved"
    /\ Tracks(c, 1)
    /\ charge' = [charge EXCEPT ![c].at = "owned"]
    /\ UNCHANGED <<used, subscriber, run, credit, wants>>

\* Charge::drop, on whatever thread drops the payload last.
Untrack(c) ==
    /\ charge[c].at = "owned"
    /\ Tracks(c, -1)
    /\ charge' = [charge EXCEPT ![c].at = "untracked"]
    /\ UNCHANGED <<used, subscriber, run, credit, wants>>

\* ByteBudget::release: refund and look up the subscriber under one lock.
Release(c) ==
    /\ charge[c].at = "untracked"
    /\ used' = used - charge[c].bytes
    /\ charge' = [charge EXCEPT ![c] =
                     IF charge[c].bytes = 0 \/ subscriber = Nobody THEN Free
                     ELSE [@ EXCEPT !.at = "refunded", !.waker = subscriber]]
    /\ UNCHANGED <<subscriber, retained, run, credit, wants>>

\* The waker raises the Bytes flag of the receiver that had subscribed.
Wake(c) ==
    /\ charge[c].at = "refunded"
    /\ credit' = credit \cup {charge[c].waker}
    /\ charge' = [charge EXCEPT ![c] = Free]
    /\ UNCHANGED <<used, subscriber, retained, run, wants>>

-----------------------------------------------------------------------------

MutSubscribeReplaces(w) ==
    /\ run[w] = "bound"
    /\ subscriber' = w /\ run' = [run EXCEPT ![w] = "running"]
    /\ UNCHANGED <<used, retained, charge, credit, wants>>

\* run_with subscribes; a second active worker is refused and never runs.
Subscribe(w) ==
    /\ run[w] = "bound"
    /\ IF subscriber = Nobody
       THEN subscriber' = w /\ run' = [run EXCEPT ![w] = "running"]
       ELSE run' = [run EXCEPT ![w] = "ended"] /\ UNCHANGED subscriber
    /\ UNCHANGED <<used, retained, charge, credit, wants>>

\* The head waiter is resumed by the credit and will try again.
TakeByteCredit(w) ==
    /\ run[w] = "running" /\ w \in credit
    /\ credit' = credit \ {w} /\ wants' = [wants EXCEPT ![w] = 0]
    /\ UNCHANGED <<used, subscriber, retained, charge, run>>

\* run_with returns: BudgetSubscription::drop.  Payloads outlive the run.
Unsubscribe(w) ==
    /\ run[w] = "running"
    /\ subscriber' = Nobody /\ run' = [run EXCEPT ![w] = "ended"]
    /\ wants' = [wants EXCEPT ![w] = 0]
    /\ UNCHANGED <<used, retained, charge, credit>>

Next ==
    \/ \E c \in Charge :
          \/ \E id \in Conn \cup {Nobody}, n \in Sizes : Reserve(c, id, n)
          \/ Track(c) \/ Untrack(c) \/ Release(c) \/ Wake(c)
    \/ \E w \in Receiver : Subscribe(w) \/ TakeByteCredit(w) \/ Unsubscribe(w)

Spec == Init /\ [][Next]_vars

-----------------------------------------------------------------------------

Charged == {c \in Charge : charge[c].at \in {"reserved", "owned", "untracked"}}
Tracked(id) == {c \in Charge : charge[c].at = "owned" /\ charge[c].id = id}
BytesOf(cs) == SumFunctionOnSet([c \in Charge |-> charge[c].bytes], cs)

\* The account is exact between any two locks: `used` is the bytes charged and
\* not refunded, across runs, and never exceeds the capacity; a connection's
\* retained_output_bytes is exactly its payloads that exist.  So no release
\* can find its entry missing or too small, which would panic.
AccountExact ==
    /\ used = BytesOf(Charged) /\ used <= Capacity
    /\ \A id \in Conn : retained[id] = BytesOf(Tracked(id))

\* No refund is lost when payloads outlive the run that made them: a running
\* receiver whose waiter would now fit has its credit, or a refund that found
\* it subscribed is about to raise it.
NoLostRefund ==
    \A w \in Receiver :
        run[w] = "running" /\ wants[w] > 0 /\ Available(wants[w]) =>
            w \in credit \/ \E c \in Charge : charge[c].at = "refunded" /\ charge[c].waker = w
=============================================================================
