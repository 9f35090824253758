------------------------------ MODULE Receiver ------------------------------
(***************************************************************************)
(* What a receiver promises the application that runs it, independent of   *)
(* scheduler, listener and close table: the records of a connection come   *)
(* in order and end with at most one Ended, no more connections are open   *)
(* than the limit, nothing is handed off once run has returned, it returns *)
(* Ok only when it was asked to stop, and then its summary accounts for    *)
(* every connection and payload.  Module Drive implements this contract;   *)
(* module Capture relies on it.                                            *)
(***************************************************************************)
EXTENDS Integers, FiniteSets, FiniteSetsExt

CONSTANT Conns       \* identities of connections

VARIABLES
    limit,           \* connections open at once, given with the configuration
    conn,            \* none, accepted, open (Connected handed off), ended, dropped
    handed,          \* payload records handed off
    stop,            \* the application asked for the end, or is gone
    result,          \* of run: none, Ok or Err
    report           \* RunSummary: connections ended and abandoned, payloads
                     \* handed off, payloads and records undelivered

contract == <<limit, conn, handed, stop, result, report>>

NoReport == [ended |-> 0, abandoned |-> 0, handed |-> 0, raw |-> 0,
             undelivered |-> 0]

Running == result = "none"
Open == {c \in Conns : conn[c] \in {"accepted", "open"}}
Was(states) == Cardinality({c \in Conns : conn[c] \in states})

Init ==
    /\ limit \in Nat \ {0}
    /\ conn = [c \in Conns |-> "none"] /\ handed = [c \in Conns |-> 0]
    /\ stop = FALSE /\ result = "none" /\ report = NoReport

Becomes(c, from, to) == Running /\ conn[c] \in from /\ conn' = [conn EXCEPT ![c] = to]

\* Identities are given out in order, within the limit of connections.
Accept(c) ==
    /\ Becomes(c, {"none"}, "accepted") /\ Cardinality(Open) < limit
    /\ \A d \in Conns : d < c => conn[d] # "none"
    /\ UNCHANGED handed

Connect(c) == Becomes(c, {"accepted"}, "open") /\ UNCHANGED handed
Payload(c) ==
    Becomes(c, {"open"}, "open") /\ handed' = [handed EXCEPT ![c] = @ + 1]
End(c) == Becomes(c, {"open"}, "ended") /\ UNCHANGED handed

\* A connection goes without a terminal record: closed by request or cut off.
Drop(c) == Becomes(c, {"accepted", "open"}, "dropped") /\ UNCHANGED handed

\* run returns with its summary.
Return(outcome) ==
    /\ Running /\ result' = outcome /\ UNCHANGED <<conn, handed>>
    /\ outcome = "Ok" =>
          /\ stop
          /\ report'.ended = Was({"ended"})
          /\ report'.abandoned = Was({"accepted", "open", "dropped"})
          /\ report'.handed = SumFunctionOnSet(handed, Conns)
          /\ report'.raw <= report'.abandoned /\ report'.undelivered <= report'.abandoned

Step ==
    \/ \E c \in Conns : /\ Accept(c) \/ Connect(c) \/ Payload(c) \/ End(c) \/ Drop(c)
                        /\ UNCHANGED <<stop, result, report>>
    \/ \E outcome \in {"Ok", "Err"} : Return(outcome) /\ UNCHANGED stop
    \/ ~stop /\ stop' /\ UNCHANGED <<conn, handed, result, report>>

Next == Step /\ UNCHANGED limit

Spec == Init /\ [][Next]_contract
=============================================================================
