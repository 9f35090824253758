--------------------------- MODULE CaptureProofs ---------------------------
(***************************************************************************)
(* The capture application, for any number of connections, any             *)
(* configuration and any number of signals and failures: the run status    *)
(* tells the truth about the first stop, the exit and the summaries tell   *)
(* the truth about the recordings, and the computed bounds hold.           *)
(***************************************************************************)
EXTENDS Capture, Sums

Places == {"recv", "handle", "claim", "name", "stop", "stopping", "finalise",
           "joinMonitor", "joinWorker", "status", "done", "wait", "ended"}

\* The part of the type invariant that the claim needs.
ClaimType ==
    /\ pc \in [Threads -> Places] /\ want \in [Threads -> Causes \cup {None}]
    /\ won \in BOOLEAN

\* A thread between its claim and the store of its cause is the one that won,
\* and as long as the cause is missing there is such a thread.
ClaimOwned ==
    /\ won = (first # None)
    /\ \A t \in Threads : pc[t] = "claim" => want[t] \in Causes
    /\ \A t \in Threads : pc[t] = "name" => first # None /\ want[t] = first
    /\ cause # None => cause = first
    /\ first # None /\ cause = None => \E t \in Threads : pc[t] = "name"

\* Past its join the main thread is alone.
MonitorJoined ==
    pc["main"] \in {"joinWorker", "status", "done"} => pc["monitor"] = "ended"

\* A status, once written, is final and repeats the shared state.
StatusFinal ==
    status.file = "written" =>
        /\ pc["main"] = "done" /\ status.cause = first
        /\ status.signals = signals /\ status.wake = wake

ClaimInv == ClaimType /\ ClaimOwned /\ MonitorJoined /\ StatusFinal

\* The strings that stand for causes are none of them None.
LEMMA CausesNamed == None \notin Causes
  BY DEF None, Causes

\* At the start nobody has claimed anything (run creates Control).
LEMMA InitClaim == Init => ClaimInv
<1> SUFFICES ASSUME Init PROVE ClaimInv
  OBVIOUS
<1>1. /\ pc = [t \in Threads |-> IF t = "main" THEN "recv" ELSE "wait"]
      /\ want = [t \in Threads |-> None]
      /\ won = FALSE /\ cause = None /\ first = None
  BY DEF Init, Home
<1>2. status.file # "written"
  BY DEF Init, NoStatus, None
<1>3. ClaimType
  BY <1>1 DEF ClaimType, Threads, Places
<1>4. ClaimOwned
  BY <1>1 DEF ClaimOwned, Threads
<1>5. MonitorJoined /\ StatusFinal
  BY <1>1, <1>2 DEF MonitorJoined, StatusFinal, Threads
<1> QED
  BY <1>3, <1>4, <1>5 DEF ClaimInv

\* The shared state of the claim and the status.
shared == <<won, cause, wake, signals, first, status>>

\* A step that leaves the shared state and the threads alone keeps the
\* invariant: the receiver's steps, a signal delivered, a recorder concluded.
LEMMA ThreadsStay ==
  ASSUME ClaimInv, UNCHANGED <<shared, pc, want>>
  PROVE  ClaimInv'
  BY DEF ClaimInv, ClaimType, ClaimOwned, MonitorJoined, StatusFinal, shared

\* So does one that takes the main thread from a place of its loop to another.
LEMMA MainMoves ==
  ASSUME ClaimInv, NEW to \in {"recv", "handle", "finalise", "joinMonitor"},
         pc["main"] \in {"recv", "handle", "finalise"},
         pc' = [pc EXCEPT !["main"] = to], UNCHANGED <<shared, want>>
  PROVE  ClaimInv'
  BY DEF ClaimInv, ClaimType, ClaimOwned, MonitorJoined, StatusFinal, shared, Threads, Places

\* So does the beginning of a request by the main thread.
LEMMA MainRequests ==
  ASSUME ClaimInv, NEW why \in Causes, pc["main"] = "handle",
         Request("main", why), UNCHANGED shared
  PROVE  ClaimInv'
  BY DEF ClaimInv, ClaimType, ClaimOwned, MonitorJoined, StatusFinal, shared, Threads, Places,
         Request, Goto

\* How the main thread leaves the handling of a record.
LEMMA HandledStep ==
  ASSUME ClaimInv, pc["main"] = "handle", UNCHANGED shared,
         Continue \/ Failing("local_failure") \/ Failing("admission_exhausted")
  PROVE  ClaimInv'
<1>1. CASE Continue
  BY <1>1, MainMoves DEF Continue, Goto
<1>2. CASE Failing("local_failure")
  <2>1. "local_failure" \in Causes
    BY DEF Causes
  <2> QED
    BY <1>2, <2>1, MainRequests DEF Failing
<1>3. CASE Failing("admission_exhausted")
  <2>1. "admission_exhausted" \in Causes
    BY DEF Causes
  <2> QED
    BY <1>3, <2>1, MainRequests DEF Failing
<1> QED
  BY <1>1, <1>2, <1>3

\* claim_stop's swap: the first claimant goes on to store its cause.
LEMMA ClaimStep ==
  ASSUME ClaimInv, NEW t \in Threads, Claim(t)
  PROVE  ClaimInv'
  BY CausesNamed
  DEF ClaimInv, ClaimType, ClaimOwned, MonitorJoined, StatusFinal, Threads, Places, Claim, Goto,
      Home

\* claim_stop's store of the cause.
LEMMA NameStep ==
  ASSUME ClaimInv, NEW t \in Threads, Name(t)
  PROVE  ClaimInv'
  BY DEF ClaimInv, ClaimType, ClaimOwned, MonitorJoined, StatusFinal, Threads, Places, Name, Goto

\* request's call of stop().
LEMMA StopStep ==
  ASSUME ClaimInv, NEW t \in Threads, Stop(t)
  PROVE  ClaimInv'
  BY DEF ClaimInv, ClaimType, ClaimOwned, MonitorJoined, StatusFinal, Threads, Places, Stop, Goto,
         control

\* stop() returns, and a failed wake is stored; the status is not there yet,
\* since a thread that stores it is not past the join.
LEMMA WokenStep ==
  ASSUME ClaimInv, NEW t \in Threads, Woken(t)
  PROVE  ClaimInv'
  BY DEF ClaimInv, ClaimType, ClaimOwned, MonitorJoined, StatusFinal, Threads, Places, Woken, Goto,
         Home

\* Control::signal on the signal thread.
LEMMA SignalStep ==
  ASSUME ClaimInv, Signal
  PROVE  ClaimInv'
  BY DEF ClaimInv, ClaimType, ClaimOwned, MonitorJoined, StatusFinal, Threads, Places, Signal,
         Request, Goto, Causes, None

\* The signal thread returns.
LEMMA MonitorEndsStep ==
  ASSUME ClaimInv, MonitorEnds
  PROVE  ClaimInv'
  BY DEF ClaimInv, ClaimType, ClaimOwned, MonitorJoined, StatusFinal, Threads, Places, MonitorEnds,
         Goto, control

\* The joins and the report, which finds nobody between claim and store.
LEMMA ConcludingStep ==
  ASSUME ClaimInv, JoinMonitor \/ JoinWorker \/ Report
  PROVE  ClaimInv'
<1>1. CASE JoinMonitor
  BY <1>1 DEF ClaimInv, ClaimType, ClaimOwned, MonitorJoined, StatusFinal, Threads, Places,
              JoinMonitor, Goto, loopFrame, control
<1>2. CASE JoinWorker
  BY <1>2 DEF ClaimInv, ClaimType, ClaimOwned, MonitorJoined, StatusFinal, Threads, Places,
              JoinWorker, Goto, loopFrame, control
<1>3. CASE Report
  <2>1. PICK f : status' = [file |-> f, cause |-> cause, wake |-> wake, signals |-> signals]
    BY <1>3 DEF Report
  <2>2. UNCHANGED <<won, cause, wake, signals, first, want>>
    BY <1>3 DEF Report, control
  <2>3. pc["main"] = "status" /\ pc' = [pc EXCEPT !["main"] = "done"]
    BY <1>3 DEF Report, Goto
  <2>4. cause = first
    BY <2>3 DEF ClaimInv, ClaimOwned, MonitorJoined, Threads
  <2>5. ClaimType' /\ MonitorJoined' /\ ClaimOwned'
    BY <2>2, <2>3, <2>4 DEF ClaimInv, ClaimType, ClaimOwned, MonitorJoined, Threads, Places
  <2>6. StatusFinal'
    BY <2>1, <2>2, <2>3, <2>4 DEF ClaimInv, ClaimType, StatusFinal, Threads
  <2> QED
    BY <2>5, <2>6 DEF ClaimInv
<1> QED
  BY <1>1, <1>2, <1>3

\* The record loop and the finalisation.
LEMMA LoopStep ==
  ASSUME ClaimInv,
         \/ Recv \/ Disconnected \/ CloseHandle
         \/ \E c \in Conns :
               \/ StoppedRefused(c) \/ AdmissionRefused(c) \/ DirectoryRefused(c)
               \/ CreateFails(c) \/ Opens(c) \/ RecordActive(c) \/ RecordEnd(c)
               \/ RecordFailed(c) \/ RecordUnowned(c) \/ Finalise(c)
  PROVE  ClaimInv'
<1> USE DEF loopFrame, control, shared
<1>1. CASE Recv
  BY <1>1, MainMoves DEF Recv, Goto
<1>2. CASE Disconnected
  BY <1>2, MainMoves DEF Disconnected, Goto
<1>3. CASE CloseHandle
  BY <1>3, MainMoves DEF CloseHandle, Goto
<1>4. ASSUME NEW c \in Conns, StoppedRefused(c) \/ RecordFailed(c) \/ RecordUnowned(c)
      PROVE  ClaimInv'
  BY <1>4, HandledStep DEF StoppedRefused, RecordFailed, RecordUnowned, Handling
<1>5. ASSUME NEW c \in Conns, AdmissionRefused(c)
      PROVE  ClaimInv'
  BY <1>5, HandledStep DEF AdmissionRefused, Handling
<1>6. ASSUME NEW c \in Conns, DirectoryRefused(c) \/ CreateFails(c)
      PROVE  ClaimInv'
  BY <1>6, HandledStep DEF DirectoryRefused, CreateFails, Reserving, Handling
<1>7. ASSUME NEW c \in Conns, Opens(c)
      PROVE  ClaimInv'
  BY <1>7, HandledStep DEF Opens, Reserving, Handling
<1>8. ASSUME NEW c \in Conns, RecordActive(c)
      PROVE  ClaimInv'
  BY <1>8, HandledStep DEF RecordActive, Handling
<1>9. ASSUME NEW c \in Conns, RecordEnd(c)
      PROVE  ClaimInv'
  BY <1>9, HandledStep DEF RecordEnd, Handling
<1>10. ASSUME NEW c \in Conns, Finalise(c)
       PROVE  ClaimInv'
  BY <1>10, ThreadsStay DEF Finalise
<1> QED
  BY <1>1, <1>2, <1>3, <1>4, <1>5, <1>6, <1>7, <1>8, <1>9, <1>10

\* The receiver and the operating system do not touch the claim.
LEMMA OutsideStep ==
  ASSUME ClaimInv, Receiver \/ Raise \/ UNCHANGED vars
  PROVE  ClaimInv'
<1>1. UNCHANGED <<shared, pc, want>>
  BY DEF Receiver, Raise, Returns, Accept, Connect, Payload, Ended, HandOff, receiverFrame,
         control, shared, vars
<1> QED
  BY <1>1, ThreadsStay

\* Every step of the application keeps the invariant.
LEMMA NextClaim == ClaimInv /\ [Next]_vars => ClaimInv'
<1> SUFFICES ASSUME ClaimInv, [Next]_vars PROVE ClaimInv'
  OBVIOUS
<1>1. CASE Main
  <2>1. "main" \in Threads
    BY DEF Threads
  <2> QED
    BY <1>1, <2>1, ClaimStep, NameStep, StopStep, WokenStep, LoopStep, ConcludingStep DEF Main
<1>2. CASE Monitor
  <2>1. "monitor" \in Threads
    BY DEF Threads
  <2> QED
    BY <1>2, <2>1, ClaimStep, NameStep, StopStep, WokenStep, SignalStep, MonitorEndsStep
    DEF Monitor
<1>3. CASE Receiver \/ Raise \/ UNCHANGED vars
  BY <1>3, OutsideStep
<1> QED
  BY <1>1, <1>2, <1>3 DEF Next

\* The run status names the cause of the first claim, and the signals and the
\* wake failure of the whole run, however the two threads of the application
\* interleave claim_stop, request and the joins of run.
THEOREM StatusHonest == Spec => []StatusTrue
<1>1. ClaimInv => StatusTrue
  BY DEF ClaimInv, ClaimOwned, StatusFinal, StatusTrue
<1> QED
  BY <1>1, InitClaim, NextClaim, PTL DEF Spec

-----------------------------------------------------------------------------
(* Records under way.  What the application has not handled yet of a       *)
(* connection is in the channel or is the record the main thread holds.    *)

RecordKinds == {"Connected", "Wire", "Audio"} \cup Ends
RecordType == [connection : Conns, kind : RecordKinds]

\* Record r is one of connection c of the kinds ks.
Is(r, c, ks) == r.connection = c /\ r.kind \in ks

\* The channel s has such a record, and how many it has.
Holds(s, c, ks) == \E i \in 1..Len(s) : Is(s[i], c, ks)
Marks(s, c, ks) == [i \in 1..Len(s) |-> IF Is(s[i], c, ks) THEN 1 ELSE 0]
Number(s, c, ks) == SumFunctionOnSet(Marks(s, c, ks), DOMAIN Marks(s, c, ks))

\* A connection's records are in order: nothing is before Connected, nothing
\* after the terminal record.
InOrder(s) ==
    \A i, j \in 1..Len(s) : i < j /\ s[i].connection = s[j].connection
                            => s[j].kind # "Connected" /\ s[i].kind \notin Ends

\* The marks of a channel are a sequence of numbers; without a record of the
\* kind they are all zero.
LEMMA MarksType ==
    ASSUME NEW s \in Seq(RecordType), NEW c, NEW ks
    PROVE  /\ Marks(s, c, ks) \in Seq(Int) /\ Number(s, c, ks) \in Int
           /\ ~Holds(s, c, ks) => Number(s, c, ks) = 0
<1> DEFINE m == Marks(s, c, ks)
           S == 1..Len(s)
<1>1. Len(s) \in Nat /\ m \in [S -> Int] /\ DOMAIN m = S
  BY LenProperties DEF Marks
<1>2. m \in Seq(Int)
  BY <1>1
<1>3. Number(s, c, ks) \in Int
  BY <1>2, SumSeqType DEF Number
<1>4. ASSUME ~Holds(s, c, ks) PROVE Number(s, c, ks) = 0
  <2>1. \A i \in S \ {} : m[i] = 0
    BY <1>4 DEF Marks, Holds
  <2>2. IsFiniteSet(S) /\ {} \in SUBSET S
    BY <1>1, FS_Interval
  <2> HIDE DEF m, S
  <2>3. SumFunctionOnSet(m, S) = SumFunctionOnSet(m, {}) /\ SumFunctionOnSet(m, {}) = 0
    BY <1>1, <2>1, <2>2, SumSupport, SumRec
  <2> QED BY <1>1, <2>3 DEF Number, m
<1> QED BY <1>2, <1>3, <1>4

\* A record that is handed off.
LEMMA RecordAppended ==
    ASSUME NEW s \in Seq(RecordType), NEW r \in RecordType, NEW c, NEW ks
    PROVE  /\ Holds(Append(s, r), c, ks) <=> Holds(s, c, ks) \/ Is(r, c, ks)
           /\ Number(Append(s, r), c, ks)
                 = Number(s, c, ks) + (IF Is(r, c, ks) THEN 1 ELSE 0)
<1> DEFINE e == Append(s, r)
           v == IF Is(r, c, ks) THEN 1 ELSE 0
<1>1. /\ e \in Seq(RecordType) /\ Len(e) = Len(s) + 1 /\ e[Len(s) + 1] = r
      /\ \A i \in 1..Len(s) : e[i] = s[i]
      /\ Len(s) \in Nat
  BY AppendProperties, LenProperties
<1> HIDE DEF e
<1>2. \A i \in 1..Len(e) : i \in 1..Len(s) \/ i = Len(s) + 1
  BY <1>1
<1>3. Len(s) + 1 \in 1..Len(e) /\ \A i \in 1..Len(s) : i \in 1..Len(e)
  BY <1>1
<1>4. Holds(e, c, ks) <=> Holds(s, c, ks) \/ Is(r, c, ks)
  BY <1>1, <1>2, <1>3 DEF Holds
<1>5. Marks(e, c, ks) = Append(Marks(s, c, ks), v)
  <2> DEFINE m == Marks(s, c, ks)
             k == Marks(e, c, ks)
  <2>1. m \in Seq(Int) /\ k \in Seq(Int) /\ v \in Int
    BY <1>1, MarksType
  <2>2. Len(m) = Len(s) /\ Len(k) = Len(e)
    BY <1>1 DEF Marks
  <2>3. \A i \in 1..Len(s) : k[i] = m[i]
    BY <1>1, <1>3 DEF Marks
  <2>4. k[Len(s) + 1] = v
    BY <1>1, <1>3 DEF Marks
  <2> HIDE DEF m, k, v
  <2>5. /\ Append(m, v) \in Seq(Int) /\ Len(Append(m, v)) = Len(m) + 1
        /\ \A i \in 1..Len(m) : Append(m, v)[i] = m[i]
        /\ Append(m, v)[Len(m) + 1] = v
    BY <2>1, AppendProperties
  <2>6. Len(k) = Len(Append(m, v)) /\ \A i \in 1..Len(k) : k[i] = Append(m, v)[i]
    BY <1>1, <1>2, <2>2, <2>3, <2>4, <2>5
  <2>7. k = Append(m, v)
    BY <2>1, <2>5, <2>6, SeqEqual
  <2> QED BY <2>7 DEF m, k
<1>6. Number(e, c, ks) = Number(s, c, ks) + v
  <2>1. Marks(s, c, ks) \in Seq(Int) /\ v \in Int
    BY MarksType
  <2> HIDE DEF v
  <2> QED BY <1>5, <2>1, SumAppend DEF Number
<1> QED BY <1>4, <1>6 DEF e

\* A record that is received.
LEMMA RecordTaken ==
    ASSUME NEW s \in Seq(RecordType), s # <<>>, NEW c, NEW ks
    PROVE  /\ Head(s) \in RecordType /\ Tail(s) \in Seq(RecordType)
           /\ Holds(s, c, ks) <=> Is(Head(s), c, ks) \/ Holds(Tail(s), c, ks)
           /\ Number(s, c, ks)
                 = Number(Tail(s), c, ks) + (IF Is(Head(s), c, ks) THEN 1 ELSE 0)
<1> DEFINE g == Tail(s)
           m == Marks(s, c, ks)
           k == Marks(g, c, ks)
<1>1. /\ Head(s) \in RecordType /\ Head(s) = s[1] /\ g \in Seq(RecordType) /\ Len(g) = Len(s) - 1
      /\ \A i \in 1..Len(g) : g[i] = s[i + 1]
      /\ Len(s) \in Nat /\ Len(s) # 0
  <2>1. Head(s) = s[1]
    OBVIOUS
  <2> QED BY <2>1, HeadTailProperties, LenProperties, EmptySeq
<1> HIDE DEF g
<1>2. /\ \A i \in 1..Len(s) : i = 1 \/ (i - 1 \in 1..Len(g) /\ (i - 1) + 1 = i)
      /\ \A i \in 1..Len(g) : i + 1 \in 1..Len(s)
      /\ 1 \in 1..Len(s)
  BY <1>1
<1>3. Holds(s, c, ks) <=> Is(Head(s), c, ks) \/ Holds(g, c, ks)
  <2>1. ASSUME NEW i \in 1..Len(s), Is(s[i], c, ks) PROVE Is(Head(s), c, ks) \/ Holds(g, c, ks)
    <3>1. CASE i = 1
      BY <1>1, <2>1, <3>1
    <3>2. CASE i # 1
      <4>1. i - 1 \in 1..Len(g) /\ g[i - 1] = s[i]
        BY <1>1, <1>2, <3>2
      <4> QED BY <2>1, <4>1 DEF Holds
    <3> QED BY <3>1, <3>2
  <2>2. ASSUME NEW i \in 1..Len(g), Is(g[i], c, ks) PROVE Holds(s, c, ks)
    BY <1>1, <1>2, <2>2 DEF Holds
  <2>3. Is(Head(s), c, ks) => Holds(s, c, ks)
    BY <1>1, <1>2 DEF Holds
  <2> QED BY <2>1, <2>2, <2>3 DEF Holds
<1>4. m \in Seq(Int) /\ k \in Seq(Int) /\ Len(m) = Len(s) /\ Len(k) = Len(g)
  BY <1>1, MarksType DEF Marks
<1>5. Head(m) = IF Is(Head(s), c, ks) THEN 1 ELSE 0
  <2>1. m[1] = IF Is(Head(s), c, ks) THEN 1 ELSE 0
    BY <1>1, <1>2 DEF Marks
  <2> QED BY <1>1, <1>4, <2>1
<1>6. \A i \in 1..Len(g) : k[i] = m[i + 1]
  BY <1>1, <1>2 DEF Marks
<1> HIDE DEF m, k
<1>7. m # <<>>
  BY <1>1, <1>4
<1>8. k = Tail(m)
  <2>1. /\ Tail(m) \in Seq(Int) /\ Len(Tail(m)) = Len(m) - 1
        /\ \A i \in 1..Len(Tail(m)) : Tail(m)[i] = m[i + 1]
    BY <1>4, <1>7, HeadTailProperties
  <2>2. Len(k) = Len(Tail(m)) /\ \A i \in 1..Len(k) : k[i] = Tail(m)[i]
    BY <1>1, <1>4, <1>6, <2>1
  <2> QED BY <1>4, <2>1, <2>2, SeqEqual
<1>9. SumFunctionOnSet(k, DOMAIN k) = SumFunctionOnSet(m, DOMAIN m) - Head(m)
  BY <1>4, <1>7, <1>8, SumTail
<1>10. Number(s, c, ks) = Number(g, c, ks) + Head(m)
  <2>1. Head(m) \in Int /\ SumFunctionOnSet(m, DOMAIN m) \in Int
    BY <1>4, <1>5, SumSeqType
  <2> QED BY <1>9, <2>1 DEF Number, m, k
<1> QED BY <1>1, <1>3, <1>5, <1>10 DEF g

\* A record keeps the order if Connected comes first and nothing after an end.
LEMMA OrderAppended ==
    ASSUME NEW s \in Seq(RecordType), NEW r \in RecordType, InOrder(s),
           r.kind = "Connected" => ~Holds(s, r.connection, RecordKinds),
           ~Holds(s, r.connection, Ends)
    PROVE  InOrder(Append(s, r))
<1> DEFINE e == Append(s, r)
<1>1. /\ e \in Seq(RecordType) /\ Len(e) = Len(s) + 1 /\ e[Len(s) + 1] = r
      /\ \A i \in 1..Len(s) : e[i] = s[i] /\ s[i] \in RecordType
      /\ Len(s) \in Nat
  BY AppendProperties, LenProperties, ElementOfSeq
<1> HIDE DEF e
<1>2. SUFFICES ASSUME NEW i \in 1..Len(e), NEW j \in 1..Len(e), i < j,
                      e[i].connection = e[j].connection
               PROVE  e[j].kind # "Connected" /\ e[i].kind \notin Ends
  BY DEF InOrder, e
<1>3. i \in 1..Len(s) /\ e[i] = s[i] /\ s[i].kind \in RecordKinds
  BY <1>1, <1>2 DEF RecordType
<1>4. CASE j = Len(s) + 1
  <2>1. s[i].connection = r.connection /\ e[j] = r
    BY <1>1, <1>2, <1>3, <1>4
  <2>2. Holds(s, r.connection, RecordKinds)
    BY <1>3, <2>1 DEF Holds, Is
  <2>3. s[i].kind \notin Ends
    BY <1>3, <2>1 DEF Holds, Is
  <2> QED BY <1>3, <2>1, <2>2, <2>3
<1>5. CASE j # Len(s) + 1
  <2>1. j \in 1..Len(s) /\ e[j] = s[j]
    BY <1>1, <1>2, <1>5
  <2> QED BY <1>2, <1>3, <2>1 DEF InOrder
<1> QED BY <1>4, <1>5

\* What order says of the record at the front.
LEMMA OrderTaken ==
    ASSUME NEW s \in Seq(RecordType), s # <<>>, InOrder(s)
    PROVE  /\ InOrder(Tail(s))
           /\ ~Holds(Tail(s), Head(s).connection, {"Connected"})
           /\ Head(s).kind \in Ends => ~Holds(Tail(s), Head(s).connection, RecordKinds)
<1> DEFINE g == Tail(s)
<1>1. /\ Head(s) = s[1] /\ g \in Seq(RecordType) /\ Len(g) = Len(s) - 1
      /\ \A i \in 1..Len(g) : g[i] = s[i + 1]
      /\ Len(s) \in Nat /\ Len(s) # 0
  <2>1. Head(s) = s[1]
    OBVIOUS
  <2> QED BY <2>1, HeadTailProperties, LenProperties, EmptySeq
<1> HIDE DEF g
<1>2. /\ \A i \in 1..Len(g) : i + 1 \in 1..Len(s) /\ 1 < i + 1
      /\ 1 \in 1..Len(s)
  BY <1>1
<1>3. InOrder(g)
  <2> SUFFICES ASSUME NEW i \in 1..Len(g), NEW j \in 1..Len(g), i < j,
                      g[i].connection = g[j].connection
               PROVE  g[j].kind # "Connected" /\ g[i].kind \notin Ends
    BY DEF InOrder
  <2>1. i + 1 \in 1..Len(s) /\ j + 1 \in 1..Len(s) /\ i + 1 < j + 1
        /\ g[i] = s[i + 1] /\ g[j] = s[j + 1]
    BY <1>1, <1>2
  <2> QED BY <2>1 DEF InOrder
<1>4. ASSUME NEW i \in 1..Len(g), g[i].connection = Head(s).connection
      PROVE  g[i].kind # "Connected" /\ Head(s).kind \notin Ends
  <2>1. g[i] = s[i + 1] /\ s[1].connection = s[i + 1].connection
    BY <1>1, <1>4
  <2> QED BY <1>1, <1>2, <2>1 DEF InOrder
<1> QED BY <1>3, <1>4 DEF Holds, Is, g

-----------------------------------------------------------------------------
(* The life of a connection, as the application sees it.                   *)

\* A record of c of the kinds ks is under way; how many are.
Has(c, ks) == Is(rec, c, ks) \/ Holds(queue, c, ks)
Under(c, ks) == (IF Is(rec, c, ks) THEN 1 ELSE 0) + Number(queue, c, ks)
Groups == {{"Connected"}, {"Wire"}, {"Audio"}, Ends, RecordKinds}

Sizes == [wire : Nat, wave : Nat, log : Nat]
Counters == {"admission", "stopped", "unowned", "failed", "metadata"}
Loop == {"recv", "handle", "claim", "name", "stop", "stopping"}
After == {"finalise", "joinMonitor", "joinWorker", "status", "done"}
Late == pc["main"] \in After

\* What the main thread has handled of the connection.
Seen(c) == conn[c] \in {"open", "ended"} /\ ~Has(c, {"Connected"})

\* Nothing exists of a connection whose Connected record was not handled, and
\* everything handed off for it is under way.
Untouched(c) ==
    /\ c \notin dirs /\ entry[c] = None /\ summaries[c] = None /\ end[c] = "Incomplete"
    /\ files[c].wire = 0 /\ files[c].wave = 0 /\ files[c].log = 0
    /\ Under(c, {"Wire"}) = handed[c].wire /\ Under(c, {"Audio"}) = handed[c].wave
    /\ Under(c, RecordKinds) = handed[c].log

\* What was handed off is in the files or under way.
Whole(c) ==
    /\ files[c].wire + Under(c, {"Wire"}) = handed[c].wire
    /\ files[c].wave + Under(c, {"Audio"}) = handed[c].wave + Header
    /\ files[c].log + Under(c, RecordKinds) = handed[c].log

\* What is true of a connection from its acceptance to its summary.
Life(c) ==
    /\ Has(c, RecordKinds) => conn[c] \in {"open", "ended"}
    /\ Has(c, Ends) => conn[c] = "ended"
    /\ ~Seen(c) => Untouched(c) /\ (conn[c] = "ended" => Has(c, Ends))
    /\ entry[c] = "Active" => /\ Seen(c) /\ Whole(c) /\ summaries[c] = None
                              /\ end[c] = "Incomplete" /\ c \in dirs
                              /\ conn[c] = "ended" => Has(c, Ends)
    /\ entry[c] = "Failed" => Seen(c) /\ summaries[c] = None /\ c \in dirs /\ bad
    /\ summaries[c] = "observed" => /\ entry[c] = None /\ Whole(c) /\ conn[c] = "ended"
                                    /\ end[c] \in CleanEnds /\ ~Has(c, RecordKinds)
    /\ summaries[c] = "incomplete" => entry[c] = None /\ Whole(c) /\ conn[c] # "ended" /\ Late
    /\ Seen(c) /\ entry[c] = None /\ summaries[c] # "observed" =>
          bad \/ counts["unowned"] > 0 \/ conn[c] = "open" \/ Has(c, RecordKinds)

\* The records under way are in order, that in the main thread's hands first.
Flow ==
    /\ InOrder(queue)
    /\ rec.kind # None =>
          /\ ~Holds(queue, rec.connection, {"Connected"})
          /\ rec.kind \in Ends => ~Holds(queue, rec.connection, RecordKinds)

\* The locals of run and the state of the receiver keep their shape.
AppType ==
    /\ pc \in [Threads -> Places] /\ pc["main"] \in Loop \cup After
    /\ config \in Configs
    /\ queue \in Seq(RecordType) /\ rec \in RecordType \cup {NoRecord}
    /\ conn \in [Conns -> {None, "accepted", "open", "ended"}]
    /\ handed \in [Conns -> Sizes] /\ files \in [Conns -> Sizes]
    /\ result \in {None, "Ok", "Err", "Panic"}
    /\ wake \in BOOLEAN /\ bad \in BOOLEAN
    /\ entry \in [Conns -> {None, "Active", "Failed"}]
    /\ reserved \in Nat /\ counts \in [Counters -> Nat]
    /\ dirs \subseteq Conns
    /\ end \in [Conns -> {"Incomplete"} \cup Ends]
    /\ summaries \in [Conns -> {None, "torn", "observed", "failed", "incomplete"}]
    /\ faults \in Nat

\* The main thread holds a record exactly while it handles one; once it has left
\* the loop the receiver is gone and the channel drained.
Drained ==
    /\ rec = NoRecord <=> pc["main"] # "handle"
    /\ Late => result # None /\ queue = <<>>
    /\ pc["main"] \in After \ {"finalise"} => Owned = {}

\* The inductive invariant of the record loop.
AppInv == AppType /\ Flow /\ Drained /\ \A c \in Conns : Life(c)

\* The strings that stand for record kinds.
LEMMA KindsNamed ==
    /\ None \notin RecordKinds /\ "Connected" \notin Ends /\ "Wire" \notin Ends
    /\ "Audio" \notin Ends /\ Ends \subseteq RecordKinds
    /\ \A r \in RecordType : r # NoRecord /\ r.kind \in RecordKinds /\ r.connection \in Conns
  BY CaptureConstants DEF EndReasons, CleanEnds, RecordKinds, RecordType, None, NoRecord

\* Nothing about d changes what is under way of it.
SameFlight(d) == \A ks \in Groups : (Has(d, ks)' <=> Has(d, ks)) /\ Under(d, ks)' = Under(d, ks)

\* A connection that a step does not concern.
LEMMA LifeStays ==
    ASSUME NEW d \in Conns, Life(d), SameFlight(d),
           conn'[d] = conn[d], handed'[d] = handed[d], entry'[d] = entry[d],
           files'[d] = files[d], end'[d] = end[d], summaries'[d] = summaries[d],
           d \in dirs' <=> d \in dirs, bad => bad', Late => Late',
           counts["unowned"] > 0 => counts'["unowned"] > 0
    PROVE  Life(d)'
<1>1. /\ Has(d, {"Connected"})' <=> Has(d, {"Connected"})
      /\ Has(d, Ends)' <=> Has(d, Ends)
      /\ Has(d, RecordKinds)' <=> Has(d, RecordKinds)
      /\ Under(d, {"Wire"})' = Under(d, {"Wire"}) /\ Under(d, {"Audio"})' = Under(d, {"Audio"})
      /\ Under(d, RecordKinds)' = Under(d, RecordKinds)
  BY DEF SameFlight, Groups
<1>2. /\ Seen(d)' <=> Seen(d)
      /\ Whole(d)' <=> Whole(d)
      /\ Untouched(d)' <=> Untouched(d)
  BY <1>1 DEF Seen, Whole, Untouched
<1> QED BY <1>1, <1>2 DEF Life

\* Before anything is handed off (run has just bound the receiver).
LEMMA InitApp == Init => AppInv
<1> SUFFICES ASSUME Init PROVE AppInv
  OBVIOUS
<1>1. AppType
  <2>1. pc \in [Threads -> Places] /\ pc["main"] = "recv"
    BY DEF Init, Threads, Places, Home
  <2>2. counts \in [Counters -> Nat]
    BY DEF Init, Counters
  <2>3. handed \in [Conns -> Sizes] /\ files \in [Conns -> Sizes]
    BY DEF Init, Sizes
  <2>4. queue \in Seq(RecordType) /\ config \in Configs
    BY DEF Init
  <2> QED BY <2>1, <2>2, <2>3, <2>4 DEF Init, AppType, Loop
<1>2. Flow
  BY DEF Init, Flow, InOrder, NoRecord, None
<1>3. Drained
  BY DEF Init, Drained, Late, After, Threads, Home
<1>4. ASSUME NEW c \in Conns PROVE Life(c)
  <2>1. \A ks \in Groups : ~Is(rec, c, ks) /\ ~Holds(queue, c, ks)
    <3>1. \A ks \in Groups : None \notin ks
      BY KindsNamed DEF Groups, None
    <3> QED BY <3>1 DEF Init, Is, Holds, NoRecord
  <2>2. \A ks \in Groups : ~Has(c, ks) /\ Under(c, ks) = 0
    <3>1. queue \in Seq(RecordType)
      BY <1>1 DEF AppType
    <3>2. \A ks \in Groups : Number(queue, c, ks) = 0
      BY <2>1, <3>1, MarksType
    <3> QED BY <2>1, <3>2 DEF Has, Under
  <2>3. /\ ~Has(c, {"Connected"}) /\ ~Has(c, Ends) /\ ~Has(c, RecordKinds)
        /\ Under(c, {"Wire"}) = 0 /\ Under(c, {"Audio"}) = 0 /\ Under(c, RecordKinds) = 0
    BY <2>2 DEF Groups
  <2>4. conn[c] = None /\ entry[c] = None /\ summaries[c] = None /\ c \notin dirs
        /\ end[c] = "Incomplete"
    BY DEF Init
  <2>5. /\ handed[c] = [wire |-> 0, wave |-> 0, log |-> 0]
        /\ files[c] = [wire |-> 0, wave |-> 0, log |-> 0]
    BY DEF Init
  <2>6. ~Seen(c) /\ Untouched(c)
    BY <2>3, <2>4, <2>5 DEF Seen, Untouched, None
  <2> QED BY <2>3, <2>4, <2>6 DEF Life, None
<1> QED BY <1>1, <1>2, <1>3, <1>4 DEF AppInv

\* The application's files, recorders and records stay; a thread moves, the
\* receiver returns or the run turns bad.
books == <<config, queue, rec, conn, handed, entry, reserved, counts, dirs, files, end, summaries>>

\* Such a step keeps the invariant, provided it does not leave the loop too
\* early: what the places of the main thread promise is an assumption here.
LEMMA BooksStay ==
    ASSUME AppInv, UNCHANGED books,
           pc' \in [Threads -> Places], pc'["main"] \in Loop \cup After,
           pc'["main"] = "handle" <=> pc["main"] = "handle", Late => Late',
           result' \in {None, "Ok", "Err", "Panic"}, result # None => result' = result,
           Late' => result # None /\ queue = <<>>,
           pc'["main"] \in After \ {"finalise"} => Owned = {},
           wake' \in BOOLEAN, bad' \in BOOLEAN, bad => bad', faults' \in Nat
    PROVE  AppInv'
<1>1. AppType'
  BY DEF AppInv, AppType, books
<1>2. Flow'
  BY DEF AppInv, Flow, books
<1>3. Drained'
  BY DEF AppInv, Drained, Late, Owned, books
<1>4. ASSUME NEW c \in Conns PROVE Life(c)'
  <2>1. SameFlight(c)
    BY DEF SameFlight, Has, Under, books
  <2>2. Life(c)
    BY DEF AppInv
  <2> QED BY <2>1, <2>2, LifeStays DEF books
<1> QED BY <1>1, <1>2, <1>3, <1>4 DEF AppInv

-----------------------------------------------------------------------------
(* The receiver's steps.                                                   *)

\* How much is under way is a number.
LEMMA UnderType ==
    ASSUME AppType, NEW c
    PROVE  \A ks : Under(c, ks) \in Int
  BY MarksType DEF AppType, Under

\* What a record handed off adds to what is under way.
LEMMA FlightGrows ==
    ASSUME AppType, NEW c \in Conns, NEW kind \in RecordKinds, rec' = rec,
           queue' = Append(queue, [connection |-> c, kind |-> kind])
    PROVE  /\ queue' \in Seq(RecordType)
           /\ \A d \in Conns : d # c => SameFlight(d)
           /\ \A ks \in Groups :
                 /\ Has(c, ks)' <=> Has(c, ks) \/ kind \in ks
                 /\ Under(c, ks)' = Under(c, ks) + (IF kind \in ks THEN 1 ELSE 0)
<1> DEFINE r == [connection |-> c, kind |-> kind]
<1>1. r \in RecordType /\ queue \in Seq(RecordType) /\ r.connection = c /\ r.kind = kind
  BY DEF RecordType, AppType
<1> HIDE DEF r
<1>2. queue' = Append(queue, r)
  BY DEF r
<1>3. queue' \in Seq(RecordType)
  BY <1>1, <1>2, AppendProperties
<1>4. \A d, ks : /\ Holds(queue', d, ks) <=> Holds(queue, d, ks) \/ Is(r, d, ks)
                 /\ Number(queue', d, ks) = Number(queue, d, ks) + (IF Is(r, d, ks) THEN 1 ELSE 0)
                 /\ Number(queue, d, ks) \in Int
  BY <1>1, <1>2, RecordAppended, MarksType
<1>5. ASSUME NEW d \in Conns, d # c PROVE SameFlight(d)
  <2>1. \A ks : ~Is(r, d, ks)
    BY <1>1, <1>5 DEF Is
  <2> QED BY <1>4, <2>1 DEF SameFlight, Has, Under
<1>6. ASSUME NEW ks \in Groups
      PROVE  /\ Has(c, ks)' <=> Has(c, ks) \/ kind \in ks
             /\ Under(c, ks)' = Under(c, ks) + (IF kind \in ks THEN 1 ELSE 0)
  <2>1. Is(r, c, ks) <=> kind \in ks
    BY <1>1 DEF Is
  <2> QED BY <1>4, <2>1 DEF Has, Under
<1> QED BY <1>3, <1>5, <1>6

\* A connection is between these states when a record of this kind is sent.
Sends(kind, from, to) ==
    \/ kind = "Connected" /\ from = "accepted" /\ to = "open"
    \/ kind \in {"Wire", "Audio"} /\ from = "open" /\ to = "open"
    \/ kind \in Ends /\ from = "open" /\ to = "ended"

\* The receiver hands off a record: it is under way until the main thread has
\* handled it.
LEMMA HandOffStep ==
    ASSUME AppInv, NEW c \in Conns, NEW kind \in RecordKinds, NEW to,
           HandOff(c, kind), Running, conn' = [conn EXCEPT ![c] = to],
           Sends(kind, conn[c], to)
    PROVE  AppInv'
<1>0. /\ AppType /\ Flow /\ Drained /\ \A d \in Conns : Life(d)
      /\ UNCHANGED <<config, pc, wake, rec, entry, reserved, counts, bad, dirs, files, end,
                     summaries, result, faults>>
      /\ queue' = Append(queue, [connection |-> c, kind |-> kind])
      /\ ~Late /\ ~Late'
  BY DEF AppInv, HandOff, receiverFrame, control, locals, outputs, Drained, Running, Late
<1>1. /\ queue' \in Seq(RecordType)
      /\ \A d \in Conns : d # c => SameFlight(d)
      /\ \A ks \in Groups :
            /\ Has(c, ks)' <=> Has(c, ks) \/ kind \in ks
            /\ Under(c, ks)' = Under(c, ks) + (IF kind \in ks THEN 1 ELSE 0)
  BY <1>0, FlightGrows
<1>2. /\ to \in {"open", "ended"} /\ conn[c] \in {"accepted", "open"}
      /\ conn'[c] = to /\ \A d \in Conns : d # c => conn'[d] = conn[d]
      /\ conn' \in [Conns -> {None, "accepted", "open", "ended"}]
  BY <1>0 DEF AppType, Sends
<1>3. /\ handed' \in [Conns -> Sizes] /\ \A d \in Conns : d # c => handed'[d] = handed[d]
      /\ handed'[c].wire = handed[c].wire + (IF kind = "Wire" THEN 1 ELSE 0)
      /\ handed'[c].wave = handed[c].wave + (IF kind = "Audio" THEN 1 ELSE 0)
      /\ handed'[c].log = handed[c].log + 1
  <2>1. /\ handed \in [Conns -> Sizes] /\ handed[c] \in Sizes
        /\ handed[c].wire \in Nat /\ handed[c].wave \in Nat /\ handed[c].log \in Nat
    BY <1>0 DEF AppType, Sizes
  <2>2. handed' = [handed EXCEPT ![c] =
             [wire |-> IF kind = "Wire" THEN handed[c].wire + 1 ELSE handed[c].wire,
              wave |-> IF kind = "Audio" THEN handed[c].wave + 1 ELSE handed[c].wave,
              log |-> handed[c].log + 1]]
    BY <2>1 DEF HandOff, Sizes
  <2> QED BY <2>1, <2>2 DEF Sizes
<1>4. AppType'
  BY <1>0, <1>1, <1>2, <1>3 DEF AppType
<1>5. Drained'
  BY <1>0 DEF Drained, Late, Owned
<1>6. /\ Has(c, RecordKinds) => conn[c] = "open"
      /\ ~Has(c, Ends)
  BY <1>0, <1>2 DEF Life
<1>7. Flow'
  <2> DEFINE r == [connection |-> c, kind |-> kind]
  <2>1. r \in RecordType /\ queue \in Seq(RecordType) /\ r.connection = c /\ r.kind = kind
    BY <1>0 DEF RecordType, AppType
  <2>2. InOrder(queue')
    <3>1. kind = "Connected" => ~Holds(queue, c, RecordKinds)
      BY <1>6, KindsNamed DEF Sends, Has
    <3>2. ~Holds(queue, c, Ends)
      BY <1>6 DEF Has
    <3> HIDE DEF r
    <3>3. InOrder(Append(queue, r))
      BY <1>0, <2>1, <3>1, <3>2, OrderAppended DEF Flow
    <3> QED BY <1>0, <3>3 DEF r
  <2>3. ASSUME rec.kind # None
        PROVE  /\ ~Holds(queue', rec.connection, {"Connected"})
               /\ rec.kind \in Ends => ~Holds(queue', rec.connection, RecordKinds)
    <3>1. rec \in RecordType /\ rec.kind \in RecordKinds
      BY <1>0, <2>3, KindsNamed DEF AppType, NoRecord
    <3>2. \A ks : Holds(queue', rec.connection, ks) <=>
                    Holds(queue, rec.connection, ks) \/ Is(r, rec.connection, ks)
      <4> HIDE DEF r
      <4> QED BY <1>0, <2>1, RecordAppended DEF r
    <3>3. CASE rec.connection = c
      <4>1. Has(c, RecordKinds) /\ rec.kind \notin Ends
        BY <1>6, <3>1, <3>3 DEF Has, Is
      <4>2. kind # "Connected"
        BY <1>6, <4>1, KindsNamed DEF Sends
      <4> QED BY <1>0, <2>3, <3>2, <4>1, <4>2 DEF Flow, Is
    <3>4. CASE rec.connection # c
      BY <1>0, <2>3, <3>2, <3>4 DEF Flow, Is
    <3> QED BY <3>3, <3>4
  <2> QED BY <1>0, <2>2, <2>3 DEF Flow
<1>8. Life(c)'
  <2>1. /\ Has(c, {"Connected"})' <=> Has(c, {"Connected"}) \/ kind = "Connected"
        /\ Has(c, Ends)' <=> kind \in Ends
        /\ Has(c, RecordKinds)'
        /\ Under(c, {"Wire"})' = Under(c, {"Wire"}) + (IF kind = "Wire" THEN 1 ELSE 0)
        /\ Under(c, {"Audio"})' = Under(c, {"Audio"}) + (IF kind = "Audio" THEN 1 ELSE 0)
        /\ Under(c, RecordKinds)' = Under(c, RecordKinds) + 1
    BY <1>1, <1>6 DEF Groups
  <2>2. /\ Under(c, {"Wire"}) \in Int /\ Under(c, {"Audio"}) \in Int /\ Under(c, RecordKinds) \in Int
        /\ handed[c].wire \in Int /\ handed[c].wave \in Int /\ handed[c].log \in Int
        /\ files[c].wire \in Int /\ files[c].wave \in Int /\ files[c].log \in Int
    BY <1>0, UnderType DEF AppType, Sizes
  <2>3. Whole(c) => Whole(c)'
    <3>1. files'[c] = files[c]
      BY <1>0
    <3>2. files[c].wire + Under(c, {"Wire"}) = handed[c].wire
             => files[c].wire + Under(c, {"Wire"})' = handed'[c].wire
      BY <1>3, <2>1, <2>2
    <3>3. files[c].wave + Under(c, {"Audio"}) = handed[c].wave + Header
             => files[c].wave + Under(c, {"Audio"})' = handed'[c].wave + Header
      BY <1>3, <2>1, <2>2 DEF Header
    <3>4. files[c].log + Under(c, RecordKinds) = handed[c].log
             => files[c].log + Under(c, RecordKinds)' = handed'[c].log
      BY <1>3, <2>1, <2>2
    <3> QED BY <3>1, <3>2, <3>3, <3>4 DEF Whole
  <2>4. Untouched(c) => Untouched(c)'
    BY <1>0, <1>3, <2>1, <2>2 DEF Untouched
  <2>5. Seen(c)' => Seen(c)
    BY <1>2, <1>6, <2>1, KindsNamed DEF Seen, Sends
  <2>6. Seen(c) => Seen(c)'
    BY <1>2, <1>6, <2>1, KindsNamed DEF Seen, Sends
  <2>7. conn'[c] = "ended" <=> kind \in Ends
    BY <1>2, KindsNamed DEF Sends
  <2>8. summaries[c] # "observed" /\ summaries[c] # "incomplete" /\ Life(c)
    BY <1>0, <1>2 DEF Life
  <2> QED BY <1>0, <1>2, <2>1, <2>3, <2>4, <2>5, <2>6, <2>7, <2>8 DEF Life
<1>9. ASSUME NEW d \in Conns, d # c PROVE Life(d)'
  BY <1>0, <1>1, <1>2, <1>3, <1>9, LifeStays
<1> QED BY <1>4, <1>5, <1>7, <1>8, <1>9 DEF AppInv

\* A connection is accepted: the application does not know of it yet.
LEMMA AcceptStep ==
    ASSUME AppInv, NEW c \in Conns, Accept(c)
    PROVE  AppInv'
<1>0. /\ AppType /\ Flow /\ Drained /\ \A d \in Conns : Life(d)
      /\ UNCHANGED <<config, pc, wake, rec, entry, reserved, counts, bad, dirs, files, end,
                     summaries, result, faults, queue, handed>>
  BY DEF AppInv, Accept, receiverFrame, control, locals, outputs
<1>1. /\ conn[c] = None /\ conn'[c] = "accepted" /\ \A d \in Conns : d # c => conn'[d] = conn[d]
      /\ conn' \in [Conns -> {None, "accepted", "open", "ended"}]
  BY <1>0 DEF Accept, Contract!Accept, Contract!Becomes, AppType, None
<1>2. AppType' /\ Flow' /\ Drained'
  BY <1>0, <1>1 DEF AppType, Flow, Drained, Late, Owned
<1>3. ASSUME NEW d \in Conns PROVE SameFlight(d)
  BY <1>0 DEF SameFlight, Has, Under
<1>4. ASSUME NEW d \in Conns, d # c PROVE Life(d)'
  BY <1>0, <1>1, <1>3, <1>4, LifeStays DEF Late
<1>5. Life(c)'
  <2>1. /\ Has(c, Ends)' <=> Has(c, Ends)
        /\ Has(c, RecordKinds)' <=> Has(c, RecordKinds)
        /\ Untouched(c)' <=> Untouched(c)
    BY <1>0 DEF Has, Under, Untouched
  <2>2. ~Seen(c) /\ ~Seen(c)' /\ ~Has(c, RecordKinds) /\ ~Has(c, Ends) /\ Life(c)
    BY <1>0, <1>1 DEF Seen, Life, None
  <2>3. Untouched(c)
    BY <2>2 DEF Life
  <2>4. entry'[c] = None /\ summaries'[c] = None
    BY <1>0, <2>3 DEF Untouched
  <2> QED BY <1>1, <2>1, <2>2, <2>3, <2>4 DEF Life, None
<1> QED BY <1>2, <1>4, <1>5 DEF AppInv

\* The steps of the receiver.
LEMMA ReceiverStep ==
    ASSUME AppInv, Receiver
    PROVE  AppInv'
<1>1. ASSUME NEW c \in Conns, Accept(c) PROVE AppInv'
  BY <1>1, AcceptStep
<1>2. ASSUME NEW c \in Conns, Connect(c) PROVE AppInv'
  <2>1. "Connected" \in RecordKinds /\ HandOff(c, "Connected") /\ Running
        /\ conn' = [conn EXCEPT ![c] = "open"] /\ Sends("Connected", conn[c], "open")
    BY <1>2 DEF Connect, Contract!Connect, Contract!Becomes, Contract!Running, Running, None,
                RecordKinds, Sends
  <2> QED BY <2>1, HandOffStep
<1>3. ASSUME NEW c \in Conns, Payload(c) PROVE AppInv'
  <2>1. PICK kind \in Kinds[c] : HandOff(c, kind)
    BY <1>3 DEF Payload
  <2>2. kind \in {"Wire", "Audio"}
    BY CaptureConstants
  <2>3. kind \in RecordKinds /\ Running
        /\ conn' = [conn EXCEPT ![c] = "open"] /\ Sends(kind, conn[c], "open")
    BY <1>3, <2>2 DEF Payload, Contract!Payload, Contract!Becomes, Contract!Running, Running, None,
                      RecordKinds, Sends
  <2> QED BY <2>1, <2>3, HandOffStep
<1>4. ASSUME NEW c \in Conns, Ended(c) PROVE AppInv'
  <2>1. PICK kind \in Ends : HandOff(c, kind)
    BY <1>4 DEF Ended
  <2>2. kind \in RecordKinds /\ Running
        /\ conn' = [conn EXCEPT ![c] = "ended"] /\ Sends(kind, conn[c], "ended")
    BY <1>4 DEF Ended, Contract!End, Contract!Becomes, Contract!Running, Running, None,
                RecordKinds, Sends
  <2> QED BY <2>1, <2>2, HandOffStep
<1>5. CASE Returns
  <2>1. AppType /\ Drained
    BY DEF AppInv
  <2>2. UNCHANGED <<books, pc, wake, bad>>
    BY <1>5 DEF Returns, receiverFrame, control, locals, outputs, books, Contract!Return
  <2>3. result = None /\ result' \in {"Ok", "Err", "Panic"} /\ faults' \in Nat
    <3>1. result = None /\ result' \in {"Ok", "Err", "Panic"}
      BY <1>5 DEF Returns, Contract!Return, Contract!Running, Running, None
    <3>2. faults' = faults \/ faults' = faults + 1
      BY <1>5 DEF Returns, Fault
    <3> QED BY <2>1, <3>1, <3>2 DEF AppType
  <2>4. ~Late
    BY <2>1, <2>3 DEF Drained
  <2> QED BY <2>1, <2>2, <2>3, <2>4, BooksStay DEF AppType, Late, After
<1> QED BY <1>1, <1>2, <1>3, <1>4, <1>5 DEF Receiver

-----------------------------------------------------------------------------
(* The record loop.                                                        *)

\* recv: the record at the front of the channel is now in the main thread's
\* hands, and still under way.
LEMMA RecvStep ==
    ASSUME AppInv, Recv
    PROVE  AppInv'
<1>0. /\ AppType /\ Flow /\ Drained /\ \A d \in Conns : Life(d)
      /\ UNCHANGED <<config, wake, conn, handed, result, entry, reserved, counts, bad, dirs,
                     files, end, summaries, faults>>
      /\ queue # <<>> /\ queue' = Tail(queue) /\ rec' = Head(queue)
      /\ pc["main"] = "recv" /\ pc' = [pc EXCEPT !["main"] = "handle"]
  BY DEF AppInv, Recv, Goto, control, locals, outputs
<1>1. queue \in Seq(RecordType) /\ rec = NoRecord
  BY <1>0 DEF AppType, Drained
<1>2. rec' \in RecordType /\ queue' \in Seq(RecordType)
  BY <1>0, <1>1, RecordTaken
<1>3. pc' \in [Threads -> Places] /\ pc'["main"] = "handle" /\ ~Late /\ ~Late'
  BY <1>0 DEF AppType, Threads, Places, Late, After
<1>4. AppType'
  BY <1>0, <1>2, <1>3 DEF AppType, Loop
<1>5. Flow'
  <2>1. /\ InOrder(queue')
        /\ ~Holds(queue', rec'.connection, {"Connected"})
        /\ rec'.kind \in Ends => ~Holds(queue', rec'.connection, RecordKinds)
    BY <1>0, <1>1, OrderTaken DEF Flow
  <2> QED BY <2>1 DEF Flow
<1>6. Drained'
  BY <1>0, <1>2, <1>3, KindsNamed DEF Drained, Late, After
<1>7. ASSUME NEW d \in Conns PROVE SameFlight(d)
  <2>1. \A ks \in Groups : ~Is(rec, d, ks)
    BY <1>1, KindsNamed DEF Is, NoRecord, Groups, None
  <2>2. \A ks : /\ Holds(queue, d, ks) <=> Is(rec', d, ks) \/ Holds(queue', d, ks)
                /\ Number(queue, d, ks) = Number(queue', d, ks) + (IF Is(rec', d, ks) THEN 1 ELSE 0)
                /\ Number(queue, d, ks) \in Int /\ Number(queue', d, ks) \in Int
    <3>1. \A ks : /\ Holds(queue, d, ks) <=> Is(Head(queue), d, ks) \/ Holds(Tail(queue), d, ks)
                  /\ Number(queue, d, ks) = Number(Tail(queue), d, ks)
                                                + (IF Is(Head(queue), d, ks) THEN 1 ELSE 0)
      BY <1>0, <1>1, RecordTaken
    <3>2. \A ks : Number(queue, d, ks) \in Int /\ Number(queue', d, ks) \in Int
      BY <1>1, <1>2, MarksType
    <3> QED BY <1>0, <3>1, <3>2
  <2> QED BY <2>1, <2>2 DEF SameFlight, Has, Under
<1>8. ASSUME NEW d \in Conns PROVE Life(d)'
  BY <1>0, <1>3, <1>7, LifeStays
<1> QED BY <1>4, <1>5, <1>6, <1>8 DEF AppInv

\* What is known of a connection whose record is handled, and what its
\* handling takes from what is under way.
Handled(c) ==
    /\ rec \in RecordType /\ rec.connection = c /\ conn[c] \in {"open", "ended"}
    /\ Seen(c)' /\ (Seen(c) <=> rec.kind # "Connected")
    /\ Has(c, RecordKinds)
    /\ Has(c, Ends)' => Has(c, Ends) /\ Has(c, RecordKinds)'
    /\ rec.kind \in Ends => conn[c] = "ended" /\ ~Has(c, RecordKinds)'
    /\ rec.kind \notin Ends => (Has(c, Ends)' <=> Has(c, Ends))
    /\ Under(c, {"Wire"})' = Under(c, {"Wire"}) - (IF rec.kind = "Wire" THEN 1 ELSE 0)
    /\ Under(c, {"Audio"})' = Under(c, {"Audio"}) - (IF rec.kind = "Audio" THEN 1 ELSE 0)
    /\ Under(c, RecordKinds)' = Under(c, RecordKinds) - 1
    /\ Under(c, {"Wire"}) \in Int /\ Under(c, {"Audio"}) \in Int /\ Under(c, RecordKinds) \in Int

\* Handling a record takes it, and no other, from what is under way.
LEMMA FlightShrinks ==
    ASSUME AppInv, NEW c \in Conns, Handling(c), rec' = NoRecord, UNCHANGED <<queue, conn, handed>>
    PROVE  Handled(c) /\ \A d \in Conns : d # c => SameFlight(d)
<1>0. AppType /\ Flow /\ Drained /\ Life(c)
  BY DEF AppInv
<1>1. rec \in RecordType /\ rec.connection = c /\ rec.kind \in RecordKinds /\ rec.kind # None
  BY <1>0, KindsNamed DEF AppType, Drained, Handling
<1>2. \A d, ks : Number(queue, d, ks) \in Int
  BY <1>0, MarksType DEF AppType
<1>3. \A d \in Conns : \A ks \in Groups : ~Is(rec', d, ks)
  BY KindsNamed DEF Is, NoRecord, Groups, None
<1>4. ASSUME NEW d \in Conns, d # c PROVE SameFlight(d)
  <2>1. \A ks : ~Is(rec, d, ks)
    BY <1>1, <1>4 DEF Is
  <2> QED BY <1>3, <2>1 DEF SameFlight, Has, Under
<1>5. \A ks \in Groups :
         /\ Has(c, ks)' <=> Holds(queue, c, ks)
         /\ Has(c, ks) <=> rec.kind \in ks \/ Holds(queue, c, ks)
         /\ Under(c, ks)' = Under(c, ks) - (IF rec.kind \in ks THEN 1 ELSE 0)
         /\ Under(c, ks) \in Int
  BY <1>1, <1>2, <1>3 DEF Has, Under, Is
<1>6. /\ {"Connected"} \in Groups /\ {"Wire"} \in Groups /\ {"Audio"} \in Groups
      /\ Ends \in Groups /\ RecordKinds \in Groups
  BY DEF Groups
<1>7. /\ ~Holds(queue, c, {"Connected"})
      /\ rec.kind \in Ends => ~Holds(queue, c, RecordKinds)
  BY <1>0, <1>1 DEF Flow
<1>8. Holds(queue, c, Ends) => Holds(queue, c, RecordKinds)
  BY KindsNamed DEF Holds, Is
<1>9. Has(c, RecordKinds) /\ conn[c] \in {"open", "ended"}
  BY <1>0, <1>1, <1>5, <1>6 DEF Life
<1>10. rec.kind \in Ends => conn[c] = "ended"
  BY <1>0, <1>5, <1>6 DEF Life
<1>11. Seen(c)' /\ (Seen(c) <=> rec.kind # "Connected")
  BY <1>5, <1>6, <1>7, <1>9 DEF Seen
<1>12. /\ Under(c, {"Wire"})' = Under(c, {"Wire"}) - (IF rec.kind = "Wire" THEN 1 ELSE 0)
       /\ Under(c, {"Audio"})' = Under(c, {"Audio"}) - (IF rec.kind = "Audio" THEN 1 ELSE 0)
       /\ Under(c, RecordKinds)' = Under(c, RecordKinds) - 1
       /\ Under(c, {"Wire"}) \in Int /\ Under(c, {"Audio"}) \in Int /\ Under(c, RecordKinds) \in Int
  BY <1>1, <1>5, <1>6
<1>13. /\ Has(c, Ends)' => Has(c, Ends) /\ Has(c, RecordKinds)'
       /\ rec.kind \in Ends => ~Has(c, RecordKinds)'
       /\ rec.kind \notin Ends => (Has(c, Ends)' <=> Has(c, Ends))
  BY <1>5, <1>6, <1>7, <1>8
<1> QED BY <1>1, <1>4, <1>9, <1>10, <1>11, <1>12, <1>13 DEF Handled

-----------------------------------------------------------------------------
(* The handlers of the record loop, each reduced to what it does with the  *)
(* connection of the record.                                               *)

\* The sizes f are within the cap of a file.
Fits(f) == f.wire <= config.file /\ f.wave <= config.file /\ f.log <= config.file

\* A write of one unit.
LEMMA WriteDone ==
    ASSUME NEW size \in Nat, NEW w \in Write(size), config.file \in Nat
    PROVE  /\ w.size \in Nat /\ w.ok \in BOOLEAN /\ w.faults \in {0, 1}
           /\ w.ok => w.size = size + 1
           /\ size <= config.file => w.size <= config.file
<1>1. \/ w = [size |-> size, ok |-> FALSE, faults |-> 0]
      \/ w = [size |-> size + 1, ok |-> TRUE, faults |-> 0] /\ size + 1 <= config.file
      \/ /\ size + 1 <= config.file
         /\ \E n \in {size, size + 1} : w = [size |-> n, ok |-> FALSE, faults |-> 1]
  BY Zenon DEF Write, WithinCap
<1>2. CASE w = [size |-> size, ok |-> FALSE, faults |-> 0]
  BY <1>2
<1>3. CASE w = [size |-> size + 1, ok |-> TRUE, faults |-> 0] /\ size + 1 <= config.file
  BY <1>3
<1>4. ASSUME NEW n \in {size, size + 1}, w = [size |-> n, ok |-> FALSE, faults |-> 1],
             size + 1 <= config.file
      PROVE  /\ w.size \in Nat /\ w.ok \in BOOLEAN /\ w.faults \in {0, 1} /\ ~w.ok
             /\ w.size <= config.file
  BY <1>4
<1> QED BY <1>1, <1>2, <1>3, <1>4

\* The writing of a summary or of the status.
LEMMA JsonDone ==
    ASSUME NEW cap \in Nat, NEW what, NEW w \in WriteJson(cap, what)
    PROVE  /\ w.ok \in BOOLEAN /\ w.faults \in {0, 1}
           /\ w.ok => w.file = what
           /\ ~w.ok => w.file \in {None, "torn"}
<1>1. \/ w = [file |-> what, ok |-> TRUE, faults |-> 0]
      \/ w = [file |-> "torn", ok |-> FALSE, faults |-> 0]
      \/ \E f \in {None, "torn"} : w = [file |-> f, ok |-> FALSE, faults |-> 1]
  BY Zenon DEF WriteJson
<1>2. CASE w = [file |-> what, ok |-> TRUE, faults |-> 0]
  BY <1>2
<1>3. ASSUME NEW f \in {None, "torn"}, NEW n \in {0, 1}, w = [file |-> f, ok |-> FALSE, faults |-> n]
      PROVE  w.ok = FALSE /\ w.faults = n /\ w.file = f
  BY <1>3
<1> QED BY <1>1, <1>2, <1>3

\* The record in hand is in the files f, which were e.
Grown(e, f) ==
    /\ f.wire = e.wire + (IF rec.kind = "Wire" THEN 1 ELSE 0)
    /\ f.wave = e.wave + (IF rec.kind = "Audio" THEN 1 ELSE 0)
    /\ f.log = e.log + 1

\* Recording::record.
LEMMA RecordedDone ==
    ASSUME NEW c, NEW f \in Sizes, NEW r \in Recorded(c, f), config.file \in Nat
    PROVE  /\ r.files \in Sizes /\ r.ok \in BOOLEAN /\ r.faults \in {0, 1}
           /\ r.ok => Grown(f, r.files)
           /\ Fits(f) => Fits(r.files)
<1>0. f = [wire |-> f.wire, wave |-> f.wave, log |-> f.log]
      /\ f.wire \in Nat /\ f.wave \in Nat /\ f.log \in Nat
  BY DEF Sizes
<1>1. CASE rec.kind \notin {"Wire", "Audio"}
  <2>1. PICK l \in Write(f.log) : r = [files |-> [f EXCEPT !.log = l.size], ok |-> l.ok,
                                       faults |-> l.faults]
    BY <1>1 DEF Recorded
  <2>2. /\ l.size \in Nat /\ l.ok \in BOOLEAN /\ l.faults \in {0, 1}
        /\ l.ok => l.size = f.log + 1
        /\ f.log <= config.file => l.size <= config.file
    BY <1>0, WriteDone
  <2>3. r.files = [wire |-> f.wire, wave |-> f.wave, log |-> l.size] /\ r.ok = l.ok
        /\ r.faults = l.faults
    BY <1>0, <2>1
  <2> QED BY <1>0, <1>1, <2>2, <2>3 DEF Grown, Fits, Sizes
<1>2. CASE rec.kind \in {"Wire", "Audio"}
  <2> DEFINE to == IF rec.kind = "Wire" THEN "wire" ELSE "wave"
  <2>1. PICK p \in Write(f[to]) :
           r \in IF p.ok
                 THEN {[files |-> [f EXCEPT ![to] = p.size, !.log = l.size],
                        ok |-> l.ok, faults |-> l.faults] : l \in Write(f.log)}
                 ELSE {[files |-> [f EXCEPT ![to] = p.size], ok |-> FALSE,
                        faults |-> p.faults]}
    <3> DEFINE Out(p) == IF p.ok
                         THEN {[files |-> [f EXCEPT ![to] = p.size, !.log = l.size],
                                ok |-> l.ok, faults |-> l.faults] : l \in Write(f.log)}
                         ELSE {[files |-> [f EXCEPT ![to] = p.size], ok |-> FALSE,
                                faults |-> p.faults]}
    <3>1. Recorded(c, f) = UNION {Out(p) : p \in Write(f[to])}
      BY <1>2, Zenon DEF Recorded
    <3> HIDE DEF Out
    <3>2. \E p \in Write(f[to]) : r \in Out(p)
      BY <3>1
    <3> QED BY <3>2 DEF Out
  <2> HIDE DEF to
  <2>2. f[to] \in Nat /\ to \in {"wire", "wave"} /\ (to = "wire" <=> rec.kind = "Wire")
    BY <1>0, <1>2 DEF to
  <2>3. /\ p.size \in Nat /\ p.ok \in BOOLEAN /\ p.faults \in {0, 1}
        /\ p.ok => p.size = f[to] + 1
        /\ f[to] <= config.file => p.size <= config.file
    BY <2>2, WriteDone
  <2>4. CASE ~p.ok
    <3>1. r = [files |-> [f EXCEPT ![to] = p.size], ok |-> FALSE, faults |-> p.faults]
      BY <2>1, <2>4
    <3>2. r.files = [wire |-> IF to = "wire" THEN p.size ELSE f.wire,
                     wave |-> IF to = "wave" THEN p.size ELSE f.wave, log |-> f.log]
          /\ r.ok = FALSE /\ r.faults = p.faults
      BY <1>0, <2>2, <3>1
    <3>3. r.files \in Sizes
      BY <1>0, <2>3, <3>2 DEF Sizes
    <3>4. Fits(f) => Fits(r.files)
      BY <1>0, <2>2, <2>3, <3>2 DEF Fits
    <3> QED BY <2>3, <3>2, <3>3, <3>4
  <2>5. CASE p.ok
    <3>1. PICK l \in Write(f.log) : r = [files |-> [f EXCEPT ![to] = p.size, !.log = l.size],
                                         ok |-> l.ok, faults |-> l.faults]
      BY <2>1, <2>5
    <3>2. /\ l.size \in Nat /\ l.ok \in BOOLEAN /\ l.faults \in {0, 1}
          /\ l.ok => l.size = f.log + 1
          /\ f.log <= config.file => l.size <= config.file
      BY <1>0, WriteDone
    <3>3. r.files = [wire |-> IF to = "wire" THEN p.size ELSE f.wire,
                     wave |-> IF to = "wave" THEN p.size ELSE f.wave, log |-> l.size]
          /\ r.ok = l.ok /\ r.faults = l.faults
      BY <1>0, <2>2, <3>1
    <3>4. CASE rec.kind = "Wire"
      BY <1>0, <2>2, <2>3, <2>5, <3>2, <3>3, <3>4 DEF Fits, Sizes, Grown
    <3>5. CASE rec.kind = "Audio"
      BY <1>0, <2>2, <2>3, <2>5, <3>2, <3>3, <3>5 DEF Fits, Sizes, Grown
    <3> QED BY <2>2, <1>2, <3>4, <3>5
  <2> QED BY <2>3, <2>4, <2>5
<1> QED BY <1>1, <1>2

\* The recorder of c and its directory stay.
Idle(c) ==
    /\ entry'[c] = entry[c] /\ files'[c] = files[c] /\ end'[c] = end[c]
    /\ summaries'[c] = summaries[c] /\ (c \in dirs' <=> c \in dirs)

Quiet == counts'["unowned"] = counts["unowned"] /\ counts'["metadata"] = counts["metadata"]

\* What the handling of a record may do for its connection.
Refuses(c) == rec.kind = "Connected" /\ Idle(c) /\ Quiet
Admits(c) == rec.kind = "Connected" /\ c \in dirs' /\ Quiet /\ reserved' = reserved + 1
              /\ Cardinality(Owned) < config.active
              /\ end'[c] = end[c] /\ summaries'[c] = summaries[c]
Opened(c) ==
    /\ Admits(c) /\ entry'[c] = "Active" /\ bad' = bad /\ files'[c].wire = files[c].wire
    /\ files'[c].wave = files[c].wave + Header /\ files'[c].log = files[c].log + 1
CannotOpen(c) == Admits(c) /\ entry'[c] = "Failed" /\ bad'
Holding(c) == rec.kind # "Connected" /\ entry[c] = "Active" /\ (c \in dirs' <=> c \in dirs)
Keeps(c) ==
    /\ Holding(c) /\ Quiet /\ rec.kind \notin Ends /\ entry'[c] = "Active" /\ bad' = bad
    /\ Grown(files[c], files'[c]) /\ end'[c] = end[c] /\ summaries'[c] = summaries[c]
Breaks(c) ==
    /\ Holding(c) /\ Quiet /\ entry'[c] = "Failed" /\ bad' /\ summaries'[c] = summaries[c]
Closes(c) ==
    /\ Holding(c) /\ rec.kind \in Ends /\ entry'[c] = None
    /\ Grown(files[c], files'[c]) /\ end'[c] = rec.kind
    /\ counts'["unowned"] = counts["unowned"]
    /\ summaries'[c] = "observed" => rec.kind \in CleanEnds /\ bad' = bad
    /\ summaries'[c] # "observed" => bad'
    /\ summaries'[c] # "incomplete"
    /\ counts'["metadata"]
          = counts["metadata"] + (IF summaries'[c] \in {None, "torn"} THEN 1 ELSE 0)
Drops(c) == rec.kind # "Connected" /\ entry[c] = "Failed" /\ Idle(c) /\ Quiet /\ bad' = bad
Ignores(c) ==
    /\ rec.kind # "Connected" /\ entry[c] = None /\ Idle(c) /\ bad' = bad
    /\ counts'["unowned"] = counts["unowned"] + 1 /\ counts'["metadata"] = counts["metadata"]

\* What it leaves alone, and the shape of what it changes.
Turn(c) ==
    /\ Handling(c) /\ rec' = NoRecord
    /\ UNCHANGED <<config, cause, first, wake, queue, conn, handed, result, status, exit>>
    /\ \E to \in {"recv", "claim"} : pc' = [pc EXCEPT !["main"] = to]
    /\ entry' \in [Conns -> {None, "Active", "Failed"}] /\ files' \in [Conns -> Sizes]
    /\ end' \in [Conns -> {"Incomplete"} \cup Ends]
    /\ summaries' \in [Conns -> {None, "torn", "observed", "failed", "incomplete"}]
    /\ dirs' \subseteq Conns /\ bad' \in BOOLEAN /\ (bad => bad')
    /\ counts' \in [Counters -> Nat]
    /\ reserved' = reserved \/ (reserved # config.run /\ reserved' = reserved + 1)
    /\ faults' \in Nat /\ faults' >= faults /\ (faults <= MaxFaults => faults' <= MaxFaults)
    /\ \A d \in Conns : d # c => Idle(d)
    /\ Fits(files[c]) => Fits(files'[c])
    /\ \/ Refuses(c) \/ Opened(c) \/ CannotOpen(c) \/ Keeps(c) \/ Breaks(c) \/ Closes(c)
       \/ Drops(c) \/ Ignores(c)

\* The frame of every handler.
LEMMA TurnFrame ==
    ASSUME AppType, NEW c \in Conns, Handling(c), UNCHANGED loopFrame,
           Continue \/ \E why \in Causes : Failing(why)
    PROVE  /\ rec' = NoRecord
           /\ UNCHANGED <<config, cause, first, wake, queue, conn, handed, result, status, exit>>
           /\ \E to \in {"recv", "claim"} : pc' = [pc EXCEPT !["main"] = to]
           /\ config.file \in Nat /\ config.summary \in Nat
           /\ files[c] \in Sizes /\ faults \in Nat /\ reserved \in Nat
<1>1. config.file \in Nat /\ config.summary \in Nat
  BY CaptureConstants DEF AppType
<1> QED BY <1>1 DEF AppType, loopFrame, control, receiver, Continue, Failing, Request, Goto

\* A handler that spends faults.
LEMMA Spent ==
    ASSUME NEW n \in 0..2, Spend(n), faults \in Nat
    PROVE  faults' \in Nat /\ faults' >= faults /\ (faults <= MaxFaults => faults' <= MaxFaults)
  BY CaptureConstants DEF Spend

\* A counter of the run counts.
LEMMA Counted ==
    ASSUME AppType, NEW f \in Counters, Count(f)
    PROVE  /\ counts' \in [Counters -> Nat] /\ counts'[f] = counts[f] + 1
           /\ \A g \in Counters : g # f => counts'[g] = counts[g]
  BY DEF AppType, Count

\* Connected is refused, with or without a request to stop.
LEMMA TurnRefused ==
    ASSUME AppType, NEW c \in Conns,
           StoppedRefused(c) \/ AdmissionRefused(c) \/ DirectoryRefused(c)
    PROVE  Turn(c)
<1>1. Handling(c) /\ UNCHANGED <<loopFrame, entry, outputs>> /\ rec.kind = "Connected"
  BY DEF StoppedRefused, AdmissionRefused, DirectoryRefused, Reserving
<1>2. Continue \/ \E why \in Causes : Failing(why)
  BY DEF StoppedRefused, AdmissionRefused, DirectoryRefused, Causes
<1>3. \E f \in {"stopped", "admission"} : Count(f)
  BY DEF StoppedRefused, AdmissionRefused, DirectoryRefused
<1>4. /\ counts' \in [Counters -> Nat] /\ Quiet
  BY <1>3, Counted DEF Counters, Quiet
<1>5. bad' \in BOOLEAN /\ (bad => bad')
  BY DEF StoppedRefused, AdmissionRefused, DirectoryRefused, Failing, AppType
<1>6. reserved' = reserved \/ (reserved # config.run /\ reserved' = reserved + 1)
  BY DEF StoppedRefused, AdmissionRefused, DirectoryRefused, Reserving, Full
<1>7. faults' \in Nat /\ faults' >= faults /\ (faults <= MaxFaults => faults' <= MaxFaults)
  <2>1. faults' = faults \/ Spend(1)
    BY DEF StoppedRefused, AdmissionRefused, DirectoryRefused
  <2> QED BY <2>1, Spent DEF AppType
<1>8. \A d \in Conns : Idle(d)
  BY <1>1 DEF Idle, outputs
<1>9. /\ entry' \in [Conns -> {None, "Active", "Failed"}] /\ files' \in [Conns -> Sizes]
      /\ end' \in [Conns -> {"Incomplete"} \cup Ends]
      /\ summaries' \in [Conns -> {None, "torn", "observed", "failed", "incomplete"}]
      /\ dirs' \subseteq Conns /\ (Fits(files[c]) => Fits(files'[c]))
  BY <1>1 DEF AppType, outputs
<1>10. Refuses(c)
  BY <1>1, <1>4, <1>8 DEF Refuses
<1>11. /\ rec' = NoRecord
       /\ UNCHANGED <<config, cause, first, wake, queue, conn, handed, result, status, exit>>
       /\ \E to \in {"recv", "claim"} : pc' = [pc EXCEPT !["main"] = to]
  BY <1>1, <1>2, TurnFrame
<1> QED BY <1>1, <1>4, <1>5, <1>6, <1>7, <1>8, <1>9, <1>10, <1>11 DEF Turn

\* A directory is made, and the recorder is created or not.
LEMMA TurnOpens ==
    ASSUME AppType, NEW c \in Conns, CreateFails(c) \/ Opens(c)
    PROVE  Turn(c)
<1>1. /\ Handling(c) /\ UNCHANGED <<loopFrame, counts, end, summaries>> /\ rec.kind = "Connected"
      /\ reserved # config.run /\ reserved' = reserved + 1 /\ dirs' = dirs \cup {c}
      /\ ~(Cardinality(Owned) >= config.active)
  BY DEF CreateFails, Opens, Reserving, Full
<1>2. Continue \/ \E why \in Causes : Failing(why)
  BY DEF CreateFails, Opens, Causes
<1>3. /\ rec' = NoRecord
      /\ UNCHANGED <<config, cause, first, wake, queue, conn, handed, result, status, exit>>
      /\ \E to \in {"recv", "claim"} : pc' = [pc EXCEPT !["main"] = to]
      /\ config.file \in Nat /\ files[c] \in Sizes /\ faults \in Nat
  BY <1>1, <1>2, TurnFrame
<1>4. Cardinality(Owned) < config.active
  <2>1. Cardinality(Owned) \in Nat /\ config.active \in Nat
    <3>1. Owned \subseteq Conns
      BY DEF Owned
    <3> QED BY <3>1, CaptureConstants, FS_Subset, FS_CardinalityType DEF AppType
  <2> QED BY <1>1, <2>1
<1>5. /\ counts' \in [Counters -> Nat] /\ Quiet /\ dirs' \subseteq Conns /\ c \in dirs'
      /\ end' \in [Conns -> {"Incomplete"} \cup Ends]
      /\ summaries' \in [Conns -> {None, "torn", "observed", "failed", "incomplete"}]
  BY <1>1 DEF Quiet, AppType
<1>6. /\ entry' \in [Conns -> {None, "Active", "Failed"}]
      /\ \A d \in Conns : d # c => entry'[d] = entry[d]
      /\ bad' \in BOOLEAN /\ (bad => bad')
  BY DEF CreateFails, Opens, Failing, AppType
<1>7. /\ files' \in [Conns -> Sizes] /\ \A d \in Conns : d # c => files'[d] = files[d]
      /\ Fits(files[c]) => Fits(files'[c])
      /\ faults' \in Nat /\ faults' >= faults /\ (faults <= MaxFaults => faults' <= MaxFaults)
      /\ \/ /\ entry'[c] = "Active" /\ bad' = bad /\ files'[c].wire = files[c].wire
            /\ files'[c].wave = files[c].wave + Header /\ files'[c].log = files[c].log + 1
         \/ entry'[c] = "Failed" /\ bad'
  <2>1. CASE CreateFails(c)
    BY <1>3, <2>1, Spent DEF CreateFails, AppType, Failing
  <2>2. CASE Opens(c)
    <3>1. PICK h \in Write(files[c].wave) : \E l \in Write(files[c].log) :
             /\ Spend(h.faults + IF h.ok THEN l.faults ELSE 0)
             /\ files' = [files EXCEPT ![c].wave = h.size,
                                       ![c].log = IF h.ok THEN l.size ELSE @]
             /\ IF h.ok /\ l.ok
                THEN entry' = [entry EXCEPT ![c] = "Active"] /\ Continue /\ UNCHANGED bad
                ELSE entry' = [entry EXCEPT ![c] = "Failed"] /\ Failing("local_failure")
      BY <2>2 DEF Opens
    <3>2. PICK l \in Write(files[c].log) :
             /\ Spend(h.faults + IF h.ok THEN l.faults ELSE 0)
             /\ files' = [files EXCEPT ![c].wave = h.size,
                                       ![c].log = IF h.ok THEN l.size ELSE @]
             /\ IF h.ok /\ l.ok
                THEN entry' = [entry EXCEPT ![c] = "Active"] /\ Continue /\ UNCHANGED bad
                ELSE entry' = [entry EXCEPT ![c] = "Failed"] /\ Failing("local_failure")
      BY <3>1
    <3> DEFINE f == files[c]
    <3>3. f = [wire |-> f.wire, wave |-> f.wave, log |-> f.log]
          /\ f.wire \in Nat /\ f.wave \in Nat /\ f.log \in Nat
      BY <1>3 DEF Sizes
    <3>4. /\ h.size \in Nat /\ h.ok \in BOOLEAN /\ h.faults \in {0, 1}
          /\ h.ok => h.size = f.wave + 1
          /\ f.wave <= config.file => h.size <= config.file
          /\ l.size \in Nat /\ l.ok \in BOOLEAN /\ l.faults \in {0, 1}
          /\ l.ok => l.size = f.log + 1
          /\ f.log <= config.file => l.size <= config.file
      BY <1>3, <3>3, WriteDone
    <3>5. (IF h.ok THEN l.size ELSE f.log) \in Nat
      BY <3>3, <3>4
    <3>6. /\ files' \in [Conns -> Sizes] /\ \A d \in Conns : d # c => files'[d] = files[d]
          /\ files'[c].wire = f.wire /\ files'[c].wave = h.size
          /\ files'[c].log = IF h.ok THEN l.size ELSE f.log
      <4>1. files \in [Conns -> Sizes] /\ files[c] \in Sizes
        BY DEF AppType
      <4> DEFINE n == IF h.ok THEN l.size ELSE files[c].log
      <4>2. files' = [files EXCEPT ![c].wave = h.size, ![c].log = n]
        BY <3>2, <4>1 DEF Sizes
      <4> HIDE DEF n
      <4>3. h.size \in Nat /\ n \in Nat
        BY <3>4, <3>5 DEF n
      <4>4. /\ files' \in [Conns -> Sizes] /\ \A d \in Conns : d # c => files'[d] = files[d]
            /\ files'[c].wire = files[c].wire /\ files'[c].wave = h.size /\ files'[c].log = n
        <5>1. files'[c] = [[files[c] EXCEPT !.wave = h.size] EXCEPT !.log = n]
          BY <4>1, <4>2
        <5>2. \A g \in Sizes : [g EXCEPT !.wave = h.size] \in Sizes /\ [g EXCEPT !.log = n] \in Sizes
          BY <4>3 DEF Sizes
        <5>3. files'[c] \in Sizes
          BY <4>1, <5>1, <5>2
        <5>4. files'[c].wire = files[c].wire /\ files'[c].wave = h.size /\ files'[c].log = n
          BY <4>1, <5>1 DEF Sizes
        <5>5. DOMAIN files' = Conns /\ files' = [d \in Conns |-> files'[d]]
              /\ \A d \in Conns : d # c => files'[d] = files[d]
          BY <4>1, <4>2
        <5> QED BY <4>1, <5>3, <5>4, <5>5
      <4> QED BY <4>4 DEF n
    <3>9. Fits(files[c]) => Fits(files'[c])
      BY <3>3, <3>4, <3>6 DEF Fits
    <3>10. faults' \in Nat /\ faults' >= faults /\ (faults <= MaxFaults => faults' <= MaxFaults)
      <4>1. (h.faults + IF h.ok THEN l.faults ELSE 0) \in 0..2
        BY <3>4
      <4> QED BY <1>3, <3>2, <4>1, Spent
    <3>11. CASE h.ok /\ l.ok
      BY <3>2, <3>4, <3>6, <3>9, <3>10, <3>11 DEF Header, AppType
    <3>12. CASE ~(h.ok /\ l.ok)
      <4>1. entry'[c] = "Failed" /\ bad'
        BY <3>2, <3>12 DEF Failing, AppType
      <4> QED BY <3>6, <3>9, <3>10, <4>1
    <3> QED BY <3>11, <3>12
  <2> QED BY <2>1, <2>2
<1>8. \A d \in Conns : d # c => Idle(d)
  BY <1>1, <1>6, <1>7 DEF Idle
<1>9. Opened(c) \/ CannotOpen(c)
  BY <1>1, <1>4, <1>5, <1>7 DEF Opened, CannotOpen, Admits
<1> QED BY <1>1, <1>3, <1>5, <1>6, <1>7, <1>8, <1>9 DEF Turn

\* A record for a recorder.
LEMMA TurnActive ==
    ASSUME AppType, NEW c \in Conns, RecordActive(c)
    PROVE  Turn(c)
<1>1. /\ Handling(c) /\ UNCHANGED <<loopFrame, reserved, counts, dirs, end, summaries>>
      /\ rec.kind \notin {"Connected"} \cup Ends /\ entry[c] = "Active"
  BY DEF RecordActive
<1>2. Continue \/ \E why \in Causes : Failing(why)
  BY DEF RecordActive, Causes
<1>3. /\ rec' = NoRecord
      /\ UNCHANGED <<config, cause, first, wake, queue, conn, handed, result, status, exit>>
      /\ \E to \in {"recv", "claim"} : pc' = [pc EXCEPT !["main"] = to]
      /\ config.file \in Nat /\ files[c] \in Sizes /\ faults \in Nat
  BY <1>1, <1>2, TurnFrame
<1>4. PICK r \in Recorded(c, files[c]) :
          /\ Spend(r.faults) /\ files' = [files EXCEPT ![c] = r.files]
          /\ IF r.ok THEN Continue /\ UNCHANGED <<entry, bad>>
             ELSE entry' = [entry EXCEPT ![c] = "Failed"] /\ Failing("local_failure")
  BY DEF RecordActive
<1>5. /\ r.files \in Sizes /\ r.ok \in BOOLEAN /\ r.faults \in {0, 1}
      /\ r.ok => Grown(files[c], r.files)
      /\ Fits(files[c]) => Fits(r.files)
  BY <1>3, RecordedDone
<1>6. /\ files'[c] = r.files /\ files' \in [Conns -> Sizes]
      /\ \A d \in Conns : d # c => files'[d] = files[d]
  BY <1>4, <1>5 DEF AppType
<1>7. faults' \in Nat /\ faults' >= faults /\ (faults <= MaxFaults => faults' <= MaxFaults)
  BY <1>3, <1>4, <1>5, Spent
<1>8. /\ entry' \in [Conns -> {None, "Active", "Failed"}]
      /\ \A d \in Conns : d # c => entry'[d] = entry[d]
      /\ bad' \in BOOLEAN /\ (bad => bad')
      /\ r.ok => entry'[c] = "Active" /\ bad' = bad
      /\ ~r.ok => entry'[c] = "Failed" /\ bad'
  BY <1>1, <1>4 DEF Failing, AppType
<1>9. /\ counts' \in [Counters -> Nat] /\ Quiet
      /\ dirs' \subseteq Conns /\ (c \in dirs' <=> c \in dirs)
      /\ end' \in [Conns -> {"Incomplete"} \cup Ends]
      /\ summaries' \in [Conns -> {None, "torn", "observed", "failed", "incomplete"}]
  BY <1>1 DEF Quiet, AppType
<1>10. \A d \in Conns : d # c => Idle(d)
  BY <1>1, <1>6, <1>8 DEF Idle
<1>11. Keeps(c) \/ Breaks(c)
  BY <1>1, <1>5, <1>6, <1>8, <1>9 DEF Keeps, Breaks, Holding
<1> QED BY <1>1, <1>3, <1>5, <1>6, <1>7, <1>8, <1>9, <1>10, <1>11 DEF Turn

\* The terminal record of a recorder: recorded, finished and summarised.
LEMMA TurnEnd ==
    ASSUME AppType, NEW c \in Conns, RecordEnd(c)
    PROVE  Turn(c)
<1>1. /\ Handling(c) /\ UNCHANGED <<loopFrame, reserved, dirs>>
      /\ rec.kind \in Ends /\ rec.kind # "Connected" /\ entry[c] = "Active"
  BY KindsNamed DEF RecordEnd
<1>2. Continue \/ \E why \in Causes : Failing(why)
  BY DEF RecordEnd, Causes
<1>3. /\ rec' = NoRecord
      /\ UNCHANGED <<config, cause, first, wake, queue, conn, handed, result, status, exit>>
      /\ \E to \in {"recv", "claim"} : pc' = [pc EXCEPT !["main"] = to]
      /\ config.file \in Nat /\ config.summary \in Nat /\ files[c] \in Sizes /\ faults \in Nat
  BY <1>1, <1>2, TurnFrame
<1> DEFINE Ok(r) == /\ r.ok /\ entry' = [entry EXCEPT ![c] = None]
                    /\ \E w \in WriteJson(config.summary, Outcome(rec.kind)) :
                          /\ Spend(w.faults)
                          /\ summaries' = [summaries EXCEPT ![c] = w.file]
                          /\ IF w.ok
                             THEN /\ Continue /\ UNCHANGED counts
                                  /\ bad' = (bad \/ rec.kind \notin CleanEnds)
                             ELSE Count("metadata") /\ Failing("local_failure")
           Not == /\ entry' = [entry EXCEPT ![c] = "Failed"] /\ Failing("local_failure")
                  /\ UNCHANGED <<counts, summaries>>
<1>4. PICK r \in Recorded(c, files[c]) :
          /\ files' = [files EXCEPT ![c] = r.files]
          /\ end' = IF r.ok THEN [end EXCEPT ![c] = rec.kind] ELSE end
          /\ \/ ~r.ok /\ Spend(r.faults) /\ Not
             \/ r.ok /\ Spend(1) /\ Not
             \/ Ok(r)
  BY DEF RecordEnd
<1>5. /\ r.files \in Sizes /\ r.ok \in BOOLEAN /\ r.faults \in {0, 1}
      /\ r.ok => Grown(files[c], r.files)
      /\ Fits(files[c]) => Fits(r.files)
  BY <1>3, RecordedDone
<1>6. /\ files'[c] = r.files /\ files' \in [Conns -> Sizes]
      /\ \A d \in Conns : d # c => files'[d] = files[d]
  BY <1>4, <1>5 DEF AppType
<1>7. /\ end' \in [Conns -> {"Incomplete"} \cup Ends]
      /\ \A d \in Conns : d # c => end'[d] = end[d]
      /\ r.ok => end'[c] = rec.kind
  BY <1>1, <1>4 DEF AppType
<1>8. dirs' \subseteq Conns /\ \A d \in Conns : d \in dirs' <=> d \in dirs
  BY <1>1 DEF AppType
<1>9. CASE Not /\ (Spend(r.faults) \/ Spend(1))
  <2>1. faults' \in Nat /\ faults' >= faults /\ (faults <= MaxFaults => faults' <= MaxFaults)
    BY <1>3, <1>5, <1>9, Spent
  <2>2. /\ entry' \in [Conns -> {None, "Active", "Failed"}] /\ entry'[c] = "Failed"
        /\ \A d \in Conns : d # c => entry'[d] = entry[d]
        /\ bad' = TRUE
    BY <1>9 DEF Failing, AppType
  <2>3. /\ counts' \in [Counters -> Nat] /\ Quiet /\ summaries' = summaries
        /\ summaries' \in [Conns -> {None, "torn", "observed", "failed", "incomplete"}]
    BY <1>9 DEF Quiet, AppType
  <2>4. \A d \in Conns : d # c => Idle(d)
    BY <1>6, <1>7, <1>8, <2>2, <2>3 DEF Idle
  <2>5. Breaks(c)
    BY <1>1, <1>8, <2>2, <2>3 DEF Breaks, Holding
  <2> HIDE DEF Not, Ok
  <2> QED BY <1>1, <1>3, <1>5, <1>6, <1>7, <1>8, <2>1, <2>2, <2>3, <2>4, <2>5 DEF Turn
<1>10. CASE Ok(r)
  <2>1. PICK w \in WriteJson(config.summary, Outcome(rec.kind)) :
                          /\ Spend(w.faults)
                          /\ summaries' = [summaries EXCEPT ![c] = w.file]
                          /\ IF w.ok
                             THEN /\ Continue /\ UNCHANGED counts
                                  /\ bad' = (bad \/ rec.kind \notin CleanEnds)
                             ELSE Count("metadata") /\ Failing("local_failure")
    BY <1>10
  <2>2. r.ok /\ entry' = [entry EXCEPT ![c] = None]
    BY <1>10
  <2> HIDE DEF Not, Ok
  <2>3. /\ w.ok \in BOOLEAN /\ w.faults \in {0, 1}
        /\ w.ok => w.file = Outcome(rec.kind)
        /\ ~w.ok => w.file \in {None, "torn"}
    BY <1>3, JsonDone
  <2>4. faults' \in Nat /\ faults' >= faults /\ (faults <= MaxFaults => faults' <= MaxFaults)
    BY <1>3, <2>1, <2>3, Spent
  <2>5. /\ entry' \in [Conns -> {None, "Active", "Failed"}] /\ entry'[c] = None
        /\ \A d \in Conns : d # c => entry'[d] = entry[d]
    BY <2>2 DEF AppType
  <2>6. /\ w.file \in {None, "torn", "observed", "failed"}
        /\ w.ok => w.file \notin {None, "torn"} /\ (w.file = "observed" <=> rec.kind \in CleanEnds)
    BY <2>3 DEF Outcome, None
  <2>7. /\ summaries' \in [Conns -> {None, "torn", "observed", "failed", "incomplete"}]
        /\ summaries'[c] = w.file
        /\ \A d \in Conns : d # c => summaries'[d] = summaries[d]
    BY <2>1, <2>6 DEF AppType
  <2>8. /\ counts' \in [Counters -> Nat] /\ counts'["unowned"] = counts["unowned"]
        /\ counts'["metadata"]
              = counts["metadata"] + (IF summaries'[c] \in {None, "torn"} THEN 1 ELSE 0)
    <3>1. CASE w.ok
      BY <2>1, <2>6, <2>7, <3>1 DEF AppType, Counters
    <3>2. CASE ~w.ok
      BY <2>1, <2>3, <2>7, <3>2, Counted DEF Counters
    <3> QED BY <3>1, <3>2
  <2>9. /\ bad' \in BOOLEAN /\ (bad => bad')
        /\ summaries'[c] = "observed" => rec.kind \in CleanEnds /\ bad' = bad
        /\ summaries'[c] # "observed" => bad'
    <3>1. CASE w.ok
      BY <2>1, <2>6, <2>7, <3>1 DEF AppType
    <3>2. CASE ~w.ok
      BY <2>1, <2>3, <2>7, <3>2 DEF Failing, None
    <3> QED BY <3>1, <3>2
  <2>10. \A d \in Conns : d # c => Idle(d)
    BY <1>6, <1>7, <1>8, <2>5, <2>7 DEF Idle
  <2>11. Closes(c)
    <3>1. summaries'[c] # "incomplete"
      BY <2>6, <2>7 DEF None
    <3> QED BY <1>1, <1>5, <1>6, <1>7, <1>8, <2>2, <2>5, <2>8, <2>9, <3>1 DEF Closes, Holding
  <2> QED BY <1>1, <1>3, <1>5, <1>6, <1>7, <1>8, <2>4, <2>5, <2>7, <2>8, <2>9, <2>10, <2>11 DEF Turn
<1> QED BY <1>4, <1>9, <1>10

\* A record for a recorder that failed, or for none.
LEMMA TurnDropped ==
    ASSUME AppType, NEW c \in Conns, RecordFailed(c) \/ RecordUnowned(c)
    PROVE  Turn(c)
<1>1. /\ Handling(c) /\ rec.kind # "Connected"
      /\ UNCHANGED <<loopFrame, entry, reserved, bad, dirs, files, end, summaries, faults>>
  BY DEF RecordFailed, RecordUnowned, outputs
<1>2. Continue
  BY DEF RecordFailed, RecordUnowned
<1>3. /\ rec' = NoRecord
      /\ UNCHANGED <<config, cause, first, wake, queue, conn, handed, result, status, exit>>
      /\ \E to \in {"recv", "claim"} : pc' = [pc EXCEPT !["main"] = to]
  BY <1>1, <1>2, TurnFrame
<1>4. \A d \in Conns : Idle(d)
  BY <1>1 DEF Idle
<1>5. counts' \in [Counters -> Nat] /\ (Drops(c) \/ Ignores(c))
  <2>1. CASE RecordFailed(c)
    <3>1. counts' \in [Counters -> Nat] /\ Quiet
      BY <2>1, Counted DEF RecordFailed, Counters, Quiet
    <3> QED BY <1>1, <1>4, <2>1, <3>1 DEF RecordFailed, Drops
  <2>2. CASE RecordUnowned(c)
    <3>1. /\ counts' \in [Counters -> Nat] /\ counts'["unowned"] = counts["unowned"] + 1
          /\ counts'["metadata"] = counts["metadata"]
      BY <2>2, Counted DEF RecordUnowned, Counters
    <3> QED BY <1>1, <1>4, <2>2, <3>1 DEF RecordUnowned, Ignores
  <2> QED BY <2>1, <2>2
<1>6. /\ entry' \in [Conns -> {None, "Active", "Failed"}] /\ files' \in [Conns -> Sizes]
      /\ end' \in [Conns -> {"Incomplete"} \cup Ends]
      /\ summaries' \in [Conns -> {None, "torn", "observed", "failed", "incomplete"}]
      /\ dirs' \subseteq Conns /\ (Fits(files[c]) => Fits(files'[c]))
      /\ bad' \in BOOLEAN /\ (bad => bad') /\ faults' \in Nat /\ faults' >= faults
      /\ (faults <= MaxFaults => faults' <= MaxFaults)
  BY <1>1 DEF AppType
<1> QED BY <1>1, <1>3, <1>4, <1>5, <1>6 DEF Turn

\* The handling of a record keeps the life of every connection in order.
LEMMA TurnStep ==
    ASSUME AppInv, NEW c \in Conns, Turn(c)
    PROVE  AppInv'
<1>0. /\ AppType /\ Flow /\ Drained /\ \A d \in Conns : Life(d)
      /\ Handling(c) /\ rec' = NoRecord
      /\ UNCHANGED <<config, wake, queue, conn, handed, result>>
      /\ \A d \in Conns : d # c => Idle(d)
      /\ bad => bad'
  BY DEF AppInv, Turn
<1>1. Handled(c) /\ \A d \in Conns : d # c => SameFlight(d)
  BY <1>0, FlightShrinks
<1>2. pc["main"] = "handle" /\ pc' \in [Threads -> Places] /\ pc'["main"] \in {"recv", "claim"}
      /\ ~Late /\ ~Late'
  BY <1>0 DEF Turn, Handling, AppType, Threads, Places, Late, After
<1>3. AppType'
  <2>1. pc'["main"] \in Loop \cup After
    BY <1>2 DEF Loop
  <2>2. reserved' \in Nat
    BY <1>0 DEF Turn, AppType
  <2> QED BY <1>0, <1>2, <2>1, <2>2 DEF AppType, Turn
<1>4. Flow'
  BY <1>0 DEF Flow, NoRecord, None
<1>5. Drained'
  BY <1>0, <1>2 DEF Drained, Late, After
<1>6. counts["unowned"] \in Nat /\ counts'["unowned"] \in Nat /\ counts'["unowned"] >= counts["unowned"]
  <2>1. counts["unowned"] \in Nat /\ counts'["unowned"] \in Nat
    BY <1>0, <1>3 DEF AppType, Counters
  <2>2. counts'["unowned"] = counts["unowned"] \/ counts'["unowned"] = counts["unowned"] + 1
    BY DEF Turn, Refuses, Opened, CannotOpen, Admits, Keeps, Breaks, Closes, Drops, Ignores, Quiet
  <2> QED BY <2>1, <2>2
<1>7. ASSUME NEW d \in Conns, d # c PROVE Life(d)'
  BY <1>0, <1>1, <1>2, <1>6, <1>7, LifeStays DEF Idle
<1>8. Life(c)'
  <2>0. Life(c) /\ conn'[c] = conn[c] /\ handed'[c] = handed[c]
    BY <1>0
  <2>1. /\ Has(c, RecordKinds)' => conn'[c] \in {"open", "ended"}
        /\ Has(c, Ends)' => conn'[c] = "ended"
        /\ Seen(c)' /\ conn[c] \in {"open", "ended"}
    BY <1>1, <2>0 DEF Handled, Life
  <2>2. CASE rec.kind = "Connected"
    <3>1. ~Seen(c) /\ Untouched(c) /\ (conn[c] = "ended" => Has(c, Ends)') /\ rec.kind \notin Ends
      BY <1>1, <2>0, <2>2, KindsNamed DEF Handled, Life
    <3>2. entry[c] = None /\ summaries[c] = None /\ end[c] = "Incomplete"
      BY <3>1 DEF Untouched
    <3>3. Has(c, Ends)' => Has(c, RecordKinds)'
      BY <1>1 DEF Handled
    <3>4. CASE Refuses(c)
      <4>1. entry'[c] = None /\ summaries'[c] = None
        BY <3>2, <3>4 DEF Refuses, Idle
      <4> QED BY <2>0, <2>1, <3>1, <3>3, <4>1 DEF Life, None
    <3>5. CASE Opened(c)
      <4>1. /\ entry'[c] = "Active" /\ summaries'[c] = None /\ end'[c] = "Incomplete" /\ c \in dirs'
        BY <3>2, <3>5 DEF Opened, Admits
      <4>2. files'[c].wire = 0 /\ files'[c].wave = Header /\ files'[c].log = 1
        BY <3>1, <3>5 DEF Opened, Untouched, Header
      <4>3. /\ Under(c, {"Wire"})' = handed[c].wire /\ Under(c, {"Audio"})' = handed[c].wave
            /\ Under(c, RecordKinds)' = handed[c].log - 1
        BY <1>1, <2>2, <3>1 DEF Handled, Untouched
      <4>4. handed[c].wire \in Nat /\ handed[c].wave \in Nat /\ handed[c].log \in Nat
        BY <1>0 DEF AppType, Sizes
      <4>5. Whole(c)'
        BY <2>0, <4>2, <4>3, <4>4 DEF Whole, Header
      <4> QED BY <2>0, <2>1, <3>1, <4>1, <4>5 DEF Life, None
    <3>6. CASE CannotOpen(c)
      <4>1. /\ entry'[c] = "Failed" /\ summaries'[c] = None /\ c \in dirs' /\ bad'
        BY <3>2, <3>6 DEF CannotOpen, Admits
      <4> QED BY <2>0, <2>1, <4>1 DEF Life, None
    <3> QED BY <2>2, <3>2, <3>4, <3>5, <3>6
            DEF Turn, Keeps, Breaks, Closes, Drops, Ignores, Holding
  <2>3. CASE rec.kind # "Connected"
    <3>1. Seen(c) /\ Has(c, RecordKinds)
      BY <1>1, <2>3 DEF Handled
    <3>2. summaries[c] # "observed" /\ summaries[c] # "incomplete"
      BY <1>2, <2>0, <3>1 DEF Life
    <3>3. entry[c] = "Active" /\ Grown(files[c], files'[c]) => Whole(c)'
      <4> SUFFICES ASSUME entry[c] = "Active", Grown(files[c], files'[c]) PROVE Whole(c)'
        OBVIOUS
      <4>1. Whole(c)
        BY <2>0 DEF Life
      <4>2. /\ files[c].wire \in Nat /\ files[c].wave \in Nat /\ files[c].log \in Nat
            /\ handed[c].wire \in Nat /\ handed[c].wave \in Nat /\ handed[c].log \in Nat
        BY <1>0 DEF AppType, Sizes
      <4>3. /\ Under(c, {"Wire"})' = Under(c, {"Wire"}) - (IF rec.kind = "Wire" THEN 1 ELSE 0)
            /\ Under(c, {"Audio"})' = Under(c, {"Audio"}) - (IF rec.kind = "Audio" THEN 1 ELSE 0)
            /\ Under(c, RecordKinds)' = Under(c, RecordKinds) - 1
            /\ Under(c, {"Wire"}) \in Int /\ Under(c, {"Audio"}) \in Int /\ Under(c, RecordKinds) \in Int
        BY <1>1 DEF Handled
      <4>4. files'[c].wire + Under(c, {"Wire"})' = handed'[c].wire
        BY <2>0, <4>1, <4>2, <4>3 DEF Whole, Grown
      <4>5. files'[c].wave + Under(c, {"Audio"})' = handed'[c].wave + Header
        BY <2>0, <4>1, <4>2, <4>3 DEF Whole, Grown, Header
      <4>6. files'[c].log + Under(c, RecordKinds)' = handed'[c].log
        BY <2>0, <4>1, <4>2, <4>3 DEF Whole, Grown
      <4> QED BY <4>4, <4>5, <4>6 DEF Whole
    <3>4. entry[c] = "Active" => summaries[c] = None /\ end[c] = "Incomplete" /\ c \in dirs
      BY <2>0 DEF Life
    <3>5. CASE Keeps(c)
      <4>1. /\ entry[c] = "Active" /\ entry'[c] = "Active" /\ summaries'[c] = None
            /\ end'[c] = "Incomplete" /\ c \in dirs' /\ rec.kind \notin Ends
        BY <3>4, <3>5 DEF Keeps, Holding
      <4>2. Whole(c)'
        BY <3>3, <3>5, <4>1 DEF Keeps
      <4>3. conn[c] = "ended" => Has(c, Ends)'
        BY <1>1, <2>0, <4>1 DEF Life, Handled
      <4> QED BY <2>0, <2>1, <4>1, <4>2, <4>3 DEF Life, None
    <3>6. CASE Breaks(c)
      <4>1. /\ entry'[c] = "Failed" /\ summaries'[c] = None /\ c \in dirs' /\ bad'
        BY <3>4, <3>6 DEF Breaks, Holding
      <4> QED BY <2>0, <2>1, <4>1 DEF Life, None
    <3>7. CASE Closes(c)
      <4>1. /\ entry[c] = "Active" /\ entry'[c] = None /\ rec.kind \in Ends /\ end'[c] = rec.kind
            /\ summaries'[c] = "observed" => rec.kind \in CleanEnds
            /\ summaries'[c] # "observed" => bad'
            /\ summaries'[c] # "incomplete"
        BY <3>7 DEF Closes, Holding
      <4>2. Whole(c)'
        BY <3>3, <3>7, <4>1 DEF Closes
      <4>3. conn[c] = "ended" /\ ~Has(c, RecordKinds)'
        BY <1>1, <4>1 DEF Handled
      <4> QED BY <2>0, <2>1, <4>1, <4>2, <4>3 DEF Life, None
    <3>8. CASE Drops(c)
      <4>1. /\ entry'[c] = "Failed" /\ summaries'[c] = None /\ c \in dirs' /\ bad'
        BY <1>0, <2>0, <3>8 DEF Drops, Idle, Life
      <4> QED BY <2>0, <2>1, <4>1 DEF Life, None
    <3>9. CASE Ignores(c)
      <4>1. /\ entry'[c] = None /\ summaries'[c] = summaries[c] /\ counts'["unowned"] > 0
        BY <1>6, <3>9 DEF Ignores, Idle
      <4> QED BY <2>0, <2>1, <3>2, <4>1 DEF Life, None
    <3> QED BY <2>3, <3>5, <3>6, <3>7, <3>8, <3>9 DEF Turn, Refuses, Opened, CannotOpen, Admits
  <2> QED BY <2>2, <2>3
<1> QED BY <1>3, <1>4, <1>5, <1>7, <1>8 DEF AppInv

\* A recorder left in the map is concluded.
Concludes(c) ==
    /\ pc["main"] = "finalise" /\ c \in Owned /\ entry'[c] = None
    /\ entry' \in [Conns -> {None, "Active", "Failed"}]
    /\ summaries' \in [Conns -> {None, "torn", "observed", "failed", "incomplete"}]
    /\ UNCHANGED <<config, cause, first, wake, queue, conn, handed, result, status, exit, pc,
                   rec, reserved, dirs, files, end>>
    /\ bad' = TRUE /\ counts' \in [Counters -> Nat] /\ counts'["unowned"] = counts["unowned"]
    /\ counts'["metadata"]
          = counts["metadata"] + (IF summaries'[c] \in {None, "torn"} THEN 1 ELSE 0)
    /\ summaries'[c] # "observed" /\ (summaries'[c] = "incomplete" => entry[c] = "Active")
    /\ faults' \in Nat /\ faults' >= faults /\ (faults <= MaxFaults => faults' <= MaxFaults)
    /\ \A d \in Conns : d # c => Idle(d)

\* Finalise is such a conclusion, whatever finish and write_json return.
LEMMA FinaliseConcludes ==
    ASSUME AppType, NEW c \in Conns, Finalise(c)
    PROVE  Concludes(c)
<1>0. config.summary \in Nat /\ faults \in Nat
  BY CaptureConstants DEF AppType
<1>1. PICK n \in IF entry[c] = "Active" THEN 0..1 ELSE {0} :
         \E w \in WriteJson(config.summary, IF entry[c] = "Active" /\ n = 0
                                            THEN "incomplete" ELSE "failed") :
            /\ Spend(n + w.faults)
            /\ summaries' = [summaries EXCEPT ![c] = w.file]
            /\ IF w.ok THEN UNCHANGED counts ELSE Count("metadata")
  BY DEF Finalise
<1> DEFINE what == IF entry[c] = "Active" /\ n = 0 THEN "incomplete" ELSE "failed"
<1>2. PICK w \in WriteJson(config.summary, what) :
         /\ Spend(n + w.faults)
         /\ summaries' = [summaries EXCEPT ![c] = w.file]
         /\ IF w.ok THEN UNCHANGED counts ELSE Count("metadata")
  BY <1>1
<1>3. what \in {"incomplete", "failed"} /\ (what = "incomplete" => entry[c] = "Active")
  OBVIOUS
<1> HIDE DEF what
<1>4. /\ w.ok \in BOOLEAN /\ w.faults \in {0, 1}
      /\ w.ok => w.file = what
      /\ ~w.ok => w.file \in {None, "torn"}
  BY <1>0, JsonDone
<1>5. w.file \in {None, "torn", "failed", "incomplete"} /\ (w.ok <=> w.file \notin {None, "torn"})
  BY <1>3, <1>4 DEF None
<1>6. /\ summaries' \in [Conns -> {None, "torn", "observed", "failed", "incomplete"}]
      /\ summaries'[c] = w.file /\ \A d \in Conns : d # c => summaries'[d] = summaries[d]
  BY <1>2, <1>5 DEF AppType
<1>7. /\ counts' \in [Counters -> Nat] /\ counts'["unowned"] = counts["unowned"]
      /\ counts'["metadata"]
            = counts["metadata"] + (IF summaries'[c] \in {None, "torn"} THEN 1 ELSE 0)
  <2>1. CASE w.ok
    BY <1>2, <1>5, <1>6, <2>1 DEF AppType, Counters
  <2>2. CASE ~w.ok
    BY <1>2, <1>5, <1>6, <2>2, Counted DEF Counters
  <2> QED BY <2>1, <2>2
<1>8. faults' \in Nat /\ faults' >= faults /\ (faults <= MaxFaults => faults' <= MaxFaults)
  <2>1. n \in {0, 1}
    OBVIOUS
  <2>2. n + w.faults \in 0..2
    BY <1>4, <2>1
  <2> QED BY <1>0, <1>2, <2>2, Spent
<1>9. /\ entry' \in [Conns -> {None, "Active", "Failed"}] /\ entry'[c] = None
      /\ \A d \in Conns : d # c => entry'[d] = entry[d]
  BY DEF Finalise, AppType
<1>10. /\ UNCHANGED <<config, cause, first, wake, queue, conn, handed, result, status, exit, pc,
                      rec, reserved, dirs, files, end>>
       /\ bad' = TRUE /\ pc["main"] = "finalise" /\ c \in Owned
  BY DEF Finalise, loopFrame, control, receiver
<1>11. summaries'[c] # "observed" /\ (summaries'[c] = "incomplete" => entry[c] = "Active")
  BY <1>3, <1>4, <1>5, <1>6 DEF None
<1>12. \A d \in Conns : d # c => Idle(d)
  BY <1>6, <1>9, <1>10 DEF Idle
<1> QED BY <1>6, <1>7, <1>8, <1>9, <1>10, <1>11, <1>12 DEF Concludes

\* A conclusion keeps the invariant: an incomplete recording is still whole.
LEMMA ConcludeStep ==
    ASSUME AppInv, NEW c \in Conns, Concludes(c)
    PROVE  AppInv'
<1>0. AppType /\ Flow /\ Drained /\ \A d \in Conns : Life(d)
  BY DEF AppInv
<1>1. AppType' /\ Flow'
  BY <1>0 DEF Concludes, AppType, Flow
<1>2. Drained' /\ Late /\ Late'
  BY <1>0 DEF Concludes, Drained, Late, After
<1>3. \A d \in Conns : SameFlight(d)
  BY DEF Concludes, SameFlight, Has, Under
<1>4. ASSUME NEW d \in Conns, d # c PROVE Life(d)'
  BY <1>0, <1>2, <1>3, <1>4, LifeStays DEF Concludes, Idle
<1>5. Life(c)'
  <2>1. /\ Has(c, Ends)' <=> Has(c, Ends)
        /\ Has(c, RecordKinds)' <=> Has(c, RecordKinds)
        /\ Whole(c)' <=> Whole(c)
        /\ Seen(c)' <=> Seen(c)
    BY DEF Concludes, Has, Under, Whole, Seen
  <2>2. queue = <<>> /\ rec = NoRecord
    BY <1>0, <1>2 DEF Drained, Concludes
  <2>3. ~Has(c, Ends)
    BY <2>2, KindsNamed DEF Has, Is, Holds, NoRecord, None
  <2>4. Life(c) /\ entry[c] \in {"Active", "Failed"} /\ Seen(c)
    BY <1>0 DEF Concludes, Owned, Life, AppType
  <2>5. summaries'[c] = "incomplete" => Whole(c) /\ conn[c] # "ended"
    BY <2>3, <2>4 DEF Concludes, Life
  <2>6. conn'[c] = conn[c] /\ entry'[c] = None /\ summaries'[c] # "observed" /\ bad'
    BY DEF Concludes
  <2> QED BY <1>2, <2>1, <2>4, <2>5, <2>6 DEF Life, None
<1> QED BY <1>1, <1>2, <1>4, <1>5 DEF AppInv

\* Claims, joins, signals and the report.
Requests == \E t \in Threads : Claim(t) \/ Name(t) \/ Stop(t) \/ Woken(t)
Leaves == Disconnected \/ CloseHandle \/ JoinMonitor \/ JoinWorker
Signals == Signal \/ MonitorEnds \/ Raise \/ UNCHANGED vars
Moves == Requests \/ Leaves \/ Report \/ Signals

\* They do not touch the books.
LEMMA ThreadStep ==
    ASSUME AppInv, Moves
    PROVE  AppInv'
<1> USE DEF Moves, Requests, Leaves, Signals
<1>0. AppType /\ Drained /\ pc \in [Threads -> Places] /\ faults \in Nat /\ bad \in BOOLEAN
      /\ wake \in BOOLEAN /\ result \in {None, "Ok", "Err", "Panic"} /\ "main" \in Threads
      /\ pc["main"] \in Loop \cup After
  BY DEF AppInv, AppType, Threads
<1>1. UNCHANGED <<books, result>>
  <2>1. CASE \E t \in Threads : Claim(t) \/ Name(t) \/ Stop(t) \/ Woken(t)
    BY <2>1 DEF Claim, Name, Stop, Woken, books, control, receiver, locals, outputs
  <2>2. CASE Disconnected \/ CloseHandle \/ JoinMonitor \/ JoinWorker \/ Report
    BY <2>2 DEF Disconnected, CloseHandle, JoinMonitor, JoinWorker, Report, books, loopFrame,
                control, receiver, locals, outputs
  <2>3. CASE Signal \/ MonitorEnds \/ Raise \/ UNCHANGED vars
    BY <2>3 DEF Signal, MonitorEnds, Raise, vars, books, control, receiver, locals, outputs
  <2> QED BY <2>1, <2>2, <2>3
<1>2. wake' \in BOOLEAN /\ bad' \in BOOLEAN /\ (bad => bad') /\ faults' \in Nat
  <2>1. CASE \E t \in Threads : Claim(t) \/ Name(t) \/ Stop(t) \/ Woken(t)
    <3>1. (faults' = faults \/ faults' = faults + 1) /\ (wake' = wake \/ wake' = TRUE) /\ bad' = bad
      BY <2>1 DEF Claim, Name, Stop, Woken, Fault, control, locals
    <3>2. faults' \in Nat
      BY <1>0, <3>1
    <3>3. wake' \in BOOLEAN /\ bad' \in BOOLEAN /\ (bad => bad')
      BY <1>0, <3>1, Zenon
    <3> QED BY <3>2, <3>3
  <2>2. CASE Disconnected \/ CloseHandle \/ JoinMonitor \/ JoinWorker
    <3>1. faults' = faults /\ wake' = wake /\ (bad' = bad \/ bad' = (bad \/ result # "Ok"))
      BY <2>2 DEF Disconnected, CloseHandle, JoinMonitor, JoinWorker, loopFrame, control, locals
    <3>2. bad' \in BOOLEAN /\ (bad => bad')
      BY <1>0, <3>1, Zenon
    <3> QED BY <1>0, <3>1, <3>2
  <2>3. CASE Report
    <3>1. PICK w \in WriteJson(config.status, "written") :
             Spend(w.faults) /\ bad' = (bad \/ Unwell \/ ~w.ok)
      BY <2>3 DEF Report
    <3>2. w.faults \in {0, 1}
      BY CaptureConstants, <1>0, JsonDone DEF AppType
    <3>3. faults' \in Nat
      BY <1>0, <3>1, <3>2, Spent
    <3>4. wake' = wake
      BY <2>3 DEF Report, control
    <3>5. bad' \in BOOLEAN /\ (bad => bad')
      BY <3>1, Zenon
    <3> QED BY <1>0, <3>3, <3>4, <3>5
  <2>4. CASE Signal \/ MonitorEnds \/ Raise \/ UNCHANGED vars
    <3>1. faults' = faults /\ wake' = wake /\ bad' = bad
      BY <2>4 DEF Signal, MonitorEnds, Raise, vars, control, locals
    <3> QED BY <1>0, <3>1
  <2> QED BY <2>1, <2>2, <2>3, <2>4
<1>3. /\ pc' \in [Threads -> Places] /\ pc'["main"] \in Loop \cup After
      /\ pc'["main"] = "handle" <=> pc["main"] = "handle"
      /\ Late => Late'
      /\ Late' => result # None /\ queue = <<>>
      /\ pc'["main"] \in After \ {"finalise"} => Owned = {}
  <2>1. CASE \E t \in Threads : Claim(t) \/ Name(t) \/ Stop(t) \/ Woken(t)
    <3>1. PICK t \in Threads : Claim(t) \/ Name(t) \/ Stop(t) \/ Woken(t)
      BY <2>1
    <3>2. /\ pc[t] \in {"claim", "name", "stop", "stopping"}
          /\ \E to \in {"recv", "wait", "name", "stop", "stopping"} :
                /\ pc' = [pc EXCEPT ![t] = to]
                /\ t = "main" => to # "wait"
      BY <3>1 DEF Claim, Name, Stop, Woken, Goto, Home
    <3>3. CASE t = "main"
      BY <1>0, <3>2, <3>3 DEF Late, Loop, After, Places, Threads
    <3>4. CASE t # "main"
      <4>1. pc'["main"] = pc["main"] /\ pc' \in [Threads -> Places]
        BY <1>0, <3>2, <3>4 DEF Places, Threads
      <4> QED BY <1>0, <4>1 DEF Late, Drained
    <3> QED BY <3>3, <3>4
  <2>2. CASE Disconnected
    <3>1. pc["main"] = "recv" /\ pc' = [pc EXCEPT !["main"] = "finalise"] /\ queue = <<>>
          /\ result # None
      BY <2>2 DEF Disconnected, Goto, Running
    <3> QED BY <1>0, <3>1 DEF Late, Loop, After, Places, Threads
  <2>3. CASE CloseHandle \/ JoinMonitor \/ JoinWorker \/ Report
    <3>1. /\ pc["main"] \in {"finalise", "joinMonitor", "joinWorker", "status"}
          /\ pc["main"] = "finalise" => Owned = {}
          /\ \E to \in {"joinMonitor", "joinWorker", "status", "done"} :
                pc' = [pc EXCEPT !["main"] = to]
      BY <2>3 DEF CloseHandle, JoinMonitor, JoinWorker, Report, Goto
    <3>2. pc'["main"] \in {"joinMonitor", "joinWorker", "status", "done"}
          /\ pc' \in [Threads -> Places]
      BY <1>0, <3>1 DEF Places
    <3>3. result # None /\ queue = <<>> /\ Owned = {}
      BY <1>0, <3>1 DEF Drained, Late, After
    <3> QED BY <3>1, <3>2, <3>3 DEF Late, Loop, After
  <2>4. CASE Signal \/ MonitorEnds
    <3>1. \E to \in {"claim", "ended"} : pc' = [pc EXCEPT !["monitor"] = to]
      BY <2>4 DEF Signal, MonitorEnds, Request, Goto
    <3>2. pc'["main"] = pc["main"] /\ pc' \in [Threads -> Places]
      BY <1>0, <3>1 DEF Places, Threads
    <3> QED BY <1>0, <3>2 DEF Late, Drained
  <2>5. CASE Raise \/ UNCHANGED vars
    <3>1. pc' = pc
      BY <2>5 DEF Raise, vars
    <3> QED BY <1>0, <3>1 DEF Late, Drained
  <2> QED BY <2>1, <2>2, <2>3, <2>4, <2>5
<1> QED BY <1>0, <1>1, <1>2, <1>3, BooksStay

\* The handlers of the record loop.
LEMMA LoopTurns ==
    ASSUME AppType, NEW c \in Conns,
           \/ StoppedRefused(c) \/ AdmissionRefused(c) \/ DirectoryRefused(c)
           \/ CreateFails(c) \/ Opens(c) \/ RecordActive(c) \/ RecordEnd(c)
           \/ RecordFailed(c) \/ RecordUnowned(c)
    PROVE  Turn(c)
  BY TurnRefused, TurnOpens, TurnActive, TurnEnd, TurnDropped

\* A step of the application is one of these.
LEMMA Steps ==
    ASSUME AppType, [Next]_vars
    PROVE  \/ \E c \in Conns : Turn(c) \/ Concludes(c)
           \/ Recv \/ Receiver \/ Moves
<1> USE DEF Moves, Requests, Leaves, Signals
<1>1. "main" \in Threads /\ "monitor" \in Threads
  BY DEF Threads
<1>2. CASE Main
  BY <1>1, <1>2, LoopTurns, FinaliseConcludes DEF Main
<1>3. CASE Monitor
  BY <1>1, <1>3 DEF Monitor
<1> QED BY <1>2, <1>3 DEF Next

\* Every step of the application keeps the records and the files in step.
LEMMA NextApp == AppInv /\ [Next]_vars => AppInv'
<1> SUFFICES ASSUME AppInv, [Next]_vars PROVE AppInv'
  OBVIOUS
<1>1. AppType
  BY DEF AppInv
<1> QED BY <1>1, Steps, TurnStep, ConcludeStep, RecvStep, ReceiverStep, ThreadStep

-----------------------------------------------------------------------------
(* The run as a whole.                                                     *)

\* What only the handlers and the finalisation change.
Elsewhere ==
    /\ UNCHANGED <<config, entry, reserved, counts, dirs, files, end, summaries>>
    /\ faults' >= faults /\ (faults <= MaxFaults => faults' <= MaxFaults)

\* Receiving, the receiver and the two threads' moves leave all that alone.
LEMMA ElsewhereStep ==
    ASSUME AppType, Recv \/ Receiver \/ Moves
    PROVE  Elsewhere
<1>0. faults \in Nat /\ config.status \in Nat
  BY CaptureConstants DEF AppType
<1>1. CASE Recv
  BY <1>0, <1>1 DEF Recv, Elsewhere, control, locals, outputs
<1>2. CASE Receiver
  <2>1. UNCHANGED <<config, entry, reserved, counts, dirs, files, end, summaries>>
    BY <1>2 DEF Receiver, Returns, Accept, Connect, Payload, Ended, HandOff, receiverFrame, locals,
                outputs
  <2>2. faults' = faults \/ Fault
    BY <1>2 DEF Receiver, Returns, Accept, Connect, Payload, Ended, HandOff
  <2> QED BY <1>0, <2>1, <2>2, CaptureConstants DEF Elsewhere, Fault
<1>3. CASE Requests
  <2>1. UNCHANGED <<config, entry, reserved, counts, dirs, files, end, summaries>>
    BY <1>3 DEF Requests, Claim, Name, Stop, Woken, locals, outputs
  <2>2. faults' = faults \/ Fault
    BY <1>3 DEF Requests, Claim, Name, Stop, Woken
  <2> QED BY <1>0, <2>1, <2>2, CaptureConstants DEF Elsewhere, Fault
<1>4. CASE Leaves
  BY <1>0, <1>4 DEF Leaves, Disconnected, CloseHandle, JoinMonitor, JoinWorker, loopFrame, locals,
                    outputs, Elsewhere
<1>5. CASE Report
  <2>1. UNCHANGED <<config, entry, reserved, counts, dirs, files, end, summaries>>
    BY <1>5 DEF Report, outputs
  <2>2. PICK w \in WriteJson(config.status, "written") : Spend(w.faults)
    BY <1>5 DEF Report
  <2>3. w.faults \in {0, 1}
    BY <1>0, JsonDone
  <2> QED BY <1>0, <2>1, <2>2, <2>3, Spent DEF Elsewhere
<1>6. CASE Signals
  BY <1>0, <1>6 DEF Signals, Signal, MonitorEnds, Raise, vars, locals, outputs, Elsewhere
<1> QED BY <1>1, <1>2, <1>3, <1>4, <1>5, <1>6 DEF Moves

\* The process has ended: nothing moves any more.
LEMMA DoneStays ==
    ASSUME ClaimInv, AppInv, pc["main"] = "done", [Next]_vars
    PROVE  UNCHANGED vars
<1>1. result # None /\ pc["monitor"] = "ended"
  BY DEF AppInv, Drained, Late, After, ClaimInv, MonitorJoined
<1>2. ~Receiver
  BY <1>1 DEF Receiver, Returns, Accept, Connect, Payload, Ended, Contract!Accept, Contract!Connect,
              Contract!Payload, Contract!End, Contract!Return, Contract!Becomes, Contract!Running,
              Running, None
<1>3. \A t \in Threads : ~Claim(t) /\ ~Name(t) /\ ~Stop(t) /\ ~Woken(t)
  BY <1>1 DEF Claim, Name, Stop, Woken, Threads
<1>4. \A c \in Conns : ~Turn(c) /\ ~Concludes(c)
  BY DEF Turn, Concludes, Handling
<1>5. ~Recv /\ ~Disconnected /\ ~CloseHandle /\ ~JoinMonitor /\ ~JoinWorker /\ ~Report
      /\ ~Signal /\ ~MonitorEnds /\ ~Raise
  BY <1>1 DEF Recv, Disconnected, CloseHandle, JoinMonitor, JoinWorker, Report, Signal, MonitorEnds,
              Raise
<1>6. AppType
  BY DEF AppInv
<1> QED BY <1>2, <1>3, <1>4, <1>5, <1>6, Steps DEF Moves, Requests, Leaves, Signals

\* A connection whose recording is not what was sent.
Spoiled(c) == Seen(c) /\ entry[c] # "Active" /\ summaries[c] # "observed"

\* A run that turned bad without a failure of the system has such a connection.
Blame ==
    pc["main"] # "done" /\ ((bad /\ faults = 0) \/ counts["unowned"] > 0)
        => \E c \in Conns : Spoiled(c)

\* What the receiver sends later does not take back what was handled.
LEMMA ReceiverSeen ==
    ASSUME AppInv, Receiver, NEW d \in Conns, Seen(d)
    PROVE  Seen(d)'
<1>0. AppType /\ rec' = rec
  BY DEF AppInv, Receiver, Returns, Accept, Connect, Payload, Ended, HandOff, receiverFrame
<1>1. ASSUME NEW c \in Conns, NEW kind \in RecordKinds, HandOff(c, kind),
             NEW to \in {"open", "ended"}, conn' = [conn EXCEPT ![c] = to],
             kind = "Connected" => conn[c] = "accepted"
      PROVE  Seen(d)'
  <2>1. /\ \A e \in Conns : e # c => SameFlight(e)
        /\ \A ks \in Groups : Has(c, ks)' <=> Has(c, ks) \/ kind \in ks
    BY <1>0, <1>1, FlightGrows DEF HandOff
  <2>2. CASE d = c
    <3>1. kind # "Connected"
      BY <1>1, <2>2 DEF Seen
    <3>2. Has(c, {"Connected"})' <=> Has(c, {"Connected"})
      BY <2>1, <3>1 DEF Groups
    <3> QED BY <1>0, <1>1, <2>2, <3>2 DEF Seen, AppType
  <2>3. CASE d # c
    <3>1. Has(d, {"Connected"})' <=> Has(d, {"Connected"})
      BY <2>1, <2>3 DEF SameFlight, Groups
    <3> QED BY <1>0, <1>1, <2>3, <3>1 DEF Seen, AppType
  <2> QED BY <2>2, <2>3
<1>2. ASSUME NEW c \in Conns, Accept(c) PROVE Seen(d)'
  BY <1>0, <1>2 DEF Accept, Contract!Accept, Contract!Becomes, Seen, Has, AppType
<1>3. ASSUME NEW c \in Conns, Connect(c) PROVE Seen(d)'
  BY <1>1, <1>3 DEF Connect, Contract!Connect, Contract!Becomes, RecordKinds
<1>4. ASSUME NEW c \in Conns, Payload(c) PROVE Seen(d)'
  <2>1. PICK kind \in Kinds[c] : HandOff(c, kind)
    BY <1>4 DEF Payload
  <2>2. kind \in {"Wire", "Audio"}
    BY CaptureConstants
  <2> QED BY <1>1, <1>4, <2>1, <2>2 DEF Payload, Contract!Payload, Contract!Becomes, RecordKinds
<1>5. ASSUME NEW c \in Conns, Ended(c) PROVE Seen(d)'
  <2>1. PICK kind \in Ends : HandOff(c, kind)
    BY <1>5 DEF Ended
  <2> QED BY <1>1, <1>5, <2>1, KindsNamed DEF Ended, Contract!End, Contract!Becomes
<1>6. CASE Returns
  <2>1. UNCHANGED <<queue, conn>>
    BY <1>6 DEF Returns, Contract!Return
  <2> QED BY <1>0, <2>1 DEF Seen, Has
<1> QED BY <1>2, <1>3, <1>4, <1>5, <1>6 DEF Receiver

\* A spoiled recording stays spoiled.
LEMMA SpoiledStays ==
    ASSUME AppInv, [Next]_vars, NEW d \in Conns, Spoiled(d)
    PROVE  Spoiled(d)'
<1>0. AppType /\ Life(d) /\ Seen(d) /\ entry[d] # "Active" /\ summaries[d] # "observed"
  BY DEF AppInv, Spoiled
<1>1. ASSUME NEW c \in Conns, Turn(c) PROVE Spoiled(d)'
  <2>1. Handled(c) /\ \A e \in Conns : e # c => SameFlight(e)
    BY <1>1, FlightShrinks DEF Turn
  <2>2. Seen(d)'
    <3>1. CASE d = c
      BY <2>1, <3>1 DEF Handled
    <3>2. CASE d # c
      BY <1>0, <1>1, <2>1, <3>2 DEF SameFlight, Groups, Seen, Turn
    <3> QED BY <3>1, <3>2
  <2>3. Idle(d)
    <3>1. CASE d = c
      <4>1. rec.kind # "Connected"
        BY <1>0, <2>1, <3>1 DEF Handled
      <4> QED BY <1>0, <1>1, <3>1, <4>1 DEF Turn, Refuses, Opened, CannotOpen, Admits, Keeps, Breaks,
                 Closes, Holding, Drops, Ignores
    <3>2. CASE d # c
      BY <1>1, <3>2 DEF Turn
    <3> QED BY <3>1, <3>2
  <2> QED BY <1>0, <2>2, <2>3 DEF Spoiled, Idle
<1>2. ASSUME NEW c \in Conns, Concludes(c) PROVE Spoiled(d)'
  <2>1. Seen(d)'
    BY <1>0, <1>2 DEF Concludes, Seen, Has
  <2>2. entry'[d] # "Active" /\ summaries'[d] # "observed"
    <3>1. CASE d = c
      BY <1>2, <3>1 DEF Concludes, None
    <3>2. CASE d # c
      BY <1>0, <1>2, <3>2 DEF Concludes, Idle
    <3> QED BY <3>1, <3>2
  <2> QED BY <2>1, <2>2 DEF Spoiled
<1>3. CASE Recv \/ Receiver \/ Moves
  <2>1. entry' = entry /\ summaries' = summaries
    BY <1>0, <1>3, ElsewhereStep DEF Elsewhere
  <2>2. Seen(d)'
    <3>1. CASE Recv
      <4>1. queue \in Seq(RecordType) /\ queue # <<>> /\ queue' = Tail(queue) /\ rec' = Head(queue)
            /\ conn' = conn
        BY <1>0, <3>1 DEF Recv, AppType
      <4>2. ~Holds(queue, d, {"Connected"})
        BY <1>0 DEF Seen, Has
      <4>3. ~Is(Head(queue), d, {"Connected"}) /\ ~Holds(Tail(queue), d, {"Connected"})
        BY <4>1, <4>2, RecordTaken
      <4> QED BY <1>0, <4>1, <4>3 DEF Seen, Has
    <3>2. CASE Receiver
      BY <1>0, <3>2, ReceiverSeen
    <3>3. CASE Moves
      <4>1. UNCHANGED <<queue, rec, conn>>
        BY <3>3 DEF Moves, Requests, Leaves, Signals, Claim, Name, Stop, Woken, Disconnected,
              CloseHandle, JoinMonitor, JoinWorker, Report, Signal, MonitorEnds, Raise, vars,
              loopFrame, receiver
      <4> QED BY <1>0, <4>1 DEF Seen, Has
    <3> QED BY <1>3, <3>1, <3>2, <3>3
  <2> QED BY <1>0, <2>1, <2>2 DEF Spoiled
<1> QED BY <1>0, <1>1, <1>2, <1>3, Steps

\* A failed wake or receiver is a failure of the system.
Excused == wake \/ result \in {"Err", "Panic"} => faults > 0

\* Every wake failure and every failure of the receiver is counted.
LEMMA ExcusedStep ==
    ASSUME AppInv, Excused, [Next]_vars
    PROVE  Excused'
<1>0. AppType /\ faults \in Nat
  BY DEF AppInv, AppType
<1>1. CASE UNCHANGED <<wake, result>> /\ faults' >= faults /\ faults' \in Nat
  BY <1>0, <1>1 DEF Excused
<1>2. faults' \in Nat
  BY NextApp DEF AppInv, AppType
<1>3. ASSUME NEW c \in Conns, Turn(c) \/ Concludes(c) PROVE Excused'
  BY <1>1, <1>2, <1>3 DEF Turn, Concludes
<1>4. CASE Recv \/ Receiver \/ Moves
  <2>1. faults' >= faults
    BY <1>0, <1>4, ElsewhereStep DEF Elsewhere
  <2>2. CASE Recv
    BY <1>1, <1>2, <2>1, <2>2 DEF Recv, control
  <2>3. ASSUME NEW c \in Conns, Accept(c) \/ Connect(c) \/ Payload(c) \/ Ended(c) PROVE Excused'
    BY <1>1, <1>2, <2>1, <2>3 DEF Accept, Connect, Payload, Ended, HandOff, receiverFrame, control
  <2>4. CASE Returns
    <3>1. wake' = wake
      BY <2>4 DEF Returns, receiverFrame, control
    <3>2. CASE Fault
      BY <1>0, <3>2 DEF Fault, Excused
    <3>3. CASE wake
      BY <1>0, <1>2, <2>1, <3>3 DEF Excused
    <3>4. CASE Contract!Return("Ok")
      <4>1. result' = "Ok"
        BY <3>4 DEF Contract!Return
      <4> QED BY <1>0, <1>2, <2>1, <3>1, <4>1 DEF Excused
    <3> QED BY <2>4, <3>2, <3>3, <3>4 DEF Returns
  <2>5. CASE Requests
    <3>1. result' = result
      BY <2>5 DEF Requests, Claim, Name, Stop, Woken, receiver
    <3>2. wake' = wake \/ Fault
      BY <2>5 DEF Requests, Claim, Name, Stop, Woken, control
    <3>3. CASE Fault
      BY <1>0, <3>3 DEF Fault, Excused
    <3> QED BY <1>1, <1>2, <2>1, <3>1, <3>2, <3>3
  <2>6. CASE Leaves \/ Report \/ Signals
    <3>1. UNCHANGED <<wake, result>>
      BY <2>6 DEF Leaves, Disconnected, CloseHandle, JoinMonitor, JoinWorker, Report, Signals,
                  Signal, MonitorEnds, Raise, vars, loopFrame, receiver, control
    <3> QED BY <1>1, <1>2, <2>1, <3>1
  <2> QED BY <1>4, <2>2, <2>3, <2>4, <2>5, <2>6 DEF Receiver, Moves
<1> QED BY <1>0, <1>3, <1>4, Steps

\* Which steps change whether the run is bad, and how the worker's join sees
\* the result of the receiver.
Joined == pc["main"] \in {"status", "done"} /\ ~bad => result = "Ok"

\* Outside the handlers only the join and the report change whether the run
\* is bad.
LEMMA Verdict ==
    ASSUME AppInv, Recv \/ Receiver \/ Moves
    PROVE  \/ bad' = bad /\ (pc'["main"] \in {"status", "done"} => pc'["main"] = pc["main"])
           \/ JoinWorker \/ Report
<1>0. AppType /\ pc \in [Threads -> Places]
  BY DEF AppInv, AppType
<1>1. CASE Recv
  BY <1>0, <1>1 DEF Recv, locals, Goto, Threads
<1>2. CASE Receiver
  BY <1>2 DEF Receiver, Returns, Accept, Connect, Payload, Ended, HandOff, receiverFrame, locals
<1>3. CASE Requests
  <2>1. PICK t \in Threads : Claim(t) \/ Name(t) \/ Stop(t) \/ Woken(t)
    BY <1>3 DEF Requests
  <2>2. bad' = bad
    BY <2>1 DEF Claim, Name, Stop, Woken, locals
  <2>3. \E to \in {"recv", "wait", "name", "stop", "stopping"} : pc' = [pc EXCEPT ![t] = to]
    BY <2>1 DEF Claim, Name, Stop, Woken, Goto, Home
  <2>4. pc'["main"] \in {"status", "done"} => pc'["main"] = pc["main"]
    BY <1>0, <2>3 DEF Threads
  <2> QED BY <2>2, <2>4
<1>4. CASE Leaves
  BY <1>0, <1>4 DEF Leaves, Disconnected, CloseHandle, JoinMonitor, Goto, locals, Threads
<1>5. CASE Signals
  BY <1>0, <1>5 DEF Signals, Signal, MonitorEnds, Raise, Request, Goto, vars, locals, Threads
<1> QED BY <1>1, <1>2, <1>3, <1>4, <1>5 DEF Moves

\* The receiver's result does not change once the main thread left its loop.
LEMMA ResultStays ==
    ASSUME AppInv, [Next]_vars, result # None
    PROVE  result' = result
<1>0. AppType
  BY DEF AppInv
<1>1. ASSUME NEW c \in Conns, Turn(c) \/ Concludes(c) PROVE result' = result
  BY <1>1 DEF Turn, Concludes
<1>2. CASE Recv \/ Moves
  BY <1>2 DEF Recv, Moves, Requests, Leaves, Signals, Claim, Name, Stop, Woken, Disconnected,
              CloseHandle, JoinMonitor, JoinWorker, Report, Signal, MonitorEnds, Raise, vars,
              loopFrame, receiver
<1>3. ~Receiver
  BY DEF Receiver, Returns, Accept, Connect, Payload, Ended, Contract!Accept, Contract!Connect,
         Contract!Payload, Contract!End, Contract!Return, Contract!Becomes, Contract!Running,
         Running, None
<1> QED BY <1>0, <1>1, <1>2, <1>3, Steps

\* JoinWorker turns every result but Ok into a bad run.
LEMMA JoinedStep ==
    ASSUME AppInv, Joined, [Next]_vars
    PROVE  Joined'
<1>0. AppType /\ Drained /\ pc \in [Threads -> Places]
  BY DEF AppInv, AppType
<1>1. ASSUME NEW c \in Conns, Turn(c) \/ Concludes(c) PROVE Joined'
  BY <1>0, <1>1 DEF Turn, Concludes, Joined, Threads
<1>2. CASE JoinWorker
  <2>1. bad' = (bad \/ result # "Ok") /\ result' = result
    BY <1>2 DEF JoinWorker, loopFrame, receiver
  <2> QED BY <2>1 DEF Joined
<1>3. CASE Report
  <2>1. PICK b : bad' = (bad \/ b) /\ pc["main"] = "status"
    BY <1>3 DEF Report
  <2>2. result' = result
    BY <1>3 DEF Report, receiver
  <2> QED BY <2>1, <2>2 DEF Joined
<1>4. CASE bad' = bad /\ (pc'["main"] \in {"status", "done"} => pc'["main"] = pc["main"])
  <2>1. pc["main"] \in {"status", "done"} => result' = result
    BY <1>0, ResultStays DEF Drained, Late, After
  <2> QED BY <1>4, <2>1 DEF Joined
<1> QED BY <1>0, <1>1, <1>2, <1>3, <1>4, Steps, Verdict

\* A run does not turn bad for nothing.
LEMMA BlameStep ==
    ASSUME ClaimInv, AppInv, Excused, Blame, [Next]_vars
    PROVE  Blame'
<1>0. /\ AppType /\ Drained /\ \A d \in Conns : Life(d)
      /\ faults \in Nat /\ faults' \in Nat /\ counts["unowned"] \in Nat /\ counts'["unowned"] \in Nat
      /\ bad \in BOOLEAN
  BY NextApp DEF AppInv, AppType, Counters
<1>1. CASE \E d \in Conns : Spoiled(d)
  <2>1. PICK d \in Conns : Spoiled(d)
    BY <1>1
  <2>2. Spoiled(d)'
    BY <2>1, SpoiledStays
  <2> QED BY <2>2 DEF Blame
<1>2. CASE pc["main"] = "done"
  <2>1. UNCHANGED vars
    BY <1>2, DoneStays
  <2>2. pc'["main"] = "done"
    BY <1>2, <2>1 DEF vars
  <2> QED BY <2>2 DEF Blame
<1>3. CASE pc["main"] # "done" /\ ~\E d \in Conns : Spoiled(d)
  <2>0. counts["unowned"] = 0 /\ (bad => faults > 0)
    BY <1>0, <1>3 DEF Blame
  <2>1. ASSUME NEW c \in Conns, Turn(c) PROVE Blame'
    <3>1. Handled(c) /\ Life(c) /\ faults' >= faults
      BY <1>0, <2>1, FlightShrinks DEF Turn
    <3>2. CASE counts'["unowned"] = 0 /\ bad' = bad
      BY <1>0, <2>0, <3>1, <3>2 DEF Blame
    <3>3. Seen(c)' /\ (rec.kind = "Connected" => entry[c] = None /\ summaries[c] = None)
          /\ summaries[c] # "observed"
      BY <3>1 DEF Handled, Life, Untouched, None
    <3>4. CASE Refuses(c) \/ Ignores(c)
      <4>1. entry'[c] # "Active" /\ summaries'[c] # "observed"
        BY <3>3, <3>4 DEF Refuses, Ignores, Idle, None
      <4>2. Spoiled(c)'
        BY <3>3, <4>1 DEF Spoiled
      <4> QED BY <4>2 DEF Blame
    <3>5. CASE CannotOpen(c) \/ Breaks(c)
      <4>1. entry'[c] # "Active" /\ summaries'[c] # "observed"
        BY <3>3, <3>5 DEF CannotOpen, Admits, Breaks, None
      <4>2. Spoiled(c)'
        BY <3>3, <4>1 DEF Spoiled
      <4> QED BY <4>2 DEF Blame
    <3>6. CASE Opened(c) \/ Keeps(c) \/ Drops(c)
      BY <2>0, <3>2, <3>6 DEF Opened, Admits, Keeps, Drops, Quiet
    <3>7. CASE Closes(c)
      <4>1. CASE summaries'[c] = "observed"
        BY <2>0, <3>2, <3>7, <4>1 DEF Closes
      <4>2. CASE summaries'[c] # "observed"
        <5>1. Spoiled(c)'
          BY <3>3, <3>7, <4>2 DEF Spoiled, Closes, None
        <5> QED BY <5>1 DEF Blame
      <4> QED BY <4>1, <4>2
    <3> QED BY <2>1, <3>4, <3>5, <3>6, <3>7 DEF Turn
  <2>2. ASSUME NEW c \in Conns, Concludes(c) PROVE Blame'
    <3>1. Seen(c)
      BY <1>0, <2>2 DEF Concludes, Owned, Life, AppType
    <3>2. Seen(c)'
      BY <2>2, <3>1 DEF Concludes, Seen, Has
    <3>3. Spoiled(c)'
      BY <2>2, <3>2 DEF Concludes, Spoiled, None
    <3> QED BY <3>3 DEF Blame
  <2>3. CASE Recv \/ Receiver \/ Moves
    <3>1. counts' = counts /\ faults' >= faults
      BY <1>0, <2>3, ElsewhereStep DEF Elsewhere
    <3>2. CASE bad' = bad
      BY <1>0, <2>0, <3>1, <3>2 DEF Blame
    <3>3. CASE JoinWorker
      <4>1. bad' = (bad \/ result # "Ok") /\ result # None
        BY <3>3 DEF JoinWorker, Running
      <4>2. result # "Ok" => faults > 0
        BY <1>0, <4>1 DEF Excused, AppType
      <4> QED BY <1>0, <2>0, <3>1, <4>1, <4>2 DEF Blame
    <3>4. CASE Report
      <4>1. pc'["main"] = "done"
        BY <1>0, <3>4 DEF Report, Goto, AppType, Threads
      <4> QED BY <4>1 DEF Blame
    <3> QED BY <2>3, <3>2, <3>3, <3>4, Verdict
  <2> QED BY <1>0, <2>1, <2>2, <2>3, Steps
<1> QED BY <1>1, <1>2, <1>3

\* The directories without a summary, apart from those in the map.
Unsummed == {c \in dirs \ Owned : summaries[c] \in {None, "torn"}}
Metadata == counts["metadata"] = Cardinality(Unsummed)

\* A directory leaves the map with a summary or with a counted failure.
LEMMA MetadataStep ==
    ASSUME AppInv, Metadata, [Next]_vars
    PROVE  Metadata'
<1>0. /\ AppType /\ \A d \in Conns : Life(d)
      /\ dirs \subseteq Conns /\ dirs' \subseteq Conns /\ counts["metadata"] \in Nat
  BY NextApp DEF AppInv, AppType, Counters
<1>1. Unsummed \subseteq Conns /\ IsFiniteSet(Unsummed) /\ Cardinality(Unsummed) \in Nat
  <2>1. Unsummed \subseteq Conns
    BY <1>0 DEF Unsummed
  <2> QED BY <2>1, CaptureConstants, FS_Subset, FS_CardinalityType
<1> DEFINE in(d) == d \in dirs /\ entry[d] = None /\ summaries[d] \in {None, "torn"}
<1>2. \A d \in Conns : d \in Unsummed <=> in(d)
  BY DEF Unsummed, Owned
<1>3. \A d \in Conns : d \in Unsummed' <=> in(d)'
  BY DEF Unsummed, Owned
<1>4. Unsummed' \subseteq Conns
  BY <1>0 DEF Unsummed
<1> HIDE DEF in
<1>5. ASSUME NEW c \in Conns, \A d \in Conns : d # c => (in(d)' <=> in(d)), ~in(c),
             counts'["metadata"] = counts["metadata"] + (IF in(c)' THEN 1 ELSE 0)
      PROVE  Metadata'
  <2>1. CASE in(c)'
    <3>1. Unsummed' = Unsummed \cup {c} /\ c \notin Unsummed
      BY <1>1, <1>2, <1>3, <1>4, <1>5, <2>1
    <3>2. Cardinality(Unsummed') = Cardinality(Unsummed) + 1
      BY <1>1, <3>1, FS_AddElement
    <3> QED BY <1>5, <2>1, <3>2 DEF Metadata
  <2>2. CASE ~in(c)'
    <3>1. Unsummed' = Unsummed
      BY <1>1, <1>2, <1>3, <1>4, <1>5, <2>2
    <3> QED BY <1>0, <1>5, <2>2, <3>1 DEF Metadata
  <2> QED BY <2>1, <2>2
<1>6. ASSUME counts'["metadata"] = counts["metadata"], \A d \in Conns : in(d)' <=> in(d)
      PROVE  Metadata'
  <2>1. Unsummed' = Unsummed
    BY <1>1, <1>2, <1>3, <1>4, <1>6
  <2> QED BY <1>6, <2>1 DEF Metadata
<1>7. ASSUME NEW c \in Conns, Turn(c) PROVE Metadata'
  <2>1. \A d \in Conns : d # c => (in(d)' <=> in(d))
    BY <1>7 DEF Turn, Idle, in
  <2>2. Handled(c) /\ Life(c)
    BY <1>0, <1>7, FlightShrinks DEF Turn
  <2>3. CASE Refuses(c) \/ Drops(c) \/ Ignores(c)
    <3>1. in(c)' <=> in(c)
      BY <2>3 DEF Refuses, Drops, Ignores, Idle, in
    <3>2. counts'["metadata"] = counts["metadata"]
      BY <2>3 DEF Refuses, Drops, Ignores, Quiet
    <3> QED BY <1>6, <2>1, <3>1, <3>2
  <2>4. CASE Opened(c) \/ CannotOpen(c) \/ Keeps(c) \/ Breaks(c)
    <3>1. ~in(c)'
      BY <2>4 DEF Opened, CannotOpen, Keeps, Breaks, in, None
    <3>2. ~in(c)
      <4>1. CASE rec.kind = "Connected"
        BY <2>2, <4>1 DEF Handled, Life, Untouched, in
      <4>2. CASE rec.kind # "Connected"
        BY <2>4, <4>2 DEF Opened, CannotOpen, Admits, Keeps, Breaks, Holding, in, None
      <4> QED BY <4>1, <4>2
    <3>3. counts'["metadata"] = counts["metadata"]
      BY <2>4 DEF Opened, CannotOpen, Admits, Keeps, Breaks, Quiet
    <3> QED BY <1>0, <1>5, <2>1, <3>1, <3>2, <3>3
  <2>5. CASE Closes(c)
    <3>1. ~in(c) /\ c \in dirs'
      BY <2>2, <2>5 DEF Closes, Holding, in, None, Life
    <3>2. in(c)' <=> summaries'[c] \in {None, "torn"}
      BY <2>5, <3>1 DEF Closes, in
    <3>3. counts'["metadata"] = counts["metadata"] + (IF in(c)' THEN 1 ELSE 0)
      BY <2>5, <3>2 DEF Closes
    <3> QED BY <1>5, <2>1, <3>1, <3>3
  <2> QED BY <1>7, <2>3, <2>4, <2>5 DEF Turn
<1>8. ASSUME NEW c \in Conns, Concludes(c) PROVE Metadata'
  <2>1. \A d \in Conns : d # c => (in(d)' <=> in(d))
    BY <1>8 DEF Concludes, Idle, in
  <2>2. ~in(c) /\ c \in dirs'
    BY <1>0, <1>8 DEF Concludes, Owned, Life, AppType, in
  <2>3. in(c)' <=> summaries'[c] \in {None, "torn"}
    BY <1>8, <2>2 DEF Concludes, in
  <2>4. counts'["metadata"] = counts["metadata"] + (IF in(c)' THEN 1 ELSE 0)
    BY <1>8, <2>3 DEF Concludes
  <2> QED BY <1>5, <2>1, <2>2, <2>4
<1>9. CASE Recv \/ Receiver \/ Moves
  <2>1. Elsewhere
    BY <1>0, <1>9, ElsewhereStep
  <2> QED BY <1>6, <2>1 DEF Elsewhere, in
<1> QED BY <1>0, <1>7, <1>8, <1>9, Steps

\* Nothing was written for the connection.
Blank(c) == entry[c] = None /\ summaries[c] = None
            /\ files[c].wire = 0 /\ files[c].wave = 0 /\ files[c].log = 0

\* The limits of the configuration hold.
Limits ==
    /\ Validate(config) /\ FixedBufferCapacity(config) # -1
    /\ reserved <= config.run /\ Cardinality(dirs) <= reserved
    /\ Cardinality(Owned) <= config.active /\ faults <= MaxFaults
    /\ \A c \in Conns : Fits(files[c]) /\ (c \notin dirs => Blank(c))

\* Admission reserves before it creates a directory, and every writer is
\* capped.
LEMMA LimitsStep ==
    ASSUME AppInv, Limits, [Next]_vars
    PROVE  Limits'
<1>0. /\ AppType /\ \A d \in Conns : Life(d)
      /\ dirs \subseteq Conns /\ dirs' \subseteq Conns
      /\ Owned \subseteq Conns /\ Owned' \subseteq Conns
      /\ reserved \in Nat /\ config.run \in Nat /\ config.active \in Nat
  <2>1. AppType /\ AppType' /\ \A d \in Conns : Life(d)
    BY NextApp DEF AppInv
  <2>2. config.run \in Nat /\ config.active \in Nat
    BY <2>1, CaptureConstants DEF AppType
  <2> QED BY <2>1, <2>2 DEF AppType, Owned
<1>1. /\ IsFiniteSet(dirs) /\ Cardinality(dirs) \in Nat
      /\ IsFiniteSet(dirs') /\ Cardinality(dirs') \in Nat
      /\ IsFiniteSet(Owned) /\ Cardinality(Owned) \in Nat
      /\ IsFiniteSet(Owned') /\ Cardinality(Owned') \in Nat
  BY <1>0, CaptureConstants, FS_Subset, FS_CardinalityType
<1>2. ASSUME NEW S, NEW T, IsFiniteSet(S), T \subseteq S PROVE Cardinality(T) <= Cardinality(S)
  BY <1>2, FS_Subset
<1>3. ASSUME NEW S, NEW T, NEW c, IsFiniteSet(S), T \subseteq S \cup {c}
      PROVE  Cardinality(T) <= Cardinality(S) + 1
  <2>1. /\ IsFiniteSet(S \cup {c}) /\ Cardinality(S) \in Nat
        /\ Cardinality(S \cup {c}) \in {Cardinality(S), Cardinality(S) + 1}
    <3>1. Cardinality(S) \in Nat
      BY <1>3, FS_CardinalityType
    <3>2. CASE c \in S
      <4>1. S \cup {c} = S
        BY <3>2
      <4> QED BY <1>3, <3>1, <4>1
    <3>3. CASE c \notin S
      BY <1>3, <3>1, <3>3, FS_AddElement
    <3> QED BY <3>2, <3>3
  <2>2. Cardinality(T) \in Nat /\ Cardinality(T) <= Cardinality(S \cup {c})
    BY <1>3, <2>1, FS_Subset, FS_CardinalityType
  <2> QED BY <2>1, <2>2
<1>4. ASSUME NEW c \in Conns, Turn(c) PROVE Limits'
  <2>1. Life(c) /\ \A d \in Conns : d # c => Idle(d)
    BY <1>0, <1>4 DEF Turn
  <2>2. config' = config
    BY <1>4 DEF Turn
  <2>3. ASSUME NEW d \in Conns PROVE Fits(files[d])' /\ (d \notin dirs' => Blank(d)')
    <3>1. CASE d # c
      BY <2>1, <2>2, <3>1 DEF Idle, Limits, Fits, Blank
    <3>2. CASE d = c
      <4>1. Fits(files[c])'
        BY <1>4, <2>2 DEF Turn, Limits, Fits
      <4>2. c \notin dirs' => Blank(c)'
        <5>1. CASE Idle(c)
          BY <5>1 DEF Idle, Limits, Blank
        <5>2. CASE Admits(c)
          BY <5>2 DEF Admits
        <5>3. CASE Holding(c)
          BY <2>1, <5>3 DEF Holding, Life
        <5> QED BY <1>4, <5>1, <5>2, <5>3
                DEF Turn, Refuses, Opened, CannotOpen, Keeps, Breaks, Closes, Drops, Ignores
      <4> QED BY <3>2, <4>1, <4>2
    <3> QED BY <3>1, <3>2
  <2>4. reserved' \in Nat /\ reserved' <= config.run /\ reserved' >= reserved
    BY <1>0, <1>4 DEF Turn, Limits
  <2>5. dirs' \subseteq dirs \cup {c} /\ Owned' \subseteq Owned \cup {c}
    BY <1>0, <2>1 DEF Idle, Owned
  <2>6. Cardinality(dirs') <= reserved' /\ Cardinality(Owned') <= config.active
    <3>1. CASE Admits(c)
      <4>1. Cardinality(dirs') <= Cardinality(dirs) + 1 /\ Cardinality(Owned') <= Cardinality(Owned) + 1
        BY <1>1, <1>3, <2>5
      <4> QED BY <1>0, <1>1, <3>1, <4>1 DEF Admits, Limits
    <3>2. CASE ~Admits(c)
      <4>1. (c \in dirs' => c \in dirs) /\ (c \in Owned' => c \in Owned)
        BY <1>4, <3>2 DEF Turn, Refuses, Opened, CannotOpen, Keeps, Breaks, Closes, Drops, Ignores,
                          Holding, Idle, Owned, None
      <4>2. dirs' \subseteq dirs /\ Owned' \subseteq Owned
        BY <2>5, <4>1
      <4>3. Cardinality(dirs') <= Cardinality(dirs) /\ Cardinality(Owned') <= Cardinality(Owned)
        BY <1>1, <1>2, <4>2
      <4> QED BY <1>0, <1>1, <2>4, <4>3 DEF Limits
    <3> QED BY <3>1, <3>2
  <2>7. faults' <= MaxFaults
    BY <1>4 DEF Turn, Limits
  <2> QED BY <2>2, <2>3, <2>4, <2>6, <2>7
          DEF Limits, Validate, FixedBufferCapacity, CheckedOutputBound
<1>5. ASSUME NEW c \in Conns, Concludes(c) PROVE Limits'
  <2>1. Life(c) /\ c \in dirs /\ UNCHANGED <<config, dirs, files, reserved>> /\ faults' <= MaxFaults
        /\ entry'[c] = None /\ \A d \in Conns : d # c => Idle(d)
    BY <1>0, <1>5 DEF Concludes, Owned, Life, AppType, Limits
  <2>2. Owned' \subseteq Owned
    BY <2>1 DEF Owned, Idle
  <2>3. Cardinality(Owned') <= config.active
    <3>1. Cardinality(Owned') <= Cardinality(Owned)
      BY <1>1, <1>2, <2>2
    <3> QED BY <1>0, <1>1, <3>1 DEF Limits
  <2>4. \A d \in Conns : d \notin dirs' => Blank(d)'
    BY <2>1 DEF Idle, Limits, Blank
  <2> QED BY <2>1, <2>3, <2>4 DEF Limits, Fits, Validate, FixedBufferCapacity, CheckedOutputBound
<1>6. CASE Recv \/ Receiver \/ Moves
  <2>1. Elsewhere
    BY <1>0, <1>6, ElsewhereStep
  <2> QED BY <2>1 DEF Elsewhere, Limits, Fits, Blank, Owned, Validate, FixedBufferCapacity,
                      CheckedOutputBound
<1> QED BY <1>0, <1>4, <1>5, <1>6, Steps

\* The channel and the connections stay within the limits of the receiver.
Open == {c \in Conns : conn[c] \in {"accepted", "open"}}
Capacity == Len(queue) <= config.queue /\ Cardinality(Open) <= config.connections

\* The contract counts as the application's own module does.
LEMMA SameCount ==
    ASSUME NEW S
    PROVE  Contract!Cardinality(S) = Cardinality(S)
  BY DEF Contract!Cardinality, Cardinality

\* Records are handed off into free slots, and connections accepted below the
\* limit.
LEMMA CapacityStep ==
    ASSUME AppInv, Capacity, [Next]_vars
    PROVE  Capacity'
<1>0. /\ AppType /\ config.queue \in Nat /\ config.connections \in Nat /\ queue \in Seq(RecordType)
      /\ Len(queue) \in Nat /\ conn \in [Conns -> {None, "accepted", "open", "ended"}]
  BY CaptureConstants, LenProperties DEF AppInv, AppType
<1>1. /\ IsFiniteSet(Open) /\ Cardinality(Open) \in Nat
      /\ Open \subseteq Conns /\ Open' \subseteq Conns /\ Cardinality(Open') \in Nat
  <2>1. Open \subseteq Conns /\ Open' \subseteq Conns
    BY DEF Open
  <2> QED BY <2>1, CaptureConstants, FS_Subset, FS_CardinalityType
<1>2. ASSUME Len(queue') <= config.queue, Open' \subseteq Open, config' = config PROVE Capacity'
  <2>1. Cardinality(Open') <= Cardinality(Open)
    BY <1>1, <1>2, FS_Subset
  <2> QED BY <1>0, <1>1, <1>2, <2>1 DEF Capacity
<1>3. ASSUME UNCHANGED <<queue, conn, config>> PROVE Capacity'
  BY <1>3 DEF Capacity, Open
<1>4. ASSUME NEW c \in Conns, NEW kind, HandOff(c, kind), NEW to \in {"open", "ended"},
             conn' = [conn EXCEPT ![c] = to], conn[c] \in {"accepted", "open"}
      PROVE  Capacity'
  <2>1. Len(queue') = Len(queue) + 1 /\ config' = config /\ Len(queue) < config.queue
    <3>1. queue' = Append(queue, [connection |-> c, kind |-> kind])
      BY <1>4 DEF HandOff
    <3>2. Len(queue') = Len(queue) + 1
      BY <1>0, <3>1
    <3> QED BY <1>4, <3>2 DEF HandOff, receiverFrame
  <2>2. Open' \subseteq Open
    BY <1>0, <1>4 DEF Open
  <2> QED BY <1>0, <1>2, <2>1, <2>2
<1>5. ASSUME NEW c \in Conns, Turn(c) \/ Concludes(c) PROVE Capacity'
  BY <1>3, <1>5 DEF Turn, Concludes
<1>6. CASE Recv
  <2>1. queue' = Tail(queue) /\ queue # <<>> /\ UNCHANGED <<conn, config>>
    BY <1>6 DEF Recv
  <2>2. Len(queue') = Len(queue) - 1
    BY <1>0, <2>1, HeadTailProperties
  <2>3. Open' = Open
    BY <2>1 DEF Open
  <2> QED BY <1>0, <1>2, <2>1, <2>2, <2>3 DEF Capacity
<1>7. CASE Moves
  <2>1. UNCHANGED <<queue, conn, config>>
    BY <1>7 DEF Moves, Requests, Leaves, Signals, Claim, Name, Stop, Woken, Disconnected,
          CloseHandle, JoinMonitor, JoinWorker, Report, Signal, MonitorEnds, Raise, vars,
          loopFrame, receiver
  <2> QED BY <1>3, <2>1
<1>8. CASE Receiver
  <2>1. ASSUME NEW c \in Conns, Accept(c) PROVE Capacity'
    <3>1. /\ conn[c] = None /\ conn' = [conn EXCEPT ![c] = "accepted"] /\ UNCHANGED <<queue, config>>
          /\ Cardinality(Open) < config.connections
      <4>1. /\ conn[c] = None /\ conn' = [conn EXCEPT ![c] = "accepted"]
            /\ UNCHANGED <<queue, config>>
        BY <2>1 DEF Accept, Contract!Accept, Contract!Becomes, receiverFrame, None
      <4>2. Cardinality(Open) < config.connections
        <5>1. Contract!Cardinality(Contract!Open) < config.connections
          BY <2>1 DEF Accept, Contract!Accept
        <5>2. Contract!Open = Open
          BY DEF Contract!Open, Open
        <5> QED BY <5>1, <5>2, SameCount
      <4> QED BY <4>1, <4>2
    <3>2. Open' = Open \cup {c} /\ c \notin Open
      BY <1>0, <3>1 DEF Open, None
    <3>3. Cardinality(Open') = Cardinality(Open) + 1
      BY <1>1, <3>2, FS_AddElement
    <3> QED BY <1>0, <1>1, <3>1, <3>3 DEF Capacity
  <2>2. ASSUME NEW c \in Conns, Connect(c) PROVE Capacity'
    BY <1>4, <2>2 DEF Connect, Contract!Connect, Contract!Becomes
  <2>3. ASSUME NEW c \in Conns, Payload(c) PROVE Capacity'
    BY <1>4, <2>3 DEF Payload, Contract!Payload, Contract!Becomes
  <2>4. ASSUME NEW c \in Conns, Ended(c) PROVE Capacity'
    BY <1>4, <2>4 DEF Ended, Contract!End, Contract!Becomes
  <2>5. CASE Returns
    <3>1. UNCHANGED <<queue, conn, config>>
      BY <2>5 DEF Returns, Contract!Return, receiverFrame
    <3> QED BY <1>3, <3>1
  <2> QED BY <1>8, <2>1, <2>2, <2>3, <2>4, <2>5 DEF Receiver
<1> QED BY <1>0, <1>5, <1>6, <1>7, <1>8, Steps

\* The causes, the places of the signal thread, and the exit.
CauseType ==
    /\ cause \in Causes \cup {None} /\ first \in Causes \cup {None}
    /\ pc["monitor"] \in {"wait", "claim", "name", "stop", "stopping", "ended"}
    /\ exit \in {None, "success", "failure"} /\ (exit # None => pc["main"] = "done")

\* Only the report decides the exit.
LEMMA ExitStays ==
    ASSUME AppType, [Next]_vars
    PROVE  exit' = exit \/ Report
<1>1. CASE Recv \/ Receiver \/ Requests \/ Leaves \/ Signals
  BY <1>1 DEF Recv, Receiver, Returns, Accept, Connect, Payload, Ended, HandOff, receiverFrame,
        Requests, Leaves, Signals, Claim, Name, Stop, Woken, Disconnected, CloseHandle,
        JoinMonitor, JoinWorker, Signal, MonitorEnds, Raise, vars, loopFrame
<1>2. ASSUME NEW c \in Conns, Turn(c) \/ Concludes(c) PROVE exit' = exit
  BY <1>2 DEF Turn, Concludes
<1> QED BY <1>1, <1>2, Steps DEF Moves

\* Only the claim and the store of its cause change what they stored.
LEMMA CauseStep ==
    ASSUME ClaimInv, AppInv, CauseType, [Next]_vars
    PROVE  CauseType'
<1>0. /\ pc \in [Threads -> Places] /\ want \in [Threads -> Causes \cup {None}] /\ AppType
      /\ "main" # "monitor" /\ "main" \in Threads /\ "monitor" \in Threads
  BY DEF ClaimInv, ClaimType, AppInv, Threads
<1>1. CASE pc["main"] = "done"
  <2>1. UNCHANGED vars
    BY <1>1, DoneStays
  <2> QED BY <2>1 DEF vars, control, CauseType
<1>2. CASE pc["main"] # "done"
  <2>0. exit = None
    BY <1>2 DEF CauseType
  <2>1. ASSUME NEW c \in Conns, Turn(c) PROVE pc'["monitor"] = pc["monitor"]
    BY <1>0, <2>1 DEF Turn
  <2>2. ASSUME NEW c \in Conns, Concludes(c) PROVE pc'["monitor"] = pc["monitor"]
    BY <1>0, <2>2 DEF Concludes
  <2>3. exit' \in {None, "success", "failure"} /\ (exit' # None => pc'["main"] = "done")
    <3>1. CASE Report
      BY <1>0, <3>1 DEF Report, Goto
    <3> QED BY <1>0, <2>0, <3>1, ExitStays
  <2>4. pc'["monitor"] \in {"wait", "claim", "name", "stop", "stopping", "ended"}
    <3>1. CASE Recv \/ Leaves \/ Report
      <4>1. \E to : pc' = [pc EXCEPT !["main"] = to]
        BY <3>1 DEF Recv, Leaves, Disconnected, CloseHandle, JoinMonitor, JoinWorker, Report, Goto
      <4> QED BY <1>0, <4>1 DEF CauseType
    <3>2. CASE Receiver
      BY <3>2 DEF Receiver, Returns, Accept, Connect, Payload, Ended, HandOff, receiverFrame, CauseType
    <3>3. CASE Requests
      <4>1. PICK t \in Threads : Claim(t) \/ Name(t) \/ Stop(t) \/ Woken(t)
        BY <3>3 DEF Requests
      <4>2. \E to \in {Home(t), "name", "stop", "stopping"} : pc' = [pc EXCEPT ![t] = to]
        BY <4>1 DEF Claim, Name, Stop, Woken, Goto
      <4> QED BY <1>0, <4>2 DEF CauseType, Home
    <3>4. CASE Signals
      BY <1>0, <3>4 DEF Signals, Signal, MonitorEnds, Raise, Request, Goto, vars, CauseType
    <3> QED BY <1>0, <2>1, <2>2, <3>1, <3>2, <3>3, <3>4, Steps DEF Moves, CauseType
  <2>5. cause' \in Causes \cup {None} /\ first' \in Causes \cup {None}
    <3>1. CASE UNCHANGED <<cause, first>>
      BY <3>1 DEF CauseType
    <3>2. CASE Requests
      BY <1>0, <3>2 DEF Requests, Claim, Name, Stop, Woken, control, CauseType
    <3>3. CASE Recv \/ Receiver \/ Leaves \/ Report \/ Signals
      <4>1. UNCHANGED <<cause, first>>
        BY <3>3 DEF Recv, Receiver, Returns, Accept, Connect, Payload, Ended, HandOff, receiverFrame,
              Leaves, Report, Signals, Disconnected, CloseHandle, JoinMonitor, JoinWorker, Signal,
              MonitorEnds, Raise, vars, loopFrame, control
      <4> QED BY <3>1, <4>1
    <3>4. ASSUME NEW c \in Conns, Turn(c) \/ Concludes(c) PROVE UNCHANGED <<cause, first>>
      BY <3>4 DEF Turn, Concludes
    <3> QED BY <1>0, <3>1, <3>2, <3>3, <3>4, Steps DEF Moves
  <2> QED BY <2>3, <2>4, <2>5 DEF CauseType
<1> QED BY <1>1, <1>2

-----------------------------------------------------------------------------
(* What the exit says.                                                     *)

\* Once the channel is drained nothing is under way, and a whole recording
\* has everything that was handed off.
LEMMA NothingUnderWay ==
    ASSUME AppInv, Late, NEW c \in Conns
    PROVE  /\ \A ks \in Groups : ~Has(c, ks) /\ Under(c, ks) = 0
           /\ ~Has(c, RecordKinds) /\ ~Has(c, Ends) /\ ~Has(c, {"Connected"})
           /\ Whole(c) => Kept(c)
<1>0. AppType /\ Drained /\ queue = <<>> /\ rec = NoRecord
  BY DEF AppInv, Drained, Late, After
<1>1. \A ks \in Groups : ~Is(rec, c, ks) /\ ~Holds(queue, c, ks)
  <2>1. \A ks \in Groups : None \notin ks
    BY KindsNamed DEF Groups, None
  <2> QED BY <1>0, <2>1 DEF Is, Holds, NoRecord
<1>2. \A ks \in Groups : ~Has(c, ks) /\ Under(c, ks) = 0
  <2>1. \A ks \in Groups : Number(queue, c, ks) = 0
    BY <1>0, <1>1, MarksType DEF AppType
  <2> QED BY <1>1, <2>1 DEF Has, Under
<1>3. ASSUME Whole(c) PROVE Kept(c)
  <2>1. Under(c, {"Wire"}) = 0 /\ Under(c, {"Audio"}) = 0 /\ Under(c, RecordKinds) = 0
    BY <1>2 DEF Groups
  <2>2. files[c] \in Sizes /\ handed[c] \in Sizes
    BY <1>0 DEF AppType
  <2> DEFINE h == handed[c]
             r == [h EXCEPT !.wave = @ + Header]
  <2>3. h.wire \in Nat /\ h.wave \in Nat /\ h.log \in Nat
        /\ files[c].wire \in Nat /\ files[c].wave \in Nat /\ files[c].log \in Nat
    BY <2>2 DEF Sizes
  <2>4. files[c].wire = h.wire /\ files[c].wave = h.wave + Header /\ files[c].log = h.log
    BY <1>3, <2>1, <2>3 DEF Whole
  <2>5. r \in Sizes /\ r.wire = h.wire /\ r.wave = h.wave + Header /\ r.log = h.log
    BY <2>2, <2>3 DEF Sizes, Header
  <2> HIDE DEF r, h
  <2>6. files[c] = r
    BY <2>2, <2>4, <2>5 DEF Sizes
  <2> QED BY <2>6 DEF Kept, r, h
<1> QED BY <1>2, <1>3 DEF Groups

\* The report of a run that was concluded.
LEMMA ReportTrue ==
    ASSUME AppInv, Excused, Joined, Blame, Metadata, Report
    PROVE  ExitHonest' /\ NoFalseAlarm'
<1>0. /\ AppType /\ Drained /\ pc["main"] = "status" /\ Late /\ Owned = {}
      /\ queue = <<>> /\ rec = NoRecord /\ result # None
      /\ UNCHANGED <<config, conn, handed, files, end, summaries>>
      /\ \A c \in Conns : Life(c) /\ entry[c] = None
  <2>1. AppType /\ Drained /\ pc["main"] = "status" /\ \A c \in Conns : Life(c)
    BY DEF AppInv, Report
  <2>2. Owned = {} /\ queue = <<>> /\ rec = NoRecord /\ result # None /\ Late
    BY <2>1 DEF Drained, Late, After
  <2> QED BY <2>1, <2>2 DEF Report, receiver, outputs, Owned
<1>1. PICK w \in WriteJson(config.status, "written") :
         /\ Spend(w.faults) /\ status'.file = w.file
         /\ exit' = IF bad \/ Unwell \/ ~w.ok THEN "failure" ELSE "success"
  BY DEF Report
<1>2. /\ w.ok \in BOOLEAN /\ w.faults \in {0, 1} /\ (w.ok => w.file = "written")
      /\ ~w.ok => w.file \in {None, "torn"}
  BY <1>0, CaptureConstants, JsonDone DEF AppType
<1>3. faults \in Nat /\ faults' \in Nat /\ faults' >= faults
  BY <1>0, <1>1, <1>2, Spent DEF AppType
<1>4. /\ \A c \in Conns : ~Has(c, RecordKinds) /\ ~Has(c, Ends) /\ ~Has(c, {"Connected"})
      /\ \A c \in Conns : Whole(c) => Kept(c)
  BY <1>0, NothingUnderWay
<1>5. BudgetUsed = 0
  <2>1. {i \in DOMAIN queue : queue[i].kind \in {"Wire", "Audio"}} = {}
    BY <1>0
  <2>2. Cardinality({}) = 0
    BY FS_EmptySet
  <2>3. rec.kind \notin {"Wire", "Audio"}
    BY <1>0 DEF NoRecord, None
  <2> QED BY <2>1, <2>2, <2>3 DEF BudgetUsed
<1>6. Abandoned = 0 <=> \A c \in Conns : conn[c] \notin {"accepted", "open"}
  <2> DEFINE S == {c \in Conns : conn[c] \in {"accepted", "open"}}
  <2>1. IsFiniteSet(S)
    BY CaptureConstants, FS_Subset
  <2>2. Cardinality(S) = 0 <=> S = {}
    BY <2>1, FS_EmptySet
  <2> QED BY <2>2 DEF Abandoned
<1>7. ExitHonest'
  <2> SUFFICES ASSUME exit' = "success" PROVE ExitHonest'
    BY DEF ExitHonest
  <2>1. ~bad /\ ~Unwell /\ w.ok
    BY <1>1
  <2>2. result = "Ok" /\ counts["unowned"] = 0 /\ Abandoned = 0
    BY <1>0, <2>1 DEF Joined, Unwell
  <2>3. status'.file = "written"
    BY <1>1, <1>2, <2>1
  <2>4. ASSUME NEW c \in Conns, conn[c] # None
        PROVE  Kept(c) /\ summaries[c] = "observed" /\ end[c] \in CleanEnds
    <3>1. conn[c] = "ended"
      BY <1>0, <1>6, <2>2, <2>4 DEF AppType
    <3>2. Seen(c)
      BY <1>4, <3>1 DEF Seen
    <3>3. summaries[c] = "observed"
      BY <1>0, <1>4, <2>1, <2>2, <3>1, <3>2 DEF Life
    <3> QED BY <1>0, <1>4, <3>3 DEF Life
  <2>5. \A c \in Conns : Kept(c)' <=> Kept(c)
    BY <1>0 DEF Kept
  <2> QED BY <1>0, <2>3, <2>4, <2>5 DEF ExitHonest
<1>8. NoFalseAlarm'
  <2> SUFFICES ASSUME faults' = 0, status'.file = "written", exit' = "failure"
               PROVE  \E c \in Conns : conn[c] # None /\ summaries[c] # "observed"
    BY <1>0, <1>3 DEF NoFalseAlarm
  <2>1. faults = 0 /\ ~wake /\ w.ok
    BY <1>1, <1>2, <1>3 DEF Excused, None
  <2>2. bad \/ counts["unowned"] # 0 \/ counts["metadata"] # 0 \/ Abandoned # 0
    BY <1>1, <1>5, <2>1 DEF Unwell
  <2>3. ASSUME NEW c \in Conns, Seen(c) PROVE conn[c] # None
    BY <2>3 DEF Seen, None
  <2>4. CASE bad \/ counts["unowned"] # 0
    <3>1. counts["unowned"] \in Nat
      BY <1>0 DEF AppType, Counters
    <3>2. \E c \in Conns : Spoiled(c)
      BY <1>0, <2>1, <2>4, <3>1 DEF Blame
    <3> QED BY <2>3, <3>2 DEF Spoiled
  <2>5. CASE counts["metadata"] # 0
    <3>1. Unsummed # {}
      BY <2>5, FS_EmptySet DEF Metadata
    <3>2. PICK c \in dirs : summaries[c] \in {None, "torn"}
      BY <3>1 DEF Unsummed
    <3>3. c \in Conns /\ Life(c)
      BY <1>0 DEF AppType
    <3>4. Seen(c)
      BY <3>3 DEF Life, Untouched
    <3> QED BY <2>3, <3>2, <3>3, <3>4 DEF None
  <2>6. CASE Abandoned # 0
    <3>1. PICK c \in Conns : conn[c] \in {"accepted", "open"}
      BY <1>6, <2>6
    <3>2. summaries[c] # "observed"
      BY <1>0, <3>1 DEF Life
    <3> QED BY <3>1, <3>2 DEF None
  <2> QED BY <2>2, <2>4, <2>5, <2>6
<1> QED BY <1>7, <1>8

\* What is true of a run at every moment.
RunInv ==
    /\ ClaimInv /\ AppInv /\ Excused /\ Joined /\ Blame /\ Metadata
    /\ Limits /\ Capacity /\ CauseType /\ ExitHonest /\ NoFalseAlarm

\* All of it holds at the start.
LEMMA InitRun == Init => RunInv
<1> SUFFICES ASSUME Init PROVE RunInv
  OBVIOUS
<1>1. ClaimInv /\ AppInv
  BY InitClaim, InitApp
<1>2. /\ wake = FALSE /\ result = None /\ bad = FALSE /\ exit = None /\ faults = 0 /\ dirs = {}
      /\ reserved = 0 /\ queue = <<>> /\ cause = None /\ first = None
      /\ counts["unowned"] = 0 /\ counts["metadata"] = 0
      /\ pc["main"] = "recv" /\ pc["monitor"] = "wait"
      /\ \A c \in Conns : /\ conn[c] = None /\ entry[c] = None /\ summaries[c] = None
                          /\ files[c] = [wire |-> 0, wave |-> 0, log |-> 0]
  BY DEF Init, Threads, Home
<1>3. /\ config \in Configs /\ Validate(config) /\ FixedBufferCapacity(config) # -1
      /\ config.file \in Nat /\ config.run \in Nat /\ config.active \in Nat
      /\ config.queue \in Nat /\ config.connections \in Nat
  BY CaptureConstants DEF Init
<1>4. Excused /\ Joined /\ Blame /\ CauseType /\ ExitHonest /\ NoFalseAlarm
  BY <1>2 DEF Excused, Joined, Blame, CauseType, ExitHonest, NoFalseAlarm, None
<1>5. Cardinality({}) = 0
  BY FS_EmptySet
<1>6. Unsummed = {} /\ Owned = {} /\ Open = {}
  BY <1>2 DEF Unsummed, Owned, Open, None
<1>7. Metadata /\ Capacity
  BY <1>2, <1>3, <1>5, <1>6 DEF Metadata, Capacity
<1>8. Limits
  <2>1. \A c \in Conns : Fits(files[c]) /\ Blank(c)
    BY <1>2, <1>3 DEF Fits, Blank
  <2> QED BY <1>2, <1>3, <1>5, <1>6, <2>1, CaptureConstants DEF Limits
<1> QED BY <1>1, <1>4, <1>7, <1>8 DEF RunInv

\* Every step keeps all of it; the report is the step that decides the exit.
LEMMA NextRun == RunInv /\ [Next]_vars => RunInv'
<1> SUFFICES ASSUME RunInv, [Next]_vars PROVE RunInv'
  OBVIOUS
<1>1. /\ ClaimInv /\ AppInv /\ Excused /\ Joined /\ Blame /\ Metadata
      /\ Limits /\ Capacity /\ CauseType /\ ExitHonest /\ NoFalseAlarm
  BY DEF RunInv
<1>2. /\ ClaimInv' /\ AppInv' /\ Excused' /\ Joined' /\ Blame' /\ Metadata'
      /\ Limits' /\ Capacity' /\ CauseType'
  BY <1>1, NextClaim, NextApp, ExcusedStep, JoinedStep, BlameStep, MetadataStep, LimitsStep,
     CapacityStep, CauseStep
<1>3. ExitHonest' /\ NoFalseAlarm'
  <2>1. CASE Report
    BY <1>1, <2>1, ReportTrue
  <2>2. CASE exit' = exit /\ pc["main"] # "done"
    BY <1>1, <2>2 DEF CauseType, ExitHonest, NoFalseAlarm, None
  <2>3. CASE pc["main"] = "done"
    <3>1. UNCHANGED vars
      BY <1>1, <2>3, DoneStays
    <3>2. UNCHANGED <<exit, status, faults, conn, handed, files, summaries, end>>
      BY <3>1 DEF vars, receiver, outputs
    <3> QED BY <1>1, <3>2 DEF ExitHonest, NoFalseAlarm, Kept
  <2> QED BY <1>1, <2>1, <2>2, <2>3, ExitStays DEF AppInv
<1> QED BY <1>2, <1>3 DEF RunInv

\* Every value of the application keeps its shape, and the channel, the map
\* of recorders and the reservations stay within the limits of the command
\* line, whatever fails and whenever a signal arrives.
THEOREM CaptureTyped == Spec => []TypeOK
<1>1. ASSUME RunInv PROVE TypeOK
  <2>1. /\ AppType /\ ClaimType /\ CauseType /\ Limits /\ Capacity
        /\ config.run \in Nat
    BY <1>1, CaptureConstants DEF RunInv, ClaimInv, AppInv, AppType
  <2>2. reserved \in 0..config.run /\ faults \in 0..MaxFaults
    BY <2>1, CaptureConstants DEF AppType, Limits
  <2>3. pc["main"] \in Loop \cup After
    BY <2>1 DEF AppType
  <2> QED BY <2>1, <2>2, <2>3 DEF TypeOK, AppType, ClaimType, CauseType, Limits, Capacity,
                                   Loop, After
<1> QED BY <1>1, InitRun, NextRun, PTL DEF Spec

\* A successful exit of main means that every connection the receiver
\* accepted is recorded whole, to a clean end, and says so in its summary.
THEOREM SuccessHonest == Spec => []ExitHonest
<1>1. RunInv => ExitHonest
  BY DEF RunInv
<1> QED BY <1>1, InitRun, NextRun, PTL DEF Spec

\* A failed exit of main has a cause outside the application's control flow:
\* a failure was met, the status is missing, or a recording is not clean.
THEOREM FailureHonest == Spec => []NoFalseAlarm
<1>1. RunInv => NoFalseAlarm
  BY DEF RunInv
<1> QED BY <1>1, InitRun, NextRun, PTL DEF Spec

\* When run returns, the channel is drained, no recorder is left, every
\* directory without a summary is a counted metadata failure, and a summary
\* without a failure describes files with all that was handed off.
THEOREM RunConcludes == Spec => []Concluded
<1>1. ASSUME RunInv, Done PROVE Concluded
  <2>1. /\ AppInv /\ Metadata /\ Late /\ queue = <<>> /\ Owned = {}
        /\ \A c \in Conns : Life(c) /\ (Whole(c) => Kept(c))
    <3>1. AppInv /\ Metadata /\ Late /\ pc["main"] = "done"
      BY <1>1 DEF RunInv, Done, Late, After
    <3>2. queue = <<>> /\ Owned = {}
      BY <3>1 DEF AppInv, Drained, After
    <3> QED BY <3>1, <3>2, NothingUnderWay DEF AppInv
  <2>2. Unsummed = {c \in dirs : summaries[c] \in {None, "torn"}}
    BY <2>1 DEF Unsummed
  <2>3. counts["metadata"] = Cardinality({c \in dirs : summaries[c] \in {None, "torn"}})
    BY <2>1, <2>2 DEF Metadata
  <2>4. \A c \in Conns :
           /\ summaries[c] = "observed" => Kept(c) /\ conn[c] = "ended"
           /\ summaries[c] = "incomplete" => Kept(c) /\ conn[c] # "ended"
    BY <2>1 DEF Life
  <2> QED BY <2>1, <2>3, <2>4 DEF Concluded
<1>2. RunInv => Concluded
  BY <1>1 DEF Concluded
<1> QED BY <1>2, InitRun, NextRun, PTL DEF Spec

\* Products of naturals are monotonic.
LEMMA Monotonic ==
    ASSUME NEW m \in Nat, NEW n \in Nat, NEW b \in Nat, m <= n
    PROVE  m * b \in Nat /\ n * b \in Nat /\ m * b <= n * b
<1>1. PICK d \in Nat : n = m + d
  <2>1. n - m \in Nat /\ n = m + (n - m)
    OBVIOUS
  <2> QED BY <2>1
<1>2. m * b \in Nat /\ d * b \in Nat /\ n * b = m * b + d * b
  BY <1>1
<1> QED BY <1>2

\* What a connection may write at most, by the caps of its files.
PerConnection == 3 * config.file + config.summary

\* The outputs stay within checked_output_bound.
LEMMA OutputBounded ==
    ASSUME RunInv
    PROVE  SumFunctionOnSet([c \in Conns |-> OutputSize(c)], Conns)
               + JsonSize(status.file, config.status)
             <= CheckedOutputBound(config.run, config.file, config.summary, config.status)
<1> DEFINE f == [c \in Conns |-> OutputSize(c)]
           b == PerConnection
<1>0. /\ AppType /\ Limits /\ dirs \in SUBSET Conns /\ IsFiniteSet(Conns)
      /\ config.run \in Nat /\ config.file \in Nat /\ config.summary \in Nat
      /\ config.status \in Nat /\ reserved \in Nat /\ reserved <= config.run
  BY CaptureConstants DEF RunInv, AppInv, AppType, Limits
<1>1. \A file, cap : cap \in Nat => JsonSize(file, cap) \in Nat /\ JsonSize(file, cap) <= cap
  BY DEF JsonSize, JsonLen
<1>2. b \in Nat
  BY <1>0 DEF PerConnection
<1>3. \A c \in Conns : f[c] \in Nat /\ f[c] <= b
  <2> TAKE c \in Conns
  <2>1. files[c].wire \in Nat /\ files[c].wave \in Nat /\ files[c].log \in Nat
    BY <1>0 DEF AppType, Sizes
  <2>2. /\ files[c].wire <= config.file /\ files[c].wave <= config.file
        /\ files[c].log <= config.file
    BY <1>0 DEF Limits, Fits
  <2>3. JsonSize(summaries[c], config.summary) \in Nat
        /\ JsonSize(summaries[c], config.summary) <= config.summary
    BY <1>0, <1>1
  <2>4. f[c] = files[c].wire + files[c].wave + files[c].log
                   + JsonSize(summaries[c], config.summary)
    BY DEF OutputSize
  <2> HIDE DEF f
  <2> QED BY <1>0, <2>1, <2>2, <2>3, <2>4 DEF PerConnection
<1>4. \A c \in Conns \ dirs : f[c] = 0
  BY <1>0 DEF Limits, Blank, OutputSize, JsonSize
<1>5. f \in [Conns -> Int]
  BY <1>3
<1> HIDE DEF f, b
<1>6. /\ SumFunctionOnSet(f, Conns) = SumFunctionOnSet(f, dirs)
      /\ SumFunctionOnSet(f, dirs) <= Cardinality(dirs) * b
      /\ SumFunctionOnSet(f, dirs) \in Int
  BY <1>0, <1>2, <1>3, <1>4, <1>5, SumSupport, SumBound, SumType
<1>7. Cardinality(dirs) \in Nat /\ Cardinality(dirs) <= config.run
  <2>1. Cardinality(dirs) \in Nat
    BY <1>0, FS_Subset, FS_CardinalityType
  <2> QED BY <1>0, <2>1 DEF Limits
<1>8. /\ Cardinality(dirs) * b \in Nat /\ config.run * b \in Nat
      /\ Cardinality(dirs) * b <= config.run * b
  BY <1>0, <1>2, <1>7, Monotonic
<1>9. CheckedOutputBound(config.run, config.file, config.summary, config.status)
         = config.run * b + config.status
  <2>1. CheckedOutputBound(config.run, config.file, config.summary, config.status) # -1
    BY <1>0 DEF Limits, Validate
  <2> QED BY <2>1 DEF CheckedOutputBound, PerConnection, b
<1>10. JsonSize(status.file, config.status) \in Nat
       /\ JsonSize(status.file, config.status) <= config.status
  BY <1>0, <1>1
<1>11. SumFunctionOnSet(f, Conns) <= config.run * b /\ SumFunctionOnSet(f, Conns) \in Int
  BY <1>6, <1>8
<1>12. SumFunctionOnSet(f, Conns) + JsonSize(status.file, config.status)
          <= config.run * b + config.status
  BY <1>0, <1>8, <1>10, <1>11
<1> QED BY <1>9, <1>12 DEF f

\* The transport buffers stay within fixed_buffer_capacity.
LEMMA BuffersBounded ==
    ASSUME RunInv
    PROVE  Abandoned * (ReadBytes + config.payload) <= FixedBufferCapacity(config)
<1> DEFINE b == ReadBytes + config.payload
<1>0. /\ config.connections \in Nat /\ config.payload \in Nat /\ b \in Nat
      /\ FixedBufferCapacity(config) # -1
  BY CaptureConstants DEF RunInv, AppInv, AppType, Limits, ReadBytes
<1>1. Abandoned = Cardinality(Open)
  BY DEF Abandoned, Open
<1>2. Cardinality(Open) \in Nat /\ Cardinality(Open) <= config.connections
  <2>1. Open \subseteq Conns
    BY DEF Open
  <2> QED BY <2>1, CaptureConstants, FS_Subset, FS_CardinalityType DEF RunInv, Capacity
<1>3. FixedBufferCapacity(config) = config.connections * b
  BY <1>0 DEF FixedBufferCapacity
<1> HIDE DEF b
<1>4. Cardinality(Open) * b <= config.connections * b
  BY <1>0, <1>2, Monotonic
<1> QED BY <1>1, <1>3, <1>4 DEF b

\* Everything the application writes, and the buffers of its connections, fit
\* the bounds that Config::validate and Limits::new computed without overflow.
THEOREM BoundsHold == Spec => []WithinBounds
<1>1. RunInv => WithinBounds
  BY OutputBounded, BuffersBounded DEF WithinBounds
<1> QED BY <1>1, InitRun, NextRun, PTL DEF Spec
=============================================================================
