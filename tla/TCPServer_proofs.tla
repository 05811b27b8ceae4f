--------------------------- MODULE TCPServer_proofs ---------------------------
(***************************************************************************)
(* Proofs about TCPServer for any clients, callers of Stop, capacity of    *)
(* MsgChan, retries and restarts: type correctness, that nothing is        *)
(* delivered once Stop has returned, and that a server started once never  *)
(* panics.                                                                 *)
(***************************************************************************)
EXTENDS TCPServer, FiniteSetTheorems, TLAPS

(***************************************************************************)
(* The inductive invariant.                                                *)
(***************************************************************************)

\* The type invariant in parts.
Flags ==
  /\ started \in BOOLEAN /\ listening \in BOOLEAN
  /\ quit \in BOOLEAN /\ chanClosed \in BOOLEAN /\ panicked \in BOOLEAN

Counts ==
  /\ starts \in 0 .. MaxStarts
  /\ buffered \in 0 .. Capacity
  /\ loopOn \in [Starts -> 0 .. MaxStarts]
  /\ attempts \in [Clients -> 0 .. MaxRetries]

Places ==
  /\ delivered \in SUBSET Clients
  /\ loop \in [Starts -> {"none", "accepting", "looping", "done"}]
  /\ stop \in [Stoppers -> {"idle", "waiting", "returned", "needless"}]
  /\ client \in [Clients -> {"sending", "connected", "written", "ok", "err"}]
  /\ conn \in [Clients -> {"none", "backlog", "open"}]
  /\ handler \in [Clients -> {"none", "reading", "holding", "drained", "done"}]

\* They are the type invariant.
LEMMA TypeParts == TypeOK <=> Flags /\ Counts /\ Places
  BY DEF TypeOK, Flags, Counts, Places

\* A client that is about to dial has a retry left.
RetryLeft == \A c \in Clients : client[c] = "sending" => attempts[c] < MaxRetries

\* Before the first Start nothing runs and nobody has called Stop.
NothingYet ==
  /\ ~started /\ ~quit
  /\ \A g \in Starts : loop[g] = "none"
  /\ \A s \in Stoppers : stop[s] = "idle"

\* No goroutine is left that could send on MsgChan, or make one that could.
AllDone ==
  /\ \A g \in Starts : loop[g] \in {"none", "done"}
  /\ \A c \in Clients : handler[c] \in {"none", "done"}

\* Of one Start at most one call of Stop does the work, after quit is closed; it
\* closes MsgChan when the goroutines are done.
StoppedOnce ==
  /\ started => ~quit
  /\ \A s \in Stoppers : stop[s] \in {"waiting", "returned"} => quit
  /\ \A s, t \in Stoppers :
       stop[s] \in {"waiting", "returned"} /\ stop[t] \in {"waiting", "returned"} => s = t
  /\ \A s \in Stoppers : stop[s] = "waiting" => ~chanClosed
  /\ chanClosed => quit /\ AllDone
  /\ ~panicked

IInv ==
  /\ TypeOK
  /\ RetryLeft
  /\ starts = 0 => NothingYet
  /\ starts <= 1 => StoppedOnce
  /\ (\E s \in Stoppers : stop[s] = "returned") => chanClosed

(***************************************************************************)
(* The invariant is inductive.                                             *)
(***************************************************************************)

\* The invariant holds before the first Start.
LEMMA InitIInv == Init => IInv
<1> SUFFICES ASSUME Init PROVE IInv
  OBVIOUS
<1>1. TypeOK /\ RetryLeft
  <2>1. Flags
    BY DEF Init, Flags
  <2>2. Counts
    BY ServerAssumption DEF Init, Counts, Starts
  <2>3. Places /\ RetryLeft
    BY ServerAssumption DEF Init, Places, RetryLeft, Starts
  <2> QED
    BY <2>1, <2>2, <2>3, TypeParts
<1>2. NothingYet
  BY DEF Init, NothingYet
<1>3. StoppedOnce /\ ~\E s \in Stoppers : stop[s] = "returned"
  BY DEF Init, StoppedOnce
<1> QED
  BY <1>1, <1>2, <1>3 DEF IInv

\* Wait returns only when no goroutine is left.
LEMMA WaitGroupEmpty ==
  ASSUME TypeOK, WaitGroup = 0
  PROVE  AllDone
<1> DEFINE L == {g \in Starts : loop[g] \in {"accepting", "looping"}}
           H == {c \in Clients : handler[c] \in {"reading", "holding", "drained"}}
<1>1. IsFiniteSet(L) /\ IsFiniteSet(H)
  <2>1. IsFiniteSet(Starts)
    BY ServerAssumption, FS_Interval DEF Starts
  <2> QED
    BY <2>1, ServerAssumption, FS_Subset
<1>2. Cardinality(L) \in Nat /\ Cardinality(H) \in Nat
  BY <1>1, FS_CardinalityType
<1>3. Cardinality(L) = 0 /\ Cardinality(H) = 0
  BY <1>2 DEF WaitGroup
<1>4. L = {} /\ H = {}
  BY <1>1, <1>3, FS_EmptySet
<1> QED
  BY <1>4 DEF AllDone, TypeOK

\* Every step leaves the flags Boolean.
LEMMA FlagsStep ==
  ASSUME Flags, Next
  PROVE  Flags'
<1> USE DEF Flags, serverVars, clientVars
<1>1. CASE Start \/ Take
  BY <1>1 DEF Start, Take
<1>2. ASSUME NEW s \in Stoppers, BeginStop(s) \/ FinishStop(s) PROVE Flags'
  BY <1>2 DEF BeginStop, FinishStop
<1>3. ASSUME NEW g \in Starts, AcceptLoop(g) PROVE Flags'
  BY <1>3 DEF AcceptLoop, Accept, LoopAgain, AcceptFails
<1>4. ASSUME NEW c \in Clients, HandleConn(c) PROVE Flags'
  BY <1>4 DEF HandleConn, ReadLine, Deliver, NoRoom, EndOfStream
<1>5. ASSUME NEW c \in Clients, SendWithRetry(c) PROVE Flags'
  BY <1>5 DEF SendWithRetry, Dial, Write, CloseConn
<1> QED
  BY <1>1, <1>2, <1>3, <1>4, <1>5 DEF Next

\* The counters stay within their bounds: a client that dials has a retry left.
LEMMA CountsStep ==
  ASSUME Counts, Places, RetryLeft, Next
  PROVE  Counts' /\ Places' /\ RetryLeft'
<1> USE ServerAssumption DEF Counts, Places, RetryLeft, Starts, serverVars, clientVars
<1>1. CASE Start
  BY <1>1 DEF Start
<1>2. CASE Take
  BY <1>2 DEF Take
<1>3. ASSUME NEW s \in Stoppers, BeginStop(s) PROVE Counts' /\ Places' /\ RetryLeft'
  <2>1. conn' \in [Clients -> {"none", "backlog", "open"}]
    BY <1>3 DEF BeginStop
  <2>2. stop' \in [Stoppers -> {"idle", "waiting", "returned", "needless"}]
    BY <1>3 DEF BeginStop
  <2> QED
    BY <1>3, <2>1, <2>2 DEF BeginStop
<1>4. ASSUME NEW s \in Stoppers, FinishStop(s) PROVE Counts' /\ Places' /\ RetryLeft'
  BY <1>4 DEF FinishStop
<1>5. ASSUME NEW g \in Starts, AcceptLoop(g) PROVE Counts' /\ Places' /\ RetryLeft'
  <2>1. ASSUME NEW c \in Clients, Accept(g, c) PROVE Counts' /\ Places' /\ RetryLeft'
    BY <2>1 DEF Accept
  <2>2. CASE LoopAgain(g)
    BY <2>2 DEF LoopAgain
  <2>3. CASE AcceptFails(g)
    BY <2>3 DEF AcceptFails
  <2> QED
    BY <1>5, <2>1, <2>2, <2>3 DEF AcceptLoop
<1>6. ASSUME NEW c \in Clients, HandleConn(c) PROVE Counts' /\ Places' /\ RetryLeft'
  <2>1. CASE ReadLine(c)
    BY <2>1 DEF ReadLine
  <2>2. CASE Deliver(c)
    <3>1. buffered' \in 0 .. Capacity /\ delivered' \in SUBSET Clients
      BY <2>2 DEF Deliver
    <3>2. handler' \in [Clients -> {"none", "reading", "holding", "drained", "done"}]
      BY <2>2 DEF Deliver
    <3> QED
      BY <2>2, <3>1, <3>2 DEF Deliver
  <2>3. CASE NoRoom(c)
    BY <2>3 DEF NoRoom
  <2>4. CASE EndOfStream(c)
    BY <2>4 DEF EndOfStream
  <2> QED
    BY <1>6, <2>1, <2>2, <2>3, <2>4 DEF HandleConn
<1>7. ASSUME NEW c \in Clients, SendWithRetry(c) PROVE Counts' /\ Places' /\ RetryLeft'
  <2>1. CASE Dial(c)
    <3>1. attempts[c] < MaxRetries
      BY <2>1 DEF Dial
    <3>2. attempts' \in [Clients -> 0 .. MaxRetries]
      BY <2>1, <3>1 DEF Dial
    <3>3. CASE listening
      <4>1. /\ client' = [client EXCEPT ![c] = "connected"]
            /\ conn' = [conn EXCEPT ![c] = "backlog"]
            /\ UNCHANGED <<serverVars, handler, buffered, delivered, panicked>>
        BY <2>1, <3>3 DEF Dial
      <4>2. /\ client' \in [Clients -> {"sending", "connected", "written", "ok", "err"}]
            /\ conn' \in [Clients -> {"none", "backlog", "open"}]
        BY <4>1
      <4>3. RetryLeft'
        BY <2>1, <4>1 DEF Dial
      <4> QED
        BY <3>2, <4>1, <4>2, <4>3
    <3>4. CASE ~listening
      BY <2>1, <3>2, <3>4 DEF Dial
    <3> QED
      BY <3>3, <3>4
  <2>2. CASE Write(c)
    BY <2>2 DEF Write
  <2>3. CASE CloseConn(c)
    BY <2>3 DEF CloseConn
  <2> QED
    BY <1>7, <2>1, <2>2, <2>3 DEF SendWithRetry
<1> QED
  BY <1>1, <1>2, <1>3, <1>4, <1>5, <1>6, <1>7 DEF Next

\* Together.
LEMMA TypeStep ==
  ASSUME TypeOK, RetryLeft, Next
  PROVE  TypeOK' /\ RetryLeft'
<1>1. TypeOK' <=> Flags' /\ Counts' /\ Places'
  BY DEF TypeOK, Flags, Counts, Places
<1> QED
  BY <1>1, TypeParts, FlagsStep, CountsStep

\* Once MsgChan is closed it stays so, and Stop returns after closing it.
LEMMA ReturnedStep ==
  ASSUME TypeOK, Next, (\E s \in Stoppers : stop[s] = "returned") => chanClosed
  PROVE  (\E s \in Stoppers : stop'[s] = "returned") => chanClosed'
<1> USE DEF TypeOK, serverVars, clientVars
<1>1. ASSUME NEW s \in Stoppers, BeginStop(s) \/ FinishStop(s)
      PROVE  (\E t \in Stoppers : stop'[t] = "returned") => chanClosed'
  BY <1>1 DEF BeginStop, FinishStop
<1>2. ASSUME ~\E s \in Stoppers : BeginStop(s) \/ FinishStop(s)
      PROVE  stop' = stop /\ chanClosed' = chanClosed
  BY <1>2 DEF Next, Start, Take, AcceptLoop, Accept, LoopAgain, AcceptFails,
              HandleConn, ReadLine, Deliver, NoRoom, EndOfStream,
              SendWithRetry, Dial, Write, CloseConn
<1> QED
  BY <1>1, <1>2

\* While the server has been started once at most, Stop works once and nothing
\* panics.
LEMMA OnceStep ==
  ASSUME IInv, Next, starts' <= 1
  PROVE  StoppedOnce' /\ (starts' = 0 => NothingYet')
<1> USE DEF IInv, TypeOK, Starts, serverVars, clientVars
<1>1. CASE Start
  <2>1. starts = 0 /\ starts' = 1
    BY <1>1 DEF Start
  <2> QED
    BY <1>1, <2>1 DEF Start, StoppedOnce, NothingYet, AllDone
<1>2. CASE Take
  BY <1>2 DEF Take, StoppedOnce, NothingYet, AllDone
<1>3. ASSUME NEW s \in Stoppers, BeginStop(s)
      PROVE  StoppedOnce' /\ (starts' = 0 => NothingYet')
  BY <1>3 DEF BeginStop, StoppedOnce, NothingYet, AllDone
<1>4. ASSUME NEW s \in Stoppers, FinishStop(s)
      PROVE  StoppedOnce' /\ (starts' = 0 => NothingYet')
  <2>1. AllDone
    BY <1>4, WaitGroupEmpty DEF FinishStop
  <2> QED
    BY <1>4, <2>1 DEF FinishStop, StoppedOnce, NothingYet, AllDone
<1>5. ASSUME NEW g \in Starts, AcceptLoop(g)
      PROVE  StoppedOnce' /\ (starts' = 0 => NothingYet')
  <2>1. ASSUME NEW c \in Clients, Accept(g, c)
        PROVE  StoppedOnce' /\ (starts' = 0 => NothingYet')
    BY <2>1 DEF Accept, StoppedOnce, NothingYet, AllDone
  <2>2. CASE LoopAgain(g)
    BY <2>2 DEF LoopAgain, StoppedOnce, NothingYet, AllDone
  <2>3. CASE AcceptFails(g)
    BY <2>3 DEF AcceptFails, StoppedOnce, NothingYet, AllDone
  <2> QED
    BY <1>5, <2>1, <2>2, <2>3 DEF AcceptLoop
<1>6. ASSUME NEW c \in Clients, HandleConn(c)
      PROVE  StoppedOnce' /\ (starts' = 0 => NothingYet')
  <2>1. CASE ReadLine(c)
    BY <2>1 DEF ReadLine, StoppedOnce, NothingYet, AllDone
  <2>2. CASE Deliver(c)
    BY <2>2 DEF Deliver, StoppedOnce, NothingYet, AllDone
  <2>3. CASE NoRoom(c)
    BY <2>3 DEF NoRoom, StoppedOnce, NothingYet, AllDone
  <2>4. CASE EndOfStream(c)
    BY <2>4 DEF EndOfStream, StoppedOnce, NothingYet, AllDone
  <2> QED
    BY <1>6, <2>1, <2>2, <2>3, <2>4 DEF HandleConn
<1>7. ASSUME NEW c \in Clients, SendWithRetry(c)
      PROVE  StoppedOnce' /\ (starts' = 0 => NothingYet')
  <2>1. CASE Dial(c)
    BY <2>1 DEF Dial, StoppedOnce, NothingYet, AllDone
  <2>2. CASE Write(c)
    BY <2>2 DEF Write, StoppedOnce, NothingYet, AllDone
  <2>3. CASE CloseConn(c)
    BY <2>3 DEF CloseConn, StoppedOnce, NothingYet, AllDone
  <2> QED
    BY <1>7, <2>1, <2>2, <2>3 DEF SendWithRetry
<1> QED
  BY <1>1, <1>2, <1>3, <1>4, <1>5, <1>6, <1>7 DEF Next

\* The invariant is preserved by every step.
LEMMA NextIInv == IInv /\ [Next]_vars => IInv'
<1> SUFFICES ASSUME IInv, [Next]_vars PROVE IInv'
  OBVIOUS
<1>1. CASE UNCHANGED vars
  BY <1>1 DEF vars, serverVars, clientVars, IInv, TypeOK, RetryLeft, NothingYet,
              StoppedOnce, AllDone
<1>2. CASE Next
  <2>1. starts' \in Nat
    BY <1>2, TypeStep, ServerAssumption DEF IInv, TypeOK
  <2> QED
    BY <1>2, <2>1, TypeStep, ReturnedStep, OnceStep DEF IInv
<1> QED
  BY <1>1, <1>2

\* The invariant holds throughout.
THEOREM Invariance == Spec => []IInv
  BY InitIInv, NextIInv, PTL DEF Spec

(***************************************************************************)
(* What follows from it.                                                   *)
(***************************************************************************)

\* Type correctness: MsgChan never holds more than its capacity, and no client
\* dials more often than MaxRetries.
THEOREM TypeCorrect == Spec => []TypeOK
  BY Invariance, PTL DEF IInv

\* A server that is not started again after Stop never sends on a closed channel
\* and closes none twice, however many goroutines call Stop and whatever the
\* clients do.
THEOREM NeverPanics == Spec => []NoPanic
<1>1. IInv => NoPanic
  BY ServerAssumption DEF IInv, NoPanic, StoppedOnce, TypeOK
<1> QED
  BY <1>1, Invariance, PTL

\* Once a Stop that found the server started has returned, no message is delivered
\* any more, not even by a server that is started again.
THEOREM SilentAfterStop == Spec => StoppedMeansSilent
<1>1. IInv /\ [Next]_vars =>
        [(\E s \in Stoppers : stop[s] = "returned") => delivered' = delivered]_vars
  <2> SUFFICES ASSUME IInv, Next, chanClosed
               PROVE  delivered' = delivered
    BY DEF IInv
  <2> QED
    BY DEF Next, Start, Take, BeginStop, FinishStop, AcceptLoop, Accept, LoopAgain,
           AcceptFails, HandleConn, ReadLine, Deliver, NoRoom, EndOfStream,
           SendWithRetry, Dial, Write, CloseConn, serverVars, clientVars
<1> QED
  BY <1>1, Invariance, PTL DEF Spec, StoppedMeansSilent
================================================================================
