------------------------------ MODULE TCPServer ------------------------------
(***************************************************************************)
(* network.Server (tcp/server.go) and the clients that send to it with     *)
(* Send and SendWithRetry (tcp/client.go): Start, the accept loop, one     *)
(* handler goroutine per connection, MsgChan, and Stop, which signals them *)
(* all, waits for them and then closes MsgChan.                            *)
(*                                                                         *)
(* The kernel completes connections before the accept loop takes them      *)
(* (backlog) and resets those when the listener is closed.  A connection   *)
(* carries one envelope, as Send makes it.  A panic (closing a closed      *)
(* channel, sending on one) ends the program.                              *)
(***************************************************************************)
EXTENDS Integers, FiniteSets

CONSTANTS
  Clients,       \* one call of SendWithRetry each
  Stoppers,      \* the goroutines that call Stop
  Capacity,      \* of MsgChan (256 in the code)
  MaxRetries,    \* of SendWithRetry
  MaxStarts      \* bound on the calls of Start that succeed

ASSUME ServerAssumption ==
  /\ IsFiniteSet(Clients)
  /\ Capacity \in Nat \ {0} /\ MaxRetries \in Nat \ {0} /\ MaxStarts \in Nat \ {0}

VARIABLES
  started,
  listening,     \* whether the listener of the last Start is open
  starts,        \* how many listeners there have been; s.listener is the last
  quit,          \* whether the quit channel is closed
  chanClosed,    \* whether MsgChan is closed
  buffered,      \* how many envelopes are in MsgChan
  delivered,     \* the clients whose envelope has been put into MsgChan
  loop,          \* the accept loop of each Start
  loopOn,        \* the listener that loop uses
  stop,          \* where each call of Stop stands
  client,        \* where each client stands
  attempts,      \* how often it has dialled
  conn,          \* its connection, as the server's side sees it
  handler,       \* the handler of its connection
  panicked

serverVars == <<started, listening, starts, quit, chanClosed, loop, loopOn, stop>>
clientVars == <<client, attempts>>
vars == <<serverVars, buffered, delivered, clientVars, conn, handler, panicked>>

Starts == 1 .. MaxStarts

TypeOK ==
  /\ started \in BOOLEAN /\ listening \in BOOLEAN
  /\ quit \in BOOLEAN /\ chanClosed \in BOOLEAN /\ panicked \in BOOLEAN
  /\ starts \in 0 .. MaxStarts
  /\ buffered \in 0 .. Capacity
  /\ delivered \in SUBSET Clients
  /\ loop \in [Starts -> {"none", "accepting", "looping", "done"}]
  /\ loopOn \in [Starts -> 0 .. MaxStarts]
  /\ stop \in [Stoppers -> {"idle", "waiting", "returned", "needless"}]
  /\ client \in [Clients -> {"sending", "connected", "written", "ok", "err"}]
  /\ attempts \in [Clients -> 0 .. MaxRetries]
  /\ conn \in [Clients -> {"none", "backlog", "open"}]
  /\ handler \in [Clients -> {"none", "reading", "holding", "drained", "done"}]

Init ==
  /\ started = FALSE
  /\ listening = FALSE
  /\ starts = 0
  /\ quit = FALSE
  /\ chanClosed = FALSE
  /\ buffered = 0
  /\ delivered = {}
  /\ loop = [g \in Starts |-> "none"]
  /\ loopOn = [g \in Starts |-> 0]
  /\ stop = [s \in Stoppers |-> "idle"]
  /\ client = [c \in Clients |-> "sending"]
  /\ attempts = [c \in Clients |-> 0]
  /\ conn = [c \in Clients |-> "none"]
  /\ handler = [c \in Clients |-> "none"]
  /\ panicked = FALSE

\* The goroutines wg counts: the accept loops and the handlers.
WaitGroup ==
  Cardinality({g \in Starts : loop[g] \in {"accepting", "looping"}})
  + Cardinality({c \in Clients : handler[c] \in {"reading", "holding", "drained"}})

------------------------------------------------------------------------------
(* Start and Stop.                                                         *)

Start ==
  /\ ~started
  /\ starts < MaxStarts
  /\ started' = TRUE
  /\ listening' = TRUE
  /\ starts' = starts + 1
  /\ loop' = [loop EXCEPT ![starts + 1] = "looping"]
  /\ UNCHANGED <<quit, chanClosed, loopOn, stop, buffered, delivered, clientVars,
                 conn, handler, panicked>>

\* The call returns without waiting for the goroutines.
BeginStopNoWait(s) ==
  /\ stop[s] = "idle" /\ starts > 0
  /\ stop' = [stop EXCEPT ![s] = IF started THEN "returned" ELSE "needless"]
  /\ IF started
       THEN /\ started' = FALSE
            /\ quit' = TRUE
            /\ panicked' = quit
            /\ listening' = FALSE
            /\ conn' = [c \in Clients |-> IF conn[c] = "backlog" THEN "none" ELSE conn[c]]
       ELSE UNCHANGED <<started, quit, panicked, listening, conn>>
  /\ UNCHANGED <<starts, chanClosed, loop, loopOn, buffered, delivered,
                 clientVars, handler>>

\* Stop up to the release of the mutex.  A server that is not started is left
\* alone; quit has been closed before if the server was stopped before.
BeginStop(s) ==
  /\ stop[s] = "idle" /\ starts > 0
  /\ stop' = [stop EXCEPT ![s] = IF started THEN "waiting" ELSE "needless"]
  /\ IF started
       THEN /\ started' = FALSE
            /\ quit' = TRUE
            /\ panicked' = quit
            /\ listening' = FALSE
            /\ conn' = [c \in Clients |-> IF conn[c] = "backlog" THEN "none" ELSE conn[c]]
       ELSE UNCHANGED <<started, quit, panicked, listening, conn>>
  /\ UNCHANGED <<starts, chanClosed, loop, loopOn, buffered, delivered,
                 clientVars, handler>>

\* Only the accept loops are waited for.
FinishStopEarly(s) ==
  /\ stop[s] = "waiting"
  /\ \A g \in Starts : loop[g] \in {"none", "done"}
  /\ stop' = [stop EXCEPT ![s] = "returned"]
  /\ chanClosed' = TRUE
  /\ panicked' = chanClosed
  /\ UNCHANGED <<started, listening, starts, quit, loop, loopOn, buffered,
                 delivered, clientVars, conn, handler>>

\* wg.Wait() returns, and MsgChan is closed.
FinishStop(s) ==
  /\ stop[s] = "waiting"
  /\ WaitGroup = 0
  /\ stop' = [stop EXCEPT ![s] = "returned"]
  /\ chanClosed' = TRUE
  /\ panicked' = chanClosed
  /\ UNCHANGED <<started, listening, starts, quit, loop, loopOn, buffered,
                 delivered, clientVars, conn, handler>>

------------------------------------------------------------------------------
(* The accept loop: "looping" before it has read s.listener for a turn.     *)

Open(listener) == listening /\ listener = starts

Accept(g, c) ==
  /\ loop[g] = "accepting"
  /\ Open(loopOn[g])
  /\ conn[c] = "backlog"
  /\ conn' = [conn EXCEPT ![c] = "open"]
  /\ handler' = [handler EXCEPT ![c] = "reading"]
  /\ loop' = [loop EXCEPT ![g] = "looping"]
  /\ UNCHANGED <<started, listening, starts, quit, chanClosed, loopOn, stop,
                 buffered, delivered, clientVars, panicked>>

\* A turn of the loop reads s.listener, without the mutex, and waits in Accept.
LoopAgain(g) ==
  /\ loop[g] = "looping"
  /\ loop' = [loop EXCEPT ![g] = "accepting"]
  /\ loopOn' = [loopOn EXCEPT ![g] = starts]
  /\ UNCHANGED <<started, listening, starts, quit, chanClosed, stop,
                 buffered, delivered, clientVars, conn, handler, panicked>>

\* Accept fails when the listener is closed; the loop ends.
AcceptFails(g) ==
  /\ loop[g] = "accepting"
  /\ ~Open(loopOn[g])
  /\ loop' = [loop EXCEPT ![g] = "done"]
  /\ UNCHANGED <<started, listening, starts, quit, chanClosed, loopOn, stop,
                 buffered, delivered, clientVars, conn, handler, panicked>>

------------------------------------------------------------------------------
(* A connection's handler.                                                 *)

\* A line has come, and the handler looks at quit before it handles it.
ReadLine(c) ==
  /\ handler[c] = "reading"
  /\ client[c] \in {"written", "ok"}
  /\ handler' = [handler EXCEPT ![c] = IF quit THEN "done" ELSE "holding"]
  /\ UNCHANGED <<serverVars, buffered, delivered, clientVars, conn, panicked>>

\* case s.MsgChan <- env
Deliver(c) ==
  /\ handler[c] = "holding"
  /\ chanClosed \/ buffered < Capacity
  /\ handler' = [handler EXCEPT ![c] = "drained"]
  /\ IF chanClosed
       THEN panicked' = TRUE /\ UNCHANGED <<buffered, delivered>>
       ELSE /\ buffered' = buffered + 1
            /\ delivered' = delivered \cup {c}
            /\ UNCHANGED panicked
  /\ UNCHANGED <<serverVars, clientVars, conn>>

\* The send has no other case: it waits for room.
NoRoomWaits(c) ==
  /\ handler[c] = "holding"
  /\ buffered = Capacity
  /\ UNCHANGED vars

\* case <-s.quit, or the default when MsgChan is full
NoRoom(c) ==
  /\ handler[c] = "holding"
  /\ quit \/ buffered = Capacity
  /\ handler' = [handler EXCEPT ![c] = IF quit THEN "done" ELSE "drained"]
  /\ UNCHANGED <<serverVars, buffered, delivered, clientVars, conn, panicked>>

\* Scan meets the end of the stream: the client has closed the connection.
EndOfStream(c) ==
  /\ handler[c] = "drained"
  /\ client[c] = "ok"
  /\ handler' = [handler EXCEPT ![c] = "done"]
  /\ UNCHANGED <<serverVars, buffered, delivered, clientVars, conn, panicked>>

\* The protocol layer takes an envelope from MsgChan.
Take ==
  /\ buffered > 0
  /\ buffered' = buffered - 1
  /\ UNCHANGED <<serverVars, delivered, clientVars, conn, handler, panicked>>

------------------------------------------------------------------------------
(* A client: SendWithRetry, which calls Send.                              *)

Dial(c) ==
  /\ client[c] = "sending"
  /\ attempts' = [attempts EXCEPT ![c] = @ + 1]
  /\ IF listening
       THEN /\ client' = [client EXCEPT ![c] = "connected"]
            /\ conn' = [conn EXCEPT ![c] = "backlog"]
       ELSE /\ client' = [client EXCEPT ![c] =
                            IF attempts'[c] < MaxRetries THEN "sending" ELSE "err"]
            /\ UNCHANGED conn
  /\ UNCHANGED <<serverVars, buffered, delivered, handler, panicked>>

\* The line is written, unless the listener's end has reset the connection;
\* then Send fails and is tried again.
Write(c) ==
  /\ client[c] = "connected"
  /\ client' = [client EXCEPT ![c] =
       IF conn[c] # "none" THEN "written"
       ELSE IF attempts[c] < MaxRetries THEN "sending" ELSE "err"]
  /\ UNCHANGED <<serverVars, buffered, delivered, attempts, conn, handler, panicked>>

\* The deferred conn.Close(); Send returns nil.
CloseConn(c) ==
  /\ client[c] = "written"
  /\ client' = [client EXCEPT ![c] = "ok"]
  /\ UNCHANGED <<serverVars, buffered, delivered, attempts, conn, handler, panicked>>

AcceptLoop(g) == (\E c \in Clients : Accept(g, c)) \/ LoopAgain(g) \/ AcceptFails(g)
HandleConn(c) == ReadLine(c) \/ Deliver(c) \/ NoRoom(c) \/ EndOfStream(c)
SendWithRetry(c) == Dial(c) \/ Write(c) \/ CloseConn(c)

Next ==
  /\ ~panicked
  /\ \/ Start \/ Take
     \/ \E s \in Stoppers : BeginStop(s) \/ FinishStop(s)
     \/ \E g \in Starts : AcceptLoop(g)
     \/ \E c \in Clients : HandleConn(c) \/ SendWithRetry(c)

\* Goroutines run when they can, and Send is bounded by its timeouts.
Fairness ==
  /\ \A s \in Stoppers : WF_vars(~panicked /\ FinishStop(s))
  /\ \A g \in Starts : WF_vars(~panicked /\ AcceptLoop(g))
  /\ \A c \in Clients : /\ WF_vars(~panicked /\ HandleConn(c))
                        /\ WF_vars(~panicked /\ SendWithRetry(c))

Spec == Init /\ [][Next]_vars /\ Fairness

------------------------------------------------------------------------------
(* Properties.                                                             *)

\* No handler sends on MsgChan after Stop has closed it, and no call of Stop
\* closes a channel twice ("Calling Stop() more than once is safe"), as long as a
\* server that was stopped is not started again: Start makes neither quit nor
\* MsgChan anew.
NoPanic == panicked => starts > 1

\* "After Stop() returns, no more messages will be delivered": the Stop that found
\* the server started, and waited for its goroutines; also after another Start.
StoppedMeansSilent ==
  [][(\E s \in Stoppers : stop[s] = "returned") => delivered' = delivered]_vars

\* Stop returns, whatever is in MsgChan and whether or not anybody reads it, if
\* clients close their connections and nobody starts the server meanwhile.
StopReturns ==
  \A s \in Stoppers : stop[s] = "waiting" ~> stop[s] = "returned" \/ starts > 1

==============================================================================
