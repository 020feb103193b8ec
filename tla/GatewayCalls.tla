---------------------------- MODULE GatewayCalls ----------------------------
(***************************************************************************)
(* The AI gateway service (services/semprec-ai-gateway): its four routes   *)
(* from the socket to the answer, the accounting row each call keeps, the  *)
(* slots of the audio routes, the client that may go away at any moment    *)
(* and the shutdown that drains what is in flight.  How a reservation is   *)
(* judged against the caps is the subject of AiBudget; here it is granted  *)
(* or refused.                                                             *)
(***************************************************************************)
EXTENDS Naturals, FiniteSets

CONSTANTS Calls,       \* requests of the gateway's clients
          RouteOf,     \* call -> "complete", "pi" or "audio"
          MaxAudio,    \* MAX_CONCURRENT_AUDIO_REQUESTS
          MaxDbFaults  \* bound: writes to the accounting row that fail

ASSUME GatewayAssumption ==
  /\ IsFiniteSet(Calls)
  /\ RouteOf \in [Calls -> {"complete", "pi", "audio"}]
  /\ MaxAudio \in Nat \ {0} /\ MaxDbFaults \in Nat

VARIABLES
  service, \* "serving", "draining", "stopping", "ended"
  beating, \* the process heartbeat is being written
  step,    \* what a call's handler is at
  conn,    \* a call's connection: "none", "open", "cut", "gone" (by the client), "done"
  acct,    \* its accounting row: "none", "reserved", "settled", "failed"
  said,    \* the answer, or the terminal event of the stream
  signal,  \* the abort signal: "unset", "armed", "raised"
  blocked, \* the stream waits for the reader
  slots,   \* audio requests in flight
  billed,  \* the provider completed the call
  forced,  \* the drain was cut short
  dbFaults

gwVars == <<service, beating, step, conn, acct, said, signal, blocked, slots, billed, forced, dbFaults>>

PoolOpen == service \in {"serving", "draining"}
Streams(c) == RouteOf[c] = "pi"
Audio(c) == RouteOf[c] = "audio"
StreamOpen(c) == conn[c] = "open"

GwInit ==
  /\ service = "serving" /\ beating = TRUE /\ slots = 0 /\ forced = FALSE /\ dbFaults = 0
  /\ step = [c \in Calls |-> "none"] /\ conn = [c \in Calls |-> "none"] /\ acct = [c \in Calls |-> "none"]
  /\ said = [c \in Calls |-> "nothing"] /\ signal = [c \in Calls |-> "unset"]
  /\ blocked = {} /\ billed = {}

----------------------------------------------------------------------------
\* The response closes, with an answer or without; an audio slot is freed.
CloseWith(c, how) == conn' = [conn EXCEPT ![c] = how] /\ slots' = IF Audio(c) THEN slots - 1 ELSE slots

\* sendJson: heard only on an open connection.
Send(c, what) == IF StreamOpen(c) THEN said' = [said EXCEPT ![c] = what] /\ CloseWith(c, "done")
                              ELSE UNCHANGED <<said, conn, slots>>

Over(c) == step' = [step EXCEPT ![c] = "over"]
Goes(c, to) == step' = [step EXCEPT ![c] = to]

\* dispatch: the audio routes admit MaxAudio requests at a time.
Dispatch(c) ==
  /\ service = "serving" /\ step[c] = "none"
  /\ IF Audio(c) /\ slots >= MaxAudio
     THEN Over(c) /\ conn' = [conn EXCEPT ![c] = "done"] /\ said' = [said EXCEPT ![c] = "busy"] /\ UNCHANGED slots
     ELSE Goes(c, "body") /\ conn' = [conn EXCEPT ![c] = "open"] /\ slots' = (IF Audio(c) THEN slots + 1 ELSE slots)
          /\ UNCHANGED said
  /\ UNCHANGED <<service, beating, acct, signal, blocked, billed, forced, dbFaults>>

\* abortOnDisconnect: the signal of a call whose connection dropped is raised
\* at once.  The stream's listener is set later, when its turn begins.
ArmedNow(c) == IF StreamOpen(c) THEN "armed" ELSE "raised"

\* The body is read and checked; one cut off is never complete.
ReadBody(c) ==
  /\ step[c] = "body" /\ StreamOpen(c) /\ Goes(c, "reserve")
  /\ UNCHANGED <<service, beating, conn, slots, acct, said, signal, blocked, billed, forced, dbFaults>>

\* No token, too large, not of the route's shape, or an unknown model.
RefuseBody(c) ==
  /\ step[c] = "body" /\ Over(c) /\ Send(c, "refused")
  /\ UNCHANGED <<service, beating, acct, signal, blocked, billed, forced, dbFaults>>

DbFault == dbFaults < MaxDbFaults /\ dbFaults' = dbFaults + 1

\* reserve: granted, refused by a cap, or the database fails.
Reserve(c) ==
  /\ step[c] = "reserve"
  /\ \/ /\ PoolOpen /\ Goes(c, "provider") /\ acct' = [acct EXCEPT ![c] = "reserved"]
        /\ signal' = [signal EXCEPT ![c] = IF ~Streams(c) THEN ArmedNow(c) ELSE IF StreamOpen(c) THEN "armed" ELSE "unset"]
        /\ UNCHANGED <<said, conn, slots, dbFaults>>
     \/ PoolOpen /\ Over(c) /\ Send(c, "budget") /\ UNCHANGED <<acct, signal, dbFaults>>
     \/ PoolOpen /\ Over(c) /\ Send(c, "refused") /\ DbFault /\ UNCHANGED <<acct, signal>>
     \/ ~PoolOpen /\ Over(c) /\ Send(c, "refused") /\ UNCHANGED <<acct, signal, dbFaults>>
  /\ UNCHANGED <<service, beating, blocked, billed, forced>>

\* writeEvent: the socket buffer is full, and drains when the reader reads.
BufferFull(c) ==
  /\ step[c] = "provider" /\ Streams(c) /\ StreamOpen(c) /\ c \notin blocked
  /\ blocked' = blocked \cup {c}
  /\ UNCHANGED <<service, beating, step, conn, acct, said, signal, slots, billed, forced, dbFaults>>
ReaderReads(c) ==
  /\ c \in blocked /\ StreamOpen(c) /\ blocked' = blocked \ {c}
  /\ UNCHANGED <<service, beating, step, conn, acct, said, signal, slots, billed, forced, dbFaults>>

\* The first write after the provider starts at once; without a pool it fails.
Account(c, how) == IF PoolOpen THEN Goes(c, how) ELSE Over(c)

\* A stream is ended with its "done" event before its row is settled.
TurnDone(c) ==
  /\ step[c] = "provider" /\ Streams(c) /\ c \notin blocked
  /\ billed' = billed \cup {c} /\ Account(c, "settle") /\ Send(c, "ok")
  /\ UNCHANGED <<service, beating, acct, signal, blocked, forced, dbFaults>>

\* A turn that was refused, aborted or took too long says so, or breaks off.
TurnFails(c) ==
  /\ step[c] = "provider" /\ Streams(c) /\ c \notin blocked
  /\ Account(c, "fail") /\ (Send(c, "failed") \/ Send(c, "broken off"))
  /\ UNCHANGED <<service, beating, acct, signal, blocked, billed, forced, dbFaults>>

\* The other routes answer when the row is written, or cannot be.
AnswersLater(c, what) == IF PoolOpen THEN UNCHANGED <<said, conn, slots>> ELSE Send(c, what)

ProviderSucceeds(c) ==
  /\ step[c] = "provider" /\ ~Streams(c)
  /\ billed' = billed \cup {c} /\ Account(c, "settle") /\ AnswersLater(c, "ok")
  /\ UNCHANGED <<service, beating, acct, signal, blocked, forced, dbFaults>>

\* The provider refuses, times out, was told to stop, or a diarization job is
\* not done at the last poll.
ProviderFails(c) ==
  /\ step[c] = "provider" /\ ~Streams(c)
  /\ Account(c, "fail") /\ AnswersLater(c, "failed")
  /\ UNCHANGED <<service, beating, acct, signal, blocked, billed, forced, dbFaults>>

\* settleWithRetry, failGatewayCall: whatever becomes of the row, the caller
\* gets its answer; a failed settle is tried again while the pool is open.
Recorded(c, from, to, what) ==
  /\ step[c] = from
  /\ \/ /\ acct' = [acct EXCEPT ![c] = to] /\ Over(c)
        /\ IF Streams(c) THEN UNCHANGED <<said, conn, slots>> ELSE Send(c, what)
        /\ UNCHANGED dbFaults
     \/ /\ DbFault /\ UNCHANGED acct
        /\ \/ from = "settle" /\ PoolOpen /\ UNCHANGED <<step, said, conn, slots>>
           \/ Over(c) /\ IF Streams(c) THEN UNCHANGED <<said, conn, slots>> ELSE Send(c, what)
  /\ service # "ended"
  /\ UNCHANGED <<service, beating, signal, blocked, billed, forced>>

Settle(c) == Recorded(c, "settle", "settled", "ok") \/ Recorded(c, "settle", "settled", "refused")
Fail(c) == Recorded(c, "fail", "failed", "failed")

----------------------------------------------------------------------------
Raise(c) == signal' = IF signal[c] = "armed" THEN [signal EXCEPT ![c] = "raised"] ELSE signal

\* The client's own timeout, or its death.
ClientGivesUp(c) ==
  /\ StreamOpen(c) /\ CloseWith(c, "gone") /\ Raise(c) /\ blocked' = blocked \ {c}
  /\ UNCHANGED <<service, beating, step, acct, said, billed, forced, dbFaults>>

\* The close event of a connection the shutdown destroyed.
CutIsNoticed(c) ==
  /\ conn[c] = "cut" /\ CloseWith(c, "gone") /\ Raise(c) /\ blocked' = blocked \ {c} /\ service # "ended"
  /\ UNCHANGED <<service, beating, step, acct, said, billed, forced, dbFaults>>

\* SIGTERM: no new connection is accepted.
GatewayShutdown ==
  /\ service = "serving" /\ service' = "draining"
  /\ UNCHANGED <<beating, step, conn, acct, said, signal, blocked, slots, billed, forced, dbFaults>>

\* server.close(): every connection has ended; heartbeat.stop() and pool.end().
DrainCompletes ==
  /\ service = "draining" /\ \A c \in Calls : conn[c] \notin {"open", "cut"}
  /\ service' = "stopping" /\ beating' = FALSE
  /\ UNCHANGED <<step, conn, acct, said, signal, blocked, slots, billed, forced, dbFaults>>

\* A mutant: the drain waits for as long as it takes.
NeverCut == DrainCompletes

\* SHUTDOWN_DRAIN_TIMEOUT_MS: the connections are destroyed, and the pool is
\* ended before their close events are delivered.
StreamDrainTimesOut ==
  /\ service = "draining" /\ service' = "stopping" /\ beating' = FALSE /\ forced' = TRUE
  /\ conn' = [c \in Calls |-> IF StreamOpen(c) THEN "cut" ELSE conn[c]]
  /\ UNCHANGED <<step, acct, said, signal, blocked, slots, billed, dbFaults>>

\* process.exit, after pool.end() has seen the writes that were running, or
\* given up on the database.
Exit ==
  /\ service = "stopping"
  /\ \/ (\A c \in Calls : step[c] \notin {"settle", "fail"}) /\ UNCHANGED dbFaults
     \/ DbFault
  /\ service' = "ended"
  /\ step' = [c \in Calls |-> IF step[c] = "none" THEN "none" ELSE "over"]
  /\ conn' = [c \in Calls |-> IF conn[c] \in {"open", "cut"} THEN "gone" ELSE conn[c]]
  /\ slots' = 0 /\ blocked' = {}
  /\ UNCHANGED <<beating, acct, said, signal, billed, forced>>

HandlerStep(c) == \/ ReadBody(c) \/ RefuseBody(c) \/ Reserve(c) \/ TurnDone(c) \/ TurnFails(c)
                  \/ ProviderSucceeds(c) \/ ProviderFails(c)
                  \/ Settle(c) \/ Fail(c) \/ CutIsNoticed(c)

GwNext ==
  \/ \E c \in Calls : Dispatch(c) \/ HandlerStep(c) \/ BufferFull(c) \/ ReaderReads(c) \/ ClientGivesUp(c)
  \/ GatewayShutdown \/ DrainCompletes \/ StreamDrainTimesOut \/ Exit

GwFairness == /\ \A c \in Calls : WF_gwVars(HandlerStep(c))
              /\ WF_gwVars(DrainCompletes) /\ WF_gwVars(StreamDrainTimesOut) /\ WF_gwVars(Exit)

GwSpec == GwInit /\ [][GwNext]_gwVars /\ GwFairness

----------------------------------------------------------------------------
\* What the gateway's client makes of the answer (httpAiGatewayClient).
Conclusion(c) == CASE said[c] = "ok" -> "result"
                   [] said[c] = "budget" -> "budget_exceeded"
                   [] said[c] \in {"nothing", "broken off"} -> "http"
                   [] OTHER -> "refused"

GwTypeOK ==
  /\ slots \in 0 .. MaxAudio /\ blocked \subseteq Calls /\ billed \subseteq Calls
  /\ \A c \in Calls : conn[c] \in {"none", "open", "cut", "gone", "done"}

\* A call the provider completed is never written off at cost zero, whatever
\* became of its client and its schema; so is every result a client was given.
BilledIsCounted ==
  \A c \in Calls : c \in billed \/ Conclusion(c) = "result" => acct[c] \in {"reserved", "settled"}

\* A row is left reserved for ever only by a database failure, by a client
\* that had gone, or by a drain that was cut short.
ReservedNeedsACause ==
  service = "ended" =>
    \A c \in Calls : acct[c] = "reserved" => forced \/ dbFaults > 0 \/ conn[c] = "gone"

\* The slots of the audio routes are the open audio requests: none is lost
\* when a client goes away, and none is freed twice.
SlotsMatchRequests ==
  service # "ended" => slots = Cardinality({c \in Calls : Audio(c) /\ conn[c] \in {"open", "cut"}})

\* Once a client has gone, the provider is told to stop, unless the client of
\* a stream went before its turn began.
GoneClientStopsProvider ==
  \A c \in Calls : step[c] = "provider" /\ conn[c] = "gone" => signal[c] = "raised" \/ (Streams(c) /\ signal[c] = "unset")

\* A call whose client has gone comes to its end.
GoneCallsOver == \A c \in Calls : conn[c] = "gone" => step[c] = "over"

\* The shutdown comes to its end, whether or not the clients read.
ShutdownOver == service # "draining"
=============================================================================
