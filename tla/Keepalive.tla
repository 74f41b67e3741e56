----------------------------- MODULE Keepalive ------------------------------
(***************************************************************************)
(* keepalive.go, client_keepalive.go, server_ping.go, client_timing.go and *)
(* the receive path of peer_data.go: how the two ends of an established    *)
(* session notice each other.  Each end has a loop that runs once a        *)
(* second, a goroutine that sends the pings and the OCC messages it is     *)
(* asked for, and a reader.                                                *)
(*                                                                         *)
(* Times are kept as ages in seconds begun since, no further than the code *)
(* can tell them apart.  The stamps and the clock of the code are finer: a *)
(* stamp is taken somewhere within its second, a tick somewhere within its *)
(* own, and a comparison at the limit itself may say either (Passed).  A   *)
(* second passes once everything that can run within it has run:           *)
(* goroutines are prompt, the link takes Delay seconds at most, and only a *)
(* link that holds packets (stalled) keeps a writer back.                  *)
(* Renegotiation, which shares the loop, is the subject of                 *)
(* RenegotiationBudget.                                                    *)
(***************************************************************************)
EXTENDS Integers

CONSTANT
  Options   \* the options and the links of the sessions in question

\* Times are whole seconds, and 0 where an option is unset.
ASSUME OptionsAssumption ==
  Options \subseteq
    [pingInterval : Nat, pingRestart : Nat, pingExit : Nat, serverPingRestart : Nat,
     inactiveTimeout : Nat, inactiveMinimumBytes : Nat, sessionTimeout : Nat,
     kinds : SUBSET {"occRequest", "occReply", "data", "control", "fragment", "exit", "damaged"},
     writers : SUBSET {"client", "server"}, delay : Nat, lossy : BOOLEAN, stalls : BOOLEAN]

Ends == {"client", "server"}
Other(e) == IF e = "client" THEN "server" ELSE "client"

VARIABLES
  options,                      \* one of them, for as long as the session lives
  sinceInbound, sinceOutbound,  \* end -> age of lastInboundTime, lastOutboundTime
  sinceReset, accumulator,      \* the client's lastInactivityResetTime and byte count
  sinceStart,                   \* age of the client's sessionStartTime
  sinceData,                    \* history: the age of the last payload the client moved
  timerLoop,      \* end -> the step of its loop, and what it read
  pending,   \* end -> what its dataChannelMessageSender is asked to send
  wake,      \* end -> the wake channel holds a signal
  sender,    \* end -> the step of the sender's goroutine, and what it writes
  signaller,    \* end -> its reader is about to signal the sender
  link,      \* the packets under way
  stalled,   \* the link takes no packets
  over,      \* end -> why the session ended, "running" while it runs
  closed     \* end -> Close has shut the sender down

clocks == <<sinceInbound, sinceOutbound, sinceReset, accumulator, sinceStart, sinceData>>
messages == <<pending, wake, sender>>
aliveVars == <<options, clocks, timerLoop, messages, signaller, link, stalled, over, closed>>

PingInterval == options.pingInterval  \* pushed to the client; also the server's own
PingRestart == options.pingRestart    \* the client's, 0 when unset, and so are the others
PingExit == options.pingExit
ServerPingRestart == options.serverPingRestart
InactiveTimeout == options.inactiveTimeout
InactiveMinimumBytes == options.inactiveMinimumBytes
SessionTimeout == options.sessionTimeout

\* The environment: what the ends and the network put on the link besides pings, the ends
\* that write it (one of a kind under way at a time), the seconds a packet may take, whether
\* packets are lost and writes refused, and whether the link may stop taking packets.
Kinds == options.kinds
Writers == options.writers
Delay == options.delay
Lossy == options.lossy
Stalls == options.stalls

\* An age grows no further than its limit can tell, and not at all without one.
Older(age, limit) == IF limit > 0 /\ age < limit + 2 THEN age + 1 ELSE age

SilenceLimit(e) ==
  IF e = "server" THEN ServerPingRestart
  ELSE IF PingExit > PingRestart THEN PingExit ELSE PingRestart

IdleLoop == [step |-> "idle"]

AliveInit ==
  /\ options \in Options
  /\ sinceInbound = [e \in Ends |-> 0] /\ sinceOutbound = [e \in Ends |-> 0]
  /\ sinceReset = 0 /\ accumulator = 0 /\ sinceStart = 0 /\ sinceData = 0
  /\ timerLoop = [e \in Ends |-> IdleLoop]
  /\ pending = [e \in Ends |-> {}]
  /\ wake = [e \in Ends |-> FALSE]
  /\ sender = [e \in Ends |-> [step |-> "none"]]
  /\ signaller = [e \in Ends |-> FALSE]
  /\ link = {} /\ stalled = FALSE
  /\ over = [e \in Ends |-> "running"]
  /\ closed = [e \in Ends |-> FALSE]

Running(e) == over[e] = "running"

-----------------------------------------------------------------------------
(* The sender of pings and OCC messages *)

\* dataChannelMessages starts the sender on its first use; sendPing and sendOCCMessage
\* note what to send under the lock, and the newest OCC message replaces an older one.
Ask(e, message) ==
  IF closed[e] THEN UNCHANGED <<pending, sender>>
  ELSE /\ pending' = [pending EXCEPT ![e] = @ \cup {message}]
       /\ sender' = IF sender[e].step = "none" THEN [sender EXCEPT ![e] = [step |-> "wait"]]
                    ELSE sender

\* signal: the channel has room for one, a second is dropped.
Signal(e) == wake' = [wake EXCEPT ![e] = TRUE]

\* runLoop: either case of the select when both are ready.
SenderWakes(e) ==
  /\ sender[e].step = "wait"
  /\ \/ /\ wake[e]
        /\ wake' = [wake EXCEPT ![e] = FALSE]
        /\ sender' = [sender EXCEPT ![e] = [step |-> "take"]]
     \/ /\ closed[e]
        /\ sender' = [sender EXCEPT ![e] = [step |-> "end"]]
        /\ UNCHANGED wake
  /\ UNCHANGED <<clocks, timerLoop, pending, signaller, link, stalled, over, closed>>

\* takePendingMessage: a ping comes before an OCC message.
SenderTakes(e) ==
  /\ sender[e].step = "take"
  /\ IF pending[e] = {}
     THEN sender' = [sender EXCEPT ![e] = [step |-> "wait"]] /\ UNCHANGED pending
     ELSE LET message == IF "ping" \in pending[e] THEN "ping" ELSE "occReply"
          IN  /\ pending' = [pending EXCEPT ![e] = @ \ {message}]
              /\ sender' = [sender EXCEPT ![e] = [step |-> "write", kind |-> message]]
  /\ UNCHANGED <<clocks, timerLoop, wake, signaller, link, stalled, over, closed>>

\* A packet the link takes; Close fails the writes on the connection it closes.
Sent(e, kind) ==
  IF closed[e] THEN UNCHANGED <<link, sinceOutbound>>
  ELSE \/ /\ link' = link \cup {[to |-> Other(e), kind |-> kind, age |-> 0]}
          /\ sinceOutbound' = [sinceOutbound EXCEPT ![e] = 0]
       \/ /\ Lossy
          /\ UNCHANGED <<link, sinceOutbound>>

SenderWrites(e) ==
  /\ sender[e].step = "write" /\ (stalled => closed[e])
  /\ sender' = [sender EXCEPT ![e] = [step |-> "take"]]
  /\ Sent(e, sender[e].kind)
  /\ UNCHANGED <<sinceInbound, sinceReset, accumulator, sinceStart, sinceData, timerLoop, pending,
                 wake, signaller, stalled, over, closed>>

-----------------------------------------------------------------------------
(* The loops *)

\* finish(err) of the client, Close of the server.
Finish(e, reason) == over' = [over EXCEPT ![e] = IF @ = "running" THEN reason ELSE @]

\* Close, after which the session neither asks nor sends.
Shutdown(e) ==
  /\ ~Running(e) /\ ~closed[e]
  /\ closed' = [closed EXCEPT ![e] = TRUE]
  /\ pending' = [pending EXCEPT ![e] = {}]
  /\ UNCHANGED <<clocks, timerLoop, wake, sender, signaller, link, stalled, over>>

\* The ticker fires: the loop reads the activity under its lock, and the clock.
LoopReads(e) ==
  /\ timerLoop[e].step = "due"
  /\ timerLoop' = [timerLoop EXCEPT ![e] =
                IF closed[e] THEN IdleLoop
                ELSE [step |-> "decide", inbound |-> sinceInbound[e],
                      outbound |-> sinceOutbound[e], reset |-> sinceReset]]
  /\ UNCHANGED <<clocks, messages, signaller, link, stalled, over, closed>>

\* What now.Sub(stamp) > limit, or >= limit, may say of a stamp of this age: time.Now() of the
\* stamp and of the tick are age - 1 to age + 1 seconds apart.  A limit of 0 is unset.
Passed(age, limit) ==
  IF limit = 0 THEN {FALSE} ELSE IF age = limit THEN BOOLEAN ELSE {age > limit}

shouldExitForPingTimeout(read, threshold) == Passed(read.inbound, threshold)

shouldExitForInactivityTimeout(read) == Passed(read.reset, InactiveTimeout)

effectiveClientPingTimeout ==
  IF PingExit > 0 THEN [after |-> PingExit, action |-> "pingExit"]
  ELSE [after |-> PingRestart, action |-> "pingRestart"]

\* The checks of the client's loop that end the session, in their order.
ClientVerdict(aged, inactive, silent) ==
  CASE aged -> "sessionTimeout"
    [] ~aged /\ inactive -> "inactive"
    [] ~aged /\ ~inactive /\ silent -> effectiveClientPingTimeout.action
    [] OTHER -> "running"

ClientVerdicts(read) ==
  {ClientVerdict(aged, inactive, silent) :
     aged \in Passed(sinceStart, SessionTimeout),
     inactive \in shouldExitForInactivityTimeout(read),
     silent \in shouldExitForPingTimeout(read, effectiveClientPingTimeout.after)}

ServerVerdicts(read) ==
  {IF silent THEN "pingRestart" ELSE "running" :
     silent \in shouldExitForPingTimeout(read, ServerPingRestart)}

Verdicts(e, read) == IF e = "client" THEN ClientVerdicts(read) ELSE ServerVerdicts(read)

\* Mutant: the ping waits for one second more.
PingDueLate(read) == IF PingInterval > 0 THEN Passed(read.outbound, PingInterval + 1) ELSE {FALSE}

PingDue(read) == Passed(read.outbound, PingInterval)

\* What the loop does about a verdict: end the session, or ask for a ping that is due.
Decides(e, verdict, due) ==
  IF verdict # "running"
  THEN /\ Finish(e, verdict) /\ timerLoop' = [timerLoop EXCEPT ![e] = IdleLoop]
       /\ UNCHANGED <<pending, sender>>
  ELSE /\ UNCHANGED over
       /\ IF due
          THEN Ask(e, "ping") /\ timerLoop' = [timerLoop EXCEPT ![e] = [step |-> "signal"]]
          ELSE timerLoop' = [timerLoop EXCEPT ![e] = IdleLoop] /\ UNCHANGED <<pending, sender>>

\* Mutant: the loop itself writes the ping, and misses its ticks while the link holds it.
LoopDecidesInTurn(e) ==
  LET read == timerLoop[e]
  IN  /\ read.step = "decide"
      /\ IF sender[e].step = "write" /\ stalled
         THEN timerLoop' = [timerLoop EXCEPT ![e] = IdleLoop] /\ UNCHANGED <<pending, sender, over>>
         ELSE \E verdict \in Verdicts(e, read), due \in PingDue(read) : Decides(e, verdict, due)
      /\ UNCHANGED <<clocks, wake, signaller, link, stalled, closed>>

LoopDecides(e) ==
  LET read == timerLoop[e]
  IN  /\ read.step = "decide"
      /\ \E verdict \in Verdicts(e, read), due \in PingDue(read) : Decides(e, verdict, due)
      /\ UNCHANGED <<clocks, wake, signaller, link, stalled, closed>>

LoopSignals(e) ==
  /\ timerLoop[e].step = "signal"
  /\ Signal(e)
  /\ timerLoop' = [timerLoop EXCEPT ![e] = IdleLoop]
  /\ UNCHANGED <<clocks, pending, sender, signaller, link, stalled, over, closed>>

-----------------------------------------------------------------------------
(* Traffic *)

\* registerInactivityBytes, with one byte to a payload: shouldResetInactivityTimer.
RegisterInactivityBytes(e) ==
  IF e = "server" THEN UNCHANGED <<sinceReset, accumulator>>
  ELSE LET reset == accumulator + 1 >= InactiveMinimumBytes
       IN  /\ accumulator' = IF reset THEN 0 ELSE accumulator + 1
           /\ sinceReset' = IF reset THEN 0 ELSE sinceReset

\* The history of payloads.
Moved(e, kind) == sinceData' = IF e = "client" /\ kind = "data" THEN 0 ELSE sinceData

\* The application or the control channel writes; on a stalled link it waits.
Write(e) ==
  /\ e \in Writers /\ Running(e) /\ ~closed[e] /\ ~stalled
  /\ \E kind \in Kinds :
       /\ \A p \in link : p.to = e \/ p.kind # kind
       /\ Sent(e, kind)
       /\ IF link' # link THEN Moved(e, kind) ELSE UNCHANGED sinceData
       /\ IF kind = "data" /\ link' # link THEN RegisterInactivityBytes(e)
          ELSE UNCHANGED <<sinceReset, accumulator>>
  /\ UNCHANGED <<sinceInbound, sinceStart, timerLoop, messages, signaller, stalled, over, closed>>

\* handleIncomingDataPackets and, for control packets, the observer of the control
\* channel.  A packet that does not decrypt is dropped before anything counts it; every
\* other one shows that the peer is there, an incomplete fragment too, but only a
\* payload for the tunnel is activity.
Read(e, kind) ==
  /\ sinceInbound' = IF kind = "damaged" THEN sinceInbound ELSE [sinceInbound EXCEPT ![e] = 0]
  /\ Moved(e, kind)
  /\ IF kind = "data" THEN RegisterInactivityBytes(e) ELSE UNCHANGED <<sinceReset, accumulator>>
  /\ IF kind = "exit" THEN Finish(e, "peerExit") ELSE UNCHANGED over
  /\ IF kind = "occRequest"
     THEN Ask(e, "occReply") /\ signaller' = [signaller EXCEPT ![e] = TRUE]
     ELSE UNCHANGED <<pending, sender, signaller>>

Receive(e) ==
  /\ ~signaller[e]
  /\ \E p \in link :
       /\ p.to = e
       /\ link' = link \ {p}
       /\ IF closed[e] THEN UNCHANGED <<sinceInbound, sinceReset, accumulator, sinceData, over,
                                        pending, sender, signaller>>
          ELSE Read(e, p.kind)
  /\ UNCHANGED <<sinceOutbound, sinceStart, timerLoop, wake, stalled, closed>>

ReaderSignals(e) ==
  /\ signaller[e]
  /\ Signal(e)
  /\ signaller' = [signaller EXCEPT ![e] = FALSE]
  /\ UNCHANGED <<clocks, timerLoop, pending, sender, link, stalled, over, closed>>

-----------------------------------------------------------------------------
(* The link and the clock *)

Lose ==
  /\ Lossy
  /\ \E p \in link : link' = link \ {p}
  /\ UNCHANGED <<clocks, timerLoop, messages, signaller, stalled, over, closed>>

Stall ==
  /\ Stalls /\ stalled' = ~stalled
  /\ UNCHANGED <<clocks, timerLoop, messages, signaller, link, over, closed>>

\* Nothing that can run in this second is left.
Settled ==
  /\ \A e \in Ends :
       /\ timerLoop[e].step = "idle" /\ ~signaller[e]
       /\ ~Running(e) => closed[e]
       /\ sender[e].step # "take"
       /\ sender[e].step = "wait" => ~wake[e] /\ ~closed[e]
       /\ sender[e].step = "write" => stalled /\ ~closed[e]
  /\ \A p \in link : p.age < Delay

Second ==
  /\ Settled
  /\ sinceInbound' = [e \in Ends |-> Older(sinceInbound[e], SilenceLimit(e))]
  /\ sinceOutbound' = [e \in Ends |-> Older(sinceOutbound[e], PingInterval)]
  /\ sinceReset' = Older(sinceReset, InactiveTimeout)
  /\ sinceData' = Older(sinceData, InactiveTimeout)
  /\ sinceStart' = Older(sinceStart, SessionTimeout)
  /\ timerLoop' = [e \in Ends |-> IF Running(e) THEN [step |-> "due"] ELSE IdleLoop]
  /\ link' = {[p EXCEPT !.age = @ + 1] : p \in link}
  /\ UNCHANGED <<accumulator, messages, signaller, stalled, over, closed>>

AliveNext ==
  /\ \/ Lose \/ Stall \/ Second
     \/ \E e \in Ends :
          \/ SenderWakes(e) \/ SenderTakes(e) \/ SenderWrites(e) \/ Shutdown(e)
          \/ LoopReads(e) \/ LoopDecides(e) \/ LoopSignals(e)
          \/ Write(e) \/ Receive(e) \/ ReaderSignals(e)
  /\ UNCHANGED options

AliveSpec == AliveInit /\ [][AliveNext]_aliveVars

-----------------------------------------------------------------------------
(* Properties *)

\* The variables hold what their comments say, and a packet is delivered in time.
TypeOK ==
  /\ \A e \in Ends : /\ sinceInbound[e] \in 0..SilenceLimit(e) + 2
                     /\ sinceOutbound[e] \in 0..PingInterval + 2
                     /\ pending[e] \subseteq {"ping", "occReply"}
                     /\ closed[e] => pending[e] = {}
  /\ {sinceReset, sinceData} \subseteq 0..InactiveTimeout + 2
  /\ sinceStart \in 0..SessionTimeout + 2
  /\ accumulator \in 0..InactiveMinimumBytes
  /\ \A p \in link : p.age <= Delay

Timeout(e) == IF e = "server" THEN ServerPingRestart ELSE effectiveClientPingTimeout.after

\* The longest that an end which pings sends nothing: a tick may find the last packet just short
\* of PingInterval, and the next tick comes a second later.
PingPeriod == PingInterval + 1

\* A link that loses and damages nothing, with timeouts that leave a ping its time.
LinkWorks ==
  /\ ~Lossy /\ ~Stalls /\ "damaged" \notin Kinds
  /\ PingInterval > 0
  /\ \A e \in Ends : Timeout(e) > 0 => PingPeriod + Delay < Timeout(e)

\* Neither end takes the other for dead unless it has ended: the pings of runLoop come in time.
NeverTakenForDead ==
  LinkWorks =>
    \A e \in Ends : over[e] \in {"pingRestart", "pingExit"} => ~Running(Other(e))

\* A peer that has fallen silent ends the session within a second of its limit, also
\* while a stalled link holds a ping (keepalive.go: it "never stops a timer").
SilenceBounded == \A e \in Ends : Running(e) => sinceInbound[e] <= Timeout(e) + 1

\* Pings and control packets keep no client: within a second after InactiveTimeout without
\* payloads, or after the age of SessionTimeout, the client's session ends.
ClientTimersFire ==
  Running("client") => /\ InactiveTimeout > 0 => sinceData <= InactiveTimeout + 1
                       /\ SessionTimeout > 0 => sinceStart <= SessionTimeout + 1

\* A sender that waits has nothing left to send: no ping or reply stays behind for want
\* of a signal.
NothingLeftBehind ==
  \A e \in Ends :
    sender[e].step = "wait" /\ ~wake[e] /\ ~signaller[e] /\ timerLoop[e].step # "signal"
      => pending[e] = {}

\* Over a link that works, however idle, neither end takes the other for dead unless it has
\* ended, and a sender that waits has nothing left to send (runLoop, dataChannelMessageSender).
IdleTunnelLives == NeverTakenForDead /\ NothingLeftBehind

\* keepalive.go, it "never stops a timer": a peer that has fallen silent ends the session
\* within a second of its limit, also while a stalled link holds a ping, and pings and control
\* packets keep no client that moves no payload or has reached its age.
TimersFire == TypeOK /\ SilenceBounded /\ ClientTimersFire

-----------------------------------------------------------------------------
(* The inductive invariant *)

PacketKinds == {"ping", "occRequest", "occReply", "data", "control", "fragment", "exit", "damaged"}

LoopStates == [step : {"idle", "due", "signal"}] \cup
              [step : {"decide"}, inbound : Nat, outbound : Nat, reset : Nat]
SenderStates == [step : {"none", "wait", "take", "end"}] \cup
                [step : {"write"}, kind : {"ping", "occReply"}]
Packets == [to : Ends, kind : PacketKinds, age : Nat]

Typed ==
  /\ options \in Options
  /\ sinceInbound \in [Ends -> Nat] /\ sinceOutbound \in [Ends -> Nat]
  /\ sinceReset \in Nat /\ accumulator \in Nat /\ sinceStart \in Nat /\ sinceData \in Nat
  /\ timerLoop \in [Ends -> LoopStates]
  /\ pending \in [Ends -> SUBSET {"ping", "occReply"}]
  /\ wake \in [Ends -> BOOLEAN] /\ signaller \in [Ends -> BOOLEAN]
  /\ sender \in [Ends -> SenderStates]
  /\ link \subseteq Packets
  /\ stalled \in BOOLEAN
  /\ over \in [Ends -> {"running", "sessionTimeout", "inactive", "pingRestart", "pingExit", "peerExit"}]
  /\ closed \in [Ends -> BOOLEAN]

\* What a loop has read is no younger than what is true by now.  A loop that has decided has
\* left no limit behind it.
Checked(e) == timerLoop[e].step \in {"idle", "signal"}

LoopsTrue ==
  /\ \A e \in Ends :
       /\ closed[e] => ~Running(e)
       /\ timerLoop[e].step = "decide" =>
            /\ sinceInbound[e] <= timerLoop[e].inbound /\ sinceOutbound[e] <= timerLoop[e].outbound
            /\ e = "client" => sinceReset <= timerLoop[e].reset
       /\ Running(e) /\ Checked(e) => sinceInbound[e] <= Timeout(e)
       /\ Timeout(e) = 0 => sinceInbound[e] = 0
  /\ sinceData <= sinceReset
  /\ Running("client") =>
       /\ InactiveTimeout > 0 =>
            sinceReset <= InactiveTimeout + 1 /\ (Checked("client") => sinceReset <= InactiveTimeout)
       /\ SessionTimeout > 0 =>
            sinceStart <= SessionTimeout + 1 /\ (Checked("client") => sinceStart <= SessionTimeout)

\* An end that runs has sent something within PingPeriod, or is about to.
Pings(e) ==
  /\ sinceOutbound[e] <= PingPeriod
  /\ sinceOutbound[e] = PingPeriod =>
       timerLoop[e].step \in {"due", "decide"} \/ "ping" \in pending[e] \/ sender[e].step = "write"

\* What has reached an end is as new as the last packet sent to it, or is at most
\* PingPeriod older than one that is under way.
Hears(e) ==
  \/ sinceInbound[e] <= sinceOutbound[Other(e)]
  \/ \E p \in link : p.to = e /\ sinceInbound[e] <= p.age + PingPeriod

LinkTrue ==
  /\ ~stalled
  /\ \A p \in link : p.kind # "damaged"
  /\ \A e \in Ends :
       /\ Running(e) => Pings(e)
       /\ Running(e) /\ Running(Other(e)) =>
            /\ Hears(e)
            /\ timerLoop[e].step = "decide" => timerLoop[e].inbound <= PingPeriod + Delay

SendersTrue ==
  \A e \in Ends :
    (sender[e].step = "none" => pending[e] = {}) /\ (sender[e].step = "end" => closed[e])

AliveInv ==
  /\ Typed /\ TypeOK /\ LoopsTrue /\ SilenceBounded
  /\ SendersTrue /\ NothingLeftBehind
  /\ LinkWorks => LinkTrue
  /\ NeverTakenForDead
=============================================================================
