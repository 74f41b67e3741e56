--------------------------- MODULE KeepaliveProofs ---------------------------
(***************************************************************************)
(* IdleTunnelLives and TimersFire of Keepalive for every set of options:   *)
(* any intervals, timeouts and limits, any traffic, and links of any delay *)
(* that lose, damage or hold packets.                                      *)
(*                                                                         *)
(* A loop decides on ages it read earlier.  The invariant says that they   *)
(* were no younger than the ages of now (LoopsTrue), that what a sender is *)
(* asked for has a signal or somebody about to give one                    *)
(* (NothingLeftBehind) and, over a link that works, that an end that runs  *)
(* has sent within PingPeriod or is about to (Pings), and that the other   *)
(* has heard it or a packet under way will tell it (Hears).                *)
(***************************************************************************)
EXTENDS Keepalive, TLAPS

\* The prover of a leaf that names none.
USE Zenon

\* What the options are.
LEMMA AliveNumbers ==
  ASSUME Typed
  PROVE  /\ PingInterval \in Nat /\ PingPeriod \in Nat /\ PingPeriod = PingInterval + 1
         /\ PingRestart \in Nat /\ PingExit \in Nat
         /\ ServerPingRestart \in Nat /\ InactiveTimeout \in Nat
         /\ InactiveMinimumBytes \in Nat /\ SessionTimeout \in Nat
         /\ Delay \in Nat /\ Lossy \in BOOLEAN /\ Stalls \in BOOLEAN
         /\ Kinds \subseteq PacketKinds
         /\ \A e \in Ends : Timeout(e) \in Nat /\ SilenceLimit(e) \in Nat
<1>1. options \in [pingInterval : Nat, pingRestart : Nat, pingExit : Nat,
        serverPingRestart : Nat, inactiveTimeout : Nat, inactiveMinimumBytes : Nat,
        sessionTimeout : Nat,
        kinds : SUBSET {"occRequest", "occReply", "data", "control", "fragment", "exit", "damaged"},
        writers : SUBSET {"client", "server"}, delay : Nat, lossy : BOOLEAN, stalls : BOOLEAN]
  BY OptionsAssumption DEF Typed
<1>2. /\ PingInterval \in Nat /\ PingRestart \in Nat /\ PingExit \in Nat
      /\ ServerPingRestart \in Nat /\ InactiveTimeout \in Nat
      /\ InactiveMinimumBytes \in Nat /\ SessionTimeout \in Nat
      /\ Delay \in Nat /\ Lossy \in BOOLEAN /\ Stalls \in BOOLEAN
  BY <1>1 DEF PingInterval, PingRestart, PingExit, ServerPingRestart,
       InactiveTimeout, InactiveMinimumBytes, SessionTimeout, Delay,
       Lossy, Stalls
<1>3. Kinds \subseteq PacketKinds
  BY <1>1 DEF Kinds, PacketKinds
<1>4. \A e \in Ends : Timeout(e) \in Nat /\ SilenceLimit(e) \in Nat
  BY <1>2 DEF Timeout, SilenceLimit, effectiveClientPingTimeout, Ends
<1>5. PingPeriod \in Nat /\ PingPeriod = PingInterval + 1
  BY <1>2, SMT DEF PingPeriod
<1> QED BY <1>2, <1>3, <1>4, <1>5

\* A step leaves the options alone, and what is read from them.
LEMMA OptionsKept ==
  ASSUME UNCHANGED options
  PROVE  /\ UNCHANGED <<PingInterval, PingPeriod, PingRestart, PingExit,
              ServerPingRestart, InactiveTimeout, InactiveMinimumBytes,
              SessionTimeout, Delay, Lossy, Stalls, Kinds,
              effectiveClientPingTimeout>>
         /\ \A e : Timeout(e)' = Timeout(e)
         /\ \A e : SilenceLimit(e)' = SilenceLimit(e)
         /\ LinkWorks' = LinkWorks
BY DEF PingInterval, PingPeriod, PingRestart, PingExit, ServerPingRestart,
       InactiveTimeout, InactiveMinimumBytes, SessionTimeout, Delay,
       Lossy, Stalls, Timeout, SilenceLimit, Kinds,
       effectiveClientPingTimeout, LinkWorks

\* The states of a loop, made and read.
LEMMA LoopStatesMade ==
  /\ [step |-> "due"] \in LoopStates /\ [step |-> "signal"] \in LoopStates
  /\ IdleLoop \in LoopStates /\ IdleLoop.step = "idle"
  /\ \A i, o, r \in Nat : [step |-> "decide", inbound |-> i, outbound |-> o, reset |-> r]
                             \in LoopStates
BY DEF LoopStates, IdleLoop

\* What can be read from the state of a loop.
LEMMA LoopStatesRead ==
  \A l \in LoopStates :
       /\ l.step \in {"idle", "due", "signal", "decide"}
       /\ l.step = "decide" => l.inbound \in Nat /\ l.outbound \in Nat /\ l.reset \in Nat
BY DEF LoopStates, IdleLoop

\* The same of a sender, and of the packets on the link.
LEMMA SenderStatesMade ==
  /\ [step |-> "wait"] \in SenderStates /\ [step |-> "take"] \in SenderStates
  /\ [step |-> "end"] \in SenderStates /\ [step |-> "none"] \in SenderStates
  /\ \A m \in {"ping", "occReply"} : [step |-> "write", kind |-> m] \in SenderStates
BY DEF SenderStates

\* What can be read from the state of a sender.
LEMMA SenderStatesRead ==
  \A s \in SenderStates :
       /\ s.step \in {"none", "wait", "take", "end", "write"}
       /\ s.step = "write" => s.kind \in {"ping", "occReply"}
BY DEF SenderStates

\* A packet that is put on the link.
LEMMA PacketsMade ==
  \A e \in Ends, k \in PacketKinds :
    [to |-> e, kind |-> k, age |-> 0] \in Packets
BY DEF Packets

\* What can be read from a packet, also when it has aged.
LEMMA PacketsRead ==
  \A p \in Packets :
       /\ p.to \in Ends /\ p.kind \in PacketKinds /\ p.age \in Nat
       /\ [p EXCEPT !.age = @ + 1] \in Packets
       /\ [p EXCEPT !.age = @ + 1].to = p.to /\ [p EXCEPT !.age = @ + 1].kind = p.kind
       /\ [p EXCEPT !.age = @ + 1].age = p.age + 1
BY SMT DEF Packets

\* There are two ends.
LEMMA OtherEnd ==
  ASSUME NEW e \in Ends
  PROVE  /\ Other(e) \in Ends /\ Other(e) # e
         /\ Other(Other(e)) = e
         /\ \A f \in Ends : f = e \/ f = Other(e)
         /\ "client" \in Ends
BY DEF Ends, Other

\* An age grows by a second at most, and up to two seconds past its limit.
LEMMA OlderAge ==
  ASSUME NEW age \in Nat, NEW limit \in Nat
  PROVE  /\ Older(age, limit) \in Nat
         /\ age <= Older(age, limit) /\ Older(age, limit) <= age + 1
         /\ age <= limit + 2 => Older(age, limit) <= limit + 2
         /\ limit = 0 => Older(age, limit) = age
         /\ limit > 0 /\ age < limit + 2 => Older(age, limit) = age + 1
BY SMT DEF Older

\* Sending, asking and counting keep the types.
LEMMA SentTyped ==
  ASSUME Typed, NEW e \in Ends, NEW k \in PacketKinds, Sent(e, k)
  PROVE  link' \subseteq Packets /\ sinceOutbound' \in [Ends -> Nat]
<1>1. [to |-> Other(e), kind |-> k, age |-> 0] \in Packets
  BY PacketsMade, OtherEnd
<1> DEFINE new == [to |-> Other(e), kind |-> k, age |-> 0]
<1>2. new \in Packets BY <1>1
<1>3. \/ UNCHANGED <<link, sinceOutbound>>
      \/ link' = link \cup {new} /\ sinceOutbound' = [sinceOutbound EXCEPT ![e] = 0]
  BY DEF Sent
<1>4. link \subseteq Packets /\ sinceOutbound \in [Ends -> Nat] BY DEF Typed
<1> HIDE DEF new
<1> QED BY <1>2, <1>3, <1>4, SMT

\* Asking a sender for a message keeps the types of its state.
LEMMA AskTyped ==
  ASSUME Typed, NEW e \in Ends, NEW m \in {"ping", "occReply"}, Ask(e, m)
  PROVE  /\ pending' \in [Ends -> SUBSET {"ping", "occReply"}]
         /\ sender' \in [Ends -> SenderStates]
<1>1. UNCHANGED sender \/ \E s \in SenderStates : sender' = [sender EXCEPT ![e] = s]
  BY SenderStatesMade DEF Ask
<1>2. UNCHANGED pending \/ pending' = [pending EXCEPT ![e] = @ \cup {m}]
  BY DEF Ask
<1>3. pending \in [Ends -> SUBSET {"ping", "occReply"}] BY DEF Typed
<1>4. pending' \in [Ends -> SUBSET {"ping", "occReply"}] BY <1>2, <1>3
<1>5. sender \in [Ends -> SenderStates] BY DEF Typed
<1> QED BY <1>1, <1>4, <1>5

\* Counting bytes keeps the types of the counters.
LEMMA CountTyped ==
  ASSUME Typed, NEW e
  PROVE  /\ \A k : Moved(e, k) => sinceData' \in Nat
         /\ RegisterInactivityBytes(e) => sinceReset' \in Nat /\ accumulator' \in Nat
<1>1. sinceData \in Nat /\ sinceReset \in Nat /\ accumulator \in Nat BY DEF Typed
<1> QED BY <1>1, SMT DEF Moved, RegisterInactivityBytes

\* What a comparison of an age with a limit may say: yes only at the limit or past it, and no
\* only up to it.
LEMMA PassedOrNot ==
  ASSUME NEW age \in Nat, NEW limit \in Nat, NEW b \in Passed(age, limit)
  PROVE  /\ b \in BOOLEAN
         /\ b => limit > 0 /\ age >= limit
         /\ ~b => limit = 0 \/ age <= limit
<1>1. CASE limit = 0 BY <1>1 DEF Passed
<1>2. CASE limit # 0 /\ age = limit
  <2>1. b \in BOOLEAN BY <1>2 DEF Passed
  <2>2. limit > 0 /\ age >= limit /\ age <= limit BY <1>2, SMT
  <2> QED BY <2>1, <2>2
<1>3. CASE limit # 0 /\ age # limit
  <2>1. b = (age > limit) BY <1>3 DEF Passed
  <2>2. limit > 0 /\ (age > limit) \in BOOLEAN /\ (age > limit => age >= limit) /\ (~(age > limit) => age <= limit)
    BY <1>3, SMT
  <2> QED BY <2>1, <2>2
<1> QED BY <1>1, <1>2, <1>3

\* What the checks of the loops may say.
LEMMA VerdictsTyped ==
  ASSUME NEW e, NEW read
  PROVE  Verdicts(e, read) \subseteq
           {"running", "sessionTimeout", "inactive", "pingRestart", "pingExit"}
<1>1. effectiveClientPingTimeout.action \in {"pingRestart", "pingExit"}
  BY DEF effectiveClientPingTimeout
<1>2. \A aged, inactive, silent : ClientVerdict(aged, inactive, silent) \in
        {"running", "sessionTimeout", "inactive", "pingRestart", "pingExit"}
  BY <1>1 DEF ClientVerdict
<1>3. ClientVerdicts(read) \subseteq {"running", "sessionTimeout", "inactive", "pingRestart", "pingExit"}
  BY <1>2, SMT DEF ClientVerdicts
<1> QED BY <1>3 DEF Verdicts, ServerVerdicts

\* The types are kept by every step.
LEMMA TypedStep ==
  ASSUME Typed, AliveNext
  PROVE  Typed'
<1> USE AliveNumbers
<1>0. UNCHANGED options BY DEF AliveNext
<1>t. options \in Options BY DEF Typed
<1>1. CASE Lose BY <1>0, <1>1 DEF Lose, Typed, clocks, messages
<1>2. CASE Stall BY <1>0, <1>2 DEF Stall, Typed, clocks, messages
<1>3. CASE Second
  <2>1. \A e \in Ends : /\ Older(sinceInbound[e], SilenceLimit(e)) \in Nat
                        /\ Older(sinceOutbound[e], PingInterval) \in Nat
    BY OlderAge DEF Typed
  <2>2. sinceInbound' \in [Ends -> Nat] /\ sinceOutbound' \in [Ends -> Nat]
    BY <1>3, <2>1 DEF Second
  <2>3. sinceReset' \in Nat /\ sinceStart' \in Nat /\ sinceData' \in Nat
    BY <1>3, OlderAge DEF Second, Typed
  <2>4. link' \subseteq Packets
    <3>1. link' = {[p EXCEPT !.age = @ + 1] : p \in link} BY <1>3 DEF Second
    <3>2. link \subseteq Packets BY DEF Typed
    <3> QED BY <3>1, <3>2, PacketsRead
  <2>5. timerLoop' \in [Ends -> LoopStates]
    BY <1>3, LoopStatesMade DEF Second
  <2> QED BY <1>0, <1>3, <2>2, <2>3, <2>4, <2>5 DEF Second, Typed, messages
<1>4. ASSUME NEW e \in Ends, SenderWakes(e) PROVE Typed'
  <2>1. wake' \in [Ends -> BOOLEAN]
    BY <1>4 DEF SenderWakes, Typed
  <2>2. \E s \in SenderStates : sender' = [sender EXCEPT ![e] = s]
    BY <1>4, SenderStatesMade DEF SenderWakes
  <2>3. sender' \in [Ends -> SenderStates]
    BY <2>2 DEF Typed
  <2> QED BY <1>0, <1>4, <2>1, <2>3 DEF SenderWakes, Typed, clocks
<1>5. ASSUME NEW e \in Ends, SenderTakes(e) PROVE Typed'
  <2>1. \E s \in SenderStates : sender' = [sender EXCEPT ![e] = s]
    BY <1>5, SenderStatesMade DEF SenderTakes
  <2>2. sender' \in [Ends -> SenderStates]
    BY <2>1 DEF Typed
  <2>3. pending' = pending \/ \E m : pending' = [pending EXCEPT ![e] = @ \ {m}]
    BY <1>5 DEF SenderTakes
  <2>4. pending \in [Ends -> SUBSET {"ping", "occReply"}]
    BY DEF Typed
  <2>5. pending' \in [Ends -> SUBSET {"ping", "occReply"}]
    BY <2>3, <2>4
  <2> QED BY <1>0, <1>5, <2>2, <2>5 DEF SenderTakes, Typed, clocks
<1>6. ASSUME NEW e \in Ends, SenderWrites(e) PROVE Typed'
  <2>1. sender' \in [Ends -> SenderStates] /\ sender[e].kind \in PacketKinds
    BY <1>6, SenderStatesMade, SenderStatesRead DEF SenderWrites, Typed, PacketKinds
  <2>2. link' \subseteq Packets /\ sinceOutbound' \in [Ends -> Nat]
    BY <1>6, <2>1, SentTyped DEF SenderWrites
  <2> QED BY <1>0, <1>6, <2>1, <2>2 DEF SenderWrites, Typed
<1>7. ASSUME NEW e \in Ends, Shutdown(e) PROVE Typed'
  BY <1>0, <1>7 DEF Shutdown, Typed, clocks
<1>8. ASSUME NEW e \in Ends, LoopReads(e) PROVE Typed'
  <2>1. timerLoop' \in [Ends -> LoopStates]
    BY <1>8, LoopStatesMade DEF LoopReads, Typed
  <2> QED BY <1>0, <1>8, <2>1 DEF LoopReads, Typed, clocks, messages
<1>9. ASSUME NEW e \in Ends, LoopDecides(e) PROVE Typed'
  <2>1. timerLoop' \in [Ends -> LoopStates]
    BY <1>9, LoopStatesMade DEF LoopDecides, Decides, Typed
  <2>2. Verdicts(e, timerLoop[e]) \subseteq
          {"running", "sessionTimeout", "inactive", "pingRestart", "pingExit"}
    BY VerdictsTyped
  <2>3. over' \in [Ends -> {"running", "sessionTimeout", "inactive", "pingRestart", "pingExit", "peerExit"}]
    BY <1>9, <2>2 DEF LoopDecides, Decides, Finish, Typed
  <2>4. /\ pending' \in [Ends -> SUBSET {"ping", "occReply"}]
        /\ sender' \in [Ends -> SenderStates]
    <3>1. UNCHANGED <<pending, sender>> \/ Ask(e, "ping")
      BY <1>9 DEF LoopDecides, Decides
    <3> QED BY <3>1, AskTyped DEF Typed
  <2> QED BY <1>0, <1>9, <2>1, <2>3, <2>4 DEF LoopDecides, Typed, clocks
<1>10. ASSUME NEW e \in Ends, LoopSignals(e) PROVE Typed'
  <2>1. timerLoop' \in [Ends -> LoopStates]
    BY <1>10, LoopStatesMade DEF LoopSignals, Typed
  <2> QED BY <1>0, <1>10, <2>1 DEF LoopSignals, Signal, Typed, clocks
<1>11. ASSUME NEW e \in Ends, Write(e) PROVE Typed'
  <2>1. PICK k \in Kinds : Sent(e, k)
    BY <1>11 DEF Write
  <2>2. link' \subseteq Packets /\ sinceOutbound' \in [Ends -> Nat]
    BY <2>1, SentTyped
  <2>3. /\ UNCHANGED sinceData \/ \E l : Moved(e, l)
        /\ UNCHANGED <<sinceReset, accumulator>> \/ RegisterInactivityBytes(e)
    BY <1>11 DEF Write
  <2>4. sinceReset' \in Nat /\ accumulator' \in Nat /\ sinceData' \in Nat
    BY <2>3, CountTyped DEF Typed
  <2> QED BY <1>0, <1>11, <2>2, <2>4 DEF Write, Typed, messages
<1>12. ASSUME NEW e \in Ends, Receive(e) PROVE Typed'
  <2>1. PICK p \in link :
          /\ link' = link \ {p}
          /\ \/ /\ closed[e]
                /\ UNCHANGED <<sinceInbound, sinceReset, accumulator, sinceData, over,
                               pending, sender, signaller>>
             \/ ~closed[e] /\ Read(e, p.kind)
    BY <1>12 DEF Receive
  <2>2. /\ UNCHANGED sinceData \/ \E l : Moved(e, l)
        /\ UNCHANGED <<sinceReset, accumulator>> \/ RegisterInactivityBytes(e)
        /\ UNCHANGED <<pending, sender>> \/ Ask(e, "occReply")
        /\ UNCHANGED signaller \/ signaller' = [signaller EXCEPT ![e] = TRUE]
        /\ UNCHANGED sinceInbound \/ sinceInbound' = [sinceInbound EXCEPT ![e] = 0]
    BY <2>1 DEF Read
  <2>6. sinceInbound' \in [Ends -> Nat] /\ sinceReset' \in Nat /\ accumulator' \in Nat /\ sinceData' \in Nat
    <3>1. sinceReset' \in Nat /\ accumulator' \in Nat /\ sinceData' \in Nat
      BY <2>2, CountTyped DEF Typed
    <3>2. sinceInbound \in [Ends -> Nat] BY DEF Typed
    <3> QED BY <2>2, <3>1, <3>2, SMT
  <2>3. over' \in [Ends -> {"running", "sessionTimeout", "inactive", "pingRestart", "pingExit", "peerExit"}]
    BY <2>1, SMT DEF Read, Finish, Typed
  <2>4. /\ pending' \in [Ends -> SUBSET {"ping", "occReply"}]
        /\ sender' \in [Ends -> SenderStates]
        /\ signaller' \in [Ends -> BOOLEAN]
    BY <2>2, AskTyped DEF Typed
  <2>5. link' \subseteq Packets
    BY <2>1 DEF Typed
  <2> QED BY <1>0, <1>12, <2>6, <2>3, <2>4, <2>5 DEF Receive, Typed
<1>13. ASSUME NEW e \in Ends, ReaderSignals(e) PROVE Typed'
  BY <1>0, <1>13 DEF ReaderSignals, Signal, Typed, clocks
<1> QED BY <1>1, <1>2, <1>3, <1>4, <1>5, <1>6, <1>7, <1>8, <1>9, <1>10, <1>11, <1>12, <1>13
  DEF AliveNext

\* What asking the sender for a message changes.
LEMMA AskEffect ==
  ASSUME Typed, NEW e \in Ends, NEW m \in {"ping", "occReply"}, Ask(e, m)
  PROVE  /\ closed[e] => pending' = pending /\ sender' = sender
         /\ ~closed[e] =>
              /\ pending'[e] = pending[e] \cup {m} /\ sender'[e].step # "none"
              /\ sender[e].step # "none" => sender' = sender
              /\ sender[e].step = "none" => sender'[e].step = "wait"
         /\ \A f \in Ends \ {e} : pending'[f] = pending[f] /\ sender'[f] = sender[f]
<1>1. closed[e] => UNCHANGED <<pending, sender>> BY DEF Ask
<1>2. ASSUME ~closed[e]
      PROVE  /\ pending' = [pending EXCEPT ![e] = @ \cup {m}]
             /\ \/ sender[e].step # "none" /\ sender' = sender
                \/ sender[e].step = "none" /\ sender' = [sender EXCEPT ![e] = [step |-> "wait"]]
  BY <1>2 DEF Ask
<1>3. pending \in [Ends -> SUBSET {"ping", "occReply"}]
  /\ sender \in [Ends -> SenderStates] BY DEF Typed
<1> QED BY <1>1, <1>2, <1>3, SMT

\* A message that is asked for has its signal, whoever asked (signal after sendPing and
\* sendOCCMessage, outside the lock): no step leaves one behind.
LEMMA SenderStep ==
  ASSUME Typed, SendersTrue, NothingLeftBehind, AliveNext
  PROVE  SendersTrue' /\ NothingLeftBehind'
<1> SUFFICES ASSUME NEW f \in Ends
             PROVE  /\ sender'[f].step = "none" => pending'[f] = {}
                    /\ sender'[f].step = "end" => closed'[f]
                    /\ (sender'[f].step = "wait" /\ ~wake'[f] /\ ~signaller'[f] 
                           /\ timerLoop'[f].step # "signal") => pending'[f] = {}
  BY DEF SendersTrue, NothingLeftBehind
<1> DEFINE S == /\ sender[f].step = "none" => pending[f] = {}
                /\ sender[f].step = "end" => closed[f]
                /\ (sender[f].step = "wait" /\ ~wake[f] /\ ~signaller[f] 
                           /\ timerLoop[f].step # "signal") => pending[f] = {}
<1>s. S BY DEF SendersTrue, NothingLeftBehind
<1>t. /\ pending \in [Ends -> SUBSET {"ping", "occReply"}]
      /\ sender \in [Ends -> SenderStates]
      /\ timerLoop \in [Ends -> LoopStates]
      /\ wake \in [Ends -> BOOLEAN] /\ signaller \in [Ends -> BOOLEAN]
      /\ closed \in [Ends -> BOOLEAN]
  BY DEF Typed
<1>1. CASE Lose \/ Stall \/ \E e \in Ends : Write(e)
  <2>1. UNCHANGED <<pending, sender, timerLoop, wake, signaller, closed>>
    BY <1>1 DEF Lose, Stall, Write, messages
  <2> QED BY <1>s, <2>1
<1>3. CASE Second
  <2>1. timerLoop[f].step = "idle" /\ timerLoop'[f].step \in {"due", "idle"}
      /\ UNCHANGED <<pending, sender, wake, signaller, closed>>
    BY <1>3, LoopStatesMade DEF Second, Settled, messages
  <2> QED BY <1>s, <2>1
<1>4. ASSUME NEW e \in Ends, SenderWakes(e) PROVE S'
  BY <1>s, <1>t, <1>4, SMT DEF SenderWakes
<1>5. ASSUME NEW e \in Ends, SenderTakes(e) PROVE S'
  BY <1>s, <1>t, <1>5, SMT DEF SenderTakes
<1>6. ASSUME NEW e \in Ends, SenderWrites(e) PROVE S'
  BY <1>s, <1>t, <1>6 DEF SenderWrites
<1>7. ASSUME NEW e \in Ends, Shutdown(e) PROVE S'
  BY <1>s, <1>t, <1>7 DEF Shutdown
<1>8. ASSUME NEW e \in Ends, LoopReads(e) PROVE S'
  <2>1. timerLoop'[e].step # "signal" /\ timerLoop[e].step # "signal"
    BY <1>t, <1>8, LoopStatesMade DEF LoopReads
  <2>2. f # e => timerLoop'[f] = timerLoop[f] BY <1>t, <1>8 DEF LoopReads
  <2> QED BY <1>s, <1>8, <2>1, <2>2 DEF LoopReads, messages
<1>9. ASSUME NEW e \in Ends, LoopDecides(e) PROVE S'
  <2>1. \/ timerLoop' = [timerLoop EXCEPT ![e] = IdleLoop] /\ UNCHANGED <<pending, sender>>
        \/ timerLoop' = [timerLoop EXCEPT ![e] = [step |-> "signal"]] /\ Ask(e, "ping")
    BY <1>9 DEF LoopDecides, Decides
  <2>2. UNCHANGED <<wake, signaller, closed>> /\ timerLoop[e].step = "decide" BY <1>9 DEF LoopDecides
  <2>3. f # e => timerLoop'[f] = timerLoop[f] BY <1>t, <2>1
  <2>4. CASE UNCHANGED <<pending, sender>> /\ timerLoop' = [timerLoop EXCEPT ![e] = IdleLoop] 
    BY <1>s, <1>t, <2>4, <2>2, <2>3
  <2>5. CASE timerLoop' = [timerLoop EXCEPT ![e] = [step |-> "signal"]] /\ Ask(e, "ping")
    <3>1. timerLoop'[e].step = "signal" BY <1>t, <2>5
    <3> QED BY <1>s, <2>2, <2>3, <2>5, <3>1, AskEffect, SMT
  <2> QED BY <2>1, <2>4, <2>5
<1>10. ASSUME NEW e \in Ends, LoopSignals(e) PROVE S'
  BY <1>s, <1>t, <1>10 DEF LoopSignals, Signal
<1>12. ASSUME NEW e \in Ends, Receive(e) PROVE S'
  <2>1. UNCHANGED <<timerLoop, wake, closed>> /\ ~signaller[e] BY <1>12 DEF Receive
  <2>2. \/ UNCHANGED <<pending, sender, signaller>>
        \/ signaller' = [signaller EXCEPT ![e] = TRUE] /\ Ask(e, "occReply")
    BY <1>12 DEF Receive, Read
  <2>3. CASE signaller' = [signaller EXCEPT ![e] = TRUE] /\ Ask(e, "occReply")
    <3>1. signaller'[e] /\ \A g \in Ends \ {e} : signaller'[g] = signaller[g] BY <1>t, <2>3
    <3> QED BY <1>s, <2>1, <2>3, <3>1, AskEffect, SMT
  <2> QED BY <1>s, <2>1, <2>2, <2>3
<1>13. ASSUME NEW e \in Ends, ReaderSignals(e) PROVE S'
  BY <1>s, <1>t, <1>13 DEF ReaderSignals, Signal
<1> QED BY <1>1, <1>3, <1>4, <1>5, <1>6, <1>7, <1>8, <1>9, <1>10, <1>12, <1>13
  DEF AliveNext

\* What sending a packet changes.
LEMMA SentEffect ==
  ASSUME Typed, NEW e \in Ends, NEW k \in PacketKinds, Sent(e, k)
  PROVE  \/ (closed[e] \/ Lossy) /\ UNCHANGED <<link, sinceOutbound>>
         \/ /\ ~closed[e]
            /\ \E new \in Packets : /\ link' = link \cup {new} /\ new.to = Other(e)
                                    /\ new.kind = k /\ new.age = 0
            /\ sinceOutbound'[e] = 0
            /\ \A f \in Ends \ {e} : sinceOutbound'[f] = sinceOutbound[f]
<1> DEFINE new == [to |-> Other(e), kind |-> k, age |-> 0]
<1>1. new \in Packets BY PacketsMade, OtherEnd
<1>2. new.to = Other(e) /\ new.kind = k /\ new.age = 0 OBVIOUS
<1>3. \/ (closed[e] \/ Lossy) /\ UNCHANGED <<link, sinceOutbound>>
      \/ ~closed[e] /\ link' = link \cup {new} /\ sinceOutbound' = [sinceOutbound EXCEPT ![e] = 0]
  BY DEF Sent
<1>4. sinceOutbound \in [Ends -> Nat] BY DEF Typed
<1> HIDE DEF new
<1> QED BY <1>1, <1>2, <1>3, <1>4

\* What a payload changes of the count of registerInactivityBytes.
LEMMA CountEffect ==
  ASSUME Typed, NEW e \in Ends, RegisterInactivityBytes(e)
  PROVE  /\ e = "server" => UNCHANGED <<sinceReset, accumulator>>
         /\ sinceReset' \in {0, sinceReset}
         /\ accumulator' \in {0, accumulator, accumulator + 1}
         /\ accumulator' # accumulator /\ accumulator' # 0 => accumulator + 1 < InactiveMinimumBytes
<1>1. accumulator \in Nat /\ InactiveMinimumBytes \in Nat BY AliveNumbers DEF Typed
<1> QED BY <1>1, SMT DEF RegisterInactivityBytes

\* What reading a packet changes.
LEMMA ReceiveEffect ==
  ASSUME Typed, NEW e \in Ends, Receive(e)
  PROVE  /\ UNCHANGED <<sinceOutbound, sinceStart, timerLoop, wake, stalled, closed>>
         /\ \E p \in link :
              /\ p.to = e /\ link' = link \ {p}
              /\ closed[e] => UNCHANGED <<sinceInbound, sinceReset, accumulator, sinceData, over>>
              /\ ~closed[e] /\ p.kind = "damaged" => sinceInbound' = sinceInbound
              /\ ~closed[e] /\ p.kind # "damaged" => sinceInbound'[e] = 0
         /\ \A f \in Ends \ {e} : sinceInbound'[f] = sinceInbound[f] /\ over'[f] = over[f]
         /\ over'[e] \in {over[e], "peerExit"}
         /\ over[e] # "running" => over'[e] = over[e]
         /\ sinceInbound'[e] \in {0, sinceInbound[e]}
         /\ UNCHANGED sinceData \/ sinceData' = 0
         /\ \/ UNCHANGED <<sinceReset, accumulator>>
            \/ RegisterInactivityBytes(e) /\ (e = "client" => sinceData' = 0)
         /\ UNCHANGED <<pending, sender>> \/ Ask(e, "occReply")
<1>0. /\ sinceInbound \in [Ends -> Nat]
      /\ over \in [Ends -> {"running", "sessionTimeout", "inactive", "pingRestart", "pingExit", "peerExit"}]
  BY DEF Typed
<1>1. UNCHANGED <<sinceOutbound, sinceStart, timerLoop, wake, stalled, closed>>
  BY DEF Receive
<1>2. PICK p \in link :
          /\ p.to = e /\ link' = link \ {p}
          /\ closed[e] => UNCHANGED <<sinceInbound, sinceReset, accumulator, sinceData, over,
                               pending, sender, signaller>>
          /\ ~closed[e] => Read(e, p.kind)
  BY DEF Receive
<1>3. CASE closed[e]
  BY <1>0, <1>1, <1>2, <1>3
<1>4. CASE ~closed[e]
  <2>1. sinceInbound' = IF p.kind = "damaged" THEN sinceInbound ELSE [sinceInbound EXCEPT ![e] = 0]
    BY <1>2, <1>4 DEF Read
  <2>2. UNCHANGED over \/ over' = [over EXCEPT ![e] = IF @ = "running" THEN "peerExit" ELSE @]
    BY <1>2, <1>4 DEF Read, Finish
  <2>3. /\ UNCHANGED sinceData \/ sinceData' = 0
        /\ \/ UNCHANGED <<sinceReset, accumulator>>
           \/ RegisterInactivityBytes(e) /\ (e = "client" => sinceData' = 0)
        /\ UNCHANGED <<pending, sender>> \/ Ask(e, "occReply")
    BY <1>2, <1>4 DEF Read, Moved
  <2>4. /\ \A f \in Ends \ {e} : sinceInbound'[f] = sinceInbound[f] /\ over'[f] = over[f]
        /\ over'[e] \in {over[e], "peerExit"} /\ (over[e] # "running" => over'[e] = over[e])
        /\ sinceInbound'[e] \in {0, sinceInbound[e]}
        /\ p.kind = "damaged" => sinceInbound' = sinceInbound
        /\ p.kind # "damaged" => sinceInbound'[e] = 0
    BY <1>0, <2>1, <2>2
  <2> QED BY <1>1, <1>2, <1>4, <2>3, <2>4
<1> QED BY <1>3, <1>4

\* What the writing of an application or of the control channel changes.
LEMMA WriteEffect ==
  ASSUME Typed, NEW e \in Ends, Write(e)
  PROVE  /\ UNCHANGED <<sinceInbound, sinceStart, timerLoop, pending, wake, sender, signaller,
                        stalled, over, closed>>
         /\ ~closed[e] /\ ~stalled /\ over[e] = "running"
         /\ \E k \in Kinds : Sent(e, k)
         /\ UNCHANGED sinceData \/ sinceData' = 0
         /\ \/ UNCHANGED <<sinceReset, accumulator>>
            \/ RegisterInactivityBytes(e) /\ (e = "client" => sinceData' = 0)
BY DEF Write, Moved, messages, Running

\* A loop that goes on has read ages within the limits.
LEMMA GoesOn ==
  ASSUME Typed, NEW e \in Ends, timerLoop[e].step = "decide",
         "running" \in Verdicts(e, timerLoop[e])
  PROVE  /\ Timeout(e) > 0 => timerLoop[e].inbound <= Timeout(e)
         /\ e = "client" =>
              /\ InactiveTimeout > 0 => timerLoop[e].reset <= InactiveTimeout
              /\ SessionTimeout > 0 => sinceStart <= SessionTimeout
<1> DEFINE read == timerLoop[e]
<1>n. /\ Timeout(e) \in Nat /\ InactiveTimeout \in Nat /\ SessionTimeout \in Nat
  BY AliveNumbers
<1>t. /\ read.inbound \in Nat /\ read.reset \in Nat /\ sinceStart \in Nat
  <2>1. timerLoop[e] \in LoopStates BY DEF Typed
  <2> QED BY <2>1, LoopStatesRead DEF Typed
<1>z. \A n \in Nat : n > 0 => n # 0 BY SMT
<1>1. CASE e = "client"
  <2>1. PICK aged \in Passed(sinceStart, SessionTimeout),
             inactive \in Passed(read.reset, InactiveTimeout),
             silent \in Passed(read.inbound, Timeout(e)) :
               ClientVerdict(aged, inactive, silent) = "running"
    BY <1>1, SMT DEF Verdicts, ClientVerdicts, Timeout, shouldExitForInactivityTimeout,
      shouldExitForPingTimeout
  <2>2. effectiveClientPingTimeout.action # "running" BY DEF effectiveClientPingTimeout
  <2>3. ~aged /\ ~inactive /\ ~silent BY <2>1, <2>2 DEF ClientVerdict
  <2>4. SessionTimeout = 0 \/ sinceStart <= SessionTimeout BY <1>n, <1>t, <2>3, PassedOrNot
  <2>5. InactiveTimeout = 0 \/ read.reset <= InactiveTimeout BY <1>n, <1>t, <2>3, PassedOrNot
  <2>6. Timeout(e) = 0 \/ read.inbound <= Timeout(e) BY <1>n, <1>t, <2>3, PassedOrNot
  <2> QED BY <1>n, <1>z, <2>4, <2>5, <2>6
<1>2. CASE e = "server"
  <2>1. PICK silent \in Passed(read.inbound, Timeout(e)) :
               "running" = IF silent THEN "pingRestart" ELSE "running"
    BY <1>2 DEF Verdicts, ServerVerdicts, Timeout, shouldExitForPingTimeout
  <2>2. ~silent BY <2>1
  <2>3. Timeout(e) = 0 \/ read.inbound <= Timeout(e) BY <1>n, <1>t, <2>2, PassedOrNot
  <2> QED BY <1>2, <1>n, <1>z, <2>3
<1> QED BY <1>1, <1>2 DEF Ends

\* A loop that gives up its peer for its silence has read an age at its limit or past it.
LEMMA GivesUp ==
  ASSUME Typed, NEW e \in Ends, timerLoop[e].step = "decide",
         NEW verdict \in Verdicts(e, timerLoop[e]), verdict \in {"pingRestart", "pingExit"}
  PROVE  Timeout(e) > 0 /\ timerLoop[e].inbound >= Timeout(e)
<1> DEFINE read == timerLoop[e]
<1>n. Timeout(e) \in Nat BY AliveNumbers
<1>t. read.inbound \in Nat
  <2>1. timerLoop[e] \in LoopStates BY DEF Typed
  <2> QED BY <2>1, LoopStatesRead
<1>1. CASE e = "client"
  <2>1. PICK aged \in Passed(sinceStart, SessionTimeout),
             inactive \in Passed(read.reset, InactiveTimeout),
             silent \in Passed(read.inbound, Timeout(e)) :
               ClientVerdict(aged, inactive, silent) = verdict
    BY <1>1, SMT DEF Verdicts, ClientVerdicts, Timeout, shouldExitForInactivityTimeout,
      shouldExitForPingTimeout
  <2>2. silent BY <2>1 DEF ClientVerdict
  <2> QED BY <1>n, <1>t, <2>2, PassedOrNot
<1>2. CASE e = "server"
  <2>1. PICK silent \in Passed(read.inbound, Timeout(e)) :
               verdict = IF silent THEN "pingRestart" ELSE "running"
    BY <1>2 DEF Verdicts, ServerVerdicts, Timeout, shouldExitForPingTimeout
  <2>2. silent BY <2>1
  <2> QED BY <1>n, <1>t, <2>2, PassedOrNot
<1> QED BY <1>1, <1>2 DEF Ends

\* How a loop moves.
LEMMA LoopMoves ==
  ASSUME Typed, NEW e \in Ends
  PROVE  /\ LoopDecides(e) =>
              /\ timerLoop[e].step = "decide" /\ timerLoop'[e].step \in {"idle", "signal"}
              /\ \A f \in Ends \ {e} : timerLoop'[f] = timerLoop[f]
              /\ \/ over'[e] # "running" /\ timerLoop'[e].step = "idle"
                 \/ "running" \in Verdicts(e, timerLoop[e]) /\ over' = over
              /\ \A f \in Ends \ {e} : over'[f] = over[f]
         /\ LoopReads(e) =>
              /\ timerLoop[e].step = "due"
              /\ \/ closed[e] /\ timerLoop'[e].step = "idle"
                 \/ /\ ~closed[e] /\ timerLoop'[e].step = "decide"
                    /\ timerLoop'[e].inbound = sinceInbound[e]
                    /\ timerLoop'[e].outbound = sinceOutbound[e]
                    /\ timerLoop'[e].reset = sinceReset
              /\ \A f \in Ends \ {e} : timerLoop'[f] = timerLoop[f]
         /\ LoopSignals(e) =>
              /\ timerLoop[e].step = "signal" /\ timerLoop'[e].step = "idle"
              /\ \A f \in Ends \ {e} : timerLoop'[f] = timerLoop[f]
<1>t. /\ timerLoop \in [Ends -> LoopStates]
      /\ over \in [Ends -> {"running", "sessionTimeout", "inactive", "pingRestart", "pingExit", "peerExit"}]
  BY DEF Typed
<1>i. IdleLoop.step = "idle" BY LoopStatesMade
<1>1. ASSUME LoopDecides(e)
      PROVE  /\ timerLoop[e].step = "decide" /\ timerLoop'[e].step \in {"idle", "signal"}
             /\ \A f \in Ends \ {e} : timerLoop'[f] = timerLoop[f]
             /\ \/ over'[e] # "running" /\ timerLoop'[e].step = "idle"
                \/ "running" \in Verdicts(e, timerLoop[e]) /\ over' = over
             /\ \A f \in Ends \ {e} : over'[f] = over[f]
  <2>1. timerLoop[e].step = "decide" BY <1>1 DEF LoopDecides
  <2>v. PICK verdict \in Verdicts(e, timerLoop[e]), due \in PingDue(timerLoop[e]) :
          Decides(e, verdict, due)
    BY <1>1 DEF LoopDecides
  <2>2. CASE verdict # "running"
    <3>1. /\ over' = [over EXCEPT ![e] = IF @ = "running" THEN verdict ELSE @]
          /\ timerLoop' = [timerLoop EXCEPT ![e] = IdleLoop]
      BY <2>v, <2>2 DEF Decides, Finish
    <3>2. over'[e] # "running" /\ \A f \in Ends \ {e} : over'[f] = over[f]
      BY <1>t, <2>2, <3>1
    <3> QED BY <1>t, <1>i, <2>1, <2>2, <3>1, <3>2
  <2>3. CASE verdict = "running"
    <3>1. UNCHANGED over BY <2>v, <2>3 DEF Decides
    <3>2. \/ timerLoop' = [timerLoop EXCEPT ![e] = IdleLoop]
          \/ timerLoop' = [timerLoop EXCEPT ![e] = [step |-> "signal"]]
      BY <2>v, <2>3 DEF Decides
    <3>3. /\ timerLoop'[e].step \in {"idle", "signal"}
          /\ \A f \in Ends \ {e} : timerLoop'[f] = timerLoop[f]
      <4>1. PICK l : timerLoop' = [timerLoop EXCEPT ![e] = l] /\ l \in {IdleLoop, [step |-> "signal"]}
        BY <3>2
      <4>2. l.step \in {"idle", "signal"} BY <1>i, <4>1, SMT
      <4> QED BY <1>t, <4>1, <4>2
    <3> QED BY <2>v, <2>1, <2>3, <3>1, <3>3
  <2> QED BY <2>2, <2>3
<1>2. ASSUME LoopReads(e)
      PROVE  /\ timerLoop[e].step = "due"
              /\ \/ closed[e] /\ timerLoop'[e].step = "idle"
                 \/ /\ ~closed[e] /\ timerLoop'[e].step = "decide"
                    /\ timerLoop'[e].inbound = sinceInbound[e]
                    /\ timerLoop'[e].outbound = sinceOutbound[e]
                    /\ timerLoop'[e].reset = sinceReset
              /\ \A f \in Ends \ {e} : timerLoop'[f] = timerLoop[f]
  BY <1>t, <1>i, <1>2 DEF LoopReads
<1>3. ASSUME LoopSignals(e)
      PROVE  /\ timerLoop[e].step = "signal" /\ timerLoop'[e].step = "idle"
             /\ \A f \in Ends \ {e} : timerLoop'[f] = timerLoop[f]
  BY <1>t, <1>i, <1>3 DEF LoopSignals
<1> QED BY <1>1, <1>2, <1>3

\* Within a second, an age stays or becomes 0, and a payload that resets the inactivity timer
\* is one the history knows of.
LEMMA AgesMove ==
  ASSUME Typed, AliveNext, ~Second
  PROVE  /\ \A f \in Ends : sinceInbound'[f] \in {0, sinceInbound[f]}
         /\ \A f \in Ends : sinceOutbound'[f] \in {0, sinceOutbound[f]}
         /\ sinceReset' \in {0, sinceReset} /\ sinceData' \in {0, sinceData}
         /\ sinceReset' # sinceReset => sinceData' = 0
         /\ sinceStart' = sinceStart
<1>t. sinceInbound \in [Ends -> Nat] /\ sinceOutbound \in [Ends -> Nat]
  BY DEF Typed
<1>1. CASE \E e \in Ends : Write(e)
  <2>1. PICK e \in Ends : Write(e) BY <1>1
  <2>2. UNCHANGED <<sinceInbound, sinceStart>> BY <2>1, WriteEffect
  <2>3. UNCHANGED sinceOutbound \/ sinceOutbound' = [sinceOutbound EXCEPT ![e] = 0]
    BY <2>1 DEF Write, Sent
  <2>4. \A f \in Ends : sinceOutbound'[f] \in {0, sinceOutbound[f]} BY <1>t, <2>3
  <2>5. /\ sinceReset' \in {0, sinceReset} /\ sinceData' \in {0, sinceData}
        /\ e = "client" /\ sinceReset' # sinceReset => sinceData' = 0
        /\ e = "server" => sinceReset' = sinceReset
    BY <2>1, WriteEffect, CountEffect
  <2> QED BY <2>2, <2>4, <2>5 DEF Ends
<1>2. CASE \E e \in Ends : Receive(e)
  <2>1. PICK e \in Ends : Receive(e) BY <1>2
  <2>2. UNCHANGED <<sinceOutbound, sinceStart>> BY <2>1, ReceiveEffect
  <2>3. \A f \in Ends : sinceInbound'[f] \in {0, sinceInbound[f]} BY <2>1, ReceiveEffect
  <2>5. /\ sinceReset' \in {0, sinceReset} /\ sinceData' \in {0, sinceData}
        /\ e = "client" /\ sinceReset' # sinceReset => sinceData' = 0
        /\ e = "server" => sinceReset' = sinceReset
    BY <2>1, ReceiveEffect, CountEffect
  <2> QED BY <2>2, <2>3, <2>5 DEF Ends
<1>3. CASE \E e \in Ends : SenderWrites(e)
  <2>1. PICK e \in Ends : SenderWrites(e) BY <1>3
  <2>2. UNCHANGED <<sinceInbound, sinceReset, sinceData, sinceStart>> BY <2>1 DEF SenderWrites
  <2>3. UNCHANGED sinceOutbound \/ sinceOutbound' = [sinceOutbound EXCEPT ![e] = 0]
    BY <2>1 DEF SenderWrites, Sent
  <2>4. \A f \in Ends : sinceOutbound'[f] \in {0, sinceOutbound[f]} BY <1>t, <2>3
  <2> QED BY <2>2, <2>4
<1>4. CASE Lose \/ Stall \/ \E e \in Ends :
             \/ SenderWakes(e) \/ SenderTakes(e) \/ ReaderSignals(e)
             \/ Shutdown(e) \/ LoopReads(e) \/ LoopDecides(e) \/ LoopSignals(e)
  <2>1. UNCHANGED clocks
    BY <1>4 DEF Lose, Stall, SenderWakes, SenderTakes, ReaderSignals,
      Shutdown, LoopReads, LoopDecides, LoopSignals
  <2> QED BY <2>1 DEF clocks
<1> QED BY <1>1, <1>2, <1>3, <1>4 DEF AliveNext

\* How an end and its loop move within a second.
LEMMA LoopEffect ==
  ASSUME Typed, AliveNext, ~Second, NEW f \in Ends
  PROVE  /\ over[f] # "running" => over'[f] # "running"
         /\ closed'[f] => closed[f] \/ over'[f] # "running"
         /\ \/ timerLoop'[f] = timerLoop[f]
            \/ timerLoop[f].step = "due" /\ closed[f] /\ timerLoop'[f].step = "idle"
            \/ /\ timerLoop[f].step = "due" /\ timerLoop'[f].step = "decide"
               /\ timerLoop'[f].inbound = sinceInbound[f] /\ timerLoop'[f].outbound = sinceOutbound[f]
               /\ timerLoop'[f].reset = sinceReset
               /\ UNCHANGED clocks
            \/ /\ timerLoop[f].step = "decide" /\ timerLoop'[f].step \in {"idle", "signal"}
               /\ over'[f] # "running" \/ "running" \in Verdicts(f, timerLoop[f])
               /\ UNCHANGED clocks
            \/ timerLoop[f].step = "signal" /\ timerLoop'[f].step = "idle"
<1> DEFINE O == over[f] # "running" => over'[f] # "running"
           K == closed'[f] => closed[f] \/ over'[f] # "running"
<1>1. CASE Lose \/ Stall \/ \E e \in Ends :
             \/ SenderWakes(e) \/ SenderTakes(e) \/ SenderWrites(e)
             \/ ReaderSignals(e) \/ Write(e)
  <2>1. UNCHANGED <<over, closed, timerLoop>>
    BY <1>1 DEF Lose, Stall, SenderWakes, SenderTakes, SenderWrites,
      ReaderSignals, Write
  <2> QED BY <2>1
<1>2. CASE \E e \in Ends : Receive(e)
  <2>1. UNCHANGED <<closed, timerLoop>> /\ O BY <1>2, ReceiveEffect
  <2> QED BY <2>1
<1>3. CASE \E e \in Ends : Shutdown(e)
  <2>1. closed \in [Ends -> BOOLEAN] BY DEF Typed
  <2>2. PICK e \in Ends : UNCHANGED <<over, timerLoop>> /\ over[e] # "running" /\ closed' = [closed EXCEPT ![e] = TRUE]
    BY <1>3 DEF Shutdown, Running
  <2> QED BY <2>1, <2>2
<1>4. CASE \E e \in Ends : LoopReads(e)
  <2>1. PICK e \in Ends : LoopReads(e) BY <1>4
  <2>2. UNCHANGED <<over, closed>> /\ UNCHANGED clocks BY <2>1 DEF LoopReads
  <2> QED BY <2>1, <2>2, LoopMoves
<1>5. CASE \E e \in Ends : LoopDecides(e)
  <2>1. PICK e \in Ends : LoopDecides(e) BY <1>5
  <2>2. UNCHANGED closed /\ UNCHANGED clocks BY <2>1 DEF LoopDecides
  <2>3. \A g \in Ends \ {e} : timerLoop'[g] = timerLoop[g] /\ over'[g] = over[g]
    BY <2>1, LoopMoves
  <2>4. /\ timerLoop[e].step = "decide" /\ timerLoop'[e].step \in {"idle", "signal"}
        /\ over'[e] # "running" \/ ("running" \in Verdicts(e, timerLoop[e]) /\ over' = over)
    BY <2>1, LoopMoves
  <2>5. CASE f # e BY <2>2, <2>3, <2>5
  <2>6. CASE f = e BY <2>2, <2>4, <2>6
  <2> QED BY <2>5, <2>6
<1>6. CASE \E e \in Ends : LoopSignals(e)
  <2>1. PICK e \in Ends : LoopSignals(e) BY <1>6
  <2>2. UNCHANGED <<over, closed>> BY <2>1 DEF LoopSignals
  <2> QED BY <2>1, <2>2, LoopMoves
<1> QED BY <1>1, <1>2, <1>3, <1>4, <1>5, <1>6 DEF AliveNext

\* What a second changes.
LEMMA SecondEffect ==
  ASSUME Typed, Second, NEW f \in Ends
  PROVE  /\ timerLoop[f].step = "idle" /\ timerLoop'[f].step \in {"due", "idle"}
         /\ over[f] = "running" => timerLoop'[f].step = "due"
         /\ UNCHANGED <<over, closed, pending, wake, sender, signaller, stalled, accumulator>>
         /\ sinceInbound'[f] = Older(sinceInbound[f], SilenceLimit(f))
         /\ sinceOutbound'[f] = Older(sinceOutbound[f], PingInterval)
         /\ sinceReset' = Older(sinceReset, InactiveTimeout)
         /\ sinceData' = Older(sinceData, InactiveTimeout)
         /\ sinceStart' = Older(sinceStart, SessionTimeout)
         /\ link' = {[p EXCEPT !.age = @ + 1] : p \in link}
<1>1. /\ timerLoop[f].step = "idle"
      /\ UNCHANGED <<over, closed, pending, wake, sender, signaller, stalled, accumulator>>
      /\ sinceInbound'[f] = Older(sinceInbound[f], SilenceLimit(f))
      /\ sinceOutbound'[f] = Older(sinceOutbound[f], PingInterval)
      /\ sinceReset' = Older(sinceReset, InactiveTimeout)
      /\ sinceData' = Older(sinceData, InactiveTimeout)
      /\ sinceStart' = Older(sinceStart, SessionTimeout)
      /\ link' = {[p EXCEPT !.age = @ + 1] : p \in link}
  BY DEF Second, Settled, messages
<1>2. timerLoop'[f] = IF over[f] = "running" THEN [step |-> "due"] ELSE IdleLoop
  BY DEF Second, Running
<1>3. /\ timerLoop'[f].step \in {"due", "idle"}
      /\ over[f] = "running" => timerLoop'[f].step = "due"
  <2>1. IdleLoop.step = "idle" BY LoopStatesMade
  <2> QED BY <1>2, <2>1, SMT
<1> QED BY <1>1, <1>3

\* What a loop has read is no younger than what is true when it decides, so an end that goes
\* on after a decision is within its limits, and a second later one second past them at most.
LEMMA LoopsStep ==
  ASSUME Typed, LoopsTrue, SilenceBounded, AliveNext
  PROVE  LoopsTrue' /\ SilenceBounded'
<1> DEFINE T(f) == Timeout(f)
           Decided(f) == timerLoop[f].step \in {"idle", "signal"}
           L1(f) == closed[f] => over[f] # "running"
           L2(f) == timerLoop[f].step = "decide" =>
                        /\ sinceInbound[f] <= timerLoop[f].inbound
                        /\ sinceOutbound[f] <= timerLoop[f].outbound
                        /\ f = "client" => sinceReset <= timerLoop[f].reset
           L3(f) == over[f] = "running" /\ Decided(f) => sinceInbound[f] <= T(f)
           L4(f) == over[f] = "running" => sinceInbound[f] <= T(f) + 1
           L5(f) == T(f) = 0 => sinceInbound[f] = 0
           C1 == sinceData <= sinceReset
           C2 == over["client"] = "running" /\ InactiveTimeout > 0 =>
                   /\ sinceReset <= InactiveTimeout + 1
                   /\ Decided("client") => sinceReset <= InactiveTimeout
           C3 == over["client"] = "running" /\ SessionTimeout > 0 =>
                   /\ sinceStart <= SessionTimeout + 1
                   /\ Decided("client") => sinceStart <= SessionTimeout
           L == (\A f \in Ends : L1(f) /\ L2(f) /\ L3(f) /\ L4(f) /\ L5(f)) /\ C1 /\ C2 /\ C3
<1>o. /\ \A f : T(f)' = T(f)
      /\ UNCHANGED <<InactiveTimeout, SessionTimeout>>
  BY OptionsKept DEF AliveNext
<1>n. /\ \A f \in Ends : T(f) \in Nat
      /\ InactiveTimeout \in Nat /\ SessionTimeout \in Nat /\ PingInterval \in Nat
  BY AliveNumbers
<1>t. /\ sinceReset \in Nat /\ sinceData \in Nat /\ sinceStart \in Nat
      /\ \A f \in Ends : sinceInbound[f] \in Nat /\ sinceOutbound[f] \in Nat
  BY DEF Typed
<1>u. /\ sinceReset' \in Nat /\ sinceData' \in Nat /\ sinceStart' \in Nat
      /\ \A f \in Ends : sinceInbound'[f] \in Nat /\ sinceOutbound'[f] \in Nat
  BY TypedStep DEF Typed
<1>c. "client" \in Ends BY DEF Ends
<1>s. L
  BY DEF LoopsTrue, SilenceBounded, Checked, Running
<1>g. ASSUME L' PROVE LoopsTrue' /\ SilenceBounded'
  BY <1>g DEF LoopsTrue, SilenceBounded, Checked, Running
<1>1. CASE Second
  <2>1. ASSUME NEW f \in Ends PROVE L1(f)' /\ L2(f)' /\ L3(f)' /\ L4(f)' /\ L5(f)'
    <3>1. /\ timerLoop[f].step = "idle" /\ timerLoop'[f].step \in {"due", "idle"}
          /\ over[f] = "running" => timerLoop'[f].step = "due"
          /\ over' = over /\ closed' = closed
      BY <1>1, SecondEffect
    <3>2. SilenceLimit(f) \in Nat /\ (T(f) = 0 => SilenceLimit(f) = 0)
      BY AliveNumbers, SMT DEF SilenceLimit, Timeout, effectiveClientPingTimeout
    <3>3. sinceInbound'[f] <= sinceInbound[f] + 1 /\ (T(f) = 0 => sinceInbound'[f] = sinceInbound[f])
      <4>1. sinceInbound'[f] = Older(sinceInbound[f], SilenceLimit(f))
        BY <1>1, SecondEffect
      <4>2. sinceInbound[f] \in Nat BY <1>t
      <4> QED BY <3>2, <4>1, <4>2, OlderAge
    <3>4. L1(f) /\ L3(f) /\ L5(f) BY <1>s
    <3>5. T(f) \in Nat /\ sinceInbound[f] \in Nat /\ sinceInbound'[f] \in Nat /\ T(f)' = T(f)
      BY <1>n, <1>t, <1>u, <1>o
    <3>6. over[f] = "running" => sinceInbound'[f] <= T(f) + 1
      <4>1. over[f] = "running" => sinceInbound[f] <= T(f) BY <3>1, <3>4
      <4> HIDE DEF T
      <4> QED BY <3>3, <3>5, <4>1, SMT
    <3>7. L1(f)' /\ L2(f)' /\ L3(f)' BY <3>1, <3>4
    <3>8. L4(f)' BY <3>1, <3>5, <3>6
    <3>9. L5(f)' BY <3>3, <3>4, <3>5
    <3> QED BY <3>7, <3>8, <3>9
  <2>2. sinceReset' = Older(sinceReset, InactiveTimeout)
        /\ sinceData' = Older(sinceData, InactiveTimeout)
        /\ sinceStart' = Older(sinceStart, SessionTimeout)
    BY <1>1, <1>c, SecondEffect
  <2>3. C1'
    <3>1. C1 BY <1>s
    <3> QED BY <1>n, <1>t, <2>2, <3>1, SMT DEF Older
  <2>4. /\ timerLoop["client"].step = "idle" /\ over' = over
        /\ over["client"] = "running" => timerLoop'["client"].step = "due"
    BY <1>1, <1>c, SecondEffect
  <2>5. sinceReset' <= sinceReset + 1 /\ sinceStart' <= sinceStart + 1
    BY <1>n, <1>t, <2>2, OlderAge
  <2>6. C2 /\ C3 BY <1>s
  <2>7. /\ over["client"] = "running" /\ InactiveTimeout > 0 => sinceReset <= InactiveTimeout
        /\ over["client"] = "running" /\ SessionTimeout > 0 => sinceStart <= SessionTimeout
    BY <2>4, <2>6
  <2>8. /\ over["client"] = "running" /\ InactiveTimeout > 0 => sinceReset' <= InactiveTimeout + 1
        /\ over["client"] = "running" /\ SessionTimeout > 0 => sinceStart' <= SessionTimeout + 1
    BY <1>n, <1>t, <1>u, <2>5, <2>7, SMT
  <2>9. C2' /\ C3' BY <1>o, <2>4, <2>8
  <2> QED BY <1>g, <2>1, <2>3, <2>9
<1>2. CASE ~Second
  <2>a. /\ \A f \in Ends : sinceInbound'[f] \in {0, sinceInbound[f]}
        /\ \A f \in Ends : sinceOutbound'[f] \in {0, sinceOutbound[f]}
        /\ sinceReset' \in {0, sinceReset} /\ sinceData' \in {0, sinceData}
        /\ sinceReset' # sinceReset => sinceData' = 0
        /\ sinceStart' = sinceStart
    BY <1>2, AgesMove
  <2>b. \A f \in Ends : sinceInbound'[f] <= sinceInbound[f] /\ sinceOutbound'[f] <= sinceOutbound[f]
    BY <1>t, <2>a, SMT
  <2>c. sinceReset' <= sinceReset BY <1>t, <2>a, SMT
  <2>3. C1'
    <3>1. C1 BY <1>s
    <3> QED BY <1>t, <2>a, <3>1, SMT
  <2>l. ASSUME NEW f \in Ends
        PROVE  /\ over[f] # "running" => over'[f] # "running"
               /\ closed'[f] => closed[f] \/ over'[f] # "running"
               /\ \/ timerLoop'[f] = timerLoop[f]
                  \/ timerLoop[f].step = "due" /\ closed[f] /\ timerLoop'[f].step = "idle"
                  \/ /\ timerLoop[f].step = "due" /\ timerLoop'[f].step = "decide"
                     /\ timerLoop'[f].inbound = sinceInbound[f] /\ timerLoop'[f].outbound = sinceOutbound[f]
                     /\ timerLoop'[f].reset = sinceReset
                     /\ UNCHANGED clocks
                  \/ /\ timerLoop[f].step = "decide" /\ timerLoop'[f].step \in {"idle", "signal"}
                     /\ over'[f] # "running" \/ "running" \in Verdicts(f, timerLoop[f])
                     /\ UNCHANGED clocks
                  \/ timerLoop[f].step = "signal" /\ timerLoop'[f].step = "idle"
    BY <1>2, LoopEffect
  <2>v. ASSUME NEW f \in Ends, timerLoop[f].step = "decide", "running" \in Verdicts(f, timerLoop[f])
        PROVE  /\ T(f) > 0 => timerLoop[f].inbound <= T(f)
               /\ f = "client" =>
                    /\ InactiveTimeout > 0 => timerLoop[f].reset <= InactiveTimeout
                    /\ SessionTimeout > 0 => sinceStart <= SessionTimeout
    BY <2>v, GoesOn
  <2>4. ASSUME NEW f \in Ends PROVE L1(f)' /\ L2(f)' /\ L3(f)' /\ L4(f)' /\ L5(f)'
    <3>1. L1(f) /\ L2(f) /\ L3(f) /\ L4(f) /\ L5(f) BY <1>s
    <3>2. /\ sinceInbound[f] \in Nat /\ sinceOutbound[f] \in Nat /\ sinceInbound'[f] \in Nat
          /\ sinceOutbound'[f] \in Nat /\ T(f) \in Nat /\ T(f)' = T(f)
          /\ sinceInbound'[f] <= sinceInbound[f] /\ sinceOutbound'[f] <= sinceOutbound[f]
      BY <1>t, <1>u, <1>n, <1>o, <2>b
    <3>3. L1(f)' BY <2>l, <3>1
    <3>4. L5(f)' BY <3>1, <3>2, SMT
    <3>5. L4(f)'
      <4>1. over'[f] = "running" => sinceInbound[f] <= T(f) + 1 BY <2>l, <3>1
      <4> HIDE DEF T
      <4> QED BY <3>2, <4>1, SMT
    <3>6. L3(f)'
      <4>1. over'[f] = "running" /\ Decided(f)' => sinceInbound[f] <= T(f)
        <5>1. SUFFICES ASSUME over'[f] = "running", Decided(f)' PROVE sinceInbound[f] <= T(f) OBVIOUS
        <5>2. over[f] = "running" BY <2>l, <5>1
        <5>3. CASE Decided(f) BY <3>1, <5>2, <5>3
        <5>4. CASE ~Decided(f)
          <6>1. timerLoop[f].step = "decide" /\ "running" \in Verdicts(f, timerLoop[f])
            BY <2>l, <3>1, <5>1, <5>2, <5>4
          <6>2. T(f) > 0 => timerLoop[f].inbound <= T(f) BY <2>v, <6>1
          <6>3. sinceInbound[f] <= timerLoop[f].inbound /\ timerLoop[f].inbound \in Nat
            <7>1. timerLoop[f] \in LoopStates BY DEF Typed
            <7> QED BY <3>1, <6>1, <7>1, LoopStatesRead
          <6> HIDE DEF T
          <6> QED BY <3>1, <3>2, <6>2, <6>3, SMT
        <5> QED BY <5>3, <5>4
      <4> HIDE DEF T
      <4> QED BY <3>2, <4>1, SMT
    <3>7. L2(f)'
      <4>1. CASE timerLoop'[f] = timerLoop[f]
        <5>1. timerLoop[f] \in LoopStates BY DEF Typed
        <5> QED BY <1>t, <1>u, <2>c, <3>1, <3>2, <4>1, <5>1, LoopStatesRead, SMT
      <4>2. CASE /\ timerLoop'[f].inbound = sinceInbound[f]
                 /\ timerLoop'[f].outbound = sinceOutbound[f]
                 /\ timerLoop'[f].reset = sinceReset
                 /\ UNCHANGED clocks
        BY <1>t, <3>2, <4>2, SMT DEF clocks
      <4>3. CASE timerLoop'[f].step \in {"idle", "signal"} BY <4>3
      <4> QED BY <2>l, <4>1, <4>2, <4>3
    <3> QED BY <3>3, <3>4, <3>5, <3>6, <3>7
  <2>5. C2' /\ C3'
    <3>1. C2 /\ C3 /\ L1("client") /\ L2("client") BY <1>s, <1>c
    <3>2. over'["client"] = "running" => over["client"] = "running" BY <2>l, <1>c
    <3>3. CASE ~Decided("client")'
      BY <1>n, <1>o, <1>t, <1>u, <2>a, <2>c, <3>1, <3>2, <3>3, SMT
    <3>4. CASE Decided("client") 
      BY <1>n, <1>o, <1>t, <1>u, <2>a, <2>c, <3>1, <3>2, <3>4, SMT
    <3>5. CASE Decided("client")' /\ ~Decided("client") /\ over'["client"] = "running"
      <4>1. /\ timerLoop["client"].step = "decide" /\ UNCHANGED clocks
            /\ "running" \in Verdicts("client", timerLoop["client"])
        BY <1>c, <2>l, <3>1, <3>2, <3>5
      <4>2. /\ InactiveTimeout > 0 => timerLoop["client"].reset <= InactiveTimeout
            /\ SessionTimeout > 0 => sinceStart <= SessionTimeout
        BY <1>c, <2>v, <4>1
      <4>3. sinceReset <= timerLoop["client"].reset /\ timerLoop["client"].reset \in Nat
        <5>1. timerLoop["client"] \in LoopStates BY <1>c DEF Typed
        <5> QED BY <3>1, <4>1, <5>1, LoopStatesRead
      <4> QED BY <1>n, <1>o, <1>t, <1>u, <2>a, <2>c, <4>2, <4>3, SMT
    <3> QED BY <3>3, <3>4, <3>5
  <2> QED BY <1>g, <2>3, <2>4, <2>5
<1> QED BY <1>1, <1>2

\* A session that is closed has nothing left to send.
LEMMA ClosedStep ==
  ASSUME Typed, AliveNext, \A f \in Ends : closed[f] => pending[f] = {}
  PROVE  \A f \in Ends : closed'[f] => pending'[f] = {}
<1>t. pending \in [Ends -> SUBSET {"ping", "occReply"}] /\ closed \in [Ends -> BOOLEAN]
  BY DEF Typed
<1>1. CASE \E e \in Ends : Shutdown(e)
  <2>1. PICK e \in Ends : closed' = [closed EXCEPT ![e] = TRUE] /\ pending' = [pending EXCEPT ![e] = {}]
    BY <1>1 DEF Shutdown
  <2> QED BY <1>t, <2>1
<1>2. CASE \E e \in Ends : SenderTakes(e)
  <2>1. PICK e \in Ends : SenderTakes(e) BY <1>2
  <2>2. closed' = closed /\ (pending' = pending \/ \E m : pending' = [pending EXCEPT ![e] = @ \ {m}])
    BY <2>1 DEF SenderTakes
  <2> QED BY <1>t, <2>2
<1>3. CASE \E e \in Ends, m \in {"ping", "occReply"} : Ask(e, m) /\ closed' = closed
  BY <1>3, AskEffect
<1>4. CASE UNCHANGED <<pending, closed>> BY <1>4
<1>5. \/ \E e \in Ends : Shutdown(e)
      \/ \E e \in Ends : SenderTakes(e)
      \/ \E e \in Ends, m \in {"ping", "occReply"} : Ask(e, m) /\ closed' = closed
      \/ UNCHANGED <<pending, closed>>
  <2>1. CASE Lose \/ Stall \/ Second \/ \E e \in Ends :
             \/ SenderWakes(e) \/ SenderWrites(e) \/ LoopReads(e)
             \/ LoopSignals(e) \/ ReaderSignals(e) \/ Write(e)
    BY <2>1 DEF Lose, Stall, Second, SenderWakes, SenderWrites,
      ReaderSignals, Write, LoopReads, LoopSignals, messages
  <2>2. CASE \E e \in Ends : LoopDecides(e)
    BY <2>2 DEF LoopDecides, Decides
  <2>3. CASE \E e \in Ends : Receive(e)
    BY <2>3, ReceiveEffect
  <2> QED BY <2>1, <2>2, <2>3 DEF AliveNext
<1> QED BY <1>1, <1>2, <1>3, <1>4, <1>5

\* What a step within a second does to the link.
LEMMA LinkEffect ==
  ASSUME Typed, AliveNext, ~Second
  PROVE  \/ link' \subseteq link
         \/ \E e \in Ends, new \in Packets, k \in PacketKinds :
              /\ link' = link \cup {new} /\ new.to = Other(e) /\ new.kind = k /\ new.age = 0
              /\ k \in Kinds \cup {"ping", "occReply"}
<1>1. CASE \E e \in Ends : Write(e)
  <2>1. PICK e \in Ends, k \in Kinds : Sent(e, k) BY <1>1, WriteEffect
  <2>2. k \in PacketKinds BY AliveNumbers
  <2> QED BY <2>1, <2>2, SentEffect, SMT
<1>2. CASE \E e \in Ends : SenderWrites(e)
  <2>1. PICK e \in Ends : Sent(e, sender[e].kind) /\ sender[e].step = "write"
    BY <1>2 DEF SenderWrites
  <2>2. sender[e].kind \in {"ping", "occReply"} BY <2>1, SenderStatesRead DEF Typed
  <2>3. sender[e].kind \in PacketKinds BY <2>2 DEF PacketKinds
  <2> QED BY <2>1, <2>2, <2>3, SentEffect, SMT
<1>3. CASE \E e \in Ends : Receive(e) BY <1>3, ReceiveEffect
<1>4. CASE Lose BY <1>4 DEF Lose
<1>5. CASE Stall \/ \E e \in Ends :
             \/ SenderWakes(e) \/ SenderTakes(e) \/ LoopReads(e) \/ Shutdown(e)
             \/ LoopDecides(e) \/ LoopSignals(e) \/ ReaderSignals(e)
  BY <1>5 DEF Stall, SenderWakes, SenderTakes, LoopReads, Shutdown,
    LoopDecides, LoopSignals, ReaderSignals
<1> QED BY <1>1, <1>2, <1>3, <1>4, <1>5 DEF AliveNext

\* What a step does to the byte count.
LEMMA CounterStep ==
  ASSUME Typed, AliveNext
  PROVE  \/ accumulator' \in {0, accumulator}
         \/ accumulator' = accumulator + 1 /\ accumulator + 1 < InactiveMinimumBytes
<1>1. CASE \E e \in Ends : Write(e)
  BY <1>1, WriteEffect, CountEffect
<1>2. CASE \E e \in Ends : Receive(e) BY <1>2, ReceiveEffect, CountEffect
<1>3. CASE \E e \in Ends : SenderWrites(e) BY <1>3 DEF SenderWrites
<1>4. CASE Second BY <1>4 DEF Second
<1>5. CASE Lose \/ Stall \/ \E e \in Ends :
             \/ SenderWakes(e) \/ SenderTakes(e) \/ LoopReads(e) \/ Shutdown(e)
             \/ LoopDecides(e) \/ LoopSignals(e) \/ ReaderSignals(e)
  BY <1>5 DEF Lose, Stall, SenderWakes, SenderTakes, LoopReads, Shutdown,
    LoopDecides, LoopSignals, ReaderSignals, clocks
<1> QED BY <1>1, <1>2, <1>3, <1>4, <1>5 DEF AliveNext

\* The ages stay within what the model keeps of them, and packets within Delay.
LEMMA BoundsStep ==
  ASSUME Typed, TypeOK, AliveNext
  PROVE  TypeOK'
<1>o. /\ \A f : SilenceLimit(f)' = SilenceLimit(f)
      /\ UNCHANGED <<InactiveTimeout, SessionTimeout, PingInterval,
                     InactiveMinimumBytes, Delay>>
  BY OptionsKept DEF AliveNext
<1>n. /\ \A f \in Ends : SilenceLimit(f) \in Nat
      /\ InactiveTimeout \in Nat /\ SessionTimeout \in Nat /\ PingInterval \in Nat
      /\ InactiveMinimumBytes \in Nat /\ Delay \in Nat
  BY AliveNumbers
<1>t. /\ sinceReset \in Nat /\ sinceData \in Nat /\ sinceStart \in Nat /\ accumulator \in Nat
      /\ \A f \in Ends : sinceInbound[f] \in Nat /\ sinceOutbound[f] \in Nat
  BY DEF Typed
<1>u. /\ sinceReset' \in Nat /\ sinceData' \in Nat /\ sinceStart' \in Nat /\ accumulator' \in Nat
      /\ \A f \in Ends : sinceInbound'[f] \in Nat /\ sinceOutbound'[f] \in Nat
      /\ \A f \in Ends : pending'[f] \subseteq {"ping", "occReply"}
  BY TypedStep DEF Typed
<1>b. /\ \A f \in Ends : /\ sinceInbound[f] <= SilenceLimit(f) + 2
                         /\ sinceOutbound[f] <= PingInterval + 2
                         /\ closed[f] => pending[f] = {}
      /\ sinceReset <= InactiveTimeout + 2 /\ sinceData <= InactiveTimeout + 2
      /\ sinceStart <= SessionTimeout + 2
      /\ accumulator <= InactiveMinimumBytes
      /\ \A p \in link : p.age <= Delay
  BY SMT DEF TypeOK
<1>1. \A f \in Ends : closed'[f] => pending'[f] = {} BY <1>b, ClosedStep
<1>2. accumulator' <= InactiveMinimumBytes BY <1>b, <1>n, <1>t, <1>u, CounterStep, SMT
<1>3. /\ \A f \in Ends : /\ sinceInbound'[f] <= SilenceLimit(f) + 2
                         /\ sinceOutbound'[f] <= PingInterval + 2
      /\ sinceReset' <= InactiveTimeout + 2 /\ sinceData' <= InactiveTimeout + 2
      /\ sinceStart' <= SessionTimeout + 2
  <2>1. CASE Second
    <3>1. ASSUME NEW f \in Ends
          PROVE  /\ sinceInbound'[f] = Older(sinceInbound[f], SilenceLimit(f))
                 /\ sinceOutbound'[f] = Older(sinceOutbound[f], PingInterval)
                 /\ sinceReset' = Older(sinceReset, InactiveTimeout)
                 /\ sinceData' = Older(sinceData, InactiveTimeout)
                 /\ sinceStart' = Older(sinceStart, SessionTimeout)
      BY <2>1, SecondEffect
    <3>2. "client" \in Ends BY DEF Ends
    <3>3. \A f \in Ends : /\ sinceInbound'[f] <= SilenceLimit(f) + 2
                          /\ sinceOutbound'[f] <= PingInterval + 2
      <4>1. SUFFICES ASSUME NEW f \in Ends
                     PROVE  /\ sinceInbound'[f] <= SilenceLimit(f) + 2
                            /\ sinceOutbound'[f] <= PingInterval + 2
        OBVIOUS
      <4>2. sinceInbound'[f] <= SilenceLimit(f) + 2
        <5>1. /\ sinceInbound[f] \in Nat /\ SilenceLimit(f) \in Nat
              /\ sinceInbound[f] <= SilenceLimit(f) + 2
              /\ sinceInbound'[f] = Older(sinceInbound[f], SilenceLimit(f))
          BY <1>b, <1>n, <1>t, <3>1
        <5> QED BY <5>1, OlderAge
      <4>3. sinceOutbound'[f] <= PingInterval + 2
        <5>1. /\ sinceOutbound[f] \in Nat /\ PingInterval \in Nat
              /\ sinceOutbound[f] <= PingInterval + 2
              /\ sinceOutbound'[f] = Older(sinceOutbound[f], PingInterval)
          BY <1>b, <1>n, <1>t, <3>1
        <5> QED BY <5>1, OlderAge
      <4> QED BY <4>2, <4>3
    <3>4. /\ sinceReset' <= InactiveTimeout + 2 /\ sinceData' <= InactiveTimeout + 2
          /\ sinceStart' <= SessionTimeout + 2
      BY <1>b, <1>n, <1>t, <3>1, <3>2, OlderAge, SMT
    <3> QED BY <3>3, <3>4
  <2>2. CASE ~Second
    <3>1. /\ \A f \in Ends : sinceInbound'[f] \in {0, sinceInbound[f]}
          /\ \A f \in Ends : sinceOutbound'[f] \in {0, sinceOutbound[f]}
          /\ sinceReset' \in {0, sinceReset} /\ sinceData' \in {0, sinceData}
          /\ sinceStart' = sinceStart
      BY <2>2, AgesMove
    <3> QED BY <1>b, <1>n, <1>t, <3>1, SMT
  <2> QED BY <2>1, <2>2
<1>4. \A p \in link' : p.age <= Delay
  <2>1. CASE Second
    <3>1. link' = {[p EXCEPT !.age = @ + 1] : p \in link} /\ \A p \in link : p.age < Delay
      BY <2>1 DEF Second, Settled
    <3>2. link \subseteq Packets BY DEF Typed
    <3>3. SUFFICES ASSUME NEW p \in link PROVE [p EXCEPT !.age = @ + 1].age <= Delay
      BY <3>1
    <3>4. p.age \in Nat /\ p.age < Delay /\ [p EXCEPT !.age = @ + 1].age = p.age + 1
      BY <3>1, <3>2, PacketsRead
    <3> QED BY <1>n, <3>4, SMT
  <2>2. CASE ~Second
    BY <1>b, <1>n, <2>2, LinkEffect, SMT
  <2> QED BY <2>1, <2>2
<1>5. \A f \in Ends : /\ sinceInbound'[f] \in 0..SilenceLimit(f) + 2
                     /\ sinceOutbound'[f] \in 0..PingInterval + 2
  BY <1>n, <1>u, <1>3, SMT
<1>6. /\ {sinceReset', sinceData'} \subseteq 0..InactiveTimeout + 2
      /\ sinceStart' \in 0..SessionTimeout + 2
      /\ accumulator' \in 0..InactiveMinimumBytes
  BY <1>n, <1>u, <1>2, <1>3, SMT
<1> QED BY <1>o, <1>u, <1>1, <1>4, <1>5, <1>6 DEF TypeOK

\* A ping that is asked for is taken to be written.
LEMMA PingGoesOn ==
  ASSUME Typed, AliveNext, ~Second, NEW f \in Ends, over[f] = "running",
         "ping" \in pending[f]
  PROVE  "ping" \in pending'[f] \/ sender'[f].step = "write"
<1>t. pending \in [Ends -> SUBSET {"ping", "occReply"}] /\ sender \in [Ends -> SenderStates]
  BY DEF Typed
<1>1. CASE \E e \in Ends : Shutdown(e)
  <2>1. PICK e \in Ends : over[e] # "running" /\ pending' = [pending EXCEPT ![e] = {}]
    BY <1>1 DEF Shutdown, Running
  <2> QED BY <1>t, <2>1
<1>2. CASE \E e \in Ends : SenderTakes(e)
  <2>1. PICK e \in Ends : SenderTakes(e) BY <1>2
  <2>2. CASE e = f
    <3>1. \E m : sender' = [sender EXCEPT ![e] = [step |-> "write", kind |-> m]]
      BY <2>1, <2>2 DEF SenderTakes
    <3> QED BY <1>t, <2>2, <3>1, SMT
  <2>3. CASE e # f
    <3>1. pending' = pending \/ \E m : pending' = [pending EXCEPT ![e] = @ \ {m}]
      BY <2>1 DEF SenderTakes
    <3> QED BY <1>t, <2>3, <3>1
  <2> QED BY <2>2, <2>3
<1>3. CASE \E e \in Ends, m \in {"ping", "occReply"} : Ask(e, m)
  BY <1>3, AskEffect
<1>4. CASE UNCHANGED pending BY <1>4
<1>5. \/ \E e \in Ends : Shutdown(e)
      \/ \E e \in Ends : SenderTakes(e)
      \/ \E e \in Ends, m \in {"ping", "occReply"} : Ask(e, m)
      \/ UNCHANGED pending
  <2>1. CASE Lose \/ Stall \/ \E e \in Ends :
             \/ SenderWakes(e) \/ SenderWrites(e) \/ LoopReads(e)
             \/ LoopSignals(e) \/ ReaderSignals(e) \/ Write(e)
    BY <2>1 DEF Lose, Stall, SenderWakes, SenderWrites,
      ReaderSignals, Write, LoopReads, LoopSignals, messages
  <2>2. CASE \E e \in Ends : LoopDecides(e)
    BY <2>2 DEF LoopDecides, Decides
  <2>3. CASE \E e \in Ends : Receive(e)
    BY <2>3, ReceiveEffect
  <2> QED BY <2>1, <2>2, <2>3 DEF AliveNext
<1> QED BY <1>1, <1>2, <1>3, <1>4, <1>5

\* A write that goes out resets the age.
LEMMA WriteGoesOut ==
  ASSUME Typed, AliveNext, ~Second, NEW f \in Ends, ~closed[f], ~Lossy,
         sender[f].step = "write"
  PROVE  sender'[f].step = "write" \/ sinceOutbound'[f] = 0
<1>t. /\ pending \in [Ends -> SUBSET {"ping", "occReply"}]
      /\ sender \in [Ends -> SenderStates]
      /\ sinceOutbound \in [Ends -> Nat]
  BY DEF Typed
<1>1. CASE \E e \in Ends : SenderWrites(e)
  <2>1. PICK e \in Ends : SenderWrites(e) BY <1>1
  <2>2. CASE e = f
    <3>1. sinceOutbound' = [sinceOutbound EXCEPT ![f] = 0]
      BY <2>1, <2>2 DEF SenderWrites, Sent
    <3> QED BY <1>t, <3>1
  <2>3. CASE e # f
    <3>1. sender' = [sender EXCEPT ![e] = [step |-> "take"]] BY <2>1 DEF SenderWrites
    <3> QED BY <1>t, <2>3, <3>1
  <2> QED BY <2>2, <2>3
<1>2. CASE \E e \in Ends : SenderTakes(e) \/ SenderWakes(e)
  <2>1. PICK e \in Ends : SenderTakes(e) \/ SenderWakes(e) BY <1>2
  <2>2. sender[e].step \in {"take", "wait"} /\ \E s : sender' = [sender EXCEPT ![e] = s]
    BY <2>1 DEF SenderTakes, SenderWakes
  <2> QED BY <1>t, <2>2
<1>3. CASE \E e \in Ends, m \in {"ping", "occReply"} : Ask(e, m)
  BY <1>3, AskEffect
<1>4. CASE UNCHANGED sender BY <1>4
<1>5. \/ \E e \in Ends : SenderWrites(e)
      \/ \E e \in Ends : SenderTakes(e) \/ SenderWakes(e)
      \/ \E e \in Ends, m \in {"ping", "occReply"} : Ask(e, m)
      \/ UNCHANGED sender
  <2>1. CASE Lose \/ Stall \/ \E e \in Ends :
             \/ Shutdown(e) \/ LoopReads(e)
             \/ LoopSignals(e) \/ ReaderSignals(e) \/ Write(e)
    BY <2>1 DEF Lose, Stall, Shutdown,
      ReaderSignals, Write, LoopReads, LoopSignals, messages
  <2>2. CASE \E e \in Ends : LoopDecides(e)
    BY <2>2 DEF LoopDecides, Decides
  <2>3. CASE \E e \in Ends : Receive(e)
    BY <2>3, ReceiveEffect
  <2> QED BY <2>1, <2>2, <2>3 DEF AliveNext
<1> QED BY <1>1, <1>2, <1>3, <1>4, <1>5

\* A loop that sees an age past PingInterval asks for a ping.
LEMMA LoopAsks ==
  ASSUME Typed, NEW f \in Ends, LoopDecides(f), over[f] = "running", over'[f] = "running",
         ~closed[f], PingInterval > 0, timerLoop[f].outbound >= PingPeriod
  PROVE  "ping" \in pending'[f]
<1>1. PICK verdict \in Verdicts(f, timerLoop[f]), due \in PingDue(timerLoop[f]) :
        Decides(f, verdict, due)
  BY DEF LoopDecides
<1>2. verdict = "running"
  <2>1. over \in [Ends -> {"running", "sessionTimeout", "inactive", "pingRestart", "pingExit", "peerExit"}]
    BY DEF Typed
  <2> QED BY <1>1, <2>1 DEF Decides, Finish
<1>3. due
  <2>1. timerLoop[f].outbound \in Nat
    <3>1. timerLoop[f] \in LoopStates /\ timerLoop[f].step = "decide" BY DEF Typed, LoopDecides
    <3> QED BY <3>1, LoopStatesRead
  <2>2. PingInterval \in Nat /\ PingPeriod = PingInterval + 1 BY AliveNumbers
  <2>3. due \in Passed(timerLoop[f].outbound, PingInterval) BY DEF PingDue
  <2>4. ~due => PingInterval = 0 \/ timerLoop[f].outbound <= PingInterval
    BY <2>1, <2>2, <2>3, PassedOrNot
  <2>5. ~(PingInterval = 0 \/ timerLoop[f].outbound <= PingInterval)
    BY <2>1, <2>2, SMT
  <2> QED BY <2>4, <2>5
<1>4. Ask(f, "ping") BY <1>1, <1>2, <1>3 DEF Decides
<1> QED BY <1>4, AskEffect

\* Over a link that works, an end that runs is never silent for longer than PingPeriod: when
\* a second is about to pass, no ping is pending and none is being written.
LEMMA PingsStep ==
  ASSUME AliveInv, LinkWorks, AliveNext, NEW f \in Ends, over'[f] = "running"
  PROVE  Pings(f)'
<1>i. Typed /\ LoopsTrue /\ SendersTrue /\ NothingLeftBehind /\ LinkTrue
  BY DEF AliveInv
<1>n. /\ PingPeriod \in Nat /\ PingPeriod > 0 /\ PingPeriod' = PingPeriod
      /\ sinceOutbound[f] \in Nat /\ sinceOutbound'[f] \in Nat
  <2>1. PingPeriod' = PingPeriod BY OptionsKept DEF AliveNext
  <2>2. PingPeriod \in Nat /\ PingPeriod > 0
    <3>1. PingInterval \in Nat /\ PingPeriod = PingInterval + 1 BY <1>i, AliveNumbers
    <3> QED BY <3>1, SMT
  <2>3. Typed' BY <1>i, TypedStep
  <2>4. sinceOutbound[f] \in Nat /\ sinceOutbound'[f] \in Nat BY <1>i, <2>3 DEF Typed
  <2> QED BY <2>1, <2>2, <2>4
<1>w. PingInterval > 0 /\ ~Lossy /\ ~stalled
  BY <1>i DEF LinkWorks, LinkTrue
<1>r. over[f] = "running" /\ ~closed[f] /\ Pings(f)
  <2>1. over[f] = "running"
    <3>1. CASE Second BY <1>i, <3>1, SecondEffect
    <3>2. CASE ~Second BY <1>i, <3>2, LoopEffect
    <3> QED BY <3>1, <3>2
  <2>2. ~closed[f] BY <1>i, <2>1 DEF LoopsTrue, Running
  <2>3. Pings(f) BY <1>i, <2>1 DEF LinkTrue, Running
  <2> QED BY <2>1, <2>2, <2>3
<1>p. /\ sinceOutbound[f] <= PingPeriod
      /\ sinceOutbound[f] = PingPeriod =>
           timerLoop[f].step \in {"due", "decide"} \/ "ping" \in pending[f] \/ sender[f].step = "write"
  BY <1>r DEF Pings
<1>q. SUFFICES /\ sinceOutbound'[f] <= PingPeriod
               /\ sinceOutbound'[f] = PingPeriod =>
                    timerLoop'[f].step \in {"due", "decide"} \/ "ping" \in pending'[f] \/ sender'[f].step = "write"
  BY <1>n DEF Pings
<1>1. CASE Second
  <2>1. /\ timerLoop[f].step = "idle" /\ timerLoop'[f].step = "due"
        /\ sinceOutbound'[f] = Older(sinceOutbound[f], PingInterval)
    BY <1>1, <1>i, <1>r, SecondEffect
  <2>2. pending[f] = {} /\ sender[f].step # "write"
    <3>1. /\ ~signaller[f] /\ sender[f].step # "take"
          /\ sender[f].step = "wait" => ~wake[f]
          /\ sender[f].step = "write" => stalled
      BY <1>1 DEF Second, Settled
    <3>2. /\ sender[f].step = "none" => pending[f] = {}
          /\ sender[f].step = "end" => closed[f]
          /\ sender[f].step = "wait" /\ ~wake[f] /\ ~signaller[f] /\ timerLoop[f].step # "signal" => pending[f] = {}
      BY <1>i DEF SendersTrue, NothingLeftBehind
    <3>3. sender[f].step \in {"none", "wait", "take", "end", "write"}
      BY <1>i, SenderStatesRead DEF Typed
    <3> QED BY <1>r, <1>w, <2>1, <3>1, <3>2, <3>3
  <2>3. sinceOutbound[f] < PingPeriod BY <1>n, <1>p, <2>1, <2>2, SMT
  <2>4. sinceOutbound'[f] <= sinceOutbound[f] + 1
    <3>1. PingInterval \in Nat BY <1>i, AliveNumbers
    <3> QED BY <1>n, <2>1, <3>1, OlderAge
  <2> QED BY <1>n, <2>1, <2>3, <2>4, SMT
<1>2. CASE ~Second
  <2>1. sinceOutbound'[f] \in {0, sinceOutbound[f]} BY <1>2, <1>i, AgesMove
  <2>2. CASE sinceOutbound'[f] = 0 BY <1>n, <1>w, <2>2, SMT
  <2>3. CASE sinceOutbound'[f] = sinceOutbound[f] /\ sinceOutbound'[f] # 0
    <3>1. CASE sinceOutbound[f] # PingPeriod BY <1>p, <2>3, <3>1
    <3>2. CASE "ping" \in pending[f] BY <1>2, <1>i, <1>p, <1>r, <2>3, <3>2, PingGoesOn
    <3>3. CASE sender[f].step = "write" BY <1>2, <1>i, <1>p, <1>r, <1>w, <2>3, <3>3, WriteGoesOut
    <3>4. CASE sinceOutbound[f] = PingPeriod /\ timerLoop[f].step \in {"due", "decide"}
      <4>1. CASE LoopDecides(f)
        <5>1. timerLoop[f].step = "decide" BY <4>1 DEF LoopDecides
        <5>2. sinceOutbound[f] <= timerLoop[f].outbound BY <1>i, <5>1 DEF LoopsTrue
        <5>3. timerLoop[f].outbound \in Nat BY <1>i, <5>1, LoopStatesRead DEF Typed
        <5>4. timerLoop[f].outbound >= PingPeriod BY <1>n, <3>4, <5>2, <5>3
        <5>5. "ping" \in pending'[f] BY <1>i, <1>r, <1>w, <4>1, <5>4, LoopAsks
        <5> QED BY <1>p, <2>3, <5>5
      <4>2. CASE ~LoopDecides(f)
        <5>1. timerLoop'[f].step \in {"due", "decide"}
          <6>1. CASE \E e \in Ends : LoopReads(e) \/ LoopSignals(e) \/ (e # f /\ LoopDecides(e))
            BY <1>i, <1>r, <3>4, <6>1, LoopMoves
          <6>2. CASE UNCHANGED timerLoop BY <3>4, <6>2
          <6> QED BY <1>2, <4>2, <6>1, <6>2 DEF AliveNext, Lose, Stall, SenderWakes,
                SenderTakes, SenderWrites, Shutdown, Write, Receive,
                ReaderSignals
        <5> QED BY <1>p, <2>3, <5>1
      <4> QED BY <4>1, <4>2
    <3> QED BY <1>p, <3>1, <3>2, <3>3, <3>4
  <2> QED BY <2>1, <2>2, <2>3
<1> QED BY <1>1, <1>2

\* An end that has ended does not run again.
LEMMA StillRunning ==
  ASSUME Typed, AliveNext, NEW f \in Ends, over'[f] = "running"
  PROVE  over[f] = "running"
<1>1. CASE Second BY <1>1, SecondEffect
<1>2. CASE ~Second BY <1>2, LoopEffect
<1> QED BY <1>1, <1>2

\* Where packets come from and go to, over a link that works.
LEMMA PacketsMove ==
  ASSUME Typed, AliveNext, ~Second, ~Lossy, NEW f \in Ends,
         ~closed[f], \A p \in link : p.kind # "damaged"
  PROVE  \/ sinceInbound'[f] = 0
         \/ /\ sinceInbound'[f] = sinceInbound[f]
            /\ \A p \in link : p.to = f => p \in link'
            /\ \/ sinceOutbound'[Other(f)] = sinceOutbound[Other(f)]
               \/ \E p \in link' : p.to = f /\ p.age = 0
<1>o. Other(f) \in Ends /\ Other(f) # f /\ Other(Other(f)) = f
      /\ \A e \in Ends : e = f \/ e = Other(f)
  BY OtherEnd
<1>s. ASSUME NEW e \in Ends, NEW k \in PacketKinds, Sent(e, k)
      PROVE  /\ link \subseteq link'
             /\ \/ sinceOutbound'[Other(f)] = sinceOutbound[Other(f)]
                \/ \E p \in link' : p.to = f /\ p.age = 0
  <2>1. \/ UNCHANGED <<link, sinceOutbound>>
        \/ /\ \E new \in Packets : link' = link \cup {new} /\ new.to = Other(e) /\ new.age = 0
           /\ \A g \in Ends \ {e} : sinceOutbound'[g] = sinceOutbound[g]
    BY <1>s, SentEffect, Zenon
  <2>2. CASE UNCHANGED <<link, sinceOutbound>>
    BY <2>2
  <2>3. CASE /\ \E new \in Packets : link' = link \cup {new} /\ new.to = Other(e) /\ new.age = 0
             /\ \A g \in Ends \ {e} : sinceOutbound'[g] = sinceOutbound[g]
    <3>1. CASE e = f
      BY <1>o, <2>3, <3>1
    <3>2. CASE e = Other(f)
      <4>1. PICK new \in Packets : link' = link \cup {new} /\ new.to = Other(e) /\ new.age = 0
        BY <2>3
      <4> QED BY <1>o, <3>2, <4>1
    <3> QED BY <1>o, <3>1, <3>2
  <2> QED BY <2>1, <2>2, <2>3
<1>1. CASE \E e \in Ends : Write(e)
  <2>1. PICK e \in Ends, k \in Kinds : Sent(e, k) /\ sinceInbound' = sinceInbound
    BY <1>1, WriteEffect
  <2>2. k \in PacketKinds BY AliveNumbers
  <2> QED BY <1>s, <2>1, <2>2
<1>2. CASE \E e \in Ends : SenderWrites(e)
  <2>1. PICK e \in Ends : Sent(e, sender[e].kind) /\ sender[e].step = "write" /\ sinceInbound' = sinceInbound
    BY <1>2 DEF SenderWrites
  <2>2. sender[e].kind \in {"ping", "occReply"} BY <2>1, SenderStatesRead DEF Typed
  <2>3. sender[e].kind \in PacketKinds BY <2>2 DEF PacketKinds
  <2> QED BY <1>s, <2>1, <2>3
<1>3. CASE \E e \in Ends : Receive(e)
  <2>1. PICK e \in Ends : Receive(e) BY <1>3
  <2>2. sinceOutbound' = sinceOutbound BY <2>1, ReceiveEffect
  <2>3. PICK p \in link : /\ p.to = e /\ link' = link \ {p}
                          /\ ~closed[e] /\ p.kind # "damaged" => sinceInbound'[e] = 0
    BY <2>1, ReceiveEffect
  <2>4. e # f => sinceInbound'[f] = sinceInbound[f] BY <2>1, ReceiveEffect, SMT
  <2> QED BY <2>2, <2>3, <2>4
<1>4. CASE Stall \/ \E e \in Ends :
             \/ SenderWakes(e) \/ SenderTakes(e) \/ LoopReads(e) \/ Shutdown(e)
             \/ LoopDecides(e) \/ LoopSignals(e) \/ ReaderSignals(e)
  <2>1. UNCHANGED <<link, sinceInbound, sinceOutbound>>
    BY <1>4 DEF Stall, SenderWakes, SenderTakes, LoopReads, Shutdown,
      LoopDecides, LoopSignals, ReaderSignals, clocks
  <2> QED BY <2>1
<1>5. ~Lose BY DEF Lose
<1> QED BY <1>1, <1>2, <1>3, <1>4, <1>5 DEF AliveNext

\* What an end hears is at most PingPeriod and Delay behind.
LEMMA HearsStep ==
  ASSUME AliveInv, LinkWorks, AliveNext, NEW f \in Ends,
         over'[f] = "running", over'[Other(f)] = "running"
  PROVE  /\ Hears(f)'
         /\ timerLoop'[f].step = "decide" => timerLoop'[f].inbound <= PingPeriod + Delay
<1> DEFINE g == Other(f)
           PI == PingPeriod
           D == Delay
<1>i. Typed /\ TypeOK /\ LoopsTrue /\ LinkTrue
  BY DEF AliveInv
<1>g. g \in Ends BY OtherEnd
<1>w. PingInterval > 0 /\ ~Lossy /\ \A p \in link : p.kind # "damaged"
  BY <1>i DEF LinkWorks, LinkTrue
<1>n. PI \in Nat /\ D \in Nat /\ PI' = PI BY <1>i, AliveNumbers, OptionsKept DEF AliveNext
<1>t. /\ sinceInbound[f] \in Nat /\ sinceOutbound[g] \in Nat
      /\ sinceInbound'[f] \in Nat /\ sinceOutbound'[g] \in Nat
  <2>1. Typed' BY <1>i, TypedStep
  <2> QED BY <1>i, <1>g, <2>1 DEF Typed
<1>r. over[f] = "running" /\ over[g] = "running" BY <1>i, <1>g, StillRunning
<1>c. ~closed[f] BY <1>i, <1>r DEF LoopsTrue, Running
<1>p. sinceOutbound[g] <= PI
  BY <1>i, <1>g, <1>r DEF LinkTrue, Running, Pings
<1>h. /\ sinceInbound[f] <= sinceOutbound[g] \/ \E p \in link : p.to = f /\ sinceInbound[f] <= p.age + PI
      /\ timerLoop[f].step = "decide" => timerLoop[f].inbound <= PI + D
  BY <1>i, <1>r DEF LinkTrue, Running, Hears
<1>a. \A p \in link : p.age \in Nat /\ p.age <= D
  BY <1>i, PacketsRead DEF Typed, TypeOK
<1>q. Hears(f)' <=> \/ sinceInbound'[f] <= sinceOutbound'[g]
                    \/ \E p \in link' : p.to = f /\ sinceInbound'[f] <= p.age + PI
  BY <1>n DEF Hears
<1> HIDE DEF g, PI, D
<1>1. CASE Second
  <2>1. timerLoop'[f].step # "decide" BY <1>1, <1>i, SecondEffect
  <2>2. /\ sinceInbound'[f] <= sinceInbound[f] + 1
        /\ sinceOutbound'[g] = sinceOutbound[g] + 1
    <3>1. sinceInbound'[f] = Older(sinceInbound[f], SilenceLimit(f)) BY <1>1, <1>i, SecondEffect
    <3>2. sinceOutbound'[g] = Older(sinceOutbound[g], PingInterval)
      BY <1>1, <1>i, <1>g, SecondEffect
    <3>3. SilenceLimit(f) \in Nat BY <1>i, AliveNumbers
    <3>4. PingInterval \in Nat /\ sinceOutbound[g] < PingInterval + 2
      <4>1. PingInterval \in Nat /\ PI = PingInterval + 1 BY <1>i, AliveNumbers DEF PI
      <4> QED BY <1>t, <1>p, <4>1, SMT
    <3>5. sinceInbound'[f] <= sinceInbound[f] + 1 BY <1>t, <3>1, <3>3, OlderAge
    <3>6. sinceOutbound'[g] = sinceOutbound[g] + 1 BY <1>n, <1>t, <1>w, <3>2, <3>4, OlderAge
    <3> QED BY <3>5, <3>6
  <2>3. link' = {[p EXCEPT !.age = @ + 1] : p \in link} BY <1>1 DEF Second
  <2>4. CASE sinceInbound[f] <= sinceOutbound[g]
    <3>1. sinceInbound'[f] <= sinceOutbound'[g] BY <1>t, <2>2, <2>4, SMT
    <3> QED BY <1>q, <2>1, <3>1
  <2>5. CASE \E p \in link : p.to = f /\ sinceInbound[f] <= p.age + PI
    <3>1. PICK p \in link : p.to = f /\ sinceInbound[f] <= p.age + PI BY <2>5
    <3> DEFINE n == [p EXCEPT !.age = @ + 1]
    <3>2. n \in link' BY <2>3
    <3>3. n.to = f /\ n.age = p.age + 1 BY <1>i, <3>1, PacketsRead DEF Typed
    <3> HIDE DEF n
    <3>4. sinceInbound'[f] <= n.age + PI BY <1>n, <1>t, <1>a, <2>2, <3>1, <3>3, SMT
    <3> QED BY <1>q, <2>1, <3>2, <3>3, <3>4
  <2> QED BY <1>h, <2>4, <2>5
<1>2. CASE ~Second
  <2>1. Hears(f)'
    <3>1. \/ sinceInbound'[f] = 0
          \/ /\ sinceInbound'[f] = sinceInbound[f]
             /\ \A p \in link : p.to = f => p \in link'
             /\ \/ sinceOutbound'[g] = sinceOutbound[g]
                \/ \E p \in link' : p.to = f /\ p.age = 0
      BY <1>2, <1>i, <1>w, <1>c, PacketsMove DEF g
    <3>2. CASE sinceInbound'[f] = 0
      <4>1. sinceInbound'[f] <= sinceOutbound'[g] BY <1>t, <3>2, SMT
      <4> QED BY <1>q, <4>1
    <3>3. CASE /\ sinceInbound'[f] = sinceInbound[f]
               /\ \A p \in link : p.to = f => p \in link'
               /\ \/ sinceOutbound'[g] = sinceOutbound[g]
                  \/ \E p \in link' : p.to = f /\ p.age = 0
      <4>1. CASE \E p \in link : p.to = f /\ sinceInbound[f] <= p.age + PI
        BY <1>q, <3>3, <4>1
      <4>2. CASE sinceInbound[f] <= sinceOutbound[g] /\ sinceOutbound'[g] = sinceOutbound[g]
        BY <1>q, <3>3, <4>2
      <4>3. CASE sinceInbound[f] <= sinceOutbound[g] /\ \E p \in link' : p.to = f /\ p.age = 0
        <5>1. PICK p \in link' : p.to = f /\ p.age = 0 BY <4>3
        <5>2. sinceInbound[f] <= 0 + PI BY <1>n, <1>t, <1>p, <4>3, SMT
        <5>3. sinceInbound'[f] <= p.age + PI BY <3>3, <5>1, <5>2
        <5> QED BY <1>q, <5>1, <5>3
      <4> QED BY <1>h, <3>3, <4>1, <4>2, <4>3
    <3> QED BY <3>1, <3>2, <3>3
  <2>2. ASSUME timerLoop'[f].step = "decide" PROVE timerLoop'[f].inbound <= PI + D
    <3>1. CASE timerLoop'[f] = timerLoop[f] BY <1>h, <2>2, <3>1
    <3>2. CASE timerLoop'[f].inbound = sinceInbound[f]
      <4>1. sinceInbound[f] <= PI + D
        <5>1. CASE sinceInbound[f] <= sinceOutbound[g] BY <1>n, <1>t, <1>p, <5>1, SMT
        <5>2. CASE \E p \in link : p.to = f /\ sinceInbound[f] <= p.age + PI
          <6>1. PICK p \in link : sinceInbound[f] <= p.age + PI BY <5>2
          <6>2. p.age \in Nat /\ p.age <= D BY <1>a
          <6> QED BY <1>n, <1>t, <6>1, <6>2, SMT
        <5> QED BY <1>h, <5>1, <5>2
      <4> QED BY <3>2, <4>1
    <3>3. timerLoop'[f] = timerLoop[f] \/ timerLoop'[f].inbound = sinceInbound[f]
      BY <1>2, <1>i, <2>2, LoopEffect
    <3> QED BY <3>1, <3>2, <3>3
  <2> QED BY <2>1, <2>2 DEF PI, D
<1> QED BY <1>1, <1>2

\* A loop that gives its peer up has read an age beyond PingPeriod and Delay, so the peer
\* had ended.
LEMMA LivesStep ==
  ASSUME AliveInv, LinkWorks, AliveNext, NEW f \in Ends,
         over'[f] \in {"pingRestart", "pingExit"}
  PROVE  over'[Other(f)] # "running"
<1> DEFINE g == Other(f)
<1>i. Typed /\ LinkTrue /\ NeverTakenForDead
  BY DEF AliveInv
<1>g. g \in Ends BY OtherEnd
<1>s. SUFFICES ASSUME over'[g] = "running" PROVE FALSE OBVIOUS
<1>r. over[g] = "running" BY <1>i, <1>g, <1>s, StillRunning
<1>o. over[f] \notin {"pingRestart", "pingExit"}
  BY <1>i, <1>r DEF NeverTakenForDead, Running
<1>t. over \in [Ends -> {"running", "sessionTimeout", "inactive", "pingRestart", "pingExit", "peerExit"}]
  BY <1>i DEF Typed
<1>1. CASE LoopDecides(f)
  <2>1. timerLoop[f].step = "decide" BY <1>1 DEF LoopDecides
  <2>2. PICK verdict \in Verdicts(f, timerLoop[f]) :
          \/ over' = over
          \/ over' = [over EXCEPT ![f] = IF @ = "running" THEN verdict ELSE @]
    BY <1>1 DEF LoopDecides, Decides, Finish
  <2>3. over[f] = "running" /\ verdict \in {"pingRestart", "pingExit"} BY <1>o, <1>t, <2>2
  <2>4. Timeout(f) > 0 /\ timerLoop[f].inbound >= Timeout(f) BY <1>i, <2>1, <2>3, GivesUp
  <2>5. timerLoop[f].inbound <= PingPeriod + Delay
    BY <1>i, <1>r, <2>1, <2>3 DEF LinkTrue, Running
  <2>6. PingPeriod + Delay < Timeout(f)
    BY <2>4 DEF LinkWorks
  <2>7. timerLoop[f].inbound \in Nat BY <1>i, <2>1, LoopStatesRead DEF Typed
  <2>8. PingPeriod \in Nat /\ Delay \in Nat /\ Timeout(f) \in Nat BY <1>i, AliveNumbers
  <2> QED BY <2>4, <2>5, <2>6, <2>7, <2>8, SMT
<1>2. CASE ~LoopDecides(f)
  <2>1. over'[f] = over[f] \/ over'[f] = "peerExit"
    <3>1. CASE \E e \in Ends : e # f /\ LoopDecides(e) BY <1>i, <3>1, LoopMoves
    <3>2. CASE \E e \in Ends : Receive(e) BY <1>i, <3>2, ReceiveEffect
    <3>3. CASE over' = over BY <3>3
    <3> QED BY <1>2, <3>1, <3>2, <3>3 DEF AliveNext, Lose, Stall, Second, SenderWakes,
                SenderTakes, SenderWrites, Shutdown, Write, LoopReads,
                LoopSignals, ReaderSignals
  <2> QED BY <1>o, <2>1
<1> QED BY <1>1, <1>2

\* The two together.
LEMMA LinkStep ==
  ASSUME AliveInv, AliveNext
  PROVE  (LinkWorks => LinkTrue)' /\ NeverTakenForDead'
<1>o. /\ LinkWorks' = LinkWorks
      /\ UNCHANGED <<PingPeriod, Delay, Kinds>>
  BY OptionsKept DEF AliveNext
<1>1. SUFFICES ASSUME LinkWorks PROVE LinkTrue' /\ NeverTakenForDead'
  BY <1>o DEF NeverTakenForDead
<1>i. Typed /\ LinkTrue BY <1>1 DEF AliveInv
<1>2. ~stalled'
  <2>1. ~stalled /\ ~Stalls BY <1>1, <1>i DEF LinkTrue, LinkWorks
  <2>2. ~Stall BY <2>1 DEF Stall
  <2>3. stalled' = stalled
    BY <2>2 DEF AliveNext, Lose, Second, SenderWakes, LoopDecides, Receive,
                SenderTakes, SenderWrites, Shutdown, Write, LoopReads,
                LoopSignals, ReaderSignals
  <2> QED BY <2>1, <2>3
<1>3. \A p \in link' : p.kind # "damaged"
  <2>1. \A p \in link : p.kind # "damaged" BY <1>i DEF LinkTrue
  <2>2. CASE Second
    <3>1. link' = {[p EXCEPT !.age = @ + 1] : p \in link} BY <2>2 DEF Second
    <3>2. SUFFICES ASSUME NEW p \in link PROVE [p EXCEPT !.age = @ + 1].kind # "damaged" BY <3>1
    <3>3. [p EXCEPT !.age = @ + 1].kind = p.kind BY <1>i, PacketsRead DEF Typed
    <3> QED BY <2>1, <3>3
  <2>3. CASE ~Second
    <3>1. "damaged" \notin Kinds BY <1>1 DEF LinkWorks
    <3> QED BY <1>i, <2>1, <2>3, <3>1, LinkEffect
  <2> QED BY <2>2, <2>3
<1>4. \A e \in Ends : Running(e)' => Pings(e)'
  BY <1>1, PingsStep DEF Running
<1>5. ASSUME NEW e \in Ends, Running(e)', Running(Other(e))'
      PROVE  /\ Hears(e)'
             /\ timerLoop'[e].step = "decide" => timerLoop'[e].inbound <= PingPeriod + Delay
  BY <1>1, <1>5, HearsStep DEF Running
<1>6. LinkTrue' BY <1>o, <1>2, <1>3, <1>4, <1>5 DEF LinkTrue
<1>7. NeverTakenForDead' BY <1>1, LivesStep DEF NeverTakenForDead, Running
<1> QED BY <1>6, <1>7

\* The invariant is inductive.
LEMMA AliveStep ==
  ASSUME AliveInv, AliveNext
  PROVE  AliveInv'
<1>1. /\ Typed /\ TypeOK /\ LoopsTrue /\ SilenceBounded
      /\ SendersTrue /\ NothingLeftBehind
  BY DEF AliveInv
<1>2. Typed' /\ TypeOK' BY <1>1, TypedStep, BoundsStep
<1>3. LoopsTrue' /\ SilenceBounded' BY <1>1, LoopsStep
<1>4. SendersTrue' /\ NothingLeftBehind' BY <1>1, SenderStep
<1>5. (LinkWorks => LinkTrue)' /\ NeverTakenForDead' BY LinkStep
<1> QED BY <1>2, <1>3, <1>4, <1>5 DEF AliveInv

\* It says nothing of other variables.
LEMMA AliveStutter ==
  ASSUME AliveInv, UNCHANGED aliveVars
  PROVE  AliveInv'
BY SMT DEF aliveVars, clocks, messages, AliveInv, Typed, TypeOK, LoopsTrue, SilenceBounded,
  SendersTrue, NothingLeftBehind, LinkWorks, LinkTrue, NeverTakenForDead,
  Running, Checked, Pings, Hears, Timeout, SilenceLimit,
  effectiveClientPingTimeout, PingInterval, PingPeriod, PingRestart, PingExit,
  ServerPingRestart, InactiveTimeout, InactiveMinimumBytes, SessionTimeout,
  Delay, Lossy, Stalls, Kinds

\* It holds when a session is established.
LEMMA AliveInitially == AliveInit => AliveInv
<1> SUFFICES ASSUME AliveInit PROVE AliveInv OBVIOUS
<1>1. Typed
  <2>1. /\ timerLoop \in [Ends -> LoopStates]
        /\ sender \in [Ends -> SenderStates]
    BY LoopStatesMade, SenderStatesMade DEF AliveInit
  <2> QED BY <2>1 DEF Typed, AliveInit
<1>n. /\ PingInterval \in Nat /\ InactiveTimeout \in Nat
      /\ InactiveMinimumBytes \in Nat /\ SessionTimeout \in Nat
      /\ \A e \in Ends : Timeout(e) \in Nat /\ SilenceLimit(e) \in Nat
  BY <1>1, AliveNumbers
<1>v. /\ \A e \in Ends : /\ sinceInbound[e] = 0 /\ sinceOutbound[e] = 0 /\ over[e] = "running"
                         /\ timerLoop[e].step = "idle" /\ pending[e] = {} /\ ~closed[e]
                         /\ sender[e].step = "none"
      /\ sinceReset = 0 /\ sinceData = 0 /\ sinceStart = 0 /\ accumulator = 0
      /\ link = {} /\ ~stalled
  BY LoopStatesMade DEF AliveInit
<1>c. "client" \in Ends /\ \A e \in Ends : Other(e) \in Ends BY OtherEnd DEF Ends
<1>2. TypeOK
  <2>1. \A e \in Ends : sinceInbound[e] \in 0..SilenceLimit(e) + 2 /\ sinceOutbound[e] \in 0..PingInterval + 2
    BY <1>n, <1>v, SMT
  <2>2. /\ {sinceReset, sinceData} \subseteq 0..InactiveTimeout + 2
        /\ sinceStart \in 0..SessionTimeout + 2
        /\ accumulator \in 0..InactiveMinimumBytes
    BY <1>n, <1>v, SMT
  <2> QED BY <1>v, <2>1, <2>2 DEF TypeOK
<1>3. LoopsTrue /\ SilenceBounded
  <2>1. SilenceBounded
    BY <1>n, <1>v, SMT DEF SilenceBounded
  <2>2. LoopsTrue
    <3>1. \A e \in Ends : timerLoop[e].step # "decide" /\ ~closed[e] /\ 0 <= Timeout(e)
      BY <1>n, <1>v, SMT
    <3>2. sinceData <= sinceReset
      BY <1>v, SMT
    <3>3. InactiveTimeout > 0 => sinceReset <= InactiveTimeout + 1 /\ sinceReset <= InactiveTimeout
      BY <1>n, <1>v, SMT
    <3>4. SessionTimeout > 0 => sinceStart <= SessionTimeout + 1 /\ sinceStart <= SessionTimeout
      BY <1>n, <1>v, SMT
    <3> QED BY <1>v, <3>1, <3>2, <3>3, <3>4 DEF LoopsTrue
  <2> QED BY <2>1, <2>2
<1>4. SendersTrue /\ NothingLeftBehind
  BY <1>v DEF SendersTrue, NothingLeftBehind
<1>5. LinkWorks => LinkTrue
  <2>1. SUFFICES ASSUME LinkWorks PROVE LinkTrue OBVIOUS
  <2>2. PingPeriod \in Nat /\ PingPeriod > 0
    <3>1. PingInterval \in Nat /\ PingPeriod = PingInterval + 1 BY <1>1, AliveNumbers
    <3> QED BY <3>1, SMT
  <2> QED BY <1>n, <1>v, <1>c, <2>2, SMT DEF LinkTrue, Pings, Hears
<1>6. NeverTakenForDead BY <1>v DEF NeverTakenForDead
<1> QED BY <1>1, <1>2, <1>3, <1>4, <1>5, <1>6 DEF AliveInv

\* The inductive invariant, for every set of options, every delay and every kind of traffic.
THEOREM AliveInvariance == AliveSpec => []AliveInv
<1>1. AliveInit => AliveInv
  BY AliveInitially
<1>2. AliveInv /\ [AliveNext]_aliveVars => AliveInv'
  BY AliveStep, AliveStutter
<1> QED BY <1>1, <1>2, PTL DEF AliveSpec

\* IdleTunnelLives: over a link that works, however idle, neither end takes the other for dead
\* unless it has ended, and a sender that waits has nothing left to send (runLoop,
\* dataChannelMessageSender), whatever the intervals and timeouts.
THEOREM IdleTunnelAlwaysLives == AliveSpec => []IdleTunnelLives
<1>1. AliveInv => IdleTunnelLives
  BY DEF IdleTunnelLives, AliveInv
<1> QED BY <1>1, AliveInvariance, PTL

\* TimersFire: silence ends a session within a second of its limit and pings keep no client
\* alive that is inactive or has reached its age, on every link, also one that is stalled
\* (keepalive.go: it "never stops a timer").
THEOREM TimersAlwaysFire == AliveSpec => []TimersFire
<1>1. AliveInv => TimersFire
  <2> SUFFICES ASSUME AliveInv PROVE ClientTimersFire
    BY DEF TimersFire, AliveInv
  <2>1. Typed /\ LoopsTrue BY DEF AliveInv
  <2>2. /\ sinceReset \in Nat /\ sinceData \in Nat /\ InactiveTimeout \in Nat
    BY <2>1, AliveNumbers DEF Typed
  <2>3. /\ sinceData <= sinceReset
        /\ Running("client") =>
             /\ InactiveTimeout > 0 => sinceReset <= InactiveTimeout + 1
             /\ SessionTimeout > 0 => sinceStart <= SessionTimeout + 1
    BY <2>1 DEF LoopsTrue
  <2> QED BY <2>2, <2>3, SMT DEF ClientTimersFire
<1> QED BY <1>1, AliveInvariance, PTL
=============================================================================
