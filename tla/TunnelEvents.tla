---------------------------- MODULE TunnelEvents ----------------------------
(***************************************************************************)
(* The dispatcher of client_tunnel.go: sessions queue an event each time   *)
(* the configuration of the tunnel is set up or changed, one goroutine     *)
(* hands them to the OnTunnelConfiguration callback of the application,    *)
(* and an error of the callback fails the session that is current then.    *)
(* An event is queued under the lock and signalled after it; the channel   *)
(* for that holds one signal.                                              *)
(***************************************************************************)
EXTENDS Naturals, Sequences

CONSTANTS
  MaxEvents,    \* bound: events emitted
  Emitters      \* goroutines that emit events

VARIABLES
  events,       \* dispatcher.events, as numbers in order of emission
  emitted,      \* events emitted so far
  signalling,   \* emitters between the queue and the signal
  wake,         \* whether the channel holds a signal
  started,      \* dispatcher.started
  stopped,      \* dispatcher.stopped
  dispatcher,   \* where the goroutine is
  event,        \* the event it holds, 0 for none
  close         \* where Close is

vars == <<events, emitted, signalling, wake, started, stopped, dispatcher, event, close>>

Init ==
  /\ events = <<>> /\ emitted = 0
  /\ signalling = {}
  /\ wake = FALSE
  /\ started = FALSE /\ stopped = FALSE
  /\ dispatcher = "none" /\ event = 0
  /\ close = "none"

\* startTunnelConfigurationDispatcher
Start ==
  /\ ~started /\ ~stopped
  /\ started' = TRUE
  /\ dispatcher' = "loop"
  /\ UNCHANGED <<events, emitted, signalling, wake, stopped, event, close>>

\* emitTunnelConfigurationEvent and the end of applyPushedOptions
Emit ==
  /\ started /\ emitted < MaxEvents
  /\ \E e \in Emitters \ signalling :
       /\ emitted' = emitted + 1
       /\ IF stopped THEN UNCHANGED <<events, signalling>>
          ELSE /\ events' = Append(events, emitted + 1)
               /\ signalling' = signalling \cup {e}
  /\ UNCHANGED <<wake, started, stopped, dispatcher, event, close>>

\* Mutant: a channel without room, which drops the signal when nobody receives.
SignalUnbuffered ==
  /\ \E e \in signalling : signalling' = signalling \ {e}
  /\ wake' = (wake \/ dispatcher = "waiting")
  /\ UNCHANGED <<events, emitted, started, stopped, dispatcher, event, close>>

\* signalTunnelConfigurationEvent: a channel that is full has its signal already.
Signal ==
  /\ \E e \in signalling : signalling' = signalling \ {e}
  /\ wake' = TRUE
  /\ UNCHANGED <<events, emitted, started, stopped, dispatcher, event, close>>

Loop ==
  /\ dispatcher = "loop"
  /\ IF stopped THEN dispatcher' = "done" /\ events' = <<>> /\ UNCHANGED event
     ELSE IF events = <<>> THEN dispatcher' = "unlocked" /\ UNCHANGED <<events, event>>
     ELSE /\ event' = Head(events)
          /\ events' = Tail(events)
          /\ dispatcher' = "holding"
  /\ UNCHANGED <<emitted, signalling, wake, started, stopped, close>>

\* The receive from the channel, after the lock is released.
Wake ==
  /\ \/ /\ dispatcher = "unlocked"
        /\ dispatcher' = "waiting"
        /\ UNCHANGED wake
     \/ /\ dispatcher = "waiting" /\ wake
        /\ wake' = FALSE
        /\ dispatcher' = "loop"
  /\ UNCHANGED <<events, emitted, signalling, started, stopped, event, close>>

\* The callback is entered after the lock is released, and takes its time.
Call ==
  /\ dispatcher = "holding"
  /\ dispatcher' = "calling"
  /\ UNCHANGED <<events, emitted, signalling, wake, started, stopped, event, close>>

\* It returns; an error fails the session that is current by now, whichever the
\* event was about: for the supervisor that is a RestartSession.
Return ==
  /\ dispatcher = "calling"
  /\ dispatcher' = "loop"
  /\ event' = 0
  /\ UNCHANGED <<events, emitted, signalling, wake, started, stopped, close>>

\* stopTunnelConfigurationDispatcher, called by Close
Stop ==
  /\ close = "none"
  /\ stopped' = TRUE
  /\ events' = <<>>
  /\ close' = "stopping"
  /\ UNCHANGED <<emitted, signalling, wake, started, dispatcher, event>>

\* The signal, and the rest of Close, which does not wait for the dispatcher.
Closed ==
  /\ close = "stopping"
  /\ wake' = TRUE
  /\ close' = "returned"
  /\ UNCHANGED <<events, emitted, signalling, started, stopped, dispatcher, event>>

Next ==
  \/ Start \/ Emit \/ Signal
  \/ Loop \/ Wake \/ Call \/ Return
  \/ Stop \/ Closed

Spec == Init /\ [][Next]_vars

-----------------------------------------------------------------------------
(* Properties *)

\* The variables hold what their comments say, and the callback gets the events in
\* the order the sessions emitted them: the queue holds only newer ones than the one
\* in hand, oldest first.
QueueOrdered ==
  /\ emitted \in 0..MaxEvents /\ event \in 0..emitted
  /\ signalling \subseteq Emitters
  /\ dispatcher \in {"none", "loop", "unlocked", "waiting", "holding", "calling", "done"}
  /\ \A i \in DOMAIN events :
       events[i] > event /\ events[i] \in 1..emitted /\ \A j \in 1..(i - 1) : events[j] < events[i]

=============================================================================
