----------------------------- MODULE ServerLoop -----------------------------
(***************************************************************************)
(* The main loop of the server: the state machine of APB_Run and one pass  *)
(* of APB_WaitForMessage (server/server.c), with the timer, the pings,     *)
(* Ctrl-C, the public port and the opening and closing of the remote.      *)
(*                                                                         *)
(* The server is one task.  A pass waits for signals, notes which came     *)
(* (got), and serves the timer, the port and the line in that order; what  *)
(* happens outside meanwhile waits for the next pass, except a message     *)
(* posted while the port is being drained.  A pass is therefore split into *)
(* the steps between which others can act, and the position of the server  *)
(* in it is pc.                                                            *)
(*                                                                         *)
(* What requests and packets do to connections is module Connections; here *)
(* a message is QUIT or any other, and a packet is one the loop reacts to  *)
(* or any other.  The ids of packets and the requests to send one again    *)
(* are left out.  SS_DISCONNECTING and SS_WAIT_FOR_DISCONNECT are assigned *)
(* nowhere in the code, so neither they nor APB_SendShutdown occur.        *)
(***************************************************************************)
EXTENDS Integers, SequencesExt

CONSTANTS
    MaxRetries,  \* initial retryCount: 5
    PingTicks,   \* PING_TICKS: 5
    MaxMissed,   \* MAX_MISSED_PINGS: 5
    OutMax,      \* packets of the loop the packet writer can hold
    InMax,       \* bound: packets in flight from the Pi
    MaxPi,       \* bound: packets of the Pi
    MaxPosts,    \* bound: messages of clients
    MaxBreaks    \* bound: Ctrl-C

ASSUME ServerLoopAssumption ==
    /\ MaxRetries \in Nat \ {0}
    /\ PingTicks \in Nat \ {0}
    /\ MaxMissed \in Nat \ {0}
    /\ OutMax \in Nat /\ InMax \in Nat
    /\ MaxPi \in Nat /\ MaxPosts \in Nat /\ MaxBreaks \in Nat

VARIABLES
    \* the server
    state,        \* srv_State
    pc,           \* where in APB_Run or APB_WaitForMessage the server is
    got,          \* sig: what the last Wait returned
    retryCount,   \* retryCount of APB_Run
    pingSend,     \* srv_PingSendTicks: ticks until the next ping
    pingTimeout,  \* srv_PingTimeoutTicks: ticks left for the answer
    missed,       \* srv_MissedPingCount
    batch,        \* packets of this pass not yet handled
    \* what it waits for
    timer,        \* srv_TimerReq: not sent, sent, or replied to
    brk,          \* SIGBREAKF_CTRL_C is set
    port,         \* srv_ClientPort
    msgs,         \* the messages on it
    remote,       \* the remote is open
    in,           \* packets from the Pi, not yet read
    \* the Pi and the link to it
    out,          \* packets of the loop on their way to the Pi
    pi,           \* the Pi runs
    \* bounds
    piSent, posts, breaks,
    \* history
    attempts,     \* INITs since the start or the last HELLO, up to MaxRetries + 1
    revived       \* a HELLO has been handled in SS_DISCONNECTED

pingVars    == <<pingSend, pingTimeout, missed>>
loopVars    == <<state, pc, got, retryCount, batch>>
clientVars  == <<port, msgs, posts>>
lineVars    == <<remote, in, out, pi, piSent>>
breakVars   == <<brk, breaks>>
historyVars == <<attempts, revived>>

vars == <<loopVars, pingVars, timer, breakVars, clientVars, lineVars, historyVars>>

ServerState ==
    {"STARTING", "OPENING_REMOTE", "OPENING_CLIENT", "CONNECTING",
     "WAIT_FOR_CONNECT", "CONNECTED", "CONNECTION_LOST", "CONNECT_FAILED",
     "DISCONNECTED", "STOPPING", "CLOSING_CLIENT", "CLOSING_REMOTE", "STOPPED"}

Signal  == {"break", "timer", "client", "remote"}
Message == {"QUIT", "OTHER"}
PiType  == {"HELLO", "GOODBYE", "PONG", "OTHER"}
OutType == {"INIT", "PING"}

TypeOK ==
    /\ state \in ServerState
    /\ pc \in {"run", "wait", "timer", "client", "remote", "packets", "delete"}
    /\ got \subseteq Signal
    /\ retryCount \in 0..MaxRetries
    /\ pingSend \in Nat /\ pingTimeout \in Nat /\ missed \in Nat
    /\ batch \in Seq(PiType)
    /\ timer \in {"off", "running", "done"}
    /\ brk \in BOOLEAN
    /\ port \in {"none", "open"}
    /\ msgs \in Seq(Message)
    /\ remote \in BOOLEAN
    /\ in \in Seq(PiType)
    /\ out \in Seq(OutType)
    /\ pi \in {"up", "down"}
    /\ piSent \in Nat /\ posts \in Nat /\ breaks \in Nat
    /\ attempts \in 0..(MaxRetries + 1)
    /\ revived \in BOOLEAN

-----------------------------------------------------------------------------

\* A server that APB_CreateServer built and APB_Run has just been entered
\* with, its timer sent.
Init ==
    /\ state = "STARTING" /\ pc = "run" /\ got = {}
    /\ retryCount = MaxRetries
    /\ pingSend = MaxMissed /\ pingTimeout = 0 /\ missed = 0
    /\ batch = <<>>
    /\ timer = "running" /\ brk = FALSE
    /\ port = "none" /\ msgs = <<>>
    /\ remote = FALSE /\ in = <<>> /\ out = <<>>
    /\ pi = "up"
    /\ piSent = 0 /\ posts = 0 /\ breaks = 0
    /\ attempts = 0 /\ revived = FALSE

\* APB_AllocPacket and the write that follows.  The pools it allocates from
\* are shared with all connections, so it may fail at any time.
Send(type) == Len(out) < OutMax /\ out' = Append(out, type)
NoRoom     == UNCHANGED out

-----------------------------------------------------------------------------
(* Variants of the operators below that a slip in the code would produce;  *)
(* no action uses them.                                                    *)

RetriesNotCounted(n)     == n
CountsBelowZero(n)       == n - 1
OpenUnchecked(ok, s)     == s
DisconnectedWaits        == {"WAIT_FOR_CONNECT", "CONNECTED", "DISCONNECTED"}
KeepsTimerConnected(s)   == s = "CONNECTED"
TimesOutUnlessConnected(s) == s # "CONNECTED"
SendPingAwaitsNothing(send, timeout) ==
    \/ Send("PING") /\ pingSend' = 0 /\ pingTimeout' = timeout
    \/ NoRoom /\ pingSend' = send /\ pingTimeout' = timeout

-----------------------------------------------------------------------------

\* APB_SendPing; without room it returns with the counters as they were.
SendPing(send, timeout) ==
    \/ /\ Send("PING")
       /\ pingSend' = 0 /\ pingTimeout' = PingTicks
    \/ /\ NoRoom
       /\ pingSend' = send /\ pingTimeout' = timeout

-----------------------------------------------------------------------------
(* APB_Run, one action per state.                                          *)

At(s)   == pc = "run" /\ state = s
Goto(s) == state' = s /\ UNCHANGED <<pc, got, batch>>

Start ==
    /\ At("STARTING")
    /\ retryCount' = MaxRetries
    /\ Goto("OPENING_REMOTE")
    /\ UNCHANGED <<pingVars, timer, breakVars, clientVars, lineVars, historyVars>>

\* The state after an attempt to open the remote or the port.
AfterOpen(ok, s) == IF ok THEN s ELSE "STOPPING"

OpenRemote ==
    /\ At("OPENING_REMOTE")
    /\ \E ok \in BOOLEAN : remote' = ok /\ Goto(AfterOpen(ok, "OPENING_CLIENT"))
    /\ UNCHANGED <<retryCount, pingVars, timer, breakVars, clientVars, in, out, pi,
                   piSent, historyVars>>

OpenClient ==
    /\ At("OPENING_CLIENT")
    /\ \E ok \in BOOLEAN :
         /\ port' = IF ok THEN "open" ELSE "none"
         /\ Goto(AfterOpen(ok, "CONNECTING"))
    /\ UNCHANGED <<retryCount, pingVars, timer, breakVars, msgs, posts, lineVars,
                   historyVars>>

\* APB_SendInit, and on to the wait.
SendInit ==
    /\ At("CONNECTING")
    /\ \/ /\ Send("INIT")
          /\ state' = "WAIT_FOR_CONNECT" /\ pc' = "wait"
          /\ attempts' = IF attempts > MaxRetries THEN attempts ELSE attempts + 1
          /\ UNCHANGED <<got, batch>>
       \/ /\ NoRoom
          /\ Goto("STOPPING")
          /\ UNCHANGED attempts
    /\ UNCHANGED <<retryCount, pingVars, timer, breakVars, clientVars, remote, in, pi,
                   piSent, revived>>

\* The states in which APB_Run does nothing but call APB_WaitForMessage.
WaitStates == {"WAIT_FOR_CONNECT", "CONNECTED"}

WaitForMessage ==
    /\ pc = "run" /\ state \in WaitStates
    /\ pc' = "wait"
    /\ UNCHANGED <<state, got, batch, retryCount, pingVars, timer, breakVars, clientVars,
                   lineVars, historyVars>>

CountRetry(n) == n - 1

ConnectFailed ==
    /\ At("CONNECT_FAILED")
    /\ retryCount' = CountRetry(retryCount)
    /\ Goto(IF retryCount' = 0 THEN "STOPPING" ELSE "CONNECTING")
    /\ UNCHANGED <<pingVars, timer, breakVars, clientVars, lineVars, historyVars>>

ConnectionLost ==
    /\ At("CONNECTION_LOST")
    /\ Goto("CONNECTING")
    /\ UNCHANGED <<retryCount, pingVars, timer, breakVars, clientVars, lineVars, historyVars>>

Disconnected ==
    /\ At("DISCONNECTED")
    /\ Goto("STOPPING")
    /\ UNCHANGED <<retryCount, pingVars, timer, breakVars, clientVars, lineVars, historyVars>>

Stopping ==
    /\ At("STOPPING")
    /\ Goto("CLOSING_CLIENT")
    /\ UNCHANGED <<retryCount, pingVars, timer, breakVars, clientVars, lineVars, historyVars>>

\* APB_DeletePort: every message is replied to, then the port goes away.  No
\* Forbid spans the two.
DrainPort ==
    /\ At("CLOSING_CLIENT") /\ msgs # <<>>
    /\ msgs' = Tail(msgs)
    /\ UNCHANGED <<loopVars, pingVars, timer, breakVars, port, posts, lineVars, historyVars>>

PortDrained ==
    /\ At("CLOSING_CLIENT") /\ msgs = <<>>
    /\ pc' = "delete"
    /\ UNCHANGED <<state, got, batch, retryCount, pingVars, timer, breakVars, clientVars,
                   lineVars, historyVars>>

DeletePort ==
    /\ pc = "delete"
    /\ port' = "none"
    /\ state' = "CLOSING_REMOTE" /\ pc' = "run"
    /\ UNCHANGED <<got, batch, retryCount, pingVars, timer, breakVars, msgs, posts,
                   lineVars, historyVars>>

CloseRemote ==
    /\ At("CLOSING_REMOTE")
    /\ remote' = FALSE /\ in' = <<>>
    /\ Goto("STOPPED")
    /\ UNCHANGED <<retryCount, pingVars, timer, breakVars, clientVars, out, pi, piSent,
                   historyVars>>

-----------------------------------------------------------------------------
(* One pass of APB_WaitForMessage.                                         *)

Pending == {s \in Signal : CASE s = "break"  -> brk
                             [] s = "timer"  -> timer = "done"
                             [] s = "client" -> msgs # <<>>
                             [] s = "remote" -> in # <<>>}

\* The part of the pass that serves the next of the signals.
AfterTimer  == IF "client" \in got' THEN "client" ELSE "remote"
AfterWait   == IF "timer" \in got' THEN "timer" ELSE AfterTimer

WaitReturns ==
    /\ pc = "wait" /\ Pending # {}
    /\ got' = Pending
    /\ brk' = FALSE
    /\ state' = IF brk THEN "DISCONNECTED" ELSE state
    /\ pc' = AfterWait
    /\ UNCHANGED <<batch, retryCount, pingVars, timer, breaks, clientVars, lineVars,
                   historyVars>>

\* The state in which a tick means that no HELLO came in time.
TimesOut(s) == s = "WAIT_FOR_CONNECT"

\* The state after a tick in which APB_EnableTimer sends the timer again.
KeepsTimer(s) == s # "DISCONNECTED"

Down(n) == IF n > 0 THEN n - 1 ELSE 0

\* A tick while connected.  The scan of the connections' requests it also
\* does is CheckRequestTimeouts of module Connections.
TickConnected ==
    /\ missed' = IF pingTimeout = 1 THEN missed + 1 ELSE missed
    /\ state' = IF pingTimeout = 1 /\ missed' > MaxMissed THEN "CONNECTION_LOST" ELSE state
    /\ IF pingSend = 1
       THEN SendPing(pingSend, Down(pingTimeout))
       ELSE /\ pingSend' = Down(pingSend) /\ pingTimeout' = Down(pingTimeout)
            /\ UNCHANGED out

HandleTimer ==
    /\ pc = "timer"
    /\ \/ /\ TimesOut(state)
          /\ state' = "CONNECT_FAILED"
          /\ UNCHANGED <<pingVars, out>>
       \/ /\ state = "CONNECTED"
          /\ TickConnected
       \/ /\ ~TimesOut(state) /\ state # "CONNECTED"
          /\ UNCHANGED <<state, pingVars, out>>
    /\ timer' = IF KeepsTimer(state') THEN "running" ELSE "off"
    /\ UNCHANGED <<got, batch, retryCount, breakVars, clientVars, remote, in, pi, piSent,
                   historyVars>>
    /\ pc' = AfterTimer

\* The loop of APB_ReceiveFromClient takes what is on the port, what arrives
\* while it runs included.
HandleMessage ==
    /\ pc = "client" /\ msgs # <<>>
    /\ msgs' = Tail(msgs)
    /\ state' = IF Head(msgs) = "QUIT" THEN "DISCONNECTED" ELSE state
    /\ UNCHANGED <<pc, got, batch, retryCount, pingVars, timer, breakVars, port, posts,
                   lineVars, historyVars>>

MessagesDone ==
    /\ pc = "client" /\ msgs = <<>>
    /\ pc' = "remote"
    /\ UNCHANGED <<state, got, batch, retryCount, pingVars, timer, breakVars, clientVars,
                   lineVars, historyVars>>

\* REM_HandleSignal reads what is there and APB_ProcessBuffer cuts packets out
\* of it: at least one, perhaps not all.
ReceiveFromRemote ==
    /\ pc = "remote"
    /\ IF "remote" \in got
       THEN \E n \in 1..Len(in) :
              batch' = SubSeq(in, 1, n) /\ in' = SubSeq(in, n + 1, Len(in))
       ELSE UNCHANGED <<batch, in>>
    /\ pc' = "packets"
    /\ UNCHANGED <<state, got, retryCount, pingVars, timer, breakVars, clientVars, remote,
                   out, pi, piSent, historyVars>>

\* Every packet shows that the Pi is there, whatever the state: the next ping
\* is put off and the one outstanding forgotten (APB_HandlePacket).
Refresh ==
    pingSend' = PingTicks /\ pingTimeout' = 0

HandleHello ==
    /\ state' = "CONNECTED"
    /\ SendPing(PingTicks, 0)
    /\ attempts' = 0
    /\ revived' = (revived \/ state = "DISCONNECTED")
    /\ UNCHANGED missed

HandleGoodbye ==
    /\ state' = "DISCONNECTED"
    /\ Refresh
    /\ UNCHANGED <<missed, out, historyVars>>

HandlePong ==
    /\ missed' = 0
    /\ Refresh
    /\ UNCHANGED <<state, out, historyVars>>

HandleOther ==
    /\ Refresh
    /\ UNCHANGED <<state, missed, out, historyVars>>

HandlePacket ==
    /\ pc = "packets" /\ batch # <<>>
    /\ batch' = Tail(batch)
    /\ \/ Head(batch) = "HELLO"   /\ HandleHello
       \/ Head(batch) = "GOODBYE" /\ HandleGoodbye
       \/ Head(batch) = "PONG"    /\ HandlePong
       \/ Head(batch) = "OTHER"   /\ HandleOther
    /\ UNCHANGED <<pc, got, retryCount, timer, breakVars, clientVars, remote, in, pi, piSent>>

PassDone ==
    /\ pc = "packets" /\ batch = <<>>
    /\ pc' = "run"
    /\ UNCHANGED <<state, got, batch, retryCount, pingVars, timer, breakVars, clientVars,
                   lineVars, historyVars>>

-----------------------------------------------------------------------------
(* The world around the server.                                            *)

TimerFires ==
    /\ timer = "running"
    /\ timer' = "done"
    /\ UNCHANGED <<loopVars, pingVars, breakVars, clientVars, lineVars, historyVars>>

Break ==
    /\ breaks < MaxBreaks
    /\ brk' = TRUE /\ breaks' = breaks + 1
    /\ UNCHANGED <<loopVars, pingVars, timer, clientVars, lineVars, historyVars>>

\* A client finds the port and posts: APB_PutMsg or SendControlMessage.
Post ==
    /\ port = "open" /\ posts < MaxPosts
    /\ \E m \in Message : msgs' = Append(msgs, m)
    /\ posts' = posts + 1
    /\ UNCHANGED <<loopVars, pingVars, timer, breakVars, port, lineVars, historyVars>>

PiPuts(type) ==
    /\ pi = "up" /\ remote /\ Len(in) < InMax /\ piSent < MaxPi
    /\ in' = Append(in, type)
    /\ piSent' = piSent + 1
    /\ UNCHANGED <<remote, pi>>

\* INIT is answered with HELLO, PING with PONG.
PiAnswers ==
    /\ out # <<>>
    /\ PiPuts(IF Head(out) = "INIT" THEN "HELLO" ELSE "PONG")
    /\ out' = Tail(out)
    /\ UNCHANGED <<loopVars, pingVars, timer, breakVars, clientVars, historyVars>>

PiSends ==
    /\ \E type \in {"GOODBYE", "OTHER"} : PiPuts(type)
    /\ UNCHANGED <<loopVars, pingVars, timer, breakVars, clientVars, out, historyVars>>

\* A packet or the answer to it is lost.
LosePacket ==
    /\ out # <<>>
    /\ out' = Tail(out)
    /\ UNCHANGED <<loopVars, pingVars, timer, breakVars, clientVars, remote, in, pi, piSent,
                   historyVars>>

PiStops ==
    /\ pi = "up"
    /\ pi' = "down"
    /\ UNCHANGED <<loopVars, pingVars, timer, breakVars, clientVars, remote, in, out, piSent,
                   historyVars>>

-----------------------------------------------------------------------------

RunStep ==
    \/ Start \/ OpenRemote \/ OpenClient \/ SendInit \/ WaitForMessage
    \/ ConnectFailed \/ ConnectionLost \/ Disconnected \/ Stopping
    \/ DrainPort \/ PortDrained \/ DeletePort \/ CloseRemote

PassStep ==
    \/ WaitReturns \/ HandleTimer \/ HandleMessage \/ MessagesDone
    \/ ReceiveFromRemote \/ HandlePacket \/ PassDone

Outside ==
    \/ TimerFires \/ Break \/ Post
    \/ PiAnswers \/ PiSends \/ LosePacket \/ PiStops

Next == RunStep \/ PassStep \/ Outside

Spec == Init /\ [][Next]_vars

\* The server runs when it can, and a timer that was sent comes back.
Fairness == WF_vars(RunStep \/ PassStep) /\ WF_vars(TimerFires)

FairSpec == Spec /\ Fairness

-----------------------------------------------------------------------------
(* Properties.                                                             *)

\* However connects fail and connections are lost in between, the server never
\* sends more than five INITs without a HELLO: retryCount is only set once,
\* and only failures count it down.
AttemptsBounded == attempts <= MaxRetries

\* The server either counts down to the next ping or waits for the answer to
\* the last one: APB_SendPing and APB_HandlePacket each clear the counter that
\* the other sets, and a tick leaves at most one running.
PingExclusive == pingSend = 0 \/ pingTimeout = 0

\* While connected, pings only cease after one that was not answered.
PingsStopOnlyMissed ==
    state = "CONNECTED" /\ pingSend = 0 /\ pingTimeout = 0 => missed > 0

\* Whenever the server waits its timer is running or about to be served,
\* except after a HELLO undid a Ctrl-C in the same pass: the tick was then
\* not followed by another.
TimerRuns == pc = "wait" /\ timer = "off" => revived

\* Nothing but a HELLO later in the same pass undoes a Ctrl-C, a QUIT or a
\* GOODBYE: no tick, no other packet, no message.
OnlyHelloRevives ==
    [][state = "DISCONNECTED" =>
         \/ state' \in {"DISCONNECTED", "STOPPING"}
         \/ batch # <<>> /\ Head(batch) = "HELLO" /\ state' = "CONNECTED"]_vars

\* The server reads and writes only a remote that is open, serves only a port
\* that is open, and stops with both closed, whichever step of the start
\* failed.
Resources ==
    /\ pc \in {"wait", "timer", "client", "remote", "packets"} => remote /\ port = "open"
    /\ state = "STOPPED" => ~remote /\ port = "none"

\* A Ctrl-C, a QUIT or a GOODBYE ends the server unless a HELLO undoes it.
EndsOrRevived == state = "DISCONNECTED" ~> state \in {"STOPPED", "CONNECTED"}

\* A server that tries to connect, at its start or after a loss, succeeds or
\* gives up and stops.
GivesUp == state = "CONNECTING" ~> state \in {"STOPPED", "CONNECTED"}

-----------------------------------------------------------------------------
(* What the documentation says and the code does not do.                   *)

\* README.md: Ping is "sent from the Amiga to check status of connection",
\* and APB_HandleTimer logs "Remote connection timeout": a Pi that is gone
\* for good is noticed.
LossNoticed == [](pi = "down" => <>(state # "CONNECTED"))

=============================================================================
