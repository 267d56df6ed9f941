-------------------------- MODULE ServerLoopProofs --------------------------
(***************************************************************************)
(* Theorems about ServerLoop, for every value of its constants.            *)
(***************************************************************************)
EXTENDS ServerLoop, SequenceTheorems, TLAPS

-----------------------------------------------------------------------------
(* The inductive invariant.  Each part says for which states of APB_Run the *)
(* property it is for holds, and how much of it.                           *)

\* The states nothing leads back from, and those a pass can be made in.
ExitStates == {"STOPPING", "CLOSING_CLIENT", "CLOSING_REMOTE", "STOPPED"}
PassStates == {"WAIT_FOR_CONNECT", "CONNECTED", "CONNECTION_LOST", "CONNECT_FAILED",
               "DISCONNECTED"}
InPass     == pc \in {"wait", "timer", "client", "remote", "packets"}

PcInv ==
    /\ InPass => state \in PassStates
    /\ pc = "wait" => state \in WaitStates
    /\ pc = "delete" => state = "CLOSING_CLIENT"

\* Every INIT since the last HELLO but the last has cost a retry.
RetryInv ==
    /\ attempts <= MaxRetries
    /\ state \notin ExitStates => retryCount >= 1
    /\ state \in {"STARTING", "CONNECTED", "CONNECTION_LOST"} => attempts = 0
    /\ state \in {"OPENING_REMOTE", "OPENING_CLIENT", "CONNECTING"} =>
         attempts <= MaxRetries - retryCount
    /\ state \notin ExitStates => attempts <= MaxRetries - retryCount + 1

PingInv ==
    /\ PingExclusive
    /\ pingSend = 0 /\ pingTimeout = 0 => missed > 0

TimerInv == timer = "off" => revived \/ state = "DISCONNECTED" \/ state \in ExitStates

ResourceInv ==
    /\ state \in {"OPENING_CLIENT", "CONNECTING"} \cup PassStates => remote
    /\ state \in {"CONNECTING"} \cup PassStates => port = "open"
    /\ state \in {"CLOSING_REMOTE", "STOPPED"} => port = "none"
    /\ state = "STOPPED" => ~remote

LoopInv == TypeOK /\ PcInv /\ RetryInv /\ PingInv /\ TimerInv /\ ResourceInv

-----------------------------------------------------------------------------

\* A new server satisfies the invariant.
LEMMA LoopInit == Init => LoopInv
<1> SUFFICES ASSUME Init PROVE LoopInv
  OBVIOUS
<1> USE ServerLoopAssumption
<1>1. TypeOK
  <2>1. <<>> \in Seq(PiType) /\ <<>> \in Seq(OutType) /\ <<>> \in Seq(Message)
    OBVIOUS
  <2>2. state \in ServerState /\ got \subseteq Signal
    BY DEF Init, ServerState
  <2>3. /\ batch \in Seq(PiType) /\ in \in Seq(PiType)
        /\ out \in Seq(OutType) /\ msgs \in Seq(Message)
    BY <2>1 DEF Init
  <2>4. /\ retryCount \in 0..MaxRetries /\ attempts \in 0..(MaxRetries + 1)
        /\ pingSend \in Nat /\ pingTimeout \in Nat /\ missed \in Nat
    BY DEF Init
  <2> QED
    BY <2>2, <2>3, <2>4 DEF Init, TypeOK
<1>2. PcInv /\ PingInv /\ TimerInv
  BY DEF Init, PcInv, InPass, PingInv, PingExclusive, TimerInv
<1>3. RetryInv
  BY DEF Init, RetryInv
<1>4. ResourceInv
  BY DEF Init, ResourceInv, PassStates
<1> QED
  BY <1>1, <1>2, <1>3, <1>4 DEF LoopInv

\* Cutting a sequence of packets in two leaves two of them.
LEMMA CutTypes ==
    ASSUME NEW S, NEW q \in Seq(S), NEW n \in 1..Len(q)
    PROVE  SubSeq(q, 1, n) \in Seq(S) /\ SubSeq(q, n + 1, Len(q)) \in Seq(S)
<1>1. Len(q) \in Nat /\ \A i \in 1..Len(q) : q[i] \in S
  OBVIOUS
<1>2. SubSeq(q, 1, n) \in Seq(S)
  BY <1>1, SubSeqProperties, 1 \in Int, n \in Int
<1>3. SubSeq(q, n + 1, Len(q)) \in Seq(S)
  <2>1. \A i \in (n + 1)..Len(q) : q[i] \in S
    BY <1>1
  <2> QED
    BY <2>1, <1>1, SubSeqProperties, n + 1 \in Int, Len(q) \in Int
<1> QED
  BY <1>2, <1>3

\* What is allocated and what is not both leave packets on the line.
LEMMA SendType ==
    ASSUME TypeOK, NEW type \in OutType, Send(type) \/ NoRoom
    PROVE  out' \in Seq(OutType)
<1>1. out \in Seq(OutType)
  BY DEF TypeOK
<1>2. Append(out, type) \in Seq(OutType)
  BY <1>1, AppendProperties
<1> QED
  BY <1>1, <1>2 DEF Send, NoRoom

\* APB_SendPing leaves counters and, on the line, packets of their types.
LEMMA SendPingType ==
    ASSUME TypeOK, NEW send \in Nat, NEW timeout \in Nat, SendPing(send, timeout)
    PROVE  pingSend' \in Nat /\ pingTimeout' \in Nat /\ out' \in Seq(OutType)
<1>1. out' \in Seq(OutType)
  BY SendType, "PING" \in OutType DEF SendPing, OutType
<1> QED
  BY <1>1, ServerLoopAssumption DEF SendPing

\* The steps of APB_Run keep the types; that retryCount stays a number that
\* can be counted down needs RetryInv.
LEMMA RunType == TypeOK /\ RetryInv /\ RunStep => TypeOK'
<1> SUFFICES ASSUME TypeOK, RetryInv, RunStep PROVE TypeOK'
  OBVIOUS
<1> USE ServerLoopAssumption
<1>1. CASE Start
  BY <1>1 DEF Start, At, Goto, TypeOK, ServerState, pingVars, breakVars, clientVars, lineVars,
     historyVars
<1>6. CASE OpenRemote
  <2>1. /\ remote' \in BOOLEAN /\ state' \in ServerState
        /\ UNCHANGED <<pc, got, batch>>
    BY <1>6 DEF OpenRemote, Goto, AfterOpen, ServerState
  <2> QED
    BY <1>6, <2>1 DEF OpenRemote, TypeOK, pingVars, breakVars, clientVars, historyVars
<1>7. CASE OpenClient
  <2>1. /\ port' \in {"none", "open"} /\ state' \in ServerState
        /\ UNCHANGED <<pc, got, batch>>
    BY <1>7 DEF OpenClient, Goto, AfterOpen, ServerState
  <2> QED
    BY <1>7, <2>1 DEF OpenClient, TypeOK, pingVars, breakVars, lineVars, historyVars
<1>2. CASE SendInit
  <2>1. out' \in Seq(OutType)
    BY <1>2, SendType, "INIT" \in OutType DEF SendInit, OutType
  <2>2. /\ state' \in ServerState /\ pc' \in {"run", "wait"}
        /\ attempts' \in 0..(MaxRetries + 1) /\ UNCHANGED <<got, batch>>
    BY <1>2 DEF SendInit, At, Goto, TypeOK, ServerState
  <2> QED
    BY <1>2, <2>1, <2>2 DEF SendInit, TypeOK, pingVars, breakVars, clientVars
<1>3. CASE ConnectFailed
  BY <1>3 DEF ConnectFailed, CountRetry, RetryInv, ExitStates, At, Goto, TypeOK, ServerState,
     pingVars, breakVars, clientVars, lineVars, historyVars
<1>4. CASE WaitForMessage
  BY <1>4 DEF WaitForMessage, At, TypeOK, pingVars, breakVars, clientVars, lineVars, historyVars
<1>a. CASE ConnectionLost
  BY <1>a DEF ConnectionLost, At, Goto, TypeOK, ServerState, pingVars, breakVars, clientVars,
     lineVars, historyVars
<1>b. CASE Disconnected
  BY <1>b DEF Disconnected, At, Goto, TypeOK, ServerState, pingVars, breakVars, clientVars,
     lineVars, historyVars
<1>c. CASE Stopping
  BY <1>c DEF Stopping, At, Goto, TypeOK, ServerState, pingVars, breakVars, clientVars, lineVars,
     historyVars
<1>d. CASE PortDrained
  BY <1>d DEF PortDrained, TypeOK, pingVars, breakVars, clientVars, lineVars, historyVars
<1>5. CASE DrainPort
  <2>1. msgs' \in Seq(Message)
    BY <1>5 DEF DrainPort, TypeOK
  <2> QED
    BY <1>5, <2>1 DEF DrainPort, TypeOK, loopVars, pingVars, breakVars, lineVars, historyVars
<1>8. CASE DeletePort
  BY <1>8 DEF DeletePort, TypeOK, ServerState, pingVars, breakVars, lineVars, historyVars
<1>9. CASE CloseRemote
  <2>1. in' \in Seq(PiType)
    BY <1>9, <<>> \in Seq(PiType) DEF CloseRemote
  <2> QED
    BY <1>9, <2>1 DEF CloseRemote, Goto, TypeOK, ServerState, pingVars, breakVars, clientVars,
       historyVars
<1> QED
  BY <1>1, <1>2, <1>3, <1>4, <1>a, <1>b, <1>c, <1>d, <1>5, <1>6, <1>7, <1>8, <1>9 DEF RunStep

\* So do the steps of a pass.
LEMMA PassType == TypeOK /\ PassStep => TypeOK'
<1> SUFFICES ASSUME TypeOK, PassStep PROVE TypeOK'
  OBVIOUS
<1> USE ServerLoopAssumption
<1>1. CASE WaitReturns
  BY <1>1 DEF WaitReturns, AfterWait, AfterTimer, Pending, Signal, TypeOK, ServerState,
     pingVars, breakVars, clientVars, lineVars, historyVars
<1>2. CASE HandleTimer
  <2>1. /\ state' \in ServerState /\ missed' \in Nat
        /\ pingSend' \in Nat /\ pingTimeout' \in Nat /\ out' \in Seq(OutType)
    <3>1. CASE state = "CONNECTED" /\ TickConnected
      <4>1. state' \in ServerState /\ missed' \in Nat
        BY <3>1 DEF TickConnected, TypeOK, ServerState
      <4>2. CASE pingSend = 1
        <5>1. SendPing(pingSend, Down(pingTimeout))
          BY <3>1, <4>2 DEF TickConnected
        <5>2. pingSend \in Nat /\ Down(pingTimeout) \in Nat
          BY DEF Down, TypeOK
        <5> QED
          BY <4>1, <5>1, <5>2, SendPingType
      <4>3. CASE pingSend # 1
        BY <3>1, <4>1, <4>3 DEF TickConnected, Down, TypeOK
      <4> QED
        BY <4>2, <4>3
    <3>2. CASE ~(state = "CONNECTED" /\ TickConnected)
      BY <1>2, <3>2 DEF HandleTimer, TimesOut, TypeOK, ServerState, pingVars
    <3> QED
      BY <3>1, <3>2
  <2>2. timer' \in {"off", "running", "done"} /\ pc' \in {"client", "remote"}
    BY <1>2 DEF HandleTimer, AfterTimer
  <2> QED
    BY <1>2, <2>1, <2>2 DEF HandleTimer, TypeOK, breakVars, clientVars, historyVars
<1>3. CASE HandleMessage
  BY <1>3 DEF HandleMessage, TypeOK, ServerState, pingVars, breakVars, clientVars, lineVars,
     historyVars
<1>4. CASE ReceiveFromRemote
  <2>1. batch' \in Seq(PiType) /\ in' \in Seq(PiType)
    <3>1. CASE "remote" \in got
      <4>1. PICK n \in 1..Len(in) : batch' = SubSeq(in, 1, n) /\ in' = SubSeq(in, n + 1, Len(in))
        BY <1>4, <3>1 DEF ReceiveFromRemote
      <4>2. in \in Seq(PiType)
        BY DEF TypeOK
      <4> QED
        BY <4>1, <4>2, CutTypes
    <3>2. CASE "remote" \notin got
      BY <1>4, <3>2 DEF ReceiveFromRemote, TypeOK
    <3> QED
      BY <3>1, <3>2
  <2> QED
    BY <1>4, <2>1 DEF ReceiveFromRemote, TypeOK, pingVars, breakVars, clientVars, historyVars
<1>5. CASE HandlePacket
  <2>1. batch' \in Seq(PiType)
    BY <1>5 DEF HandlePacket, TypeOK
  <2>2. CASE HandleHello
    <3>1. pingSend' \in Nat /\ pingTimeout' \in Nat /\ out' \in Seq(OutType)
      BY <2>2, SendPingType DEF HandleHello
    <3> QED
      BY <1>5, <2>1, <2>2, <3>1
      DEF HandlePacket, HandleHello, TypeOK, ServerState, breakVars, clientVars
  <2>3. CASE HandleGoodbye \/ HandlePong \/ HandleOther
    BY <1>5, <2>1, <2>3
    DEF HandlePacket, HandleGoodbye, HandlePong, HandleOther, Refresh, TypeOK, ServerState,
        breakVars, clientVars, historyVars
  <2> QED
    BY <1>5, <2>2, <2>3 DEF HandlePacket
<1>6. CASE MessagesDone \/ PassDone
  BY <1>6 DEF MessagesDone, PassDone, TypeOK, pingVars, breakVars, clientVars, lineVars,
     historyVars
<1> QED
  BY <1>1, <1>2, <1>3, <1>4, <1>5, <1>6 DEF PassStep

\* And what happens outside.
LEMMA OutsideType == TypeOK /\ Outside => TypeOK'
<1> SUFFICES ASSUME TypeOK, Outside PROVE TypeOK'
  OBVIOUS
<1>1. CASE TimerFires
  BY <1>1 DEF TimerFires, TypeOK, loopVars, pingVars, breakVars, clientVars, lineVars,
     historyVars
<1>7. CASE Break
  BY <1>7 DEF Break, TypeOK, loopVars, pingVars, clientVars, lineVars, historyVars
<1>2. CASE Post
  <2>1. msgs' \in Seq(Message)
    BY <1>2, AppendProperties DEF Post, TypeOK
  <2> QED
    BY <1>2, <2>1 DEF Post, TypeOK, loopVars, pingVars, breakVars, lineVars, historyVars
<1>3. ASSUME NEW type \in PiType, PiPuts(type)
      PROVE  in' \in Seq(PiType) /\ piSent' \in Nat /\ UNCHANGED <<remote, pi>>
  <2>1. in' \in Seq(PiType)
    BY <1>3, AppendProperties DEF PiPuts, TypeOK
  <2> QED
    BY <1>3, <2>1 DEF PiPuts, TypeOK
<1>4. CASE PiAnswers
  <2>1. in' \in Seq(PiType) /\ piSent' \in Nat /\ UNCHANGED <<remote, pi>>
    BY <1>3, <1>4 DEF PiAnswers, PiType
  <2>2. out' \in Seq(OutType)
    BY <1>4 DEF PiAnswers, TypeOK
  <2> QED
    BY <1>4, <2>1, <2>2 DEF PiAnswers, TypeOK, loopVars, pingVars, breakVars, clientVars,
       historyVars
<1>5. CASE PiSends
  <2>1. in' \in Seq(PiType) /\ piSent' \in Nat /\ UNCHANGED <<remote, pi>>
    BY <1>3, <1>5 DEF PiSends, PiType
  <2> QED
    BY <1>5, <2>1 DEF PiSends, TypeOK, loopVars, pingVars, breakVars, clientVars, historyVars
<1>6. CASE LosePacket
  <2>1. out' \in Seq(OutType)
    BY <1>6 DEF LosePacket, TypeOK
  <2> QED
    BY <1>6, <2>1 DEF LosePacket, TypeOK, loopVars, pingVars, breakVars, clientVars, historyVars
<1>8. CASE PiStops
  BY <1>8 DEF PiStops, TypeOK, loopVars, pingVars, breakVars, clientVars, historyVars
<1> QED
  BY <1>1, <1>2, <1>4, <1>5, <1>6, <1>7, <1>8 DEF Outside

\* The types of a step, from the invariant.
LEMMA TypeStep == LoopInv /\ [Next]_vars => TypeOK'
<1> SUFFICES ASSUME LoopInv, [Next]_vars PROVE TypeOK'
  OBVIOUS
<1>1. TypeOK /\ RetryInv
  BY DEF LoopInv
<1>2. CASE UNCHANGED vars
  BY <1>1, <1>2 DEF TypeOK, vars, loopVars, pingVars, breakVars, clientVars, lineVars, historyVars
<1> QED
  BY <1>1, <1>2, RunType, PassType, OutsideType DEF Next

-----------------------------------------------------------------------------
(* How state and pc move.                                                  *)

\* What happens outside moves neither the server nor its counters.
LEMMA OutsideStill ==
    ASSUME Outside \/ UNCHANGED vars
    PROVE  /\ UNCHANGED <<state, pc, got, batch, retryCount, pingSend, pingTimeout, missed,
                          port, remote, attempts, revived>>
           /\ timer' = "off" => timer = "off"
  BY DEF Outside, TimerFires, Break, Post, PiAnswers, PiSends, PiPuts, LosePacket, PiStops, vars,
     loopVars, pingVars, breakVars, clientVars, lineVars, historyVars

\* What a step of APB_Run does to the states: the switch of APB_Run.
RunMove ==
    \/ state = "STARTING" /\ state' = "OPENING_REMOTE"
    \/ state = "OPENING_REMOTE" /\ state' \in {"OPENING_CLIENT", "STOPPING"}
    \/ state = "OPENING_CLIENT" /\ state' \in {"CONNECTING", "STOPPING"}
    \/ state = "CONNECTING" /\ state' \in {"WAIT_FOR_CONNECT", "STOPPING"}
    \/ state = "CONNECT_FAILED" /\ state' \in {"CONNECTING", "STOPPING"}
    \/ state = "CONNECTION_LOST" /\ state' = "CONNECTING"
    \/ state = "DISCONNECTED" /\ state' = "STOPPING"
    \/ state = "STOPPING" /\ state' = "CLOSING_CLIENT"
    \/ state = "CLOSING_CLIENT" /\ state' \in {"CLOSING_CLIENT", "CLOSING_REMOTE"}
    \/ state = "CLOSING_REMOTE" /\ state' = "STOPPED"
    \/ state \in WaitStates /\ state' = state

LEMMA RunMoves ==
    ASSUME PcInv, RunStep
    PROVE  /\ RunMove
           /\ pc' = "run" \/ (pc' = "wait" /\ state' \in WaitStates)
                \/ (pc' = "delete" /\ state' = "CLOSING_CLIENT")
  BY DEF RunStep, Start, OpenRemote, OpenClient, SendInit, WaitForMessage, ConnectFailed,
     ConnectionLost, Disconnected, Stopping, DrainPort, PortDrained, DeletePort, CloseRemote,
     At, Goto, AfterOpen, RunMove, WaitStates, PcInv, InPass, PassStates, loopVars

\* What a step of a pass does to the state.
PassMove ==
    \/ state' = state
    \/ state' \in {"DISCONNECTED", "CONNECTED"}
    \/ state = "WAIT_FOR_CONNECT" /\ state' = "CONNECT_FAILED"
    \/ state = "CONNECTED" /\ state' = "CONNECTION_LOST"

LEMMA PassMoves ==
    ASSUME PassStep
    PROVE  /\ PassMove /\ InPass
           /\ pc' \in {"timer", "client", "remote", "packets", "run"}
           /\ UNCHANGED <<retryCount, remote, port>>
  BY DEF PassStep, WaitReturns, HandleTimer, HandleMessage, MessagesDone, ReceiveFromRemote,
     HandlePacket, HandleHello, HandleGoodbye, HandlePong, HandleOther, PassDone, TickConnected,
     TimesOut, AfterTimer, AfterWait, PassMove, InPass, clientVars, lineVars

\* A pass is made in the states that have one, and the port is deleted in the
\* state that closes it.
LEMMA PcStep == PcInv /\ [Next]_vars => PcInv'
<1> SUFFICES ASSUME PcInv, [Next]_vars PROVE PcInv'
  OBVIOUS
<1>1. CASE RunStep
  BY <1>1, RunMoves DEF PcInv, InPass, PassStates, WaitStates
<1>2. CASE PassStep
  BY <1>2, PassMoves DEF PcInv, InPass, PassStates, PassMove
<1>3. CASE Outside \/ UNCHANGED vars
  BY <1>3, OutsideStill DEF PcInv, InPass
<1> QED
  BY <1>1, <1>2, <1>3 DEF Next

-----------------------------------------------------------------------------
(* The parts of the invariant.                                             *)

\* Retries: only a failed connect uses one up, only an INIT is an attempt, and
\* only a HELLO forgets the attempts.
LEMMA RetryStep == LoopInv /\ [Next]_vars => RetryInv'
<1> SUFFICES ASSUME LoopInv, [Next]_vars PROVE RetryInv'
  OBVIOUS
<1> USE ServerLoopAssumption
<1>1. /\ TypeOK /\ PcInv /\ RetryInv
      /\ retryCount \in Nat /\ retryCount <= MaxRetries /\ attempts \in Nat /\ MaxRetries \in Nat
  BY DEF LoopInv, TypeOK
<1>2. CASE RunStep
  <2>1. CASE Start
    BY <1>1, <2>1 DEF Start, At, Goto, historyVars, RetryInv, ExitStates
  <2>2. CASE SendInit
    BY <1>1, <2>2 DEF SendInit, At, Goto, RetryInv, ExitStates
  <2>3. CASE ConnectFailed
    BY <1>1, <2>3 DEF ConnectFailed, CountRetry, At, Goto, historyVars, RetryInv, ExitStates
  <2>4. CASE OpenRemote \/ OpenClient
    BY <1>1, <2>4 DEF OpenRemote, OpenClient, AfterOpen, At, Goto, historyVars, RetryInv,
       ExitStates
  <2>5. CASE WaitForMessage \/ ConnectionLost \/ Disconnected \/ Stopping
    BY <1>1, <2>5 DEF WaitForMessage, ConnectionLost, Disconnected, Stopping, At, Goto,
       historyVars, RetryInv, ExitStates, WaitStates
  <2>6. CASE DrainPort \/ PortDrained \/ DeletePort \/ CloseRemote
    BY <1>1, <2>6 DEF DrainPort, PortDrained, DeletePort, CloseRemote, At, Goto, loopVars,
       historyVars, RetryInv, ExitStates, PcInv
  <2> QED
    BY <1>2, <2>1, <2>2, <2>3, <2>4, <2>5, <2>6 DEF RunStep
<1>3. CASE PassStep
  <2>1. state \in PassStates /\ PassMove /\ UNCHANGED retryCount
    BY <1>1, <1>3, PassMoves DEF PcInv
  <2>2. \/ attempts' = 0
        \/ attempts' = attempts /\ (state' = "CONNECTED" => state = "CONNECTED")
    BY <1>3 DEF PassStep, WaitReturns, HandleTimer, HandleMessage, MessagesDone,
       ReceiveFromRemote, HandlePacket, HandleHello, HandleGoodbye, HandlePong, HandleOther,
       PassDone, TickConnected, TimesOut, historyVars
  <2> QED
    BY <1>1, <2>1, <2>2 DEF PassMove, PassStates, RetryInv, ExitStates
<1>4. CASE Outside \/ UNCHANGED vars
  BY <1>1, <1>4, OutsideStill DEF RetryInv
<1> QED
  BY <1>2, <1>3, <1>4 DEF Next

\* Pings: a step of the loop leaves the counters alone, a tick counts down the
\* one that runs, and a packet starts the one for the next ping.
LEMMA PingStep == LoopInv /\ [Next]_vars => PingInv'
<1> SUFFICES ASSUME LoopInv, [Next]_vars PROVE PingInv'
  OBVIOUS
<1> USE ServerLoopAssumption
<1>1. PingInv /\ pingSend \in Nat /\ pingTimeout \in Nat /\ missed \in Nat
  BY DEF LoopInv, TypeOK
<1>2. CASE UNCHANGED pingVars
  BY <1>1, <1>2 DEF PingInv, PingExclusive, pingVars
<1>3. CASE HandleTimer /\ ~UNCHANGED pingVars
  <2>1. TickConnected
    BY <1>3 DEF HandleTimer
  <2>2. CASE pingSend = 1
    BY <1>1, <2>1, <2>2 DEF TickConnected, SendPing, Down, PingInv, PingExclusive
  <2>3. CASE pingSend # 1
    BY <1>1, <2>1, <2>3 DEF TickConnected, Down, PingInv, PingExclusive
  <2> QED
    BY <2>2, <2>3
<1>4. CASE HandlePacket
  BY <1>4 DEF HandlePacket, HandleHello, HandleGoodbye, HandlePong, HandleOther, Refresh,
     SendPing, PingInv, PingExclusive
<1>5. UNCHANGED pingVars \/ HandleTimer \/ HandlePacket
  BY DEF Next, RunStep, Start, OpenRemote, OpenClient, SendInit, WaitForMessage, ConnectFailed,
     ConnectionLost, Disconnected, Stopping, DrainPort, PortDrained, DeletePort, CloseRemote,
     PassStep, WaitReturns, HandleMessage, MessagesDone, ReceiveFromRemote, PassDone,
     Outside, TimerFires, Break, Post, PiAnswers, PiSends, LosePacket, PiStops, vars
<1> QED
  BY <1>2, <1>3, <1>4, <1>5

\* The timer: a tick in any other state sends it again, and DISCONNECTED is
\* left for good or by a HELLO.
LEMMA TimerStep == LoopInv /\ [Next]_vars => TimerInv'
<1> SUFFICES ASSUME LoopInv, [Next]_vars PROVE TimerInv'
  OBVIOUS
<1>1. PcInv /\ TimerInv
  BY DEF LoopInv
<1>2. CASE RunStep
  <2>1. UNCHANGED <<timer, revived>>
    BY <1>2 DEF RunStep, Start, OpenRemote, OpenClient, SendInit, WaitForMessage, ConnectFailed,
       ConnectionLost, Disconnected, Stopping, DrainPort, PortDrained, DeletePort, CloseRemote,
       historyVars
  <2> QED
    BY <1>1, <1>2, <2>1, RunMoves DEF RunMove, TimerInv, ExitStates, WaitStates
<1>3. CASE PassStep
  <2>1. state \notin ExitStates
    BY <1>1, <1>3, PassMoves DEF PcInv, PassStates, ExitStates
  <2>2. CASE HandleTimer
    BY <2>2 DEF HandleTimer, KeepsTimer, TimerInv
  <2>3. CASE HandlePacket
    <3>1. CASE HandleHello
      <4>1. timer = "off" => revived \/ state = "DISCONNECTED"
        BY <1>1, <2>1 DEF TimerInv
      <4>2. timer' = timer /\ (revived' <=> revived \/ state = "DISCONNECTED")
        BY <2>3, <3>1, Zenon DEF HandlePacket, HandleHello
      <4> QED
        BY <4>1, <4>2 DEF TimerInv
    <3>2. CASE HandleGoodbye
      BY <3>2 DEF HandleGoodbye, TimerInv
    <3>3. CASE HandlePong \/ HandleOther
      BY <1>1, <2>3, <3>3 DEF HandlePacket, HandlePong, HandleOther, historyVars, TimerInv
    <3> QED
      BY <2>3, <3>1, <3>2, <3>3 DEF HandlePacket
  <2>4. CASE ~HandleTimer /\ ~HandlePacket
    BY <1>1, <1>3, <2>1, <2>4 DEF PassStep, WaitReturns, HandleMessage, MessagesDone,
       ReceiveFromRemote, PassDone, historyVars, TimerInv
  <2> QED
    BY <2>2, <2>3, <2>4
<1>4. CASE Outside \/ UNCHANGED vars
  BY <1>1, <1>4, OutsideStill DEF TimerInv
<1> QED
  BY <1>2, <1>3, <1>4 DEF Next

\* Port and remote: opened on the way in, closed on the way out.
LEMMA ResourceStep == LoopInv /\ [Next]_vars => ResourceInv'
<1> SUFFICES ASSUME LoopInv, [Next]_vars PROVE ResourceInv'
  OBVIOUS
<1>1. PcInv /\ ResourceInv
  BY DEF LoopInv
<1>2. CASE RunStep
  <2>1. CASE OpenRemote
    BY <2>1 DEF OpenRemote, AfterOpen, At, Goto, ResourceInv, PassStates
  <2>2. CASE OpenClient
    BY <1>1, <2>2 DEF OpenClient, AfterOpen, At, Goto, lineVars, ResourceInv, PassStates
  <2>3. CASE CloseRemote
    BY <1>1, <2>3 DEF CloseRemote, At, Goto, clientVars, ResourceInv, PassStates
  <2>4. CASE DeletePort
    BY <1>1, <2>4 DEF DeletePort, PcInv, ResourceInv, PassStates
  <2>5. CASE Start \/ SendInit \/ WaitForMessage \/ ConnectFailed \/ ConnectionLost
    BY <1>1, <2>5 DEF Start, SendInit, WaitForMessage, ConnectFailed, ConnectionLost, At, Goto,
       clientVars, lineVars, ResourceInv, PassStates
  <2>6. CASE Disconnected \/ Stopping \/ DrainPort \/ PortDrained
    BY <1>1, <2>6 DEF Disconnected, Stopping, DrainPort, PortDrained, At, Goto, loopVars,
       clientVars, lineVars, ResourceInv, PassStates
  <2> QED
    BY <1>2, <2>1, <2>2, <2>3, <2>4, <2>5, <2>6 DEF RunStep
<1>3. CASE PassStep
  BY <1>1, <1>3, PassMoves DEF PassMove, PcInv, ResourceInv, PassStates
<1>4. CASE Outside \/ UNCHANGED vars
  BY <1>1, <1>4, OutsideStill DEF ResourceInv
<1> QED
  BY <1>2, <1>3, <1>4 DEF Next

-----------------------------------------------------------------------------

\* The invariant holds in every state of the loop.
LEMMA LoopInvariant == Spec => []LoopInv
<1>1. LoopInv /\ [Next]_vars => LoopInv'
  <2>1. LoopInv => PcInv
    BY DEF LoopInv
  <2> QED
    BY <2>1, TypeStep, PcStep, RetryStep, PingStep, TimerStep, ResourceStep DEF LoopInv
<1> QED
  BY <1>1, LoopInit, PTL DEF Spec

\* Type correctness of the server loop (struct Server, APB_Run's locals and
\* what they wait for).
THEOREM LoopTypeCorrect == Spec => []TypeOK
<1>1. LoopInv => TypeOK
  BY DEF LoopInv
<1> QED
  BY <1>1, LoopInvariant, PTL

\* However connects fail, connections are lost and HELLOs come late, APB_Run
\* sends at most MaxRetries INITs between two HELLOs: retryCount never wraps.
THEOREM Attempts == Spec => []AttemptsBounded
<1>1. LoopInv => AttemptsBounded
  BY DEF LoopInv, RetryInv, AttemptsBounded
<1> QED
  BY <1>1, LoopInvariant, PTL

\* Of the two ping counters of APB_SrvMainLoop at most one runs.
THEOREM Pings == Spec => []PingExclusive
<1>1. LoopInv => PingExclusive
  BY DEF LoopInv, PingInv
<1> QED
  BY <1>1, LoopInvariant, PTL

\* While the server is connected both ping counters stop only after a ping was
\* missed: an allocation that fails leaves one of them running.
THEOREM PingsGoOn == Spec => []PingsStopOnlyMissed
<1>1. LoopInv => PingsStopOnlyMissed
  BY DEF LoopInv, PingInv, PingsStopOnlyMissed
<1> QED
  BY <1>1, LoopInvariant, PTL

\* A server that waits has a timer, unless a HELLO undid a Ctrl-C.
THEOREM TimerKept == Spec => []TimerRuns
<1>1. LoopInv => TimerRuns
  BY DEF LoopInv, PcInv, TimerInv, TimerRuns, WaitStates, ExitStates
<1> QED
  BY <1>1, LoopInvariant, PTL

\* Port and remote are open throughout every pass and closed at the end.
THEOREM ResourcesClosed == Spec => []Resources
<1>1. LoopInv => Resources
  BY DEF LoopInv, PcInv, InPass, ResourceInv, Resources, PassStates
<1> QED
  BY <1>1, LoopInvariant, PTL

\* Ctrl-C, QUIT and GOODBYE are final but for a HELLO.
THEOREM Final == Spec => OnlyHelloRevives
<1>1. LoopInv /\ [Next]_vars =>
        [state = "DISCONNECTED" =>
           \/ state' \in {"DISCONNECTED", "STOPPING"}
           \/ batch # <<>> /\ Head(batch) = "HELLO" /\ state' = "CONNECTED"]_vars
  <2> SUFFICES ASSUME LoopInv, [Next]_vars, state = "DISCONNECTED"
               PROVE  \/ state' \in {"DISCONNECTED", "STOPPING"}
                      \/ batch # <<>> /\ Head(batch) = "HELLO" /\ state' = "CONNECTED"
    OBVIOUS
  <2>1. PcInv
    BY DEF LoopInv
  <2>2. CASE RunStep
    BY <2>1, <2>2, RunMoves DEF RunMove, WaitStates
  <2>3. CASE PassStep
    BY <2>3 DEF PassStep, WaitReturns, HandleTimer, HandleMessage, MessagesDone,
       ReceiveFromRemote, HandlePacket, HandleHello, HandleGoodbye, HandlePong, HandleOther,
       PassDone, TimesOut
  <2>4. CASE Outside \/ UNCHANGED vars
    BY <2>4, OutsideStill
  <2> QED
    BY <2>2, <2>3, <2>4 DEF Next
<1> QED
  BY <1>1, LoopInvariant, PTL DEF Spec, OnlyHelloRevives

=============================================================================
