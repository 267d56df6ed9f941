--------------------------- MODULE ServerTimeouts ---------------------------
(***************************************************************************)
(* The time-out of an OPEN as the main loop grants it: module ServerLoop   *)
(* with one request that is followed from its client and back.             *)
(*                                                                         *)
(* Connections says what a scan of the requests does; the loop decides     *)
(* when one is made.  APB_HandleTimer scans in SS_CONNECTED only, but      *)
(* APB_HandleClientControlMessage takes an OPEN in every state, and a      *)
(* server that stops answers the messages on its port (APB_DeletePort) and *)
(* not the requests its connections hold.                                  *)
(*                                                                         *)
(* Messages other than QUIT are this request.  It is the only one on the   *)
(* queue of the connection made for it, so each scan reaches it.  Its      *)
(* client waits for it: it neither aborts it nor gets a Ctrl-C.            *)
(***************************************************************************)
EXTENDS ServerLoop

CONSTANT Timeout  \* r_Timeout: CNN_MSG_TIMEOUT, 5

ASSUME TimeoutAssumption == Timeout \in Nat \ {0}

VARIABLES
    request,  \* with its "client", "posted", "queued", or "dropped" by the server
    left      \* ri_TimeoutTicks, while it is queued

requestVars == <<request, left>>

-----------------------------------------------------------------------------
(* Variants of the operators below that a slip in the code would produce;  *)
(* no action uses them.                                                    *)

ExpiresAtZero(ticks) == ticks = 0

-----------------------------------------------------------------------------

TimeoutInit == Init /\ request = "client" /\ left = 0

PostOpen ==
    /\ Post
    /\ IF Last(msgs') = "OTHER" THEN request = "client" /\ request' = "posted"
                                ELSE UNCHANGED request
    /\ UNCHANGED left

IsNext == Head(msgs) = "OTHER"

\* APB_RT_OPEN: on the queue of a new connection, in whatever state the server
\* is and whether or not a CONNECT can be sent for it.
TakeMessage ==
    /\ HandleMessage
    /\ IF IsNext THEN request' = "queued" /\ left' = Timeout
                 ELSE UNCHANGED requestVars

\* APB_DeletePort replies to what it takes off the port.
ReplyMessage ==
    /\ DrainPort
    /\ request' = IF IsNext THEN "client" ELSE request
    /\ UNCHANGED left

LeaveQueue(to) == request = "queued" /\ request' = to /\ left' = 0

\* A packet for the connection answers the request (CONNECTED, NO_HANDLER), or
\* destroys the connection with the request on its queue (DISCONNECTED).
TakePacket ==
    /\ HandlePacket
    /\ \/ UNCHANGED requestVars
       \/ Head(batch) = "OTHER" /\ \E to \in {"client", "dropped"} : LeaveQueue(to)

Expires(ticks) == ticks = 1

\* APB_CheckRequestTimeouts, made in every tick that finds the server
\* connected, the one that ends the connection included.
Scan ==
    IF request = "queued" /\ Expires(left)
    THEN LeaveQueue("client")
    ELSE left' = (IF left > 1 THEN left - 1 ELSE left) /\ UNCHANGED request

Tick ==
    /\ HandleTimer
    /\ IF state = "CONNECTED" THEN Scan ELSE UNCHANGED requestVars

\* The steps of the loop and of the world that do not touch the request.
Elsewhere ==
    /\ \/ Start \/ OpenRemote \/ OpenClient \/ SendInit \/ WaitForMessage
       \/ ConnectFailed \/ ConnectionLost \/ Disconnected \/ Stopping
       \/ PortDrained \/ DeletePort \/ CloseRemote
       \/ WaitReturns \/ MessagesDone \/ ReceiveFromRemote \/ PassDone
       \/ TimerFires \/ Break
       \/ PiAnswers \/ PiSends \/ LosePacket \/ PiStops
    /\ UNCHANGED requestVars

TimeoutNext ==
    PostOpen \/ TakeMessage \/ ReplyMessage \/ TakePacket \/ Tick \/ Elsewhere

TimeoutSpec ==
    TimeoutInit /\ [][TimeoutNext]_<<vars, requestVars>> /\ Fairness

-----------------------------------------------------------------------------
(* Properties.                                                             *)

\* A request that a connection holds is answered or dropped in the end, be it
\* taken before the Pi has answered, over losses and reconnects, unless the
\* server stops first or is left without its timer by a HELLO that undid
\* SS_DISCONNECTED: APB_HandleTimer comes back to SS_CONNECTED and its scan.
AnsweredOrStopped ==
    request = "queued" ~>
        \/ request # "queued"
        \/ state = "STOPPED"
        \/ revived /\ timer = "off"

=============================================================================
