-------------------------- MODULE WebSocketClient --------------------------
(***************************************************************************)
(* PairionWebSocketClient: one QWebSocket, the heartbeat, and the          *)
(* reconnect timer with its backoff, with the status and the session       *)
(* identifier the client publishes in ConnectionState.  The network and    *)
(* the server are the environment: the server can become unreachable, with *)
(* or without the socket noticing, and come back.                          *)
(***************************************************************************)
EXTENDS Naturals

CONSTANTS
    Session,        \* identifiers of sessions
    NoSession,      \* the empty QString
    Steps,          \* kReconnectBackoffSteps
    MaxAttempt      \* bound: m_reconnectAttempt is counted up to here

ASSUME SessionAssumption == NoSession \notin Session
ASSUME StepsAssumption ==
    /\ Steps \in Nat \ {0}
    /\ MaxAttempt \in Nat
    /\ MaxAttempt >= Steps   \* beyond Steps the attempts are all alike

VARIABLES
    \* the client
    socket, intentionalDisconnect, heartbeat,
    reconnectTimer,     \* the step of kReconnectBackoffMs it runs for; 0: off
    reconnectAttempt,
    \* ConnectionState
    status, sessionId,
    \* the environment
    reachable,          \* does the server accept connections?
    peer,               \* is the server's end of the open connection alive?
    srvSession,         \* the session the server has opened on it
    \* history
    lastDelay           \* the step of the last reconnect since a connection

client == <<socket, intentionalDisconnect, heartbeat, reconnectTimer, reconnectAttempt,
            status, sessionId>>
network == <<reachable, peer, srvSession>>
vars    == <<client, network, lastDelay>>

Socket == {"closed", "connecting", "open", "closing"}
Status == {"Disconnected", "Connecting", "Connected", "Reconnecting"}

Init ==
    /\ socket = "closed"
    /\ intentionalDisconnect = FALSE
    /\ heartbeat = FALSE
    /\ reconnectTimer = 0
    /\ reconnectAttempt = 0
    /\ status = "Disconnected"
    /\ sessionId = NoSession
    /\ reachable \in BOOLEAN
    /\ peer = FALSE
    /\ srvSession = NoSession
    /\ lastDelay = 0

-----------------------------------------------------------------------------
(* Calls.                                                                  *)

ConnectToServer ==
    /\ socket' = "connecting"
    /\ intentionalDisconnect' = FALSE
    /\ status' = "Connecting"
    /\ UNCHANGED <<heartbeat, reconnectAttempt, sessionId, network, lastDelay>>

(* main() connects once (main.cpp); only tests disconnect, and connect     *)
(* again.  connectToServer itself has no guard: called with the socket     *)
(* closing or the reconnect timer running, which no code does, it would    *)
(* open the socket beside them.                                            *)
CallConnectToServer ==
    /\ socket = "closed"
    /\ status = "Disconnected"
    /\ ConnectToServer
    /\ UNCHANGED reconnectTimer

KeepReconnecting ==   \* mutant: the reconnect timer is left running
    /\ intentionalDisconnect' = TRUE
    /\ heartbeat' = FALSE
    /\ socket' = IF socket = "closed" THEN "closed" ELSE "closing"
    /\ status' = "Disconnected"
    /\ sessionId' = NoSession
    /\ UNCHANGED <<reconnectTimer, reconnectAttempt, network, lastDelay>>

(* The count of attempts is not reset. *)
DisconnectFromServer ==
    /\ intentionalDisconnect' = TRUE
    /\ heartbeat' = FALSE
    /\ reconnectTimer' = 0
    /\ socket' = IF socket = "closed" THEN "closed" ELSE "closing"
    /\ status' = "Disconnected"
    /\ sessionId' = NoSession
    /\ UNCHANGED <<reconnectAttempt, network, lastDelay>>

-----------------------------------------------------------------------------
(* The socket's signals.                                                   *)

KeepCounting ==   \* mutant: the attempts are not reset
    /\ socket = "connecting" /\ reachable
    /\ socket' = "open"
    /\ peer' = TRUE
    /\ heartbeat' = TRUE
    /\ lastDelay' = 0
    /\ UNCHANGED <<intentionalDisconnect, reconnectTimer, reconnectAttempt, status, sessionId,
                   reachable, srvSession>>

(* DeviceIdentify is sent; the server's answer is OnSessionOpened. *)
OnConnected ==
    /\ socket = "connecting" /\ reachable
    /\ socket' = "open"
    /\ peer' = TRUE
    /\ reconnectAttempt' = 0
    /\ heartbeat' = TRUE
    /\ lastDelay' = 0
    /\ UNCHANGED <<intentionalDisconnect, reconnectTimer, status, sessionId, reachable,
                   srvSession>>

(* kReconnectBackoffMs[currentBackoffMs's index], counted from 1. *)
BackoffStep(attempt) == IF attempt > Steps THEN Steps ELSE attempt

ScheduleReconnect ==
    /\ status' = "Reconnecting"
    /\ reconnectAttempt' =
           IF reconnectAttempt < MaxAttempt THEN reconnectAttempt + 1 ELSE MaxAttempt
    /\ reconnectTimer' = BackoffStep(reconnectAttempt')
    /\ lastDelay' = reconnectTimer'

ForgetToReconnect ==   \* mutant: a failed first attempt is not retried
    /\ socket' = "closed"
    /\ heartbeat' = FALSE
    /\ sessionId' = NoSession
    /\ peer' = FALSE
    /\ srvSession' = NoSession
    /\ IF intentionalDisconnect
       THEN status' = "Disconnected" /\ UNCHANGED <<reconnectTimer, reconnectAttempt, lastDelay>>
       ELSE IF socket = "open"
       THEN ScheduleReconnect
       ELSE UNCHANGED <<status, reconnectTimer, reconnectAttempt, lastDelay>>
    /\ UNCHANGED <<intentionalDisconnect, reachable>>

KeepSession ==   \* mutant: the session outlives its connection
    /\ socket' = "closed"
    /\ heartbeat' = FALSE
    /\ peer' = FALSE
    /\ srvSession' = NoSession
    /\ IF intentionalDisconnect
       THEN status' = "Disconnected" /\ UNCHANGED <<reconnectTimer, reconnectAttempt, lastDelay>>
       ELSE ScheduleReconnect
    /\ UNCHANGED <<intentionalDisconnect, reachable, sessionId>>

OnDisconnected ==
    /\ socket' = "closed"
    /\ heartbeat' = FALSE
    /\ sessionId' = NoSession
    /\ peer' = FALSE
    /\ srvSession' = NoSession
    /\ IF intentionalDisconnect
       THEN status' = "Disconnected" /\ UNCHANGED <<reconnectTimer, reconnectAttempt, lastDelay>>
       ELSE ScheduleReconnect
    /\ UNCHANGED <<intentionalDisconnect, reachable>>

(* Why the socket reports disconnected: an attempt fails, the dead peer is *)
(* noticed, or the client's own close() completes.                         *)
AttemptFails  == socket = "connecting" /\ ~reachable /\ OnDisconnected
LossIsNoticed == socket = "open" /\ ~peer /\ OnDisconnected
CloseCompletes == socket = "closing" /\ OnDisconnected

(* SessionOpened; it may still arrive while the socket is closing.         *)
(* SessionClosed changes no state: its signal has no receiver.             *)
OnSessionOpened(s) ==
    /\ socket \in {"open", "closing"}
    /\ peer
    /\ srvSession = NoSession
    /\ srvSession' = s
    /\ sessionId' = s
    /\ status' = "Connected"
    /\ UNCHANGED <<socket, intentionalDisconnect, heartbeat, reconnectTimer,
                   reconnectAttempt, reachable, peer, lastDelay>>

-----------------------------------------------------------------------------
(* Timers.                                                                 *)

(* A ping of the heartbeat and its pong change no state of the client. *)
OnReconnectTick ==
    /\ reconnectTimer # 0
    /\ reconnectTimer' = 0
    /\ ConnectToServer

-----------------------------------------------------------------------------
(* The environment.                                                        *)

(* The server stops or the network breaks: the peer of an open connection  *)
(* is gone, which the socket notices at once, later, or never.             *)
ServerLost ==
    /\ reachable
    /\ reachable' = FALSE
    /\ peer' = FALSE
    /\ UNCHANGED <<client, srvSession, lastDelay>>

ServerBack ==
    /\ ~reachable
    /\ reachable' = TRUE
    /\ UNCHANGED <<client, peer, srvSession, lastDelay>>

Next ==
    \/ CallConnectToServer
    \/ DisconnectFromServer
    \/ OnConnected
    \/ AttemptFails
    \/ LossIsNoticed
    \/ CloseCompletes
    \/ \E s \in Session: OnSessionOpened(s)
    \/ OnReconnectTick
    \/ ServerLost
    \/ ServerBack

Spec == Init /\ [][Next]_vars

(* The event loop fires active timers and delivers the socket's signals;   *)
(* an attempt to connect ends, one way or the other; the server opens a    *)
(* session on every connection; and (what the client relies on, having no  *)
(* deadline of its own) the operating system notices a dead peer.          *)
Fairness ==
    /\ WF_vars(OnReconnectTick)
    /\ WF_vars(OnConnected)
    /\ WF_vars(AttemptFails)
    /\ WF_vars(LossIsNoticed)
    /\ WF_vars(CloseCompletes)
    /\ WF_vars(\E s \in Session: OnSessionOpened(s))

-----------------------------------------------------------------------------
(* Properties.                                                             *)

TypeOK ==
    /\ socket \in Socket
    /\ intentionalDisconnect \in BOOLEAN
    /\ heartbeat \in BOOLEAN
    /\ reconnectTimer \in 0 .. Steps
    /\ reconnectAttempt \in 0 .. MaxAttempt
    /\ status \in Status
    /\ sessionId \in Session \cup {NoSession}
    /\ reachable \in BOOLEAN
    /\ peer \in BOOLEAN
    /\ srvSession \in Session \cup {NoSession}
    /\ lastDelay \in 0 .. Steps

(* Nothing outlives its connection.  The identifier published in           *)
(* ConnectionState is the one the server opened on the present connection, *)
(* the status says Connected exactly while there is one, and pings are     *)
(* sent exactly while the socket is open: no disconnect, late message or   *)
(* reconnect leaves the identifier or the heartbeat of an earlier session. *)
SessionIsCurrent ==
    /\ sessionId # NoSession => sessionId = srvSession /\ socket \in {"open", "closing"}
    /\ (status = "Connected") <=> (sessionId # NoSession)
    /\ heartbeat <=> socket = "open"

(* The client is never stranded: unless somebody asked it to stay away, a  *)
(* closed socket has a reconnect pending.  And a reconnect is pending only *)
(* for a closed socket: the timer never opens a socket that is in use.     *)
NeverStranded ==
    /\ socket = "closed" => reconnectTimer # 0 \/ status = "Disconnected"
    /\ reconnectTimer # 0 => socket = "closed" /\ ~intentionalDisconnect

(* The delays follow the schedule 1 s, 2 s, ... 30 s, 30 s: each delay is  *)
(* the step after the last one (history variable lastDelay), and the first *)
(* one after a connection was established is the first step.               *)
BackoffFollowsSchedule ==
    [][reconnectTimer = 0 /\ reconnectTimer' # 0 =>
           reconnectTimer' = IF lastDelay = Steps THEN Steps ELSE lastDelay + 1]_vars

(* The components that use the connection see one that obeys Connection. *)
Conn == INSTANCE Connection WITH
    link <- IF socket # "open" THEN "down"
            ELSE IF sessionId = NoSession THEN "up" ELSE "session"
ImplementsConnection == Conn!Spec

(* If the server stays reachable and nobody asks the client to stay away,  *)
(* the client ends up in a session for good, however many attempts failed. *)
Reconnects ==
    <>[](reachable /\ status # "Disconnected") => <>[](sessionId # NoSession)

=============================================================================
