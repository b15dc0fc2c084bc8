------------------------------ MODULE WSClient -------------------------------
(***************************************************************************)
(* The connection of the trading client and its end: src/client/           *)
(* ws_client.c, with the parts of client_app.c and command_line.c that     *)
(* start and stop it.  Three threads: main; the input thread, which runs   *)
(* the quit command; and the service thread, which runs the callbacks of   *)
(* libwebsockets and connects again when it finds `connected` false.       *)
(*                                                                         *)
(* An attempt is a call of lws_client_connect_via_info that did not return *)
(* NULL; attempts are numbered in order, and libwebsockets may have        *)
(* several of them under way.  The network decides what becomes of them,   *)
(* in callbacks that run while the service thread is inside lws_service.   *)
(***************************************************************************)
EXTENDS Naturals, Sequences

CONSTANT max_retries

ASSUME MaxRetriesAssumption == max_retries \in Nat

VARIABLES
  running,      \* client->running
  connected,    \* client->connected
  connection,   \* client->connection: an attempt, 0 for NULL
  retry_count,  \* local variable of the service thread
  app_running,  \* client_app.c: running
  cmd_running,  \* cmd_line->running
  main,         \* where each thread is
  input,
  service,
  attempts,     \* attempt -> what has become of it
  ended         \* "no", "exit" (exit(0) was called) or "freed" (the client was
                \* destroyed and main returns)

flags == <<running, connected, app_running, cmd_running>>
net == <<connection, attempts>>
vars == <<flags, net, retry_count, main, input, service, ended>>

Init ==
  /\ running = FALSE /\ connected = FALSE
  /\ app_running = TRUE /\ cmd_running = FALSE
  /\ connection = 0 /\ attempts = <<>>
  /\ retry_count = 0
  /\ main = "start" /\ input = "none" /\ service = "none"
  /\ ended = "no"

\* lws_client_connect_via_info: an attempt under way, or NULL, in which case
\* the connection error may be reported before the call returns.
connect_via_info ==
  \/ /\ connection' = Len(attempts) + 1
     /\ attempts' = Append(attempts, "connecting")
     /\ UNCHANGED connected
  \/ /\ connection' = 0
     /\ connected' \in {connected, FALSE}
     /\ UNCHANGED attempts

Open == {a \in DOMAIN attempts : attempts[a] = "open"}

-----------------------------------------------------------------------------
(* main.                                                                   *)

\* ws_client_connect creates the service thread first, or fails to ...
ConnectStartThread ==
  /\ main = "start"
  /\ \/ running' = TRUE /\ service' = "loop" /\ main' = "connect"
     \/ main' = "cleanup" /\ UNCHANGED <<running, service>>
  /\ UNCHANGED <<connected, app_running, cmd_running, net, retry_count, input, ended>>

\* ... then makes the first attempt ...
ConnectAttempt ==
  /\ main = "connect"
  /\ connect_via_info
  /\ main' = "check"
  /\ UNCHANGED <<running, app_running, cmd_running, retry_count, input,
                 service, ended>>

\* ... and looks at client->connection, which the service thread may have set.
ConnectCheck ==
  /\ main = "check"
  /\ main' = IF connection = 0 THEN "joinFailed" ELSE "command"
  /\ running' = (running /\ connection # 0)
  /\ UNCHANGED <<connected, app_running, cmd_running, net, retry_count, input,
                 service, ended>>

\* Mutation: the thread is not joined.
ConnectFailed_NoJoin ==
  /\ main = "joinFailed"
  /\ main' = "cleanup"
  /\ UNCHANGED <<flags, net, retry_count, input, service, ended>>

ConnectFailed ==
  /\ main = "joinFailed" /\ service = "returned"
  /\ main' = "cleanup"
  /\ UNCHANGED <<flags, net, retry_count, input, service, ended>>

command_line_start ==
  /\ main = "command"
  /\ \/ cmd_running' = TRUE /\ input' = "reading" /\ main' = "up"
     \/ main' = "cleanup" /\ UNCHANGED <<cmd_running, input>>
  /\ UNCHANGED <<running, connected, app_running, net, retry_count, service, ended>>

\* main's loop ends when `running` has been cleared.
MainLoopEnds ==
  /\ main = "up" /\ ~app_running
  /\ main' = "cleanup"
  /\ UNCHANGED <<flags, net, retry_count, input, service, ended>>

\* handle_signal, on main's thread: command_line_stop waits for the input
\* thread unless it has been stopped, and ws_client_disconnect follows.
handle_signal ==
  /\ main = "up"
  /\ app_running' = FALSE
  /\ cmd_running' = FALSE
  /\ main' = IF cmd_running THEN "joinInput" ELSE "disconnect"
  /\ UNCHANGED <<running, connected, net, retry_count, input, service, ended>>

SignalJoinsInput ==
  /\ main = "joinInput" /\ input = "returned"
  /\ main' = "disconnect"
  /\ UNCHANGED <<flags, net, retry_count, input, service, ended>>

\* ws_client_disconnect on main's thread returns at once if another thread is
\* already disconnecting.
MainDisconnect ==
  /\ main = "disconnect"
  /\ main' = IF running THEN "join" ELSE "up"
  /\ running' = FALSE
  /\ UNCHANGED <<connected, app_running, cmd_running, net, retry_count, input,
                 service, ended>>

\* ws_client_destroy disconnects a client that is running; it frees one that is
\* not.
ws_client_destroy ==
  /\ main = "cleanup"
  /\ running' = FALSE
  /\ main' = IF running THEN "join" ELSE "cleanup"
  /\ ended' = IF running THEN "no" ELSE "freed"
  /\ UNCHANGED <<connected, app_running, cmd_running, net, retry_count, input, service>>

MainJoin ==
  /\ main = "join" /\ service = "returned"
  /\ ended' = "exit"
  /\ UNCHANGED <<flags, net, retry_count, main, input, service>>

-----------------------------------------------------------------------------
(* input_thread.  Commands other than quit change nothing here.            *)

\* The user types a line: any command, after which the loop looks at the flag.
EnterLine ==
  /\ input = "reading"
  /\ input' = IF cmd_running THEN "reading" ELSE "returned"
  /\ UNCHANGED <<flags, net, retry_count, main, service, ended>>

\* The quit command: handle_command clears both flags ...
CommandQuit ==
  /\ input = "reading"
  /\ cmd_running' = FALSE
  /\ app_running' = FALSE
  /\ input' = "disconnect"
  /\ UNCHANGED <<running, connected, net, retry_count, main, service, ended>>

\* ... and calls ws_client_disconnect, or exits if another thread has done so.
QuitDisconnect ==
  /\ input = "disconnect"
  /\ running' = FALSE
  /\ input' = IF running THEN "join" ELSE "disconnect"
  /\ ended' = IF running THEN "no" ELSE "exit"
  /\ UNCHANGED <<connected, app_running, cmd_running, net, retry_count, main, service>>

QuitJoin ==
  /\ input = "join" /\ service = "returned"
  /\ ended' = "exit"
  /\ UNCHANGED <<flags, net, retry_count, main, input, service>>

-----------------------------------------------------------------------------
(* callback_trading, called from lws_service.                              *)

\* LWS_CALLBACK_CLIENT_ESTABLISHED
Established(a) ==
  /\ service = "service"
  /\ attempts[a] = "connecting"
  /\ attempts' = [attempts EXCEPT ![a] = "open"]
  /\ connected' = TRUE
  /\ UNCHANGED <<running, app_running, cmd_running, connection, retry_count, main,
                 input, service, ended>>

\* LWS_CALLBACK_CLIENT_CONNECTION_ERROR
ConnectionError(a) ==
  /\ service = "service"
  /\ attempts[a] = "connecting"
  /\ attempts' = [attempts EXCEPT ![a] = "closed"]
  /\ connected' = FALSE
  /\ UNCHANGED <<running, app_running, cmd_running, connection, retry_count,
                 main, input, service, ended>>

\* Mutation: the flag is not cleared.
Closed_FlagStays(a) ==
  /\ service = "service"
  /\ attempts[a] = "open"
  /\ attempts' = [attempts EXCEPT ![a] = "closed"]
  /\ UNCHANGED <<flags, connection, retry_count, main, input, service, ended>>

\* LWS_CALLBACK_CLIENT_CLOSED
Closed(a) ==
  /\ service = "service"
  /\ attempts[a] = "open"
  /\ attempts' = [attempts EXCEPT ![a] = "closed"]
  /\ connected' = FALSE
  /\ UNCHANGED <<running, app_running, cmd_running, connection, retry_count,
                 main, input, service, ended>>

-----------------------------------------------------------------------------
(* service_thread.                                                         *)

\* Mutation: the loop does not look at the flag.
ServiceLoop_Forever ==
  /\ service = "loop"
  /\ service' = "service"
  /\ UNCHANGED <<flags, net, retry_count, main, input, ended>>

ServiceLoop ==
  /\ service = "loop"
  /\ service' = IF running THEN "service" ELSE "returned"
  /\ UNCHANGED <<flags, net, retry_count, main, input, ended>>

\* lws_service returns, and the thread looks at the two flags.
ServiceReturns ==
  /\ service = "service"
  /\ service' = IF running /\ ~connected THEN "lost" ELSE "loop"
  /\ UNCHANGED <<flags, net, retry_count, main, input, ended>>

\* Mutation: the bound is tested with <=.
Retry_OneMore == retry_count <= max_retries

Retry == retry_count < max_retries

\* The thread sleeps for backoff_ms[retry_count] and tries again, also when it
\* has been told to stop meanwhile.
Reconnect ==
  /\ service = "lost"
  /\ Retry
  /\ connect_via_info
  /\ retry_count' = retry_count + 1
  /\ service' = "loop"
  /\ UNCHANGED <<running, app_running, cmd_running, main, input, ended>>

\* Mutation: the client goes on without a connection.
GiveUp_GoesOn ==
  /\ service = "lost"
  /\ ~Retry
  /\ service' = "loop"
  /\ UNCHANGED <<flags, net, retry_count, main, input, ended>>

\* "Max reconnection attempts reached, shutting down": exit(0).
GiveUp ==
  /\ service = "lost"
  /\ ~Retry
  /\ running' = FALSE
  /\ service' = "returned"
  /\ ended' = "exit"
  /\ UNCHANGED <<connected, app_running, cmd_running, net, retry_count, main, input>>

-----------------------------------------------------------------------------
Main ==
  \/ ConnectStartThread \/ ConnectAttempt \/ ConnectCheck \/ ConnectFailed
  \/ command_line_start \/ MainLoopEnds \/ SignalJoinsInput \/ MainDisconnect
  \/ ws_client_destroy \/ MainJoin

Quit == QuitDisconnect \/ QuitJoin

Service == ServiceLoop \/ ServiceReturns \/ Reconnect \/ GiveUp

User == EnterLine \/ CommandQuit \/ handle_signal

Network == \E a \in DOMAIN attempts : Established(a) \/ ConnectionError(a) \/ Closed(a)

Running == ended = "no" /\ (Main \/ Quit \/ Service \/ User \/ Network)

Finished == ended # "no" /\ UNCHANGED vars

Next == Running \/ Finished

Spec == Init /\ [][Next]_vars

\* The threads run; the user and the network may do nothing.
FairSpec ==
  /\ Spec
  /\ WF_vars(ended = "no" /\ Main)
  /\ WF_vars(ended = "no" /\ Quit)
  /\ WF_vars(ended = "no" /\ Service)

-----------------------------------------------------------------------------
(* Properties.                                                             *)

\* retry_count never passes the end of backoff_ms, and no more attempts are
\* made than the first one and the retries, whichever of main and the service
\* thread calls lws_client_connect_via_info first.
RetriesBounded ==
  /\ retry_count \in 0..max_retries
  /\ Len(attempts) <= max_retries + 1
  /\ connection \in 0..Len(attempts)

\* ws_client_send is let through only while some connection is open, although
\* several attempts share the one flag it looks at.
ConnectedIsOpen == connected => Open # {}

\* A client that is not connected does not stay so for ever: it connects, it is
\* told to stop, or it gives up.
LossIsNoticed == (running /\ ~connected) ~> (connected \/ ~running)

\* Once a quit command or a signal handler gets to ws_client_disconnect the
\* process ends, whatever the connection and the other threads are doing; and
\* so it does while a signal handler waits for the input thread, unless that is
\* reading a line, which the user may never finish.
QuitEnds ==
  \/ input = "disconnect" \/ main = "disconnect"
  \/ main = "joinInput" /\ input # "reading"
  ~> ended # "no"

\* The client is destroyed only when its service thread no longer runs, or the
\* input thread is waiting for it in a quit command: main does not wait then.
FreedAfterService ==
  ended = "freed" => service \in {"none", "returned"} \/ input = "join"
=============================================================================
