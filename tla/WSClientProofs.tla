---------------------------- MODULE WSClientProofs ----------------------------
(***************************************************************************)
(* Proofs of the safety properties of WSClient, for every number of        *)
(* retries.  The inductive invariant adds three facts to the properties:   *)
(* how many attempts have been made at each point of main and of           *)
(* service_thread; that the flag `connected` stands for an open attempt;   *)
(* and who is waiting for the service thread once `running` is false.      *)
(***************************************************************************)
EXTENDS WSClient, TLAPS

\* The first attempt is main's; every other one is a retry.
Attempted == IF main \in {"start", "connect"} THEN 0 ELSE 1

TypeInv ==
  /\ running \in BOOLEAN /\ connected \in BOOLEAN
  /\ retry_count \in Nat
  /\ connection \in Nat
  /\ attempts \in Seq({"connecting", "open", "closed"})

AttemptsInv ==
  /\ retry_count <= max_retries
  /\ Len(attempts) <= retry_count + Attempted
  /\ connection <= Len(attempts)

\* There is an input thread once main has connected.
InputInv ==
  main \in {"start", "connect", "check", "joinFailed", "command"} => input = "none"

\* A client that was told to stop has no service thread, or somebody joins it.
StoppedInv ==
  ~running => \/ service \in {"none", "returned"}
              \/ input = "join"
              \/ main \in {"joinFailed", "join"}

WInv ==
  /\ TypeInv
  /\ AttemptsInv
  /\ ConnectedIsOpen
  /\ InputInv
  /\ StoppedInv
  /\ FreedAfterService

-----------------------------------------------------------------------------
\* What a call of lws_client_connect_via_info does to the attempts: at most one
\* is added, and none that is open is lost.
LEMMA ConnectEffect ==
  ASSUME TypeInv, ConnectedIsOpen, connection <= Len(attempts), connect_via_info
  PROVE  /\ connected' \in BOOLEAN /\ connection' \in Nat
         /\ attempts' \in Seq({"connecting", "open", "closed"})
         /\ Len(attempts') <= Len(attempts) + 1
         /\ connection' <= Len(attempts')
         /\ ConnectedIsOpen'
<1>1. CASE /\ connection' = Len(attempts) + 1
           /\ attempts' = Append(attempts, "connecting")
           /\ UNCHANGED connected
  <2>1. /\ attempts' \in Seq({"connecting", "open", "closed"})
        /\ Len(attempts') = Len(attempts) + 1 /\ Len(attempts) \in Nat
        /\ DOMAIN attempts \subseteq DOMAIN attempts'
        /\ \A a \in DOMAIN attempts : attempts'[a] = attempts[a]
    BY <1>1 DEF TypeInv
  <2>2. ConnectedIsOpen'
    BY <1>1, <2>1 DEF ConnectedIsOpen, Open
  <2> QED
    BY <1>1, <2>1, <2>2 DEF TypeInv
<1>2. CASE /\ connection' = 0
           /\ connected' \in {connected, FALSE}
           /\ UNCHANGED attempts
  <2>1. Len(attempts) \in Nat /\ 0 <= Len(attempts) /\ Len(attempts) <= Len(attempts) + 1
    BY DEF TypeInv
  <2>2. connected' \in BOOLEAN /\ (connected' => connected)
    <3>1. connected' = connected \/ connected' = FALSE
      BY <1>2, Zenon
    <3>2. CASE connected' = connected
      BY <3>2, Zenon DEF TypeInv
    <3>3. CASE connected' = FALSE
      BY <3>3, Zenon
    <3> QED
      BY <3>1, <3>2, <3>3
  <2>3. ConnectedIsOpen'
    BY <1>2, <2>2 DEF ConnectedIsOpen, Open
  <2>4. connection' \in Nat /\ connection' <= Len(attempts')
    BY <1>2, <2>1
  <2> QED
    BY <1>2, <2>1, <2>2, <2>3, <2>4, Zenon DEF TypeInv
<1> QED
  BY <1>1, <1>2 DEF connect_via_info

\* What a callback does to the attempt it is about.
LEMMA CallbackEffect ==
  ASSUME TypeInv, NEW a \in DOMAIN attempts,
         NEW what \in {"connecting", "open", "closed"},
         attempts' = [attempts EXCEPT ![a] = what]
  PROVE  /\ attempts' \in Seq({"connecting", "open", "closed"})
         /\ Len(attempts') = Len(attempts)
         /\ DOMAIN attempts' = DOMAIN attempts
         /\ attempts'[a] = what
BY DEF TypeInv

LEMMA InitWInv == Init => WInv
<1> SUFFICES ASSUME Init PROVE WInv
  OBVIOUS
<1>1. Len(attempts) = 0 /\ attempts \in Seq({"connecting", "open", "closed"})
  BY DEF Init
<1>2. TypeInv
  BY <1>1 DEF Init, TypeInv
<1>3. AttemptsInv
  BY <1>1, MaxRetriesAssumption DEF Init, AttemptsInv, Attempted
<1>4. ConnectedIsOpen /\ InputInv /\ StoppedInv /\ FreedAfterService
  BY DEF Init, ConnectedIsOpen, InputInv, StoppedInv, FreedAfterService
<1> QED
  BY <1>2, <1>3, <1>4 DEF WInv

\* The steps that neither make an attempt nor run a callback.
LEMMA FlagStepsPreserve ==
  ASSUME WInv, ended = "no",
         \/ ConnectStartThread \/ ConnectCheck \/ ConnectFailed
         \/ command_line_start \/ MainLoopEnds \/ SignalJoinsInput \/ MainDisconnect
         \/ ws_client_destroy \/ MainJoin \/ Quit \/ User
         \/ ServiceLoop \/ ServiceReturns \/ GiveUp
  PROVE  WInv'
<1>1. /\ UNCHANGED <<connection, attempts, retry_count, connected>>
      /\ running' \in BOOLEAN
  BY DEF WInv, TypeInv, ConnectStartThread, ConnectCheck, ConnectFailed,
         command_line_start, MainLoopEnds, SignalJoinsInput, MainDisconnect,
         ws_client_destroy, MainJoin, Quit, User, QuitDisconnect, QuitJoin,
         EnterLine, CommandQuit, handle_signal, ServiceLoop, ServiceReturns,
         GiveUp, flags, net
<1>2. TypeInv' /\ ConnectedIsOpen'
  BY <1>1 DEF WInv, TypeInv, ConnectedIsOpen, Open
<1>3. Attempted \in {0, 1} /\ Attempted' \in {0, 1} /\ Attempted' >= Attempted
  BY DEF Attempted, ConnectStartThread, ConnectCheck, ConnectFailed,
         command_line_start, MainLoopEnds, SignalJoinsInput, MainDisconnect,
         ws_client_destroy, MainJoin, Quit, User, QuitDisconnect, QuitJoin,
         EnterLine, CommandQuit, handle_signal, ServiceLoop, ServiceReturns,
         GiveUp, flags, net
<1>4. AttemptsInv'
  <2>1. Len(attempts) \in Nat /\ retry_count \in Nat
    BY DEF WInv, TypeInv
  <2> QED
    BY <1>1, <1>3, <2>1 DEF WInv, AttemptsInv
<1>5. InputInv' /\ StoppedInv' /\ FreedAfterService'
  <2>1. CASE ConnectStartThread
    BY <2>1 DEF WInv, TypeInv, InputInv, StoppedInv, FreedAfterService, ConnectStartThread
  <2>2. CASE ConnectCheck \/ ConnectFailed \/ command_line_start \/ MainLoopEnds
    BY <2>2 DEF WInv, TypeInv, InputInv, StoppedInv, FreedAfterService, ConnectCheck,
                ConnectFailed, command_line_start, MainLoopEnds, flags, net
  <2>3. CASE SignalJoinsInput \/ MainDisconnect \/ ws_client_destroy \/ MainJoin
    BY <2>3 DEF WInv, TypeInv, InputInv, StoppedInv, FreedAfterService, SignalJoinsInput,
                MainDisconnect, ws_client_destroy, MainJoin, flags, net
  <2>4. CASE Quit \/ User
    BY <2>4 DEF WInv, TypeInv, InputInv, StoppedInv, FreedAfterService, Quit, User,
                QuitDisconnect, QuitJoin, EnterLine, CommandQuit, handle_signal,
                flags, net
  <2>5. CASE ServiceLoop \/ ServiceReturns \/ GiveUp
    BY <2>5 DEF WInv, TypeInv, InputInv, StoppedInv, FreedAfterService, ServiceLoop,
                ServiceReturns, GiveUp, flags, net
  <2> QED
    BY <2>1, <2>2, <2>3, <2>4, <2>5
<1> QED
  BY <1>2, <1>4, <1>5 DEF WInv

LEMMA AttemptsPreserve ==
  ASSUME WInv, ended = "no", ConnectAttempt \/ Reconnect
  PROVE  WInv'
<1>1. connection <= Len(attempts) /\ connect_via_info
  BY DEF WInv, AttemptsInv, ConnectAttempt, Reconnect
<1>2. /\ connected' \in BOOLEAN /\ connection' \in Nat
      /\ attempts' \in Seq({"connecting", "open", "closed"})
      /\ Len(attempts') <= Len(attempts) + 1
      /\ connection' <= Len(attempts')
      /\ ConnectedIsOpen'
  BY <1>1, ConnectEffect DEF WInv
<1>3. Len(attempts) \in Nat /\ Len(attempts') \in Nat
  BY <1>2 DEF WInv, TypeInv
<1>4. CASE ConnectAttempt
  <2>1. TypeInv'
    BY <1>2, <1>4 DEF WInv, TypeInv, ConnectAttempt
  <2>2. AttemptsInv'
    BY <1>2, <1>3, <1>4 DEF WInv, TypeInv, AttemptsInv, Attempted, ConnectAttempt
  <2>3. InputInv' /\ StoppedInv' /\ FreedAfterService'
    BY <1>4 DEF WInv, InputInv, StoppedInv, FreedAfterService, ConnectAttempt
  <2> QED
    BY <1>2, <2>1, <2>2, <2>3 DEF WInv
<1>5. CASE Reconnect
  <2>1. TypeInv'
    BY <1>2, <1>5 DEF WInv, TypeInv, Reconnect
  <2>2. AttemptsInv'
    BY <1>2, <1>3, <1>5, MaxRetriesAssumption
       DEF WInv, TypeInv, AttemptsInv, Attempted, Reconnect, Retry
  <2>3. InputInv' /\ StoppedInv' /\ FreedAfterService'
    BY <1>5 DEF WInv, InputInv, StoppedInv, FreedAfterService, Reconnect
  <2> QED
    BY <1>2, <2>1, <2>2, <2>3 DEF WInv
<1> QED
  BY <1>4, <1>5

LEMMA CallbacksPreserve ==
  ASSUME WInv, ended = "no", NEW a \in DOMAIN attempts,
         Established(a) \/ ConnectionError(a) \/ Closed(a)
  PROVE  WInv'
<1>1. PICK what \in {"open", "closed"} :
        /\ attempts' = [attempts EXCEPT ![a] = what]
        /\ connected' = (what = "open")
        /\ UNCHANGED <<running, connection, retry_count, main, input, service, ended>>
  BY DEF Established, ConnectionError, Closed
<1>2. /\ attempts' \in Seq({"connecting", "open", "closed"})
      /\ Len(attempts') = Len(attempts)
      /\ DOMAIN attempts' = DOMAIN attempts
      /\ attempts'[a] = what
  BY <1>1, CallbackEffect DEF WInv
<1>3. TypeInv' /\ AttemptsInv'
  BY <1>1, <1>2 DEF WInv, TypeInv, AttemptsInv, Attempted
<1>4. ConnectedIsOpen'
  BY <1>1, <1>2 DEF ConnectedIsOpen, Open
<1>5. InputInv' /\ StoppedInv' /\ FreedAfterService'
  BY <1>1 DEF WInv, InputInv, StoppedInv, FreedAfterService
<1> QED
  BY <1>3, <1>4, <1>5 DEF WInv

LEMMA NextWInv == WInv /\ [Next]_vars => WInv'
<1> SUFFICES ASSUME WInv, [Next]_vars PROVE WInv'
  OBVIOUS
<1>1. CASE Running
  BY <1>1, FlagStepsPreserve, AttemptsPreserve, CallbacksPreserve
     DEF Running, Main, Service, Network
<1>2. CASE UNCHANGED vars
  BY <1>2 DEF vars, flags, net, WInv, TypeInv, AttemptsInv, Attempted, ConnectedIsOpen,
              Open, InputInv, StoppedInv, FreedAfterService
<1> QED
  BY <1>1, <1>2 DEF Next, Finished

\* The inductive invariant holds in every state.
THEOREM ClientInvariant == Spec => []WInv
<1> QED
  BY InitWInv, NextWInv, PTL DEF Spec

\* For every max_retries, retry_count stays within backoff_ms and no more than
\* max_retries + 1 attempts are made by main and service_thread together.
THEOREM RetriesAlwaysBounded == Spec => []RetriesBounded
<1>1. WInv => RetriesBounded
  <2> SUFFICES ASSUME WInv PROVE RetriesBounded
    OBVIOUS
  <2>1. Len(attempts) \in Nat /\ Attempted \in {0, 1}
    BY DEF WInv, TypeInv, Attempted
  <2> QED
    BY <2>1, MaxRetriesAssumption DEF WInv, TypeInv, AttemptsInv, RetriesBounded
<1> QED
  BY <1>1, ClientInvariant, PTL

\* The flag ws_client_send looks at always stands for an open connection.
THEOREM ConnectedAlwaysOpen == Spec => []ConnectedIsOpen
<1>1. WInv => ConnectedIsOpen
  BY DEF WInv
<1> QED
  BY <1>1, ClientInvariant, PTL

\* ws_client_destroy never frees the client under a service thread that nobody
\* waits for.
THEOREM FreedOnlyAfterService == Spec => []FreedAfterService
<1>1. WInv => FreedAfterService
  BY DEF WInv
<1> QED
  BY <1>1, ClientInvariant, PTL
=============================================================================
