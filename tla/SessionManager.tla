--------------------------- MODULE SessionManager ----------------------------
(***************************************************************************)
(* src/server/session_manager.c: the list of client sessions, shared by    *)
(* the threads that add, remove and subscribe clients and the main thread  *)
(* of server_app.c, which once a second removes the sessions that timed    *)
(* out and then pings the others.  What a function does under the lock is  *)
(* one action, but for session_manager_cleanup_sessions, where each        *)
(* iteration of the loop is one: session_manager_add_client tests the      *)
(* limit before it locks, while the loop may be counting sessions down.    *)
(* The cleanup in turn reads the clock before it locks.                    *)
(***************************************************************************)
EXTENDS Integers, Sequences, FiniteSets, SequencesExt

CONSTANTS
  Threads,             \* threads that serve clients
  Clients,
  Symbols,
  MaxSessions,         \* max_sessions
  SessionTimeout,      \* session_timeout_ms
  MAX_SUBSCRIPTIONS,
  MaxTime              \* bound: seconds of the clock

Nobody == "nobody"

ASSUME ThreadsAssumption == Threads # {} /\ IsFiniteSet(Threads)
ASSUME ClientsAssumption == Nobody \notin Clients
ASSUME SessionAssumption ==
  /\ MaxSessions \in Nat /\ SessionTimeout \in Nat
  /\ MAX_SUBSCRIPTIONS \in Nat /\ MaxTime \in Nat

VARIABLES
  sessions,       \* the list, first session first
  session_count,
  now,            \* time(NULL)
  adding,         \* thread -> the client it is about to add
  main,           \* where the main thread is in its loop
  current_time,   \* read by session_manager_cleanup_sessions
  curr,           \* the position of curr in its loop
  call            \* history: the last call that could change a subscription

vars == <<sessions, session_count, now, adding, main, current_time, curr, call>>

Init ==
  /\ sessions = <<>>
  /\ session_count = 0
  /\ now = 0
  /\ adding = [t \in Threads |-> Nobody]
  /\ main = "loop"
  /\ current_time = 0
  /\ curr = 0
  /\ call = <<"create">>

ClientsOf(list) == {list[i].client : i \in DOMAIN list}

\* The position of the client's session, 0 if it has none.
find_session(c) == SelectInSeq(sessions, LAMBDA x : x.client = c)

\* Nobody holds the lock: of the actions, only the loop of the cleanup keeps it.
Unlocked == main # "sweep"

-----------------------------------------------------------------------------
(* The threads that serve clients.                                         *)

\* session_manager_add_client: the limit is tested without the lock.
AddCheck(t, c) ==
  /\ adding[t] = Nobody
  /\ session_count < MaxSessions
  /\ adding' = [adding EXCEPT ![t] = c]
  /\ UNCHANGED <<sessions, session_count, now, main, current_time, curr, call>>

\* session_manager_add_client, under the lock.
AddLocked(t) ==
  LET c == adding[t]
      session == [client |-> c, subscribed_symbols |-> <<>>, last_ping_time |-> now]
  IN
  /\ Unlocked
  /\ c # Nobody
  /\ adding' = [adding EXCEPT ![t] = Nobody]
  /\ IF find_session(c) # 0
     THEN UNCHANGED <<sessions, session_count, call>>
     ELSE /\ sessions' = <<session>> \o sessions
          /\ session_count' = session_count + 1
          /\ call' = <<"add", c>>
  /\ UNCHANGED <<now, main, current_time, curr>>

session_manager_remove_client(c) ==
  /\ Unlocked
  /\ find_session(c) # 0
  /\ sessions' = RemoveAt(sessions, find_session(c))
  /\ session_count' = session_count - 1
  /\ call' = <<"remove", c>>
  /\ UNCHANGED <<now, adding, main, current_time, curr>>

\* A symbol that is there already is not added again.
session_manager_subscribe_symbol(c, s) ==
  LET i == find_session(c)
      symbols == sessions[i].subscribed_symbols
  IN
  /\ Unlocked
  /\ i # 0
  /\ Len(symbols) < MAX_SUBSCRIPTIONS
  /\ ~Contains(symbols, s)
  /\ sessions' = [sessions EXCEPT ![i].subscribed_symbols = Append(symbols, s)]
  /\ call' = <<"subscribe", c, s>>
  /\ UNCHANGED <<session_count, now, adding, main, current_time, curr>>

\* Mutation: the count goes down and nothing moves.
session_manager_unsubscribe_symbol_NoMove(c, s) ==
  LET i == find_session(c)
      symbols == sessions[i].subscribed_symbols
  IN
  /\ Unlocked
  /\ i # 0
  /\ Contains(symbols, s)
  /\ sessions' = [sessions EXCEPT ![i].subscribed_symbols = Front(symbols)]
  /\ call' = <<"unsubscribe", c, s>>
  /\ UNCHANGED <<session_count, now, adding, main, current_time, curr>>

\* The symbols behind the one that is removed move down.
session_manager_unsubscribe_symbol(c, s) ==
  LET i == find_session(c)
      symbols == sessions[i].subscribed_symbols
  IN
  /\ Unlocked
  /\ i # 0
  /\ Contains(symbols, s)
  /\ sessions' = [sessions EXCEPT ![i].subscribed_symbols =
                    RemoveAt(symbols, SelectInSeq(symbols, LAMBDA x : x = s))]
  /\ call' = <<"unsubscribe", c, s>>
  /\ UNCHANGED <<session_count, now, adding, main, current_time, curr>>

session_manager_is_subscribed(c, s) ==
  LET i == find_session(c)
  IN i # 0 /\ Contains(sessions[i].subscribed_symbols, s)

\* Mutation: max_clients limits the sessions looked at.
session_manager_get_subscribers_First(s, max_clients) ==
  LET found[k \in 0..Len(sessions)] ==
        IF k = 0 THEN <<>>
        ELSE IF k <= max_clients /\ Contains(sessions[k].subscribed_symbols, s)
             THEN Append(found[k - 1], sessions[k].client)
             ELSE found[k - 1]
  IN found[Len(sessions)]

\* The first max_clients sessions with the symbol; found[k] is what clients
\* holds after k sessions.
session_manager_get_subscribers(s, max_clients) ==
  LET found[k \in 0..Len(sessions)] ==
        IF k = 0 THEN <<>>
        ELSE IF Len(found[k - 1]) < max_clients
                /\ Contains(sessions[k].subscribed_symbols, s)
             THEN Append(found[k - 1], sessions[k].client)
             ELSE found[k - 1]
  IN found[Len(sessions)]

-----------------------------------------------------------------------------
(* The main loop of server_app.c.                                          *)

\* session_manager_cleanup_sessions reads the clock ...
CleanupReadTime ==
  /\ main = "loop"
  /\ current_time' = now
  /\ main' = "cleanup"
  /\ UNCHANGED <<sessions, session_count, now, adding, curr, call>>

\* ... locks ...
CleanupLock ==
  /\ main = "cleanup"
  /\ main' = "sweep"
  /\ curr' = 1
  /\ UNCHANGED <<sessions, session_count, now, adding, current_time, call>>

\* Mutation: the bound is not strict.
TimedOut_NotStrict(session) ==
  (current_time - session.last_ping_time) * 1000 >= SessionTimeout

TimedOut(session) == (current_time - session.last_ping_time) * 1000 > SessionTimeout

\* Mutation: the count is not kept.
CleanupRemove_NoCount ==
  /\ main = "sweep"
  /\ curr <= Len(sessions)
  /\ TimedOut(sessions[curr])
  /\ sessions' = RemoveAt(sessions, curr)
  /\ call' = <<"cleanup">>
  /\ UNCHANGED <<session_count, now, adding, main, current_time, curr>>

\* ... and looks at one session after the other.  One that timed out is taken
\* out of the list, ...
CleanupRemove ==
  /\ main = "sweep"
  /\ curr <= Len(sessions)
  /\ TimedOut(sessions[curr])
  /\ sessions' = RemoveAt(sessions, curr)
  /\ session_count' = session_count - 1
  /\ call' = <<"cleanup">>
  /\ UNCHANGED <<now, adding, main, current_time, curr>>

\* ... any other one is left ...
CleanupKeep ==
  /\ main = "sweep"
  /\ curr <= Len(sessions)
  /\ ~TimedOut(sessions[curr])
  /\ curr' = curr + 1
  /\ UNCHANGED <<sessions, session_count, now, adding, main, current_time, call>>

\* ... and the lock is released at the end of the list.
CleanupUnlock ==
  /\ main = "sweep"
  /\ curr > Len(sessions)
  /\ main' = "ping"
  /\ curr' = 0
  /\ UNCHANGED <<sessions, session_count, now, adding, current_time, call>>

\* session_manager_ping_clients sends nothing: it stamps every session.
session_manager_ping_clients ==
  /\ main = "ping"
  /\ sessions' = [i \in DOMAIN sessions |->
                    [sessions[i] EXCEPT !.last_ping_time = now]]
  /\ main' = "sleep"
  /\ UNCHANGED <<session_count, now, adding, current_time, curr, call>>

\* sleep(1), or longer, is over.
WakeUp ==
  /\ main = "sleep"
  /\ now > current_time
  /\ main' = "loop"
  /\ UNCHANGED <<sessions, session_count, now, adding, current_time, curr, call>>

Tick ==
  /\ now < MaxTime
  /\ now' = now + 1
  /\ UNCHANGED <<sessions, session_count, adding, main, current_time, curr, call>>

Serve ==
  \/ \E t \in Threads : AddLocked(t) \/ \E c \in Clients : AddCheck(t, c)
  \/ \E c \in Clients : session_manager_remove_client(c)
  \/ \E c \in Clients, s \in Symbols :
       \/ session_manager_subscribe_symbol(c, s)
       \/ session_manager_unsubscribe_symbol(c, s)

MainLoop ==
  \/ CleanupReadTime \/ CleanupLock
  \/ CleanupRemove \/ CleanupKeep \/ CleanupUnlock
  \/ session_manager_ping_clients \/ WakeUp

Next == Serve \/ MainLoop \/ Tick

Spec == Init /\ [][Next]_vars

-----------------------------------------------------------------------------
(* Properties.                                                             *)

\* session_count, which is kept by hand in three functions and read without the
\* lock, is the number of sessions, and no client has two of them.  The limit is
\* tested before the lock is taken: each thread but one can add a session more
\* than max_sessions.  With one thread that serves all clients there are never
\* more, even when the limit is tested while the cleanup counts down.
CountIsRight ==
  /\ session_count = Len(sessions)
  /\ \A i, j \in DOMAIN sessions : sessions[i].client = sessions[j].client => i = j
  /\ session_count <= MaxSessions + Cardinality(Threads) - 1

\* The list with its arrays of symbols implements a set of subscriptions: no
\* removal disturbs another client or another symbol, and what changes is what
\* the call asked for.
Subs == INSTANCE Subscriptions
          WITH clients <- ClientsOf(sessions),
               subscribed <- {p \in Clients \X Symbols :
                                session_manager_is_subscribed(p[1], p[2])},
               MaxSubscriptions <- MAX_SUBSCRIPTIONS

ImplementsSubscriptions == Subs!SSpec

\* get_subscribers returns different clients, all of them subscribed, and all
\* the subscribed ones when there is room for them.
SubscribersAreExact ==
  \A s \in Symbols, n \in 1..MaxSessions :
    LET found == session_manager_get_subscribers(s, n)
        all == {c \in Clients : session_manager_is_subscribed(c, s)}
    IN /\ Len(found) <= n
       /\ ToSet(found) \subseteq all
       /\ IsInjective(found)
       /\ Len(found) < n => ToSet(found) = all

\* The cleanup uses a clock it read earlier; even so, it never removes a session
\* that was added or pinged less than the timeout ago.
YoungSessionsStay ==
  [][\A i \in DOMAIN sessions :
       main = "sweep" /\ sessions[i].client \notin ClientsOf(sessions')
         => (now - sessions[i].last_ping_time) * 1000 > SessionTimeout]_vars
=============================================================================
