---------------------------- MODULE Subscriptions ----------------------------
(***************************************************************************)
(* What the session manager promises, without its linked list and its      *)
(* arrays: a set of clients and, for each of them, a set of symbols.       *)
(***************************************************************************)
EXTENDS FiniteSets, Naturals

CONSTANTS Clients, Symbols, MaxSubscriptions

VARIABLES
  clients,     \* clients with a session
  subscribed,  \* <<client, symbol>> pairs
  call         \* the last call that could change them

svars == <<clients, subscribed, call>>

SInit == clients = {} /\ subscribed = {} /\ call = <<"create">>

SymbolsOf(c) == {s \in Symbols : <<c, s>> \in subscribed}

Join(c) ==
  /\ call' = <<"add", c>>
  /\ c \notin clients
  /\ clients' = clients \cup {c}
  /\ UNCHANGED subscribed

\* A session ends, and its subscriptions with it: because the client leaves or
\* because it timed out.
Leave(c) ==
  /\ call' \in {<<"remove", c>>, <<"cleanup">>}
  /\ clients' = clients \ {c}
  /\ subscribed' = {p \in subscribed : p[1] # c}

Subscribe(c, s) ==
  /\ call' = <<"subscribe", c, s>>
  /\ c \in clients
  /\ Cardinality(SymbolsOf(c)) < MaxSubscriptions
  /\ subscribed' = subscribed \cup {<<c, s>>}
  /\ UNCHANGED clients

Unsubscribe(c, s) ==
  /\ call' = <<"unsubscribe", c, s>>
  /\ subscribed' = subscribed \ {<<c, s>>}
  /\ UNCHANGED clients

SNext ==
  \/ \E c \in Clients : Join(c) \/ Leave(c)
  \/ \E c \in Clients, s \in Symbols : Subscribe(c, s) \/ Unsubscribe(c, s)

SSpec == SInit /\ [][SNext]_svars
=============================================================================
