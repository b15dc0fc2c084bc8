------------------------ MODULE SessionManagerProofs ------------------------
(***************************************************************************)
(* Proofs about SessionManager, for every number of threads, clients,      *)
(* symbols and subscriptions and every timeout.                            *)
(*                                                                         *)
(* The list implements a set because no client has two sessions and no     *)
(* session a symbol twice: then the first match of a search is the only    *)
(* one.  The limit on the sessions is kept, as far as it is, because the   *)
(* sessions that threads are about to add count as well.                   *)
(***************************************************************************)
EXTENDS SessionManager, SequenceTheorems, FiniteSetTheorems,
        WellFoundedInduction, TLAPS

Session == [client : Clients, subscribed_symbols : Seq(Symbols), last_ping_time : Nat]

TypeInv ==
  /\ sessions \in Seq(Session)
  /\ session_count \in Int
  /\ now \in Nat /\ current_time \in Nat /\ curr \in Nat
  /\ adding \in [Threads -> Clients \cup {Nobody}]
  /\ main \in {"loop", "cleanup", "sweep", "ping", "sleep"}

\* No client has two sessions.
OneSession ==
  \A i, j \in DOMAIN sessions : sessions[i].client = sessions[j].client => i = j

\* No session has a symbol twice.
NoRepeats(symbols) ==
  \A k, l \in DOMAIN symbols : symbols[k] = symbols[l] => k = l

OneSymbol == \A i \in DOMAIN sessions : NoRepeats(sessions[i].subscribed_symbols)

\* Threads between the test of the limit and the lock.
Adders == {t \in Threads : adding[t] # Nobody}

\* The sessions there are and those about to be added.
LimitInv ==
  /\ session_count = Len(sessions)
  /\ session_count + Cardinality(Adders) <= MaxSessions + Cardinality(Threads) - 1

\* The cleanup works with a clock that was right once, from the first session on.
SweepInv ==
  /\ current_time <= now
  /\ main = "sweep" => curr > 0

SInv == TypeInv /\ OneSession /\ OneSymbol /\ LimitInv /\ SweepInv

-----------------------------------------------------------------------------
(* Sequences.                                                              *)

\* RemoveAt takes out one element and moves those behind it down.
LEMMA Removed ==
  ASSUME NEW S, NEW s \in Seq(S), NEW i \in DOMAIN s
  PROVE  /\ RemoveAt(s, i) \in Seq(S)
         /\ Len(RemoveAt(s, i)) = Len(s) - 1
         /\ DOMAIN RemoveAt(s, i) = 1..(Len(s) - 1)
         /\ \A j \in 1..(Len(s) - 1) : RemoveAt(s, i)[j] = IF j < i THEN s[j] ELSE s[j + 1]
<1> DEFINE n == Len(s)
           a == SubSeq(s, 1, i - 1)
           b == SubSeq(s, i + 1, n)
<1>1. n \in Nat /\ i \in 1..n /\ \A j \in 1..n : s[j] \in S
  BY LenProperties
<1>2. /\ a \in Seq(S) /\ Len(a) = i - 1
      /\ \A j \in 1..(i - 1) : a[j] = s[j]
  <2>1. \A j \in 1..(i - 1) : s[j] \in S
    BY <1>1
  <2>2. /\ a \in Seq(S)
        /\ Len(a) = IF 1 <= i - 1 THEN i - 1 - 1 + 1 ELSE 0
        /\ \A j \in 1..(i - 1 - 1 + 1) : a[j] = s[1 + j - 1]
    BY <1>1, <2>1, SubSeqProperties
  <2> HIDE DEF a
  <2> QED
    BY <1>1, <2>2
<1>3. /\ b \in Seq(S) /\ Len(b) = n - i
      /\ \A j \in 1..(n - i) : b[j] = s[i + j]
  <2>1. \A j \in (i + 1)..n : s[j] \in S
    BY <1>1
  <2>2. /\ b \in Seq(S)
        /\ Len(b) = IF i + 1 <= n THEN n - (i + 1) + 1 ELSE 0
        /\ \A j \in 1..(n - (i + 1) + 1) : b[j] = s[(i + 1) + j - 1]
    BY <1>1, <2>1, SubSeqProperties
  <2> HIDE DEF b, n
  <2> QED
    BY <1>1, <2>2
<1>4. RemoveAt(s, i) = a \o b
  BY DEF RemoveAt
<1> HIDE DEF a, b, n
<1>5. /\ a \o b \in Seq(S)
      /\ Len(a \o b) = Len(a) + Len(b)
      /\ \A j \in 1..(Len(a) + Len(b)) :
           (a \o b)[j] = IF j <= Len(a) THEN a[j] ELSE b[j - Len(a)]
  BY <1>2, <1>3, ConcatProperties
<1>6. Len(a \o b) = n - 1 /\ DOMAIN (a \o b) = 1..(n - 1)
  <2>1. Len(a) + Len(b) = n - 1
    BY <1>1, <1>2, <1>3
  <2>2. DOMAIN (a \o b) = 1..Len(a \o b)
    BY <1>5, LenProperties
  <2> QED
    BY <1>5, <2>1, <2>2
<1>7. ASSUME NEW j \in 1..(n - 1)
      PROVE  (a \o b)[j] = IF j < i THEN s[j] ELSE s[j + 1]
  <2>1. (a \o b)[j] = IF j <= i - 1 THEN a[j] ELSE b[j - (i - 1)]
    <3>1. Len(a) + Len(b) = n - 1 /\ Len(a) = i - 1
      BY <1>1, <1>2, <1>3
    <3> QED
      BY <1>5, <3>1
  <2>2. CASE j < i
    BY <1>1, <1>2, <2>1, <2>2
  <2>3. CASE ~(j < i)
    <3>1. j - (i - 1) \in 1..(n - i) /\ i + (j - (i - 1)) = j + 1 /\ ~(j <= i - 1)
      BY <1>1, <2>3
    <3>2. b[j - (i - 1)] = s[i + (j - (i - 1))]
      BY <1>3, <3>1
    <3> QED
      BY <2>1, <2>3, <3>1, <3>2
  <2> QED
    BY <2>2, <2>3
<1> QED
  BY <1>4, <1>5, <1>6, <1>7 DEF n

\* Every other element is still there, and nothing else.
LEMMA RemovedElements ==
  ASSUME NEW S, NEW s \in Seq(S), NEW i \in DOMAIN s, NEW r, r = RemoveAt(s, i)
  PROVE  /\ \E At \in [DOMAIN r -> DOMAIN s \ {i}] :
              /\ \A j \in DOMAIN r : r[j] = s[At[j]]
              /\ \A j, l \in DOMAIN r : At[j] = At[l] => j = l
         /\ \A k \in DOMAIN s : k # i => \E j \in DOMAIN r : r[j] = s[k]
<1>1. Len(s) \in Nat /\ DOMAIN s = 1..Len(s)
  BY LenProperties
<1>2. /\ DOMAIN r = 1..(Len(s) - 1)
      /\ \A j \in 1..(Len(s) - 1) : r[j] = IF j < i THEN s[j] ELSE s[j + 1]
  BY Removed
<1> DEFINE At == [j \in DOMAIN r |-> IF j < i THEN j ELSE j + 1]
<1>3. \A j \in DOMAIN r : At[j] \in DOMAIN s /\ At[j] # i /\ r[j] = s[At[j]]
  BY <1>1, <1>2
<1>4. \A j, l \in DOMAIN r : At[j] = At[l] => j = l
  BY <1>1, <1>2
<1>6. At \in [DOMAIN r -> DOMAIN s \ {i}]
  BY <1>3
<1>5. ASSUME NEW k \in DOMAIN s, k # i
      PROVE  \E j \in DOMAIN r : r[j] = s[k]
  <2>1. CASE k < i
    <3>1. k \in DOMAIN r /\ r[k] = s[k]
      BY <1>1, <1>2, <2>1
    <3> QED
      BY <3>1
  <2>2. CASE k > i
    <3>1. k - 1 \in DOMAIN r /\ ~(k - 1 < i) /\ (k - 1) + 1 = k
      BY <1>1, <1>2, <2>2
    <3>2. r[k - 1] = s[(k - 1) + 1]
      BY <1>2, <3>1
    <3> QED
      BY <3>1, <3>2
  <2> QED
    BY <1>1, <1>5, <2>1, <2>2
<1> HIDE DEF At
<1> QED
  BY <1>3, <1>4, <1>5, <1>6

\* A new first element moves the others up.
LEMMA Prepended ==
  ASSUME NEW S, NEW s \in Seq(S), NEW e \in S, NEW r, r = <<e>> \o s
  PROVE  /\ r \in Seq(S) /\ Len(r) = Len(s) + 1
         /\ DOMAIN r = 1..(Len(s) + 1)
         /\ r[1] = e
         /\ \A j \in DOMAIN s : j + 1 \in DOMAIN r /\ r[j + 1] = s[j]
         /\ \A j \in DOMAIN r : j # 1 => j - 1 \in DOMAIN s /\ r[j] = s[j - 1]
<1>1. Len(s) \in Nat /\ DOMAIN s = 1..Len(s)
  BY LenProperties
<1>2. <<e>> \in Seq(S) /\ Len(<<e>>) = 1 /\ <<e>>[1] = e
  OBVIOUS
<1>3. PICK a : a = <<e>>
  OBVIOUS
<1>4. /\ r \in Seq(S) /\ Len(r) = Len(a) + Len(s)
      /\ \A j \in 1..(Len(a) + Len(s)) : r[j] = IF j <= Len(a) THEN a[j] ELSE s[j - Len(a)]
  BY <1>2, <1>3, ConcatProperties
<1>5. Len(a) = 1 /\ a[1] = e
  BY <1>2, <1>3
<1>6. /\ Len(r) = Len(s) + 1
      /\ \A j \in 1..(Len(s) + 1) : r[j] = IF j <= 1 THEN a[j] ELSE s[j - 1]
  BY <1>1, <1>4, <1>5
<1>7. DOMAIN r = 1..(Len(s) + 1)
  BY <1>4, <1>6, LenProperties
<1>8. r[1] = e
  BY <1>1, <1>5, <1>6
<1>9. \A j \in DOMAIN r : j # 1 => j - 1 \in DOMAIN s /\ r[j] = s[j - 1]
  BY <1>1, <1>6, <1>7
<1>10. ASSUME NEW j \in DOMAIN s
       PROVE  j + 1 \in DOMAIN r /\ r[j + 1] = s[j]
  <2>1. j + 1 \in 1..(Len(s) + 1) /\ ~(j + 1 <= 1) /\ (j + 1) - 1 = j
    BY <1>1
  <2>2. r[j + 1] = s[(j + 1) - 1]
    BY <1>6, <2>1
  <2> QED
    BY <1>7, <2>1, <2>2
<1> QED
  BY <1>4, <1>6, <1>7, <1>8, <1>9, <1>10

\* A search that can have one hit only.
LEMMA OnlyHit ==
  ASSUME NEW I, NEW j \in I, j \in Int, \A k \in I : k = j
  PROVE  Min(I) = j
<1>1. \A y \in I : j <= y
  OBVIOUS
<1> QED
  BY <1>1 DEF Min

\* find_session finds the client's session.
LEMMA FindSession ==
  ASSUME TypeInv, OneSession, NEW c
  PROVE  /\ find_session(c) = 0 => \A j \in DOMAIN sessions : sessions[j].client # c
         /\ find_session(c) # 0 => /\ find_session(c) \in DOMAIN sessions
                                   /\ sessions[find_session(c)].client = c
         /\ \A j \in DOMAIN sessions : sessions[j].client = c => find_session(c) = j
<1> DEFINE I == {i \in 1..Len(sessions) : sessions[i].client = c}
<1>1. find_session(c) = IF I # {} THEN Min(I) ELSE 0
  BY DEF find_session, SelectInSeq
<1>2. Len(sessions) \in Nat /\ DOMAIN sessions = 1..Len(sessions)
  BY LenProperties DEF TypeInv
<1>3. \A j \in DOMAIN sessions : sessions[j].client = c <=> j \in I
  BY <1>2
<1>4. I \subseteq DOMAIN sessions /\ \A i, j \in I : i = j
  BY <1>2 DEF OneSession
<1>5. \A j \in I : j \in Int /\ j # 0
  BY <1>2
<1> HIDE DEF I
<1>6. \A j \in I : find_session(c) = j
  BY <1>1, <1>4, <1>5, OnlyHit
<1>7. I = {} => find_session(c) = 0
  BY <1>1
<1> QED
  BY <1>3, <1>4, <1>5, <1>6, <1>7

\* The search for a symbol.
LEMMA FindSymbol ==
  ASSUME NEW symbols \in Seq(Symbols), NoRepeats(symbols), NEW s, Contains(symbols, s)
  PROVE  LET k == SelectInSeq(symbols, LAMBDA x : x = s)
         IN k \in DOMAIN symbols /\ symbols[k] = s
<1> DEFINE I == {i \in 1..Len(symbols) : symbols[i] = s}
<1>1. SelectInSeq(symbols, LAMBDA x : x = s) = IF I # {} THEN Min(I) ELSE 0
  BY DEF SelectInSeq
<1>2. Len(symbols) \in Nat /\ DOMAIN symbols = 1..Len(symbols)
  BY LenProperties
<1>3. PICK k \in 1..Len(symbols) : symbols[k] = s
  BY DEF Contains
<1>4. k \in I /\ k \in Int /\ \A j \in I : j = k
  BY <1>2, <1>3 DEF NoRepeats
<1> HIDE DEF I
<1>5. Min(I) = k
  BY <1>4, OnlyHit
<1> QED
  BY <1>1, <1>2, <1>3, <1>4, <1>5

-----------------------------------------------------------------------------
(* What the actions do to the list.                                        *)

\* The fields of a session have their types.
LEMMA SessionFields ==
  ASSUME TypeInv, NEW i \in DOMAIN sessions
  PROVE  /\ sessions[i] \in Session /\ sessions[i].client \in Clients
         /\ sessions[i].subscribed_symbols \in Seq(Symbols)
         /\ sessions[i].last_ping_time \in Nat
<1>1. sessions[i] \in Session
  BY DEF TypeInv
<1> QED
  BY <1>1 DEF Session

\* The symbols of one session are replaced.
LEMMA SymbolsReplaced ==
  ASSUME TypeInv, NEW i \in DOMAIN sessions, NEW X \in Seq(Symbols),
         sessions' = [sessions EXCEPT ![i].subscribed_symbols = X]
  PROVE  /\ sessions' \in Seq(Session) /\ Len(sessions') = Len(sessions)
         /\ DOMAIN sessions' = DOMAIN sessions
         /\ \A j \in DOMAIN sessions :
              /\ sessions'[j].client = sessions[j].client
              /\ sessions'[j].subscribed_symbols =
                   IF j = i THEN X ELSE sessions[j].subscribed_symbols
<1> DEFINE e == [sessions[i] EXCEPT !.subscribed_symbols = X]
<1>1. e \in Session /\ e.client = sessions[i].client /\ e.subscribed_symbols = X
  BY SessionFields DEF Session
<1>2. sessions' = [sessions EXCEPT ![i] = e]
  OBVIOUS
<1>3. sessions \in Seq(Session) /\ DOMAIN sessions = 1..Len(sessions)
  BY LenProperties DEF TypeInv
<1> HIDE DEF e
<1>4. /\ sessions' \in Seq(Session) /\ Len(sessions') = Len(sessions)
      /\ \A j \in 1..Len(sessions) : sessions'[j] = IF j = i THEN e ELSE sessions[j]
  BY <1>1, <1>2, <1>3, ExceptSeq
<1>5. DOMAIN sessions' = DOMAIN sessions
  BY <1>3, <1>4, LenProperties
<1> QED
  BY <1>1, <1>3, <1>4, <1>5

\* One session is taken out.
LEMMA SessionRemoved ==
  ASSUME SInv, NEW i \in DOMAIN sessions, sessions' = RemoveAt(sessions, i)
  PROVE  /\ sessions' \in Seq(Session) /\ Len(sessions') = Len(sessions) - 1
         /\ OneSession' /\ OneSymbol'
<1>1. sessions \in Seq(Session)
  BY DEF SInv, TypeInv
<1>2. sessions' \in Seq(Session) /\ Len(sessions') = Len(sessions) - 1
  BY <1>1, Removed
<1>3. PICK At \in [DOMAIN sessions' -> DOMAIN sessions \ {i}] :
        /\ \A j \in DOMAIN sessions' : sessions'[j] = sessions[At[j]]
        /\ \A j, l \in DOMAIN sessions' : At[j] = At[l] => j = l
  BY <1>1, RemovedElements
<1>4. OneSession'
  BY <1>3 DEF SInv, OneSession
<1>5. OneSymbol'
  BY <1>3 DEF SInv, OneSymbol
<1> QED
  BY <1>2, <1>4, <1>5

-----------------------------------------------------------------------------
(* The inductive invariant.                                                *)

LEMMA AddersFinite ==
  /\ IsFiniteSet(Adders) /\ Cardinality(Adders) \in Nat
  /\ Cardinality(Threads) \in Nat /\ Cardinality(Threads) > 0
  /\ Cardinality(Adders) <= Cardinality(Threads)
<1>1. Adders \subseteq Threads
  BY DEF Adders
<1>2. IsFiniteSet(Threads) /\ Threads # {}
  BY ThreadsAssumption
<1> QED
  BY <1>1, <1>2, FS_Subset, FS_CardinalityType, FS_EmptySet

LEMMA InitSInv == Init => SInv
<1> SUFFICES ASSUME Init PROVE SInv
  OBVIOUS
<1>1. sessions = <<>> /\ Len(sessions) = 0 /\ DOMAIN sessions = {}
  BY DEF Init
<1>2. TypeInv
  BY <1>1, EmptySeq DEF Init, TypeInv
<1>3. OneSession /\ OneSymbol /\ SweepInv
  BY <1>1 DEF Init, OneSession, OneSymbol, SweepInv
<1>4. Adders = {}
  BY DEF Init, Adders
<1>5. LimitInv
  <2>1. Cardinality(Adders) = 0
    BY <1>4, FS_EmptySet
  <2>2. session_count = 0 /\ session_count = Len(sessions)
    BY <1>1 DEF Init
  <2>3. 0 + 0 <= MaxSessions + Cardinality(Threads) - 1
    BY AddersFinite, SessionAssumption
  <2> QED
    BY <2>1, <2>2, <2>3 DEF LimitInv
<1> QED
  BY <1>2, <1>3, <1>5 DEF SInv

\* A thread that found room is about to add a session.
LEMMA AddCheckSInv ==
  ASSUME SInv, NEW t \in Threads, NEW c \in Clients, AddCheck(t, c)
  PROVE  SInv'
<1>1. /\ adding' = [adding EXCEPT ![t] = c]
      /\ UNCHANGED <<sessions, session_count, now, main, current_time, curr>>
      /\ session_count < MaxSessions /\ adding[t] = Nobody
  BY DEF AddCheck
<1>2. TypeInv' /\ OneSession' /\ OneSymbol' /\ SweepInv'
  BY <1>1 DEF SInv, TypeInv, OneSession, OneSymbol, SweepInv
<1>3. session_count + Cardinality(Adders)' <= MaxSessions + Cardinality(Threads) - 1
  <2>1. Adders' \subseteq Threads
    BY DEF Adders
  <2>2. Cardinality(Adders') \in Nat /\ Cardinality(Adders') <= Cardinality(Threads)
    BY <2>1, ThreadsAssumption, FS_Subset, FS_CardinalityType
  <2>3. session_count \in Int /\ Cardinality(Threads) \in Nat
    BY AddersFinite DEF SInv, TypeInv
  <2> QED
    BY <1>1, <2>2, <2>3, SessionAssumption
<1>4. LimitInv'
  BY <1>1, <1>3 DEF SInv, LimitInv
<1> QED
  BY <1>2, <1>4 DEF SInv

\* A thread is done with session_manager_add_client.
LEMMA AddersLess ==
  ASSUME TypeInv, NEW t \in Threads, adding[t] # Nobody,
         adding' = [adding EXCEPT ![t] = Nobody]
  PROVE  Cardinality(Adders') = Cardinality(Adders) - 1
<1>1. t \in Adders /\ Adders' = Adders \ {t}
  BY DEF Adders, TypeInv
<1> QED
  BY <1>1, AddersFinite, FS_RemoveElement

LEMMA AddLockedSInv ==
  ASSUME SInv, NEW t \in Threads, AddLocked(t)
  PROVE  SInv'
<1> DEFINE c == adding[t]
           e == [client |-> c, subscribed_symbols |-> <<>>, last_ping_time |-> now]
<1>1. /\ c # Nobody /\ adding' = [adding EXCEPT ![t] = Nobody]
      /\ UNCHANGED <<now, main, current_time, curr>>
      /\ \/ UNCHANGED <<sessions, session_count>>
         \/ /\ find_session(c) = 0
            /\ sessions' = <<e>> \o sessions
            /\ session_count' = session_count + 1
  BY DEF AddLocked
<1>2. TypeInv /\ OneSession /\ OneSymbol /\ LimitInv /\ SweepInv
  BY DEF SInv
<1>3. Cardinality(Adders') = Cardinality(Adders) - 1 /\ Cardinality(Adders) \in Nat
  BY <1>1, <1>2, AddersLess, AddersFinite
<1>4. adding' \in [Threads -> Clients \cup {Nobody}] /\ c \in Clients
  BY <1>1, <1>2 DEF TypeInv
<1>5. session_count \in Int /\ Cardinality(Threads) \in Nat /\ MaxSessions \in Nat
  BY <1>2, AddersFinite, SessionAssumption DEF TypeInv
<1>6. SweepInv'
  BY <1>1, <1>2 DEF SweepInv
<1>7. CASE UNCHANGED <<sessions, session_count>>
  <2>1. TypeInv' /\ OneSession' /\ OneSymbol'
    BY <1>1, <1>2, <1>4, <1>7 DEF TypeInv, OneSession, OneSymbol
  <2>2. LimitInv'
    BY <1>2, <1>3, <1>5, <1>7 DEF LimitInv
  <2> QED
    BY <1>6, <2>1, <2>2 DEF SInv
<1>8. CASE /\ find_session(c) = 0
           /\ sessions' = <<e>> \o sessions
           /\ session_count' = session_count + 1
  <2>1. e \in Session
    BY <1>2, <1>4, EmptySeq DEF Session, TypeInv
  <2>2. e.client = c /\ e.subscribed_symbols = <<>>
    OBVIOUS
  <2> HIDE DEF e
  <2>3. sessions \in Seq(Session) /\ Len(sessions) \in Nat
    BY <1>2, LenProperties DEF TypeInv
  <2>4. PICK r : r = sessions' /\ r = <<e>> \o sessions
    BY <1>8
  <2>5. /\ r \in Seq(Session) /\ Len(r) = Len(sessions) + 1
        /\ r[1] = e
        /\ \A j \in DOMAIN r : j # 1 => j - 1 \in DOMAIN sessions /\ r[j] = sessions[j - 1]
        /\ DOMAIN r = 1..(Len(sessions) + 1)
    BY <2>1, <2>3, <2>4, Prepended
  <2>6. TypeInv'
    BY <1>1, <1>2, <1>4, <1>5, <1>8, <2>4, <2>5 DEF TypeInv
  <2>7. \A j \in DOMAIN sessions : sessions[j].client # c
    BY <1>2, <1>8, FindSession
  <2>8. OneSession'
    <3> SUFFICES ASSUME NEW i \in DOMAIN r, NEW j \in DOMAIN r, r[i].client = r[j].client
                 PROVE  i = j
      BY <2>4 DEF OneSession
    <3>1. CASE i = 1 \/ j = 1
      BY <2>2, <2>5, <2>7, <3>1
    <3>2. CASE i # 1 /\ j # 1
      <4>1. i - 1 = j - 1
        BY <1>2, <2>5, <3>2 DEF OneSession
      <4> QED
        BY <2>3, <2>5, <4>1
    <3> QED
      BY <3>1, <3>2
  <2>9. OneSymbol'
    <3> SUFFICES ASSUME NEW i \in DOMAIN r PROVE NoRepeats(r[i].subscribed_symbols)
      BY <2>4 DEF OneSymbol
    <3>1. CASE i = 1
      BY <2>2, <2>5, <3>1 DEF NoRepeats
    <3>2. CASE i # 1
      BY <1>2, <2>5, <3>2 DEF OneSymbol
    <3> QED
      BY <3>1, <3>2
  <2>10. LimitInv'
    BY <1>2, <1>3, <1>5, <1>8, <2>3, <2>4, <2>5 DEF LimitInv
  <2> QED
    BY <1>6, <2>6, <2>8, <2>9, <2>10 DEF SInv
<1> QED
  BY <1>1, <1>7, <1>8

\* A session is taken out, by its client or by the cleanup.
LEMMA RemoveSInv ==
  ASSUME SInv, NEW i \in DOMAIN sessions, sessions' = RemoveAt(sessions, i),
         session_count' = session_count - 1, UNCHANGED <<now, adding, main, current_time, curr>>
  PROVE  SInv'
<1>1. /\ sessions' \in Seq(Session) /\ Len(sessions') = Len(sessions) - 1
      /\ OneSession' /\ OneSymbol'
  BY SessionRemoved
<1>2. TypeInv /\ LimitInv /\ SweepInv
  BY DEF SInv
<1>3. TypeInv' /\ SweepInv'
  BY <1>1, <1>2 DEF TypeInv, SweepInv
<1>4. Adders' = Adders
  BY DEF Adders
<1>5. session_count \in Int /\ Cardinality(Adders) \in Nat /\ Cardinality(Threads) \in Nat
  BY <1>2, AddersFinite DEF TypeInv
<1>6. LimitInv'
  BY <1>1, <1>2, <1>4, <1>5, SessionAssumption DEF LimitInv
<1> QED
  BY <1>1, <1>3, <1>6 DEF SInv

\* The symbols of a session change.
LEMMA SymbolsSInv ==
  ASSUME SInv, NEW i \in DOMAIN sessions, NEW X \in Seq(Symbols), NoRepeats(X),
         sessions' = [sessions EXCEPT ![i].subscribed_symbols = X],
         UNCHANGED <<session_count, now, adding, main, current_time, curr>>
  PROVE  SInv'
<1>1. TypeInv /\ OneSession /\ OneSymbol /\ LimitInv /\ SweepInv
  BY DEF SInv
<1>2. /\ sessions' \in Seq(Session) /\ Len(sessions') = Len(sessions)
      /\ DOMAIN sessions' = DOMAIN sessions
      /\ \A j \in DOMAIN sessions :
           /\ sessions'[j].client = sessions[j].client
           /\ sessions'[j].subscribed_symbols =
                IF j = i THEN X ELSE sessions[j].subscribed_symbols
  BY <1>1, SymbolsReplaced
<1>3. TypeInv' /\ SweepInv'
  BY <1>1, <1>2 DEF TypeInv, SweepInv
<1>4. OneSession'
  BY <1>1, <1>2 DEF OneSession
<1>5. OneSymbol'
  BY <1>1, <1>2 DEF OneSymbol
<1>6. LimitInv'
  BY <1>1, <1>2 DEF LimitInv, Adders
<1> QED
  BY <1>3, <1>4, <1>5, <1>6 DEF SInv

\* What an appended symbol or a removed one leaves has no symbol twice.
LEMMA AppendedSymbols ==
  ASSUME NEW symbols \in Seq(Symbols), NoRepeats(symbols), NEW s \in Symbols,
         ~Contains(symbols, s), NEW X, X = Append(symbols, s)
  PROVE  /\ X \in Seq(Symbols) /\ NoRepeats(X)
         /\ \A y : Contains(X, y) <=> (Contains(symbols, y) \/ y = s)
<1>1. Len(symbols) \in Nat /\ DOMAIN symbols = 1..Len(symbols)
  BY LenProperties
<1>2. /\ X \in Seq(Symbols) /\ Len(X) = Len(symbols) + 1
      /\ \A i \in 1..Len(symbols) : X[i] = symbols[i]
      /\ X[Len(symbols) + 1] = s
  BY AppendProperties
<1>3. DOMAIN X = 1..(Len(symbols) + 1)
  BY <1>2, LenProperties
<1>4. \A i \in 1..Len(symbols) : symbols[i] # s
  BY DEF Contains
<1>5. NoRepeats(X)
  BY <1>1, <1>2, <1>3, <1>4 DEF NoRepeats
<1>6. \A y : Contains(X, y) <=> (Contains(symbols, y) \/ y = s)
  BY <1>1, <1>2 DEF Contains
<1> QED
  BY <1>2, <1>5, <1>6

LEMMA RemovedSymbolAt ==
  ASSUME NEW symbols \in Seq(Symbols), NoRepeats(symbols),
         NEW k \in DOMAIN symbols, NEW X, X = RemoveAt(symbols, k)
  PROVE  /\ X \in Seq(Symbols) /\ NoRepeats(X)
         /\ \A y : Contains(X, y) <=> (Contains(symbols, y) /\ y # symbols[k])
<1>1. X \in Seq(Symbols)
  BY Removed
<1>2. PICK At \in [DOMAIN X -> DOMAIN symbols \ {k}] :
        /\ \A j \in DOMAIN X : X[j] = symbols[At[j]]
        /\ \A j, l \in DOMAIN X : At[j] = At[l] => j = l
  BY RemovedElements
<1>3. \A m \in DOMAIN symbols : m # k => \E j \in DOMAIN X : X[j] = symbols[m]
  BY RemovedElements
<1>4. DOMAIN X = 1..Len(X) /\ DOMAIN symbols = 1..Len(symbols)
  BY <1>1, LenProperties
<1>5. NoRepeats(X)
  BY <1>2 DEF NoRepeats
<1>6. \A y : Contains(X, y) => (Contains(symbols, y) /\ y # symbols[k])
  BY <1>2, <1>4 DEF Contains, NoRepeats
<1>7. \A y : Contains(symbols, y) /\ y # symbols[k] => Contains(X, y)
  BY <1>3, <1>4 DEF Contains
<1> QED
  BY <1>1, <1>5, <1>6, <1>7

LEMMA RemovedSymbols ==
  ASSUME NEW symbols \in Seq(Symbols), NoRepeats(symbols), NEW s, Contains(symbols, s),
         NEW X, X = RemoveAt(symbols, SelectInSeq(symbols, LAMBDA x : x = s))
  PROVE  /\ X \in Seq(Symbols) /\ NoRepeats(X)
         /\ \A y : Contains(X, y) <=> (Contains(symbols, y) /\ y # s)
<1> DEFINE k == SelectInSeq(symbols, LAMBDA x : x = s)
<1>1. k \in DOMAIN symbols /\ symbols[k] = s
  BY FindSymbol
<1>2. X = RemoveAt(symbols, k)
  OBVIOUS
<1> HIDE DEF k
<1> QED
  BY <1>1, <1>2, RemovedSymbolAt

LEMMA NextSInv == SInv /\ [Next]_vars => SInv'
<1> SUFFICES ASSUME SInv, [Next]_vars PROVE SInv'
  OBVIOUS
<1>0. TypeInv /\ OneSession /\ OneSymbol /\ LimitInv /\ SweepInv
  BY DEF SInv
<1>1. CASE \E t \in Threads : AddLocked(t) \/ \E c \in Clients : AddCheck(t, c)
  BY <1>1, AddLockedSInv, AddCheckSInv
<1>2. ASSUME NEW c \in Clients, session_manager_remove_client(c)
      PROVE  SInv'
  <2>1. find_session(c) \in DOMAIN sessions
    BY <1>0, <1>2, FindSession DEF session_manager_remove_client
  <2> QED
    BY <1>2, <2>1, RemoveSInv DEF session_manager_remove_client
<1>3. ASSUME NEW c \in Clients, NEW s \in Symbols, session_manager_subscribe_symbol(c, s)
      PROVE  SInv'
  <2>1. PICK i : i = find_session(c)
    OBVIOUS
  <2> DEFINE symbols == sessions[i].subscribed_symbols
             X == Append(symbols, s)
  <2>2. /\ i \in DOMAIN sessions
        /\ sessions' = [sessions EXCEPT ![i].subscribed_symbols = X]
        /\ UNCHANGED <<session_count, now, adding, main, current_time, curr>>
        /\ ~Contains(symbols, s)
    BY <1>0, <1>3, <2>1, FindSession DEF session_manager_subscribe_symbol
  <2>3. symbols \in Seq(Symbols) /\ NoRepeats(symbols)
    BY <1>0, <2>2, SessionFields DEF OneSymbol
  <2>4. X \in Seq(Symbols) /\ NoRepeats(X)
    BY <2>2, <2>3, AppendedSymbols
  <2> HIDE DEF X
  <2> QED
    BY <2>2, <2>4, SymbolsSInv
<1>4. ASSUME NEW c \in Clients, NEW s \in Symbols, session_manager_unsubscribe_symbol(c, s)
      PROVE  SInv'
  <2>1. PICK i : i = find_session(c)
    OBVIOUS
  <2> DEFINE symbols == sessions[i].subscribed_symbols
             X == RemoveAt(symbols, SelectInSeq(symbols, LAMBDA x : x = s))
  <2>2. /\ i \in DOMAIN sessions
        /\ sessions' = [sessions EXCEPT ![i].subscribed_symbols = X]
        /\ UNCHANGED <<session_count, now, adding, main, current_time, curr>>
        /\ Contains(symbols, s)
    BY <1>0, <1>4, <2>1, FindSession DEF session_manager_unsubscribe_symbol
  <2>3. symbols \in Seq(Symbols) /\ NoRepeats(symbols)
    BY <1>0, <2>2, SessionFields DEF OneSymbol
  <2>4. X \in Seq(Symbols) /\ NoRepeats(X)
    BY <2>2, <2>3, RemovedSymbols
  <2> HIDE DEF X
  <2> QED
    BY <2>2, <2>4, SymbolsSInv
<1>5. CASE Serve
  BY <1>1, <1>2, <1>3, <1>4, <1>5 DEF Serve
<1>6. CASE CleanupRemove
  <2>1. curr \in DOMAIN sessions
    BY <1>0, <1>6, LenProperties DEF CleanupRemove, TypeInv, SweepInv
  <2> QED
    BY <1>6, <2>1, RemoveSInv DEF CleanupRemove
<1>7. CASE session_manager_ping_clients
  <2>1. /\ sessions' = [i \in DOMAIN sessions |->
                          [sessions[i] EXCEPT !.last_ping_time = now]]
        /\ main' = "sleep" /\ UNCHANGED <<session_count, now, adding, current_time, curr>>
    BY <1>7 DEF session_manager_ping_clients
  <2>2. Len(sessions) \in Nat /\ DOMAIN sessions = 1..Len(sessions)
    BY <1>0, LenProperties DEF TypeInv
  <2>3. \A i \in DOMAIN sessions :
          /\ sessions'[i] = [sessions[i] EXCEPT !.last_ping_time = now]
          /\ sessions'[i] \in Session
          /\ sessions'[i].client = sessions[i].client
          /\ sessions'[i].subscribed_symbols = sessions[i].subscribed_symbols
    BY <1>0, <2>1, SessionFields DEF Session, TypeInv
  <2>4. sessions' \in Seq(Session) /\ Len(sessions') = Len(sessions)
    <3>1. DOMAIN sessions' = 1..Len(sessions)
      BY <2>1, <2>2
    <3>2. sessions' \in [1..Len(sessions) -> Session]
      BY <2>1, <2>2, <2>3
    <3> QED
      BY <2>2, <3>1, <3>2
  <2>5. DOMAIN sessions' = DOMAIN sessions
    BY <2>1
  <2>6. TypeInv' /\ SweepInv'
    BY <1>0, <2>1, <2>4 DEF TypeInv, SweepInv
  <2>7. OneSession' /\ OneSymbol'
    BY <1>0, <2>3, <2>5 DEF OneSession, OneSymbol
  <2>8. LimitInv'
    BY <1>0, <2>1, <2>4 DEF LimitInv, Adders
  <2> QED
    BY <2>6, <2>7, <2>8 DEF SInv
<1>8. ASSUME UNCHANGED <<sessions, session_count, adding>>, TypeInv', SweepInv'
      PROVE  SInv'
  BY <1>0, <1>8 DEF SInv, OneSession, OneSymbol, LimitInv, Adders
<1>9. CASE CleanupReadTime
  BY <1>0, <1>8, <1>9 DEF CleanupReadTime, TypeInv, SweepInv
<1>10. CASE CleanupLock
  BY <1>0, <1>8, <1>10 DEF CleanupLock, TypeInv, SweepInv
<1>11. CASE CleanupKeep
  BY <1>0, <1>8, <1>11 DEF CleanupKeep, TypeInv, SweepInv
<1>12. CASE CleanupUnlock
  BY <1>0, <1>8, <1>12 DEF CleanupUnlock, TypeInv, SweepInv
<1>13. CASE WakeUp
  BY <1>0, <1>8, <1>13 DEF WakeUp, TypeInv, SweepInv
<1>14. CASE Tick
  BY <1>0, <1>8, <1>14 DEF Tick, TypeInv, SweepInv
<1>15. CASE UNCHANGED vars
  BY <1>0, <1>8, <1>15 DEF vars, TypeInv, SweepInv
<1> QED
  BY <1>5, <1>6, <1>7, <1>9, <1>10, <1>11, <1>12, <1>13, <1>14, <1>15 DEF Next, MainLoop

-----------------------------------------------------------------------------
(* Theorems.                                                               *)

\* The inductive invariant holds in every behaviour of the session manager.
THEOREM SessionInvariant == Spec => []SInv
<1> QED
  BY InitSInv, NextSInv, PTL DEF Spec

\* session_count counts the sessions, no client has two, and each thread but one
\* adds at most one session above the limit.
THEOREM CountAlwaysRight == Spec => []CountIsRight
<1>1. SInv => CountIsRight
  <2> SUFFICES ASSUME SInv PROVE CountIsRight
    OBVIOUS
  <2>1. session_count \in Int /\ Cardinality(Adders) \in Nat /\ Cardinality(Threads) \in Nat
    BY AddersFinite DEF SInv, TypeInv
  <2>2. session_count <= MaxSessions + Cardinality(Threads) - 1
    BY <2>1, SessionAssumption DEF SInv, LimitInv
  <2> QED
    BY <2>2 DEF CountIsRight, SInv, LimitInv, OneSession
<1> QED
  BY <1>1, SessionInvariant, PTL

\* The cleanup removes no session that was added or pinged less than the timeout
\* ago, although the clock it compares with may be old: an old clock only makes
\* a session look younger.
THEOREM YoungSessionsAlwaysStay == Spec => YoungSessionsStay
<1> DEFINE A == \A i \in DOMAIN sessions :
                  main = "sweep" /\ sessions[i].client \notin ClientsOf(sessions')
                    => (now - sessions[i].last_ping_time) * 1000 > SessionTimeout
<1>1. SInv /\ [Next]_vars => [A]_vars
  <2> SUFFICES ASSUME SInv, [Next]_vars, NEW i \in DOMAIN sessions, main = "sweep",
                      sessions[i].client \notin ClientsOf(sessions')
               PROVE  (now - sessions[i].last_ping_time) * 1000 > SessionTimeout
    OBVIOUS
  <2>1. sessions' # sessions
    BY DEF ClientsOf
  <2>2. CleanupRemove
    BY <2>1 DEF Next, vars, Serve, MainLoop, AddLocked, AddCheck, Unlocked,
       session_manager_remove_client, session_manager_subscribe_symbol,
       session_manager_unsubscribe_symbol, CleanupReadTime, CleanupLock, CleanupKeep,
       CleanupUnlock, session_manager_ping_clients, WakeUp, Tick
  <2>3. TypeInv /\ SweepInv
    BY DEF SInv
  <2>4. curr \in DOMAIN sessions
    BY <2>2, <2>3, LenProperties DEF CleanupRemove, TypeInv, SweepInv
  <2>5. sessions' = RemoveAt(sessions, curr) /\ TimedOut(sessions[curr])
    BY <2>2 DEF CleanupRemove
  <2>6. \A k \in DOMAIN sessions : k # curr => \E j \in DOMAIN sessions' : sessions'[j] = sessions[k]
    BY <2>3, <2>4, <2>5, RemovedElements DEF TypeInv
  <2>7. i = curr
    BY <2>6 DEF ClientsOf
  <2>8. (current_time - sessions[i].last_ping_time) * 1000 > SessionTimeout
    BY <2>5, <2>7 DEF TimedOut
  <2>9. /\ current_time \in Nat /\ now \in Nat /\ current_time <= now
        /\ sessions[i].last_ping_time \in Nat
    BY <2>3, SessionFields DEF TypeInv, SweepInv
  <2> QED
    BY <2>8, <2>9, SessionAssumption
<1> QED
  BY <1>1, SessionInvariant, PTL DEF Spec, YoungSessionsStay

-----------------------------------------------------------------------------
(* The list implements a set of subscriptions.                             *)

\* The subscriptions in the list.
Subscribed == {p \in Clients \X Symbols : session_manager_is_subscribed(p[1], p[2])}

\* A client is subscribed to what its session, wherever it is, holds.
Has(list, c, s) ==
  \E i \in DOMAIN list : list[i].client = c /\ Contains(list[i].subscribed_symbols, s)

LEMMA IsSubscribed ==
  SInv => \A c \in Clients, s \in Symbols :
            <<c, s>> \in Subscribed <=> Has(sessions, c, s)
<1> SUFFICES ASSUME SInv, NEW c \in Clients, NEW s \in Symbols
             PROVE  <<c, s>> \in Subscribed <=> Has(sessions, c, s)
  OBVIOUS
<1>1. <<c, s>> \in Subscribed <=> session_manager_is_subscribed(c, s)
  BY DEF Subscribed
<1>2. PICK i : i = find_session(c)
  OBVIOUS
<1>3. session_manager_is_subscribed(c, s)
        <=> i # 0 /\ Contains(sessions[i].subscribed_symbols, s)
  BY <1>2 DEF session_manager_is_subscribed
<1>4. /\ i = 0 => \A j \in DOMAIN sessions : sessions[j].client # c
      /\ i # 0 => i \in DOMAIN sessions /\ sessions[i].client = c
      /\ \A j \in DOMAIN sessions : sessions[j].client = c => i = j
  BY <1>2, FindSession DEF SInv
<1> QED
  BY <1>1, <1>3, <1>4 DEF Has

\* Two sets of subscriptions are equal when they have the same pairs.
LEMMA SamePairs ==
  ASSUME NEW P \in SUBSET (Clients \X Symbols), NEW Q \in SUBSET (Clients \X Symbols),
         \A c \in Clients, s \in Symbols : <<c, s>> \in P <=> <<c, s>> \in Q
  PROVE  P = Q
<1>1. \A p \in Clients \X Symbols : p = <<p[1], p[2]>> /\ p[1] \in Clients /\ p[2] \in Symbols
  OBVIOUS
<1>2. \A p \in Clients \X Symbols : p \in P <=> p \in Q
  BY <1>1
<1> QED
  BY <1>2

\* The subscriptions after a step that changes them to P.
LEMMA SubscribedNext ==
  ASSUME SInv, SInv'
  PROVE  /\ \A c \in Clients, s \in Symbols : <<c, s>> \in Subscribed <=> Has(sessions, c, s)
         /\ \A P \in SUBSET (Clients \X Symbols) :
              (\A c \in Clients, s \in Symbols : <<c, s>> \in P <=> Has(sessions', c, s))
                => Subscribed' = P
         /\ Subscribed \in SUBSET (Clients \X Symbols)
         /\ (\A c \in Clients, s \in Symbols : Has(sessions', c, s) <=> Has(sessions, c, s))
              => Subscribed' = Subscribed
<1>1. \A c \in Clients, s \in Symbols : <<c, s>> \in Subscribed <=> Has(sessions, c, s)
  BY IsSubscribed
<1>2. (SInv => \A c \in Clients, s \in Symbols :
                 <<c, s>> \in Subscribed <=> Has(sessions, c, s))'
  BY IsSubscribed, PTL
<1>3. \A c \in Clients, s \in Symbols : <<c, s>> \in Subscribed' <=> Has(sessions', c, s)
  BY <1>2
<1>4. Subscribed \in SUBSET (Clients \X Symbols) /\ Subscribed' \in SUBSET (Clients \X Symbols)
  BY DEF Subscribed
<1>5. PICK Q : Q = Subscribed'
  OBVIOUS
<1>6. ASSUME NEW P \in SUBSET (Clients \X Symbols),
             \A c \in Clients, s \in Symbols : <<c, s>> \in P <=> Has(sessions', c, s)
      PROVE  Q = P
  <2>1. \A c \in Clients, s \in Symbols : <<c, s>> \in Q <=> <<c, s>> \in P
    BY <1>3, <1>5, <1>6
  <2>2. Q \in SUBSET (Clients \X Symbols)
    BY <1>4, <1>5
  <2> QED
    BY <2>1, <2>2, SamePairs
<1>7. ASSUME \A c \in Clients, s \in Symbols : Has(sessions', c, s) <=> Has(sessions, c, s)
      PROVE  Q = Subscribed
  BY <1>1, <1>4, <1>6, <1>7
<1> QED
  BY <1>1, <1>4, <1>5, <1>6, <1>7

\* Nothing changes for Subscriptions where no client and no symbol does.
LEMMA SameSubscriptions ==
  ASSUME SInv, SInv', DOMAIN sessions' = DOMAIN sessions,
         \A i \in DOMAIN sessions :
           /\ sessions'[i].client = sessions[i].client
           /\ sessions'[i].subscribed_symbols = sessions[i].subscribed_symbols
  PROVE  ClientsOf(sessions') = ClientsOf(sessions) /\ Subscribed' = Subscribed
<1>1. ClientsOf(sessions') = ClientsOf(sessions)
  BY DEF ClientsOf
<1>2. \A c \in Clients, s \in Symbols : Has(sessions', c, s) <=> Has(sessions, c, s)
  BY DEF Has
<1> QED
  BY <1>1, <1>2, SubscribedNext

\* A session taken out takes its subscriptions with it, and no other.
LEMMA LeaveStep ==
  ASSUME SInv, SInv', NEW i \in DOMAIN sessions, sessions' = RemoveAt(sessions, i),
         NEW c \in Clients, c = sessions[i].client
  PROVE  /\ ClientsOf(sessions') = ClientsOf(sessions) \ {c}
         /\ Subscribed' = {p \in Subscribed : p[1] # c}
<1>1. sessions \in Seq(Session) /\ OneSession
  BY DEF SInv, TypeInv
<1>2. PICK r : r = sessions'
  OBVIOUS
<1>3. PICK At \in [DOMAIN r -> DOMAIN sessions \ {i}] :
        /\ \A j \in DOMAIN r : r[j] = sessions[At[j]]
        /\ \A j, l \in DOMAIN r : At[j] = At[l] => j = l
  BY <1>1, <1>2, RemovedElements
<1>4. \A k \in DOMAIN sessions : k # i => \E j \in DOMAIN r : r[j] = sessions[k]
  BY <1>1, <1>2, RemovedElements
<1>5. \A k \in DOMAIN sessions : k # i => sessions[k].client # c
  BY <1>1 DEF OneSession
<1>6. ClientsOf(r) = ClientsOf(sessions) \ {c}
  <2>1. \A x \in ClientsOf(r) : x \in ClientsOf(sessions) /\ x # c
    BY <1>3, <1>5 DEF ClientsOf
  <2>2. \A x \in ClientsOf(sessions) : x # c => x \in ClientsOf(r)
    BY <1>4 DEF ClientsOf
  <2> QED
    BY <2>1, <2>2
<1>7. \A d \in Clients, s \in Symbols : Has(r, d, s) <=> Has(sessions, d, s) /\ d # c
  <2> SUFFICES ASSUME NEW d \in Clients, NEW s \in Symbols
               PROVE  Has(r, d, s) <=> Has(sessions, d, s) /\ d # c
    OBVIOUS
  <2>1. Has(r, d, s) => Has(sessions, d, s) /\ d # c
    BY <1>3, <1>5 DEF Has
  <2>2. Has(sessions, d, s) /\ d # c => Has(r, d, s)
    BY <1>4 DEF Has
  <2> QED
    BY <2>1, <2>2
<1> DEFINE P == {p \in Subscribed : p[1] # c}
<1>8. P \in SUBSET (Clients \X Symbols)
  BY SubscribedNext
<1>9. \A d \in Clients, s \in Symbols : <<d, s>> \in P <=> Has(r, d, s)
  BY <1>7, SubscribedNext
<1> HIDE DEF P
<1>10. Subscribed' = P
  BY <1>2, <1>8, <1>9, SubscribedNext
<1> QED
  BY <1>2, <1>6, <1>10 DEF P

\* A new session comes without symbols.
LEMMA JoinStep ==
  ASSUME SInv, SInv', NEW c \in Clients, NEW e \in Session, e.client = c,
         e.subscribed_symbols = <<>>, sessions' = <<e>> \o sessions
  PROVE  ClientsOf(sessions') = ClientsOf(sessions) \cup {c} /\ Subscribed' = Subscribed
<1>1. PICK r : r = sessions' /\ r = <<e>> \o sessions
  OBVIOUS
<1>2. sessions \in Seq(Session)
  BY DEF SInv, TypeInv
<1>3. /\ DOMAIN r = 1..(Len(sessions) + 1)
      /\ r[1] = e
      /\ \A j \in DOMAIN sessions : j + 1 \in DOMAIN r /\ r[j + 1] = sessions[j]
      /\ \A j \in DOMAIN r : j # 1 => j - 1 \in DOMAIN sessions /\ r[j] = sessions[j - 1]
  BY <1>1, <1>2, Prepended
<1>4. 1 \in DOMAIN r
  BY <1>2, <1>3, LenProperties
<1>5. \A k \in DOMAIN sessions : \E j \in DOMAIN r : r[j] = sessions[k]
  BY <1>3
<1>6. \A j \in DOMAIN r : r[j] = e \/ \E k \in DOMAIN sessions : r[j] = sessions[k]
  BY <1>3
<1>7. ClientsOf(r) = ClientsOf(sessions) \cup {c}
  <2>1. \A x \in ClientsOf(r) : x \in ClientsOf(sessions) \cup {c}
    BY <1>6 DEF ClientsOf
  <2>2. \A x \in ClientsOf(sessions) : x \in ClientsOf(r)
    BY <1>5 DEF ClientsOf
  <2>3. c \in ClientsOf(r)
    BY <1>3, <1>4 DEF ClientsOf
  <2> QED
    BY <2>1, <2>2, <2>3
<1>8. \A s : ~Contains(<<>>, s)
  BY DEF Contains
<1>9. \A d \in Clients, s \in Symbols : Has(r, d, s) <=> Has(sessions, d, s)
  <2> SUFFICES ASSUME NEW d \in Clients, NEW s \in Symbols
               PROVE  Has(r, d, s) <=> Has(sessions, d, s)
    OBVIOUS
  <2>1. Has(r, d, s) => Has(sessions, d, s)
    BY <1>6, <1>8 DEF Has
  <2>2. Has(sessions, d, s) => Has(r, d, s)
    BY <1>5 DEF Has
  <2> QED
    BY <2>1, <2>2
<1> QED
  BY <1>1, <1>7, <1>9, SubscribedNext

\* The symbols of one client change from those of its session to X.
LEMMA SymbolsStep ==
  ASSUME SInv, SInv', NEW i \in DOMAIN sessions, NEW X \in Seq(Symbols),
         sessions' = [sessions EXCEPT ![i].subscribed_symbols = X],
         NEW c \in Clients, c = sessions[i].client
  PROVE  /\ ClientsOf(sessions') = ClientsOf(sessions) /\ c \in ClientsOf(sessions)
         /\ \A d \in Clients, s \in Symbols :
              Has(sessions', d, s) <=> IF d = c THEN Contains(X, s) ELSE Has(sessions, d, s)
         /\ \A s \in Symbols :
              Has(sessions, c, s) <=> Contains(sessions[i].subscribed_symbols, s)
<1>1. TypeInv /\ OneSession
  BY DEF SInv
<1>2. PICK r : r = sessions'
  OBVIOUS
<1>3. /\ DOMAIN r = DOMAIN sessions
      /\ \A j \in DOMAIN sessions :
           /\ r[j].client = sessions[j].client
           /\ r[j].subscribed_symbols =
                IF j = i THEN X ELSE sessions[j].subscribed_symbols
  BY <1>1, <1>2, SymbolsReplaced
<1>4. \A j \in DOMAIN sessions : sessions[j].client = c <=> j = i
  BY <1>1 DEF OneSession
<1>5. ClientsOf(r) = ClientsOf(sessions) /\ c \in ClientsOf(sessions)
  BY <1>3 DEF ClientsOf
<1>6. ASSUME NEW s PROVE Has(r, c, s) <=> Contains(X, s)
  BY <1>3, <1>4 DEF Has
<1>7. ASSUME NEW d, NEW s, d # c PROVE Has(r, d, s) <=> Has(sessions, d, s)
  BY <1>3, <1>4, <1>7 DEF Has
<1>8. ASSUME NEW s PROVE Has(sessions, c, s) <=> Contains(sessions[i].subscribed_symbols, s)
  BY <1>4 DEF Has
<1> QED
  BY <1>2, <1>5, <1>6, <1>7, <1>8

\* A sequence holds at most as many symbols as it is long.
LEMMA FewSymbols ==
  ASSUME NEW symbols \in Seq(Symbols), NEW T, T = {s \in Symbols : Contains(symbols, s)}
  PROVE  Cardinality(T) \in Nat /\ Cardinality(T) <= Len(symbols)
<1>1. Len(symbols) \in Nat /\ \A j \in 1..Len(symbols) : symbols[j] \in Symbols
  BY LenProperties
<1> DEFINE f == [j \in 1..Len(symbols) |-> symbols[j]]
<1>2. f \in Surjection(1..Len(symbols), T)
  BY <1>1 DEF Surjection, Contains
<1> HIDE DEF f
<1>3. IsFiniteSet(1..Len(symbols)) /\ Cardinality(1..Len(symbols)) = Len(symbols)
  <2>1. PICK n \in Nat : n = Len(symbols)
    BY <1>1
  <2>2. IsFiniteSet(1..n) /\ Cardinality(1..n) = IF 1 > n THEN 0 ELSE n - 1 + 1
    BY FS_Interval
  <2>3. Cardinality(1..n) = n
    BY <2>2
  <2> QED
    BY <2>1, <2>2, <2>3
<1>4. IsFiniteSet(T) /\ Cardinality(T) <= Len(symbols)
  BY <1>2, <1>3, FS_Surjection
<1> QED
  BY <1>4, FS_CardinalityType

\* What changes in the list is, as a set of subscriptions, what the call asked
\* for: the session manager implements Subscriptions.
THEOREM ListImplementsSubscriptions == Spec => ImplementsSubscriptions
<1>1. Init => Subs!SInit
  <2> SUFFICES ASSUME Init PROVE Subs!SInit
    OBVIOUS
  <2>1. sessions = <<>> /\ DOMAIN sessions = {} /\ call = <<"create">>
    BY DEF Init
  <2>2. ClientsOf(sessions) = {}
    BY <2>1 DEF ClientsOf
  <2>3. Subscribed = {}
    <3>1. \A c \in Clients, s \in Symbols : <<c, s>> \notin Subscribed
      BY <2>1, InitSInv, IsSubscribed DEF Has
    <3>2. Subscribed \in SUBSET (Clients \X Symbols)
      BY DEF Subscribed
    <3>3. {} \in SUBSET (Clients \X Symbols) /\ \A c \in Clients, s \in Symbols : <<c, s>> \notin {}
      OBVIOUS
    <3> QED
      BY <3>1, <3>2, <3>3, SamePairs
  <2> QED
    BY <2>1, <2>2, <2>3 DEF Subs!SInit, Subscribed
<1>2. SInv /\ SInv' /\ [Next]_vars => [Subs!SNext]_(Subs!svars)
  <2> SUFFICES ASSUME SInv, SInv', [Next]_vars
               PROVE  Subs!SNext \/ UNCHANGED Subs!svars
    BY DEF Subs!svars
  <2>0. TypeInv /\ OneSession /\ OneSymbol
    BY DEF SInv
  <2>1. ASSUME DOMAIN sessions' = DOMAIN sessions, call' = call,
               \A i \in DOMAIN sessions :
                 /\ sessions'[i].client = sessions[i].client
                 /\ sessions'[i].subscribed_symbols = sessions[i].subscribed_symbols
        PROVE  UNCHANGED Subs!svars
    BY <2>1, SameSubscriptions DEF Subs!svars, Subscribed
  <2>2. ASSUME sessions' = sessions, call' = call
        PROVE  UNCHANGED Subs!svars
    BY <2>1, <2>2
  <2>3. ASSUME NEW i \in DOMAIN sessions, sessions' = RemoveAt(sessions, i),
               call' \in {<<"remove", sessions[i].client>>, <<"cleanup">>}
        PROVE  Subs!SNext
    <3>1. PICK c \in Clients : c = sessions[i].client
      BY <2>0, SessionFields
    <3>2. Subs!Leave(c)
      BY <2>3, <3>1, LeaveStep DEF Subs!Leave, Subscribed
    <3> QED
      BY <3>2 DEF Subs!SNext
  <2>4. ASSUME NEW t \in Threads, AddLocked(t)
        PROVE  Subs!SNext \/ UNCHANGED Subs!svars
    <3> DEFINE c == adding[t]
               e == [client |-> c, subscribed_symbols |-> <<>>, last_ping_time |-> now]
    <3>1. CASE find_session(c) # 0
      BY <2>2, <2>4, <3>1 DEF AddLocked
    <3>2. CASE find_session(c) = 0
      <4>1. c \in Clients /\ e \in Session /\ e.client = c /\ e.subscribed_symbols = <<>>
        BY <2>0, <2>4, EmptySeq DEF AddLocked, Session, TypeInv
      <4>2. sessions' = <<e>> \o sessions /\ call' = <<"add", c>>
        BY <2>4, <3>2 DEF AddLocked
      <4>3. c \notin ClientsOf(sessions)
        BY <2>0, <3>2, FindSession DEF ClientsOf
      <4> HIDE DEF c, e
      <4>4. ClientsOf(sessions') = ClientsOf(sessions) \cup {c} /\ Subscribed' = Subscribed
        BY <4>1, <4>2, JoinStep
      <4>5. Subs!Join(c)
        BY <4>2, <4>3, <4>4 DEF Subs!Join, Subscribed
      <4> QED
        BY <4>1, <4>5 DEF Subs!SNext
    <3> QED
      BY <3>1, <3>2
  <2>5. ASSUME NEW c \in Clients, session_manager_remove_client(c)
        PROVE  Subs!SNext
    <3>1. PICK i : i = find_session(c)
      OBVIOUS
    <3>2. i \in DOMAIN sessions /\ sessions[i].client = c
      BY <2>0, <2>5, <3>1, FindSession DEF session_manager_remove_client
    <3>3. sessions' = RemoveAt(sessions, i) /\ call' = <<"remove", c>>
      BY <2>5, <3>1 DEF session_manager_remove_client
    <3> QED
      BY <2>3, <3>2, <3>3
  <2>6. ASSUME CleanupRemove
        PROVE  Subs!SNext
    <3>1. curr \in DOMAIN sessions
      BY <2>0, <2>6, LenProperties DEF CleanupRemove, TypeInv, SInv, SweepInv
    <3> QED
      BY <2>3, <2>6, <3>1 DEF CleanupRemove
  <2>7. ASSUME NEW c \in Clients, NEW s \in Symbols, session_manager_subscribe_symbol(c, s)
        PROVE  Subs!SNext
    <3>1. PICK i : i = find_session(c)
      OBVIOUS
    <3>2. i \in DOMAIN sessions /\ sessions[i].client = c
      BY <2>0, <2>7, <3>1, FindSession DEF session_manager_subscribe_symbol
    <3>3. PICK symbols \in Seq(Symbols) :
            symbols = sessions[i].subscribed_symbols /\ NoRepeats(symbols)
      BY <2>0, <3>2, SessionFields DEF OneSymbol
    <3>4. PICK X : X = Append(symbols, s)
      OBVIOUS
    <3>5. /\ sessions' = [sessions EXCEPT ![i].subscribed_symbols = X]
          /\ ~Contains(symbols, s) /\ Len(symbols) < MAX_SUBSCRIPTIONS
          /\ call' = <<"subscribe", c, s>>
      BY <2>7, <3>1, <3>3, <3>4 DEF session_manager_subscribe_symbol
    <3>6. X \in Seq(Symbols) /\ \A y : Contains(X, y) <=> (Contains(symbols, y) \/ y = s)
      BY <3>3, <3>4, <3>5, AppendedSymbols
    <3>7. /\ ClientsOf(sessions') = ClientsOf(sessions) /\ c \in ClientsOf(sessions)
          /\ \A d \in Clients, y \in Symbols :
               Has(sessions', d, y) <=> IF d = c THEN Contains(X, y) ELSE Has(sessions, d, y)
          /\ \A y \in Symbols : Has(sessions, c, y) <=> Contains(symbols, y)
      BY <3>2, <3>3, <3>5, <3>6, SymbolsStep
    <3>8. \A d \in Clients, y \in Symbols :
            Has(sessions', d, y) <=> (Has(sessions, d, y) \/ <<d, y>> = <<c, s>>)
      BY <3>6, <3>7
    <3> DEFINE P == Subscribed \cup {<<c, s>>}
    <3>9. P \in SUBSET (Clients \X Symbols)
      BY SubscribedNext
    <3>10. \A d \in Clients, y \in Symbols : <<d, y>> \in P <=> Has(sessions', d, y)
      BY <3>8, SubscribedNext
    <3>11. Subscribed' = P
      <4> HIDE DEF P
      <4> QED
        BY <3>9, <3>10, SubscribedNext
    <3>12. PICK T : T = {y \in Symbols : <<c, y>> \in Subscribed}
      OBVIOUS
    <3>13. T = {y \in Symbols : Contains(symbols, y)}
      BY <3>7, <3>12, SubscribedNext
    <3>14. Cardinality(T) < MAX_SUBSCRIPTIONS
      <4>1. Cardinality(T) \in Nat /\ Cardinality(T) <= Len(symbols) /\ Len(symbols) \in Nat
        BY <3>3, <3>13, FewSymbols, LenProperties
      <4> QED
        BY <3>5, <4>1, SessionAssumption
    <3>15. Subs!SymbolsOf(c) = T
      BY <3>12 DEF Subs!SymbolsOf, Subscribed
    <3>16. Subs!Subscribe(c, s)
      <4>1. Subs!Cardinality(Subs!SymbolsOf(c)) < MAX_SUBSCRIPTIONS
        <5>1. Subs!Cardinality(T) = Cardinality(T)
          BY DEF Subs!Cardinality, Cardinality
        <5> QED
          BY <3>14, <3>15, <5>1, Zenon
      <4> QED
        BY <3>5, <3>7, <3>11, <4>1, Zenon DEF Subs!Subscribe, Subscribed
    <3> QED
      BY <3>16 DEF Subs!SNext
  <2>8. ASSUME NEW c \in Clients, NEW s \in Symbols, session_manager_unsubscribe_symbol(c, s)
        PROVE  Subs!SNext
    <3>1. PICK i : i = find_session(c)
      OBVIOUS
    <3>2. i \in DOMAIN sessions /\ sessions[i].client = c
      BY <2>0, <2>8, <3>1, FindSession DEF session_manager_unsubscribe_symbol
    <3>3. PICK symbols \in Seq(Symbols) :
            symbols = sessions[i].subscribed_symbols /\ NoRepeats(symbols)
      BY <2>0, <3>2, SessionFields DEF OneSymbol
    <3>4. PICK X : X = RemoveAt(symbols, SelectInSeq(symbols, LAMBDA x : x = s))
      OBVIOUS
    <3>5. /\ sessions' = [sessions EXCEPT ![i].subscribed_symbols = X]
          /\ Contains(symbols, s)
          /\ call' = <<"unsubscribe", c, s>>
      BY <2>8, <3>1, <3>3, <3>4 DEF session_manager_unsubscribe_symbol
    <3>6. X \in Seq(Symbols) /\ \A y : Contains(X, y) <=> (Contains(symbols, y) /\ y # s)
      BY <3>3, <3>4, <3>5, RemovedSymbols
    <3>7. /\ ClientsOf(sessions') = ClientsOf(sessions)
          /\ \A d \in Clients, y \in Symbols :
               Has(sessions', d, y) <=> IF d = c THEN Contains(X, y) ELSE Has(sessions, d, y)
          /\ \A y \in Symbols : Has(sessions, c, y) <=> Contains(symbols, y)
      BY <3>2, <3>3, <3>5, <3>6, SymbolsStep
    <3>8. \A d \in Clients, y \in Symbols :
            Has(sessions', d, y) <=> (Has(sessions, d, y) /\ <<d, y>> # <<c, s>>)
      BY <3>6, <3>7
    <3> DEFINE P == Subscribed \ {<<c, s>>}
    <3>9. P \in SUBSET (Clients \X Symbols)
      BY SubscribedNext
    <3>10. \A d \in Clients, y \in Symbols : <<d, y>> \in P <=> Has(sessions', d, y)
      BY <3>8, SubscribedNext
    <3>11. Subscribed' = P
      <4> HIDE DEF P
      <4> QED
        BY <3>9, <3>10, SubscribedNext
    <3>12. Subs!Unsubscribe(c, s)
      BY <3>5, <3>7, <3>11 DEF Subs!Unsubscribe, Subscribed
    <3> QED
      BY <3>12 DEF Subs!SNext
  <2>9. ASSUME session_manager_ping_clients
        PROVE  UNCHANGED Subs!svars
    <3>1. \A i \in DOMAIN sessions :
            /\ sessions'[i] = [sessions[i] EXCEPT !.last_ping_time = now]
            /\ sessions[i] \in Session
      BY <2>0, <2>9, SessionFields DEF session_manager_ping_clients
    <3>2. \A i \in DOMAIN sessions :
            /\ sessions'[i].client = sessions[i].client
            /\ sessions'[i].subscribed_symbols = sessions[i].subscribed_symbols
      BY <3>1 DEF Session
    <3> QED
      BY <2>1, <2>9, <3>2 DEF session_manager_ping_clients
  <2>10. CASE \E t \in Threads, c \in Clients : AddCheck(t, c)
    BY <2>2, <2>10 DEF AddCheck
  <2>11. CASE \/ CleanupReadTime \/ CleanupLock \/ CleanupKeep \/ CleanupUnlock
              \/ WakeUp \/ Tick \/ UNCHANGED vars
    BY <2>2, <2>11 DEF CleanupReadTime, CleanupLock, CleanupKeep, CleanupUnlock,
       WakeUp, Tick, vars
  <2> QED
    BY <2>4, <2>5, <2>6, <2>7, <2>8, <2>9, <2>10, <2>11 DEF Next, Serve, MainLoop
<1> QED
  BY <1>1, <1>2, SessionInvariant, PTL DEF Spec, ImplementsSubscriptions, Subs!SSpec

-----------------------------------------------------------------------------
(* The loop of session_manager_get_subscribers.                            *)

\* A set of numbers has a smallest one.
LEMMA Smallest ==
  ASSUME NEW B \in SUBSET Nat, B # {}
  PROVE  \E m \in B : \A k \in B : m <= k
<1> DEFINE less == OpToRel(<, Nat)
<1>1. IsWellFoundedOn(less, Nat)
  BY NatLessThanWellFounded, Zenon
<1>2. \A k, m \in Nat : k < m => <<k, m>> \in less
  BY DEF OpToRel
<1> HIDE DEF less
<1>3. PICK m \in B : \A k \in B : ~(<<k, m>> \in less)
  BY <1>1, WFMin
<1>4. \A k \in B : ~(k < m)
  BY <1>2, <1>3, Zenon
<1> QED
  BY <1>4

\* What the loop does with session k, given what clients holds before.
Looked(v, k, s, n) ==
  IF Len(v) < n /\ Contains(sessions[k].subscribed_symbols, s)
  THEN Append(v, sessions[k].client)
  ELSE v

\* Function g holds what clients holds after each of the first m sessions.
IsFound(g, m, s, n) ==
  g = [k \in 0..m |-> IF k = 0 THEN <<>> ELSE Looked(g[k - 1], k, s, n)]

LEMMA FoundIs ==
  ASSUME NEW s, NEW n
  PROVE  session_manager_get_subscribers(s, n) =
           (CHOOSE g : IsFound(g, Len(sessions), s, n))[Len(sessions)]
BY DEF session_manager_get_subscribers, IsFound, Looked

LEMMA IsFoundAt ==
  ASSUME NEW g, NEW m \in Nat, NEW s, NEW n, IsFound(g, m, s, n)
  PROVE  /\ g[0] = <<>>
         /\ \A k \in 1..m : g[k] = Looked(g[k - 1], k, s, n)
<1> DEFINE e(k) == IF k = 0 THEN <<>> ELSE Looked(g[k - 1], k, s, n)
<1>1. g = [k \in 0..m |-> e(k)]
  BY DEF IsFound
<1> HIDE DEF e
<1>2. \A k \in 0..m : g[k] = e(k)
  BY <1>1
<1> QED
  BY <1>2 DEF e

\* The recursion defines a function.
LEMMA FoundExists ==
  ASSUME NEW N \in Nat, NEW s, NEW n
  PROVE  \E g : IsFound(g, N, s, n)
<1> DEFINE B == {m \in Nat : ~\E g : IsFound(g, m, s, n)}
<1> SUFFICES ASSUME B # {} PROVE FALSE
  OBVIOUS
<1>1. PICK m \in B : \A k \in B : m <= k
  <2>1. B \in SUBSET Nat
    OBVIOUS
  <2> HIDE DEF B
  <2> QED
    BY <2>1, Smallest
<1>2. m \in Nat /\ ~\E g : IsFound(g, m, s, n)
  BY <1>1
<1>3. CASE m = 0
  <2> DEFINE g == [k \in 0..0 |-> <<>>]
  <2>1. g = [k \in 0..0 |-> IF k = 0 THEN <<>> ELSE Looked(g[k - 1], k, s, n)]
    OBVIOUS
  <2> HIDE DEF g
  <2> QED
    BY <1>2, <1>3, <2>1 DEF IsFound
<1>4. CASE m # 0
  <2>1. m - 1 \in Nat /\ m - 1 \notin B
    BY <1>1, <1>2, <1>4
  <2>2. PICK g : IsFound(g, m - 1, s, n)
    BY <2>1
  <2>3. /\ g[0] = <<>>
        /\ \A k \in 1..(m - 1) : g[k] = Looked(g[k - 1], k, s, n)
    BY <2>1, <2>2, IsFoundAt
  <2> DEFINE h == [k \in 0..m |-> IF k < m THEN g[k] ELSE Looked(g[m - 1], m, s, n)]
  <2>4. \A k \in 0..m : k < m => h[k] = g[k]
    OBVIOUS
  <2>5. h[m] = Looked(g[m - 1], m, s, n)
    BY <1>2
  <2>6. h = [k \in 0..m |-> h[k]]
    OBVIOUS
  <2> HIDE DEF h
  <2>7. h[0] = <<>>
    BY <1>2, <1>4, <2>3, <2>4
  <2>8. ASSUME NEW k \in 1..m
        PROVE  h[k] = Looked(h[k - 1], k, s, n)
    <3>1. k - 1 \in 0..m /\ k - 1 < m
      BY <1>2
    <3>2. h[k - 1] = g[k - 1]
      BY <2>4, <3>1
    <3>3. CASE k = m
      BY <2>5, <3>2, <3>3
    <3>4. CASE k # m
      <4>1. k \in 1..(m - 1) /\ k \in 0..m /\ k < m
        BY <1>2, <3>4
      <4> QED
        BY <2>3, <2>4, <3>2, <4>1
    <3> QED
      BY <3>3, <3>4
  <2>9. \A k \in 0..m : h[k] = IF k = 0 THEN <<>> ELSE Looked(h[k - 1], k, s, n)
    BY <1>2, <2>7, <2>8
  <2>10. h = [k \in 0..m |-> IF k = 0 THEN <<>> ELSE Looked(h[k - 1], k, s, n)]
    BY <2>6, <2>9
  <2> QED
    BY <1>2, <2>10 DEF IsFound
<1> QED
  BY <1>3, <1>4

\* What clients holds after k sessions, said without the loop.
Exact(v, k, s, n) ==
  /\ v \in Seq(Clients) /\ Len(v) <= n
  /\ \A x \in DOMAIN v : \E j \in 1..k :
       sessions[j].client = v[x] /\ Contains(sessions[j].subscribed_symbols, s)
  /\ \A x, y \in DOMAIN v : v[x] = v[y] => x = y
  /\ Len(v) < n => \A j \in 1..k : Contains(sessions[j].subscribed_symbols, s)
                                     => \E x \in DOMAIN v : v[x] = sessions[j].client

\* One more session keeps it exact, because no earlier one is of the same client.
LEMMA ExactStep ==
  ASSUME SInv, NEW s, NEW n \in Nat, NEW k \in DOMAIN sessions, NEW v, Exact(v, k - 1, s, n)
  PROVE  Exact(Looked(v, k, s, n), k, s, n)
<1>1. TypeInv /\ OneSession
  BY DEF SInv
<1>2. k \in Nat \ {0} /\ DOMAIN sessions = 1..Len(sessions) /\ Len(sessions) \in Nat
  BY <1>1, LenProperties DEF TypeInv
<1>3. /\ v \in Seq(Clients) /\ Len(v) <= n /\ Len(v) \in Nat
      /\ \A x \in DOMAIN v : \E j \in 1..(k - 1) :
           sessions[j].client = v[x] /\ Contains(sessions[j].subscribed_symbols, s)
      /\ \A x, y \in DOMAIN v : v[x] = v[y] => x = y
      /\ Len(v) < n => \A j \in 1..(k - 1) : Contains(sessions[j].subscribed_symbols, s)
                                     => \E x \in DOMAIN v : v[x] = sessions[j].client
      /\ DOMAIN v = 1..Len(v)
  BY LenProperties DEF Exact
<1>4. \A j \in 1..k : j = k \/ j \in 1..(k - 1)
  BY <1>2
<1>5. \A j \in 1..(k - 1) : j \in 1..k /\ j # k /\ j \in DOMAIN sessions
  BY <1>2
<1>6. k \in 1..k
  BY <1>2
<1>7. CASE Len(v) < n /\ Contains(sessions[k].subscribed_symbols, s)
  <2>1. PICK c \in Clients : c = sessions[k].client
    BY <1>1, SessionFields
  <2>2. PICK w : w = Append(v, c)
    OBVIOUS
  <2>3. Looked(v, k, s, n) = w
    BY <1>7, <2>1, <2>2 DEF Looked
  <2>4. /\ w \in Seq(Clients) /\ Len(w) = Len(v) + 1
        /\ \A i \in 1..Len(v) : w[i] = v[i]
        /\ w[Len(v) + 1] = c
    BY <1>3, <2>2, AppendProperties
  <2>5. DOMAIN w = 1..(Len(v) + 1)
    BY <2>4, LenProperties
  <2>6. \A x \in DOMAIN w : x = Len(v) + 1 \/ x \in DOMAIN v
    BY <1>3, <2>5
  <2>7. \A x \in DOMAIN v : x \in DOMAIN w /\ w[x] = v[x]
    BY <1>3, <2>4, <2>5
  <2>8. Len(v) + 1 \in DOMAIN w
    BY <1>3, <2>5
  <2>9. \A x \in DOMAIN v : v[x] # c
    BY <1>1, <1>3, <1>5, <2>1 DEF OneSession
  <2>10. \A x \in DOMAIN w : \E j \in 1..k :
           sessions[j].client = w[x] /\ Contains(sessions[j].subscribed_symbols, s)
    <3> SUFFICES ASSUME NEW x \in DOMAIN w
                 PROVE  \E j \in 1..k :
                          sessions[j].client = w[x] /\ Contains(sessions[j].subscribed_symbols, s)
      OBVIOUS
    <3>1. CASE x = Len(v) + 1
      BY <1>6, <1>7, <2>1, <2>4, <3>1
    <3>2. CASE x \in DOMAIN v
      BY <1>3, <1>5, <2>7, <3>2
    <3> QED
      BY <2>6, <3>1, <3>2
  <2>11. \A x, y \in DOMAIN w : w[x] = w[y] => x = y
    BY <1>3, <2>4, <2>6, <2>7, <2>9
  <2>12. \A j \in 1..k : Contains(sessions[j].subscribed_symbols, s)
                           => \E x \in DOMAIN w : w[x] = sessions[j].client
    <3> SUFFICES ASSUME NEW j \in 1..k, Contains(sessions[j].subscribed_symbols, s)
                 PROVE  \E x \in DOMAIN w : w[x] = sessions[j].client
      OBVIOUS
    <3>1. CASE j = k
      BY <2>1, <2>4, <2>8, <3>1
    <3>2. CASE j \in 1..(k - 1)
      BY <1>3, <1>7, <2>7, <3>2
    <3> QED
      BY <1>4, <3>1, <3>2
  <2>13. Len(w) <= n
    BY <1>3, <1>7, <2>4
  <2> QED
    BY <2>3, <2>4, <2>10, <2>11, <2>12, <2>13 DEF Exact
<1>8. CASE ~(Len(v) < n /\ Contains(sessions[k].subscribed_symbols, s))
  <2>1. Looked(v, k, s, n) = v
    BY <1>8 DEF Looked
  <2>2. \A x \in DOMAIN v : \E j \in 1..k :
          sessions[j].client = v[x] /\ Contains(sessions[j].subscribed_symbols, s)
    BY <1>3, <1>5
  <2>3. Len(v) < n => \A j \in 1..k : Contains(sessions[j].subscribed_symbols, s)
                                        => \E x \in DOMAIN v : v[x] = sessions[j].client
    BY <1>3, <1>4, <1>8
  <2>4. Exact(v, k, s, n)
    BY <1>3, <2>2, <2>3, Zenon DEF Exact
  <2> QED
    BY <2>1, <2>4
<1> QED
  BY <1>7, <1>8

\* What the loop has found at its end.
LEMMA FoundExact ==
  ASSUME SInv, NEW s, NEW n \in Nat
  PROVE  Exact(session_manager_get_subscribers(s, n), Len(sessions), s, n)
<1>1. Len(sessions) \in Nat /\ DOMAIN sessions = 1..Len(sessions)
  BY LenProperties DEF SInv, TypeInv
<1>2. PICK g : /\ IsFound(g, Len(sessions), s, n)
               /\ session_manager_get_subscribers(s, n) = g[Len(sessions)]
  <2>1. \E g : IsFound(g, Len(sessions), s, n)
    BY <1>1, FoundExists
  <2>2. IsFound(CHOOSE g : IsFound(g, Len(sessions), s, n), Len(sessions), s, n)
    BY <2>1
  <2> QED
    BY <2>2, FoundIs
<1>3. /\ g[0] = <<>>
      /\ \A k \in 1..Len(sessions) : g[k] = Looked(g[k - 1], k, s, n)
  BY <1>1, <1>2, IsFoundAt
<1> DEFINE B == {k \in 0..Len(sessions) : ~Exact(g[k], k, s, n)}
<1> SUFFICES ASSUME B # {} PROVE FALSE
  BY <1>1, <1>2
<1>4. PICK m \in B : \A k \in B : m <= k
  <2>1. B \in SUBSET Nat
    BY <1>1
  <2> HIDE DEF B
  <2> QED
    BY <2>1, Smallest
<1>5. m \in 0..Len(sessions) /\ ~Exact(g[m], m, s, n)
  BY <1>4
<1>6. m # 0
  <2>1. Exact(<<>>, 0, s, n)
    BY EmptySeq DEF Exact
  <2> QED
    BY <1>3, <1>5, <2>1
<1>7. m - 1 \in 0..Len(sessions) /\ m - 1 \notin B /\ m \in DOMAIN sessions
  BY <1>1, <1>4, <1>5, <1>6
<1>8. Exact(g[m - 1], m - 1, s, n)
  BY <1>7
<1>9. Exact(Looked(g[m - 1], m, s, n), m, s, n)
  BY <1>7, <1>8, ExactStep
<1> QED
  BY <1>1, <1>3, <1>5, <1>7, <1>9

\* get_subscribers returns different clients, all of them subscribed, and all the
\* subscribed ones when there is room for them.
THEOREM SubscribersAlwaysExact == Spec => []SubscribersAreExact
<1>1. SInv => SubscribersAreExact
  <2> SUFFICES ASSUME SInv, NEW s \in Symbols, NEW n \in 1..MaxSessions
               PROVE  LET found == session_manager_get_subscribers(s, n)
                          all == {c \in Clients : session_manager_is_subscribed(c, s)}
                      IN /\ Len(found) <= n
                         /\ ToSet(found) \subseteq all
                         /\ IsInjective(found)
                         /\ Len(found) < n => ToSet(found) = all
    BY DEF SubscribersAreExact
  <2>1. PICK v : v = session_manager_get_subscribers(s, n)
    OBVIOUS
  <2>2. PICK all : all = {c \in Clients : session_manager_is_subscribed(c, s)}
    OBVIOUS
  <2>3. n \in Nat /\ Len(sessions) \in Nat /\ DOMAIN sessions = 1..Len(sessions)
    BY SessionAssumption, LenProperties DEF SInv, TypeInv
  <2>4. Exact(v, Len(sessions), s, n)
    BY <2>1, <2>3, FoundExact
  <2>5. \A c : c \in all <=> c \in Clients /\ Has(sessions, c, s)
    BY <2>2, IsSubscribed DEF Subscribed
  <2>6. \A x \in DOMAIN v : v[x] \in all
    <3>1. \A x \in DOMAIN v : v[x] \in Clients
      BY <2>4 DEF Exact
    <3>2. \A x \in DOMAIN v : Has(sessions, v[x], s)
      BY <2>3, <2>4 DEF Exact, Has
    <3> QED
      BY <2>5, <3>1, <3>2
  <2>7. ASSUME Len(v) < n, NEW c \in all
        PROVE  \E x \in DOMAIN v : v[x] = c
    <3>1. PICK j \in DOMAIN sessions :
            sessions[j].client = c /\ Contains(sessions[j].subscribed_symbols, s)
      BY <2>5 DEF Has
    <3> QED
      BY <2>3, <2>4, <2>7, <3>1 DEF Exact
  <2>8. ToSet(v) \subseteq all /\ (Len(v) < n => ToSet(v) = all)
    BY <2>6, <2>7 DEF ToSet
  <2>9. Len(v) <= n /\ IsInjective(v)
    BY <2>4 DEF Exact, IsInjective
  <2> QED
    BY <2>1, <2>2, <2>8, <2>9
<1> QED
  BY <1>1, SessionInvariant, PTL
=============================================================================
