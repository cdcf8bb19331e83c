-------------------------- MODULE LoginData_proofs --------------------------
(***************************************************************************)
(* The safety invariants of LoginData, for any number of cores, keys,       *)
(* clients, authentications, faults and login data objects.                 *)
(***************************************************************************)
EXTENDS LoginData, WellFoundedInduction, NaturalsInduction, TLAPS

(***************************************************************************)
(* The inductive invariant.                                                 *)
(***************************************************************************)

\* A message of M is in queue q; one is at most.
Some(q, M) == \E i \in DOMAIN q : q[i] \in M
Once(q, M) == \A i, j \in DOMAIN q : q[i] \in M /\ q[j] \in M => i = j

Statement == [q : {"key", "login", "load"}, peer : Handle, desc : Desc]
AskOf(d) == {m \in UpMsg : m.type = "LOGIN_BY_KEY" /\ m.desc = d}
LogoutMsg == {m \in UpMsg : m.type = "LOGOUT" /\ ~m.strayed}
AnyLogout == {m \in UpMsg : m.type = "LOGOUT"}
SetupMsg == {m \in UpMsg : m.type = "SETUP"}
LoadMsg(d) == {m \in UpMsg : m.type = "PLAYER_LOAD" /\ m.desc = d}
ReadOf(d, h) == {s \in Statement : s.q # "load" /\ s.desc = d /\ s.peer = h}
FromPeer(h) == {s \in Statement : s.peer = h}
LoadOf(d, h) == {s \in Statement : s.q = "load" /\ s.desc = d /\ s.peer = h}
AnswerOf(d) == {m \in GameMsg : m.type # "PLAYER_LOAD" /\ m.desc = d}
SuccessMsg == {m \in GameMsg : m.type = "LOGIN_SUCCESS"}
LoadedMsg(d) == {m \in GameMsg : m.type = "PLAYER_LOAD" /\ m.desc = d}

\* What core c has sent on the connection it has.
Line(c) == IF link[c] = None THEN <<>> ELSE up[link[c]]

\* A client is on no core before it logs in, and on one ever after; it is bound to
\* an account in between only.
Placed ==
    \A d \in Desc :
        /\ IF desc[d].phase = "unused" THEN desc[d].core = None /\ ~desc[d].other
           ELSE desc[d].core \in Core
        /\ desc[d].phase \in {"unused", "closed"} => desc[d].account = "none"

\* Connections are used by one core, once; a core without one has no packets to
\* read, its clients have lost their entries, and none of them has left with an
\* entry; the entry of the account is that of a connection the db has.
LinkInv ==
    /\ \A c \in Core : link[c] # None => link[c] \in peers
    /\ \A c, e \in Core : link[c] # None /\ link[c] = link[e] => c = e
    /\ \A h \in peers : h < bounds.handle
    /\ \A h \in Handle \ peers : up[h] = <<>>
    /\ \A h \in Handle : h >= bounds.handle => ~Some(sql, FromPeer(h))
    /\ \A c \in Core : link[c] = None => toGame[c] = <<>> /\ BoundOn(c) \subseteq lost
    /\ \A c \in Core : ~Some(buffer[c], LogoutMsg)
    /\ \A d \in lost : Bound(d)
    /\ logon # None => heap[logon].peer \in peers
    /\ Placed

\* A request of client d to core c is kept back, on the way, in the SQL channel, or
\* answered: then d is on that core.
Asking(c, d) ==
    \/ Some(buffer[c], AskOf(d)) \/ Some(Line(c), AskOf(d))
    \/ Some(sql, ReadOf(d, link[c])) \/ Some(toGame[c], AnswerOf(d))
OneRequest(c, d) == Asking(c, d) => desc[d].phase # "unused" /\ desc[d].core = c

RequestInv == \A c \in Core, d \in Desc : OneRequest(c, d)

\* A logout follows packet i of queue q.
Followed(q, i) == \E j \in DOMAIN q : i < j /\ q[j].type = "LOGOUT"

\* A client that SETUP lists is on the core that sent it, and is bound still, unless
\* its logout follows or a client has left the account.  SETUP is never kept back.
OneSetup(c) ==
    /\ ~Some(buffer[c], SetupMsg)
    /\ \A i \in DOMAIN Line(c) : Line(c)[i].type = "SETUP" =>
           \A d \in DOMAIN Line(c)[i].keys :
               /\ desc[d].core = c
               /\ \/ Bound(d) \/ "left" \in odd
                  \/ desc[d].phase = "closed" /\ Followed(Line(c), i)

SetupInv == \A c \in Core : OneSetup(c)

\* The entry of the account is that of connection h.
Entry(h) == logon # None /\ heap[logon].peer = h

\* The clients of core c that have their entry.
Holding(c) == BoundOn(c) \ lost

\* The account has one session: a client that is bound and has its entry, an answer
\* that will bind one, or the logout of one; and the entry is on its connection.
OneLogout(h) == Once(up[h], LogoutMsg) /\ (Some(up[h], LogoutMsg) => Entry(h))
OneHolder(c) ==
    /\ Once(toGame[c], SuccessMsg)
    /\ Some(toGame[c], SuccessMsg) \/ Holding(c) # {} =>
           Entry(link[c]) /\ ~Some(Line(c), LogoutMsg)
    /\ Some(toGame[c], SuccessMsg) => Holding(c) = {}
    /\ \A d, e \in Holding(c) : d = e

SessionInv ==
    "strayed" \notin odd =>
        /\ \A h \in Handle : OneLogout(h)
        /\ \A c \in Core : OneHolder(c)

\* Somebody is bound on core c, or will be, or logs out.
Owned(c) == BoundOn(c) # {} \/ Some(toGame[c], SuccessMsg) \/ Some(Line(c), AnyLogout)

\* As long as no authentication is refused, and no client leaves the account, a logout
\* finds login data, and the core whose connection has the entry has an owner for it.
OrphanInv ==
    odd \cap {"refused", "left"} = {} =>
        /\ logon # None => byLogin # None
        /\ \A c \in Core : Entry(link[c]) => Owned(c)

\* A client's player is asked for, or on its way.
Loads(d) ==
    \/ \E c \in Core : Some(buffer[c], LoadMsg(d)) \/ Some(toGame[c], LoadedMsg(d))
    \/ \E h \in Handle : Some(up[h], LoadMsg(d)) \/ Some(sql, LoadOf(d, h))

\* Only clients that have been bound ask for their player; as long as none leaves the
\* account, they and those that have the player are bound.
LoadInv ==
    /\ \A d \in Desc : Loads(d) => desc[d].phase # "unused"
    /\ "left" \notin odd =>
           \A d \in Desc : Loads(d) \/ desc[d].char = "this" =>
               Bound(d) \/ desc[d].phase = "closed"

HasPlayers == byLogin # None /\ heap[byLogin].players

\* What client d is told of its player: he is cached, and not among the logged out.
Told(d) ==
    /\ desc[d].char = "this" => cached /\ ~out
    /\ \A c \in Core : Some(toGame[c], LoadedMsg(d)) => cached /\ ~out
    /\ \A c \in Core : Some(sql, LoadOf(d, link[c])) => ~out

\* Unless a client loses its entry to another one, logs out without it or leaves, no
\* two are bound, ever; and what a client is told of its player stays true.
PlayInv ==
    odd \cap {"strayed", "taken", "left"} = {} =>
        \A d \in Desc : Bound(d) =>
            /\ \A e \in Desc : Bound(e) => d = e
            /\ \A c \in Core : ~Some(toGame[c], SuccessMsg)
            /\ \A h \in Handle : ~Some(up[h], LogoutMsg)
            /\ HasPlayers => Told(d)

IInv ==
    /\ TypeOK /\ NoDangling /\ LinkInv /\ RequestInv /\ SetupInv
    /\ SessionInv /\ OrphanInv /\ LoadInv /\ PlayInv

-----------------------------------------------------------------------------
(***************************************************************************)
(* Queues.                                                                  *)
(***************************************************************************)

LEMMA AppendAt ==
    ASSUME NEW T, NEW q \in Seq(T), NEW m \in T, NEW M
    PROVE  /\ Append(q, m) \in Seq(T)
           /\ Some(Append(q, m), M) <=> Some(q, M) \/ m \in M
           /\ Once(q, M) /\ (m \in M => ~Some(q, M)) => Once(Append(q, m), M)
  <1>1. /\ Append(q, m) \in Seq(T) /\ Len(q) \in Nat
        /\ DOMAIN q = 1 .. Len(q) /\ DOMAIN Append(q, m) = 1 .. Len(q) + 1
        /\ \A i \in 1 .. Len(q) : Append(q, m)[i] = q[i]
        /\ Append(q, m)[Len(q) + 1] = m
    OBVIOUS
  <1>2. \A i \in 1 .. Len(q) + 1 : i \in 1 .. Len(q) \/ i = Len(q) + 1
    BY <1>1
  <1>3. 1 .. Len(q) \subseteq 1 .. Len(q) + 1 /\ Len(q) + 1 \in 1 .. Len(q) + 1
    BY <1>1
  <1> QED
    BY <1>1, <1>2, <1>3, Zenon DEF Some, Once

LEMMA TailAt ==
    ASSUME NEW T, NEW q \in Seq(T), q # <<>>, NEW M
    PROVE  /\ Tail(q) \in Seq(T) /\ Head(q) \in T
           /\ Some(q, M) <=> Head(q) \in M \/ Some(Tail(q), M)
           /\ Once(q, M) => Once(Tail(q), M) /\ (Head(q) \in M => ~Some(Tail(q), M))
  <1>1. /\ Tail(q) \in Seq(T) /\ Len(q) \in Nat /\ Len(q) > 0 /\ Head(q) = q[1]
        /\ DOMAIN q = 1 .. Len(q) /\ DOMAIN Tail(q) = 1 .. Len(q) - 1
        /\ \A i \in 1 .. Len(q) - 1 : Tail(q)[i] = q[i + 1]
        /\ Head(q) \in T
    OBVIOUS
  <1>2. \A i \in 1 .. Len(q) - 1 : i + 1 \in 1 .. Len(q) /\ i + 1 # 1
    BY <1>1
  <1>3. \A i \in 1 .. Len(q) : i = 1 \/ (i - 1 \in 1 .. Len(q) - 1 /\ q[i] = Tail(q)[i - 1])
    BY <1>1
  <1>5. 1 \in 1 .. Len(q)
    BY <1>1
  <1>6. Some(q, M) <=> Head(q) \in M \/ Some(Tail(q), M)
    BY <1>1, <1>2, <1>3, <1>5, Zenon DEF Some
  <1>7. ASSUME Once(q, M)
        PROVE  Once(Tail(q), M) /\ (Head(q) \in M => ~Some(Tail(q), M))
    <2>1. ASSUME NEW i \in 1 .. Len(q) - 1, NEW j \in 1 .. Len(q) - 1,
                 Tail(q)[i] \in M, Tail(q)[j] \in M
          PROVE  i = j
      <3>1. i + 1 = j + 1
        BY <1>1, <1>2, <1>7, <2>1 DEF Once
      <3> QED
        BY <1>1, <3>1
    <2>2. ASSUME Head(q) \in M, NEW i \in 1 .. Len(q) - 1, Tail(q)[i] \in M
          PROVE  FALSE
      <3>1. i + 1 = 1
        BY <1>1, <1>2, <1>5, <1>7, <2>2 DEF Once
      <3> QED
        BY <1>2, <3>1
    <2> QED
      BY <1>1, <2>1, <2>2, Zenon DEF Some, Once
  <1> QED
    BY <1>1, <1>6, <1>7

LEMMA ConcatAt ==
    ASSUME NEW T, NEW q \in Seq(T), NEW p \in Seq(T), NEW M
    PROVE  /\ q \o p \in Seq(T)
           /\ Some(q \o p, M) <=> Some(q, M) \/ Some(p, M)
           /\ Once(q, M) /\ Once(p, M) /\ ~(Some(q, M) /\ Some(p, M)) => Once(q \o p, M)
  <1>1. /\ q \o p \in Seq(T) /\ Len(q) \in Nat /\ Len(p) \in Nat
        /\ DOMAIN q = 1 .. Len(q) /\ DOMAIN p = 1 .. Len(p)
        /\ DOMAIN (q \o p) = 1 .. Len(q) + Len(p)
        /\ \A i \in 1 .. Len(q) : (q \o p)[i] = q[i]
        /\ \A i \in 1 .. Len(p) : (q \o p)[Len(q) + i] = p[i]
    OBVIOUS
  <1>2. \A i \in 1 .. Len(q) + Len(p) :
            \/ i \in 1 .. Len(q) /\ (q \o p)[i] = q[i]
            \/ /\ i - Len(q) \in 1 .. Len(p) /\ i = Len(q) + (i - Len(q))
               /\ (q \o p)[i] = p[i - Len(q)]
    <2> SUFFICES ASSUME NEW i \in 1 .. Len(q) + Len(p), ~(i \in 1 .. Len(q))
                 PROVE  /\ i - Len(q) \in 1 .. Len(p) /\ i = Len(q) + (i - Len(q))
                        /\ (q \o p)[i] = p[i - Len(q)]
      BY <1>1
    <2>1. i - Len(q) \in 1 .. Len(p) /\ i = Len(q) + (i - Len(q))
      BY <1>1
    <2> QED
      BY <1>1, <2>1
  <1>3. /\ 1 .. Len(q) \subseteq 1 .. Len(q) + Len(p)
        /\ \A i \in 1 .. Len(p) : Len(q) + i \in 1 .. Len(q) + Len(p)
    BY <1>1
  <1>4. Some(q \o p, M) <=> Some(q, M) \/ Some(p, M)
    BY <1>1, <1>2, <1>3, Zenon DEF Some
  <1>5. ASSUME Once(q, M), Once(p, M), ~(Some(q, M) /\ Some(p, M))
        PROVE  Once(q \o p, M)
    <2> SUFFICES ASSUME NEW i \in 1 .. Len(q) + Len(p), NEW j \in 1 .. Len(q) + Len(p),
                        (q \o p)[i] \in M, (q \o p)[j] \in M
                 PROVE  i = j
      BY <1>1 DEF Once
    <2>1. CASE i \in 1 .. Len(q)
      <3>1. j \in 1 .. Len(q) /\ (q \o p)[j] = q[j]
        BY <1>1, <1>2, <1>5, <2>1 DEF Some
      <3> QED
        BY <1>1, <1>5, <2>1, <3>1 DEF Once
    <2>2. CASE ~(i \in 1 .. Len(q))
      <3>1. i - Len(q) \in 1 .. Len(p) /\ (q \o p)[i] = p[i - Len(q)]
        BY <1>2, <2>2
      <3>2. j - Len(q) \in 1 .. Len(p) /\ (q \o p)[j] = p[j - Len(q)]
        BY <1>1, <1>2, <1>5, <3>1 DEF Some
      <3>3. i - Len(q) = j - Len(q)
        BY <1>1, <1>5, <3>1, <3>2 DEF Once
      <3> QED
        BY <1>1, <3>3
    <2> QED
      BY <2>1, <2>2
  <1> QED
    BY <1>1, <1>4, <1>5

LEMMA ShortAt ==
    ASSUME NEW T, NEW m \in T, NEW n \in T, NEW M
    PROVE  /\ <<>> \in Seq(T) /\ <<m>> \in Seq(T) /\ <<m, n>> \in Seq(T)
           /\ ~Some(<<>>, M) /\ Once(<<>>, M)
           /\ (Some(<<m>>, M) <=> m \in M) /\ Once(<<m>>, M)
           /\ Some(<<m, n>>, M) <=> m \in M \/ n \in M
           /\ ~(m \in M /\ n \in M) => Once(<<m, n>>, M)
  <1>1. DOMAIN <<>> = {} /\ DOMAIN <<m>> = {1} /\ DOMAIN <<m, n>> = {1, 2}
    OBVIOUS
  <1>2. <<m>>[1] = m /\ <<m, n>>[1] = m /\ <<m, n>>[2] = n
    OBVIOUS
  <1>3. <<>> \in Seq(T) /\ <<m>> \in Seq(T) /\ <<m, n>> \in Seq(T)
    OBVIOUS
  <1> QED
    BY <1>1, <1>2, <1>3 DEF Some, Once

LEMMA EmptyAt ==
    ASSUME NEW M
    PROVE  ~Some(<<>>, M) /\ Once(<<>>, M)
  BY DEF Some, Once

-----------------------------------------------------------------------------
(***************************************************************************)
(* Packets and statements.                                                  *)
(***************************************************************************)

LEMMA UpTypes ==
    \A m \in UpMsg :
        /\ m.type \in {"LOGIN_BY_KEY", "PLAYER_LOAD", "LOGOUT", "PLAYER_SAVE", "SETUP"}
        /\ m.type = "LOGIN_BY_KEY" => m.desc \in Desc /\ m.key \in Key
        /\ m.type = "PLAYER_LOAD" => m.desc \in Desc
        /\ m.type = "LOGOUT" => m.strayed \in BOOLEAN
        /\ m.type = "SETUP" => /\ DOMAIN m.keys \in SUBSET Desc
                               /\ m.keys \in [DOMAIN m.keys -> Key \cup {None}]
  BY DEF UpMsg

LEMMA GameTypes ==
    \A m \in GameMsg :
        /\ m.type \in {"LOGIN_SUCCESS", "LOGIN_ALREADY", "LOGIN_NOT_EXIST", "PLAYER_LOAD"}
        /\ m.desc \in Desc
  BY DEF GameMsg

LEMMA AskAt ==
    ASSUME NEW d \in Desc, NEW k \in Key
    PROVE  LET m == [type |-> "LOGIN_BY_KEY", desc |-> d, key |-> k]
           IN  /\ m \in UpMsg /\ m \notin LogoutMsg /\ m.type = "LOGIN_BY_KEY"
               /\ \A e : m \notin LoadMsg(e) /\ (m \in AskOf(e) <=> e = d)
  <1> DEFINE m == [type |-> "LOGIN_BY_KEY", desc |-> d, key |-> k]
  <1>1. m \in UpMsg
    BY DEF UpMsg
  <1>2. m.type = "LOGIN_BY_KEY" /\ m.desc = d
    OBVIOUS
  <1> HIDE DEF m
  <1>3. /\ m \in UpMsg /\ m \notin LogoutMsg /\ m.type = "LOGIN_BY_KEY"
        /\ \A e : m \notin LoadMsg(e) /\ (m \in AskOf(e) <=> e = d)
    BY <1>1, <1>2 DEF LogoutMsg, LoadMsg, AskOf
  <1> QED
    BY <1>3 DEF m

LEMMA LoadAt ==
    ASSUME NEW d \in Desc
    PROVE  LET m == [type |-> "PLAYER_LOAD", desc |-> d]
           IN  /\ m \in UpMsg /\ m \notin LogoutMsg /\ m.type = "PLAYER_LOAD"
               /\ \A e : m \notin AskOf(e) /\ (m \in LoadMsg(e) <=> e = d)
  <1> DEFINE m == [type |-> "PLAYER_LOAD", desc |-> d]
  <1>1. m \in UpMsg
    BY DEF UpMsg
  <1>2. m.type = "PLAYER_LOAD" /\ m.desc = d
    OBVIOUS
  <1> HIDE DEF m
  <1>3. /\ m \in UpMsg /\ m \notin LogoutMsg /\ m.type = "PLAYER_LOAD"
        /\ \A e : m \notin AskOf(e) /\ (m \in LoadMsg(e) <=> e = d)
    BY <1>1, <1>2 DEF LogoutMsg, LoadMsg, AskOf
  <1> QED
    BY <1>3 DEF m

LEMMA LogoutAt ==
    ASSUME NEW d \in Desc
    PROVE  /\ Logout(d) \in UpMsg /\ Logout(d).type = "LOGOUT"
           /\ Logout(d) \in LogoutMsg <=> d \notin lost
           /\ \A e : Logout(d) \notin AskOf(e) /\ Logout(d) \notin LoadMsg(e)
  <1>1. Logout(d) \in UpMsg
    BY DEF UpMsg, Logout
  <1>2. Logout(d).type = "LOGOUT" /\ (Logout(d).strayed <=> d \in lost)
    BY DEF Logout
  <1> QED
    BY <1>1, <1>2 DEF LogoutMsg, LoadMsg, AskOf

LEMMA SaveAt ==
    LET m == [type |-> "PLAYER_SAVE"]
    IN  /\ m \in UpMsg /\ m \notin LogoutMsg /\ m.type = "PLAYER_SAVE"
        /\ \A e : m \notin AskOf(e) /\ m \notin LoadMsg(e)
  BY DEF UpMsg, LogoutMsg, LoadMsg, AskOf

LEMMA SetupAt ==
    ASSUME NEW S \in SUBSET Desc, NEW f \in [S -> Key \cup {None}]
    PROVE  LET m == [type |-> "SETUP", keys |-> f]
           IN  /\ m \in UpMsg /\ m \notin LogoutMsg /\ m.type = "SETUP" /\ m.keys = f
               /\ \A e : m \notin AskOf(e) /\ m \notin LoadMsg(e)
  <1> DEFINE m == [type |-> "SETUP", keys |-> f]
  <1>1. f \in UNION {[U -> Key \cup {None}] : U \in SUBSET Desc}
    OBVIOUS
  <1>2. m \in UpMsg
    BY <1>1 DEF UpMsg
  <1>3. m.type = "SETUP" /\ m.keys = f
    OBVIOUS
  <1> HIDE DEF m
  <1>4. /\ m \in UpMsg /\ m \notin LogoutMsg /\ m.type = "SETUP" /\ m.keys = f
        /\ \A e : m \notin AskOf(e) /\ m \notin LoadMsg(e)
    BY <1>2, <1>3 DEF LogoutMsg, LoadMsg, AskOf
  <1> QED
    BY <1>4 DEF m

\* What a packet that the db has taken was.
LEMMA UpIs ==
    ASSUME NEW m \in UpMsg
    PROVE  /\ m \in LogoutMsg <=> m.type = "LOGOUT" /\ ~m.strayed
           /\ \A e : m \in AskOf(e) <=> m.type = "LOGIN_BY_KEY" /\ m.desc = e
           /\ \A e : m \in LoadMsg(e) <=> m.type = "PLAYER_LOAD" /\ m.desc = e
  BY DEF LogoutMsg, LoadMsg, AskOf

LEMMA GameIs ==
    ASSUME NEW m \in GameMsg
    PROVE  /\ m \in SuccessMsg <=> m.type = "LOGIN_SUCCESS"
           /\ \A e : m \in AnswerOf(e) <=> m.type # "PLAYER_LOAD" /\ m.desc = e
           /\ \A e : m \in LoadedMsg(e) <=> m.type = "PLAYER_LOAD" /\ m.desc = e
  BY DEF SuccessMsg, AnswerOf, LoadedMsg

LEMMA AnswerAt ==
    ASSUME NEW d \in Desc,
           NEW t \in {"LOGIN_SUCCESS", "LOGIN_ALREADY", "LOGIN_NOT_EXIST", "PLAYER_LOAD"}
    PROVE  LET m == [type |-> t, desc |-> d]
           IN  m \in GameMsg /\ m.type = t /\ m.desc = d
  BY DEF GameMsg

LEMMA StatementAt ==
    ASSUME NEW d \in Desc, NEW h \in Handle, NEW t \in {"key", "login", "load"}
    PROVE  LET s == [q |-> t, peer |-> h, desc |-> d]
           IN  s \in Statement /\ s.q = t /\ s.peer = h /\ s.desc = d
  BY DEF Statement

LEMMA StatementIs ==
    ASSUME NEW s \in Statement
    PROVE  /\ s.q \in {"key", "login", "load"} /\ s.peer \in Handle /\ s.desc \in Desc
           /\ \A g : s \in FromPeer(g) <=> g = s.peer
           /\ \A e, g : s \in ReadOf(e, g) <=> s.q # "load" /\ e = s.desc /\ g = s.peer
           /\ \A e, g : s \in LoadOf(e, g) <=> s.q = "load" /\ e = s.desc /\ g = s.peer
  BY DEF Statement, ReadOf, LoadOf, FromPeer

-----------------------------------------------------------------------------
(***************************************************************************)
(* Types.                                                                   *)
(***************************************************************************)

LEMMA ConstantTypes ==
    /\ NCore \in Nat /\ NCore > 0 /\ MaxDesc \in Nat /\ MaxAuth \in Nat
    /\ MaxFault \in Nat /\ MaxLogin \in Nat /\ MaxOther \in Nat /\ MaxLoad \in Nat
    /\ MaxObj \in Nat
    /\ None \notin Key /\ None \notin Core /\ None \notin Obj /\ None \notin Handle
    /\ None \notin Desc
    /\ Handle = 1 .. NCore + NCore * MaxFault /\ NCore * MaxFault \in Nat
    /\ Core \subseteq Handle
  <1>1. /\ NCore \in Nat /\ NCore > 0 /\ MaxDesc \in Nat /\ MaxAuth \in Nat
        /\ MaxFault \in Nat /\ MaxLogin \in Nat /\ MaxOther \in Nat /\ MaxLoad \in Nat
        /\ MaxObj \in Nat /\ 0 \notin Key
    BY LoginAssumption
  <1>2. NCore * MaxFault \in Nat
    BY <1>1
  <1> QED
    BY <1>1, <1>2 DEF None, Core, Obj, Handle, Desc

LEMMA ReplyAt ==
    ASSUME toGame \in [Core -> Seq(GameMsg)], NEW h, NEW m \in GameMsg, Reply(h, m)
    PROVE  /\ toGame' \in [Core -> Seq(GameMsg)]
           /\ \A c \in Core : toGame'[c] = IF link[c] = h THEN Append(toGame[c], m)
                                                         ELSE toGame[c]
  BY DEF Reply

LEMMA SendAt ==
    ASSUME up \in [Handle -> Seq(UpMsg)], buffer \in [Core -> Seq(UpMsg)],
           link \in [Core -> Handle \cup {None}],
           NEW c \in Core, NEW ms \in Seq(UpMsg), Send(c, ms)
    PROVE  /\ up' \in [Handle -> Seq(UpMsg)] /\ buffer' \in [Core -> Seq(UpMsg)]
           /\ \A h \in Handle : up'[h] = IF h = link[c] THEN up[h] \o ms ELSE up[h]
           /\ \A e \in Core : buffer'[e] = IF e = c /\ link[c] = None THEN buffer[e] \o ms
                                                                     ELSE buffer[e]
  <1>0. \A q \in Seq(UpMsg) : q \o ms \in Seq(UpMsg)
    BY ConcatAt
  <1>1. CASE link[c] # None
    <2>1. /\ up' = [up EXCEPT ![link[c]] = @ \o ms] /\ buffer' = buffer
          /\ link[c] \in Handle
      BY <1>1 DEF Send
    <2> QED
      BY <1>0, <1>1, <2>1
  <1>2. CASE link[c] = None
    <2>1. buffer' = [buffer EXCEPT ![c] = @ \o ms] /\ up' = up
      BY <1>2 DEF Send
    <2> QED
      BY <1>0, <1>2, <2>1, ConstantTypes
  <1> QED
    BY <1>1, <1>2

LEMMA ReceiveAt ==
    ASSUME up \in [Handle -> Seq(UpMsg)], NEW h \in Handle, NEW type, Receive(h, type)
    PROVE  /\ up' \in [Handle -> Seq(UpMsg)]
           /\ h \in peers /\ up[h] # <<>> /\ Head(up[h]) \in UpMsg /\ Head(up[h]).type = type
           /\ \A g \in Handle : up'[g] = IF g = h THEN Tail(up[g]) ELSE up[g]
           /\ UNCHANGED <<peers, link, buffer, desc, issued, bounds>>
  <1>1. /\ h \in peers /\ up[h] # <<>> /\ Head(up[h]).type = type
        /\ up' = [up EXCEPT ![h] = Tail(@)]
        /\ UNCHANGED <<peers, link, buffer, desc, issued, bounds>>
    BY DEF Receive
  <1>2. up[h] \in Seq(UpMsg)
    OBVIOUS
  <1>3. Head(up[h]) \in UpMsg /\ Tail(up[h]) \in Seq(UpMsg)
    BY <1>1, <1>2
  <1> QED
    BY <1>1, <1>3

LEMMA TakeAt ==
    ASSUME toGame \in [Core -> Seq(GameMsg)], NEW c \in Core, NEW type, Take(c, type)
    PROVE  /\ toGame' \in [Core -> Seq(GameMsg)]
           /\ toGame[c] # <<>> /\ Head(toGame[c]) \in GameMsg /\ Head(toGame[c]).type = type
           /\ \A e \in Core : toGame'[e] = IF e = c THEN Tail(toGame[e]) ELSE toGame[e]
           /\ UNCHANGED <<dbVars, peers, link, issued, odd, bounds>>
  <1>1. /\ toGame[c] # <<>> /\ Head(toGame[c]).type = type
        /\ toGame' = [toGame EXCEPT ![c] = Tail(@)]
        /\ UNCHANGED <<dbVars, peers, link, issued, odd, bounds>>
    BY DEF Take
  <1>2. toGame[c] \in Seq(GameMsg)
    OBVIOUS
  <1>3. Head(toGame[c]) \in GameMsg /\ Tail(toGame[c]) \in Seq(GameMsg)
    BY <1>1, <1>2
  <1> QED
    BY <1>1, <1>3

\* The first result of the SQL channel is taken from it.
LEMMA SqlTail ==
    ASSUME sql \in Seq(Statement), sql # <<>>
    PROVE  Head(sql) \in Statement /\ Tail(sql) \in Seq(Statement)
  OBVIOUS

\* The types of the db's own variables, and of the others.
DbTyped ==
    /\ heap \in [Obj -> Data]
    /\ byKey \in [Key -> Obj \cup {None}]
    /\ byLogin \in Obj \cup {None} /\ logon \in Obj \cup {None}
    /\ out \in BOOLEAN /\ cached \in BOOLEAN
    /\ odd \subseteq {"refused", "strayed", "taken", "left"}
    /\ sql \in Seq(Statement)

NetTyped ==
    /\ peers \subseteq Handle
    /\ up \in [Handle -> Seq(UpMsg)]
    /\ link \in [Core -> Handle \cup {None}]
    /\ buffer \in [Core -> Seq(UpMsg)]
    /\ toGame \in [Core -> Seq(GameMsg)]

Counters == [auth : 0 .. MaxAuth, login : 0 .. MaxLogin, other : 0 .. MaxOther,
             load : 0 .. MaxLoad, fault : 0 .. MaxFault,
             handle : NCore + 1 .. NCore + NCore * MaxFault + 1]
GameTyped ==
    /\ desc \in [Desc -> Client]
    /\ \A d \in Desc : desc[d].phase = "play" => desc[d].char # "none"
    /\ issued \subseteq Key
    /\ lost \subseteq Desc
    /\ bounds \in Counters

LEMMA TypesApart == TypeOK <=> DbTyped /\ NetTyped /\ GameTyped
  BY DEF TypeOK, DbTyped, NetTyped, GameTyped, Counters, Statement

LEMMA NewDataTypes ==
    /\ Freed \in Data /\ (Freed.live = FALSE)
    /\ \A k \in Key \cup {None}, b \in BOOLEAN :
        /\ NewData(k, b) \in Data /\ (NewData(k, b).live = TRUE) /\ (NewData(k, b).key = k)
        /\ (NewData(k, b).deleted = FALSE) /\ (NewData(k, b).players = FALSE)
  BY DEF Freed, NewData, Data

-----------------------------------------------------------------------------
(***************************************************************************)
(* Login data objects.                                                      *)
(***************************************************************************)

LEMMA LeastExists ==
    ASSUME NEW S \in SUBSET Nat, S # {}
    PROVE  \E x \in S : \A y \in S : x <= y
  <1> DEFINE R == {ss \in Nat \X Nat : ss[1] < ss[2]}
  <1>1. IsWellFoundedOn(R, Nat)
    BY NatLessThanWellFounded DEF OpToRel
  <1>2. PICK x \in S : \A y \in S : ~ (<<y, x>> \in R)
    <2> HIDE DEF R
    <2> QED BY <1>1, WFMin
  <1>3. ASSUME NEW y \in S
        PROVE  x <= y
    <2>1. x \in Nat /\ y \in Nat /\ (y < x => <<y, x>> \in R)
      OBVIOUS
    <2> HIDE DEF R
    <2>2. ~(y < x)
      BY <1>2, <2>1
    <2> QED
      BY <2>1, <2>2
  <1> QED
    BY <1>3

LEMMA MinAt ==
    ASSUME NEW S \in SUBSET Obj, S # {}
    PROVE  Min(S) \in S
  <1>1. S \in SUBSET Nat
    BY DEF Obj
  <1>2. \E x \in S : \A y \in S : x <= y
    BY <1>1, LeastExists
  <1> QED
    BY <1>2 DEF Min

LEMMA AllocAt ==
    ASSUME NEW h, HasRoom(h)
    PROVE  Alloc(h) \in Obj /\ ~h[Alloc(h)].live
  <1> DEFINE F == {o \in Obj : ~h[o].live}
  <1>1. F \in SUBSET Nat /\ F # {}
    BY DEF HasRoom, Obj
  <1>2. PICK o \in F : \A n \in F : o <= n
    <2> HIDE DEF F
    <2> QED BY <1>1, LeastExists
  <1>3. \E p \in Obj : ~h[p].live /\ \A n \in Obj : ~h[n].live => p <= n
    BY <1>2
  <1> QED
    BY <1>3 DEF Alloc

\* What is left of an object: all but its connection and IsPlay.
Same(h, g, o) ==
    /\ h[o].live = g[o].live /\ h[o].key = g[o].key /\ h[o].deleted = g[o].deleted
    /\ h[o].players = g[o].players

LEMMA LoggedOffAt ==
    ASSUME heap \in [Obj -> Data], NEW o \in Obj
    PROVE  /\ LoggedOff(heap, o) \in [Obj -> Data]
           /\ \A p \in Obj : p # o => LoggedOff(heap, o)[p] = heap[p]
           /\ ~heap[o].deleted => Same(LoggedOff(heap, o), heap, o)
  <1>1. CASE heap[o].deleted
    <2>1. LoggedOff(heap, o) = [heap EXCEPT ![o] = Freed]
      BY <1>1 DEF LoggedOff, Free
    <2> QED
      BY <1>1, <2>1, NewDataTypes
  <1>2. CASE ~heap[o].deleted
    <2>1. LoggedOff(heap, o) = [heap EXCEPT ![o].play = FALSE]
      BY <1>2 DEF LoggedOff
    <2>2. heap[o] \in Data
      OBVIOUS
    <2>3. [heap[o] EXCEPT !.play = FALSE] \in Data
      BY <2>2 DEF Data
    <2>4. /\ LoggedOff(heap, o)[o] = [heap[o] EXCEPT !.play = FALSE]
          /\ \A p \in Obj : p # o => LoggedOff(heap, o)[p] = heap[p]
          /\ LoggedOff(heap, o) \in [Obj -> Data]
      BY <2>1, <2>3
    <2>5. Same(LoggedOff(heap, o), heap, o)
      BY <2>2, <2>4 DEF Same, Data
    <2> QED
      BY <2>4, <2>5
  <1> QED
    BY <1>1, <1>2

\* A step that leaves byKey and byLogin, and what they point to, alone.
LEMMA SameDangling ==
    ASSUME DbTyped, NoDangling, DbTyped', UNCHANGED <<byKey, byLogin>>,
           \A o \in Obj : Same(heap', heap, o) \/ heap[o].deleted,
           logon' # None => heap'[logon'].live
    PROVE  NoDangling' /\ (byLogin # None => Same(heap', heap, byLogin))
  <1>1. \A k \in Key : byKey[k] \in Obj \cup {None}
    BY DEF DbTyped
  <1>2. byLogin \in Obj \cup {None}
    BY DEF DbTyped
  <1>3. \A k \in Key : byKey[k] # None => Same(heap', heap, byKey[k])
    BY <1>1 DEF NoDangling
  <1>4. byLogin # None => Same(heap', heap, byLogin)
    BY <1>2 DEF NoDangling
  <1>5. (\A k \in Key : byKey[k] # None =>
            heap[byKey[k]].live /\ heap[byKey[k]].key = k /\ ~heap[byKey[k]].deleted)'
    BY <1>3 DEF NoDangling, Same
  <1>6. (byLogin # None => heap[byLogin].live /\ ~heap[byLogin].deleted)'
    BY <1>4 DEF NoDangling, Same
  <1> QED
    BY <1>4, <1>5, <1>6 DEF NoDangling

-----------------------------------------------------------------------------
(***************************************************************************)
(* What the db does to login data and to the entry.                         *)
(***************************************************************************)

\* The object of the entry stays on its connection.
EntrySame ==
    /\ logon' = logon
    /\ logon # None => heap'[logon].peer = heap[logon].peer

LEMMA AuthFacts ==
    ASSUME DbTyped, NoDangling, NEW k \in Key, QUERY_AUTH_LOGIN(k)
    PROVE  /\ DbTyped' /\ NoDangling' /\ EntrySame
           /\ byLogin' # None => ~heap'[byLogin'].players
           /\ byLogin' = None => "refused" \in odd'
           /\ odd \subseteq odd' /\ odd' \subseteq odd \cup {"refused"}
  <1> DEFINE old == byLogin
             dropped == IF old = None THEN byKey ELSE [byKey EXCEPT ![heap[old].key] = None]
             left == IF old = None THEN heap
                     ELSE IF logon = None THEN Free(heap, old)
                     ELSE [heap EXCEPT ![old].deleted = TRUE]
             o == Alloc(left)
  <1>1. /\ \/ /\ heap' = left /\ byKey' = dropped /\ byLogin' = None
              /\ odd' = odd \cup {"refused"}
           \/ /\ dropped[k] = None /\ HasRoom(left)
              /\ heap' = [left EXCEPT ![o] = NewData(k, TRUE)]
              /\ byKey' = [dropped EXCEPT ![k] = o]
              /\ byLogin' = o
              /\ odd' = odd
        /\ UNCHANGED <<logon, out, cached, sql>>
    BY DEF QUERY_AUTH_LOGIN
  <1>2. /\ heap \in [Obj -> Data] /\ byKey \in [Key -> Obj \cup {None}]
        /\ old \in Obj \cup {None} /\ logon \in Obj \cup {None}
    BY DEF DbTyped
  <1>3. /\ left \in [Obj -> Data]
        /\ \A p \in Obj : p # old => left[p] = heap[p]
        /\ logon # None => left[logon].live /\ left[logon].peer = heap[logon].peer
    <2>1. CASE old = None
      BY <1>2, <2>1 DEF NoDangling
    <2>2. CASE old # None /\ logon = None
      BY <1>2, <2>2, NewDataTypes DEF Free
    <2>3. CASE old # None /\ logon # None
      <3>1. left = [heap EXCEPT ![old] = [heap[old] EXCEPT !.deleted = TRUE]]
        BY <2>3
      <3>2. heap[old] \in Data
        BY <1>2, <2>3
      <3>3. /\ [heap[old] EXCEPT !.deleted = TRUE] \in Data
            /\ [heap[old] EXCEPT !.deleted = TRUE].live = heap[old].live
            /\ [heap[old] EXCEPT !.deleted = TRUE].peer = heap[old].peer
        BY <3>2 DEF Data
      <3> HIDE DEF left
      <3>4. heap[logon].live
        BY <2>3 DEF NoDangling
      <3> QED
        BY <1>2, <2>3, <3>1, <3>3, <3>4
    <2> QED
      BY <2>1, <2>2, <2>3
  <1>4. /\ dropped \in [Key -> Obj \cup {None}]
        /\ \A x \in Key : dropped[x] # None => dropped[x] = byKey[x] /\ dropped[x] # old
    <2>1. CASE old = None
      BY <1>2, <2>1
    <2>2. CASE old # None
      <3>1. \A x \in Key : byKey[x] = old => heap[old].key = x
        BY <2>2 DEF NoDangling
      <3> QED
        BY <1>2, <2>2, <3>1
    <2> QED
      BY <2>1, <2>2
  <1> HIDE DEF dropped, left
  <1>5. \A x \in Key : dropped[x] # None =>
            /\ dropped[x] \in Obj /\ left[dropped[x]].live /\ left[dropped[x]].key = x
            /\ ~left[dropped[x]].deleted
    <2> SUFFICES ASSUME NEW x \in Key, dropped[x] # None
                 PROVE  /\ dropped[x] \in Obj /\ left[dropped[x]].live
                        /\ left[dropped[x]].key = x /\ ~left[dropped[x]].deleted
      OBVIOUS
    <2>1. dropped[x] \in Obj /\ dropped[x] = byKey[x] /\ left[dropped[x]] = heap[byKey[x]]
      BY <1>3, <1>4
    <2> QED
      BY <2>1 DEF NoDangling
  <1>6. CASE heap' = left /\ byKey' = dropped /\ byLogin' = None /\ odd' = odd \cup {"refused"}
    <2>1. DbTyped'
      BY <1>1, <1>3, <1>4, <1>6 DEF DbTyped
    <2>2. NoDangling'
      BY <1>1, <1>3, <1>5, <1>6 DEF NoDangling
    <2> QED
      BY <1>1, <1>3, <1>6, <2>1, <2>2 DEF EntrySame
  <1>7. CASE /\ dropped[k] = None /\ HasRoom(left)
             /\ heap' = [left EXCEPT ![o] = NewData(k, TRUE)]
             /\ byKey' = [dropped EXCEPT ![k] = o]
             /\ byLogin' = o
             /\ odd' = odd
    <2>1. o \in Obj /\ ~left[o].live /\ o # None
      BY <1>7, AllocAt, ConstantTypes
    <2> HIDE DEF o
    <2>2. /\ heap' \in [Obj -> Data] /\ heap'[o] = NewData(k, TRUE)
          /\ \A p \in Obj : p # o => heap'[p] = left[p]
          /\ byKey' \in [Key -> Obj \cup {None}] /\ byKey'[k] = o
          /\ \A x \in Key : x # k => byKey'[x] = dropped[x]
      BY <1>3, <1>4, <1>7, <2>1, NewDataTypes
    <2>3. /\ heap'[o].live /\ heap'[o].key = k /\ ~heap'[o].deleted /\ ~heap'[o].players
      <3>1. /\ (NewData(k, TRUE).live = TRUE) /\ (NewData(k, TRUE).key = k)
            /\ (NewData(k, TRUE).deleted = FALSE) /\ (NewData(k, TRUE).players = FALSE)
        BY NewDataTypes
      <3> QED
        BY <2>2, <3>1
    <2>4. DbTyped'
      BY <1>1, <1>7, <2>1, <2>2 DEF DbTyped
    <2>5. \A x \in Key : byKey'[x] # None =>
            heap'[byKey'[x]].live /\ heap'[byKey'[x]].key = x /\ ~heap'[byKey'[x]].deleted
      <3> SUFFICES ASSUME NEW x \in Key, byKey'[x] # None
                   PROVE  /\ heap'[byKey'[x]].live /\ heap'[byKey'[x]].key = x
                          /\ ~heap'[byKey'[x]].deleted
        OBVIOUS
      <3>1. CASE x = k
        BY <2>2, <2>3, <3>1
      <3>2. CASE x # k
        <4>1. byKey'[x] = dropped[x] /\ dropped[x] # None
          BY <2>2, <3>2
        <4>2. /\ dropped[x] \in Obj /\ left[dropped[x]].live /\ left[dropped[x]].key = x
              /\ ~left[dropped[x]].deleted
          BY <1>5, <4>1
        <4>3. heap'[dropped[x]] = left[dropped[x]]
          BY <2>1, <2>2, <4>2
        <4> QED
          BY <4>1, <4>2, <4>3
      <3> QED
        BY <3>1, <3>2
    <2>6. logon # None => /\ heap'[logon].live
                          /\ heap'[logon].peer = heap[logon].peer
      BY <1>2, <1>3, <2>1, <2>2
    <2>7. NoDangling'
      BY <1>1, <1>7, <2>3, <2>5, <2>6 DEF NoDangling
    <2> QED
      BY <1>1, <1>7, <2>1, <2>3, <2>4, <2>6, <2>7 DEF EntrySame
  <1> QED
    BY <1>1, <1>6, <1>7

\* The entry goes, if it is that of connection h.
LEMMA LogOffFacts ==
    ASSUME DbTyped, NoDangling, NEW h \in Handle, NEW P \in BOOLEAN,
           IF P /\ logon # None /\ heap[logon].peer = h
             THEN heap' = LoggedOff(heap, logon) /\ logon' = None
             ELSE UNCHANGED <<heap, logon>>,
           UNCHANGED <<byKey, byLogin, sql>>,
           out' \in BOOLEAN, cached' \in BOOLEAN, odd' \subseteq {"refused", "strayed", "taken", "left"}
    PROVE  /\ DbTyped' /\ NoDangling'
           /\ byLogin # None => Same(heap', heap, byLogin)
           /\ P /\ Entry(h) => logon' = None
           /\ ~(P /\ Entry(h)) => EntrySame
  <1>1. CASE P /\ Entry(h)
    <2>1. heap' = LoggedOff(heap, logon) /\ logon' = None /\ logon # None
      BY <1>1 DEF Entry
    <2>2. logon \in Obj /\ heap \in [Obj -> Data]
      BY <2>1 DEF DbTyped
    <2>3. /\ heap' \in [Obj -> Data]
          /\ \A o \in Obj : Same(heap', heap, o) \/ heap[o].deleted
      BY <2>1, <2>2, LoggedOffAt DEF Same
    <2>4. DbTyped'
      BY <2>1, <2>3 DEF DbTyped
    <2> QED
      BY <1>1, <2>1, <2>3, <2>4, SameDangling
  <1>2. CASE ~(P /\ Entry(h))
    <2>1. UNCHANGED <<heap, logon>>
      BY <1>2 DEF Entry
    <2>2. DbTyped'
      BY <2>1 DEF DbTyped
    <2> QED
      BY <1>2, <2>1, <2>2 DEF NoDangling, EntrySame, Same
  <1> QED
    BY <1>1, <1>2

\* IsPlay is set on the object that byLogin has, or nothing happens to it.
LEMMA SetPlayFacts ==
    ASSUME DbTyped, NoDangling,
           \/ byLogin # None /\ heap' = [heap EXCEPT ![byLogin].play = TRUE]
           \/ heap' = heap,
           UNCHANGED <<byKey, byLogin, logon, odd>>,
           sql' \in Seq(Statement), out' \in BOOLEAN, cached' \in BOOLEAN
    PROVE  /\ DbTyped' /\ NoDangling' /\ EntrySame
           /\ byLogin # None => Same(heap', heap, byLogin)
  <1>1. /\ heap' \in [Obj -> Data]
        /\ \A o \in Obj : Same(heap', heap, o) /\ heap'[o].peer = heap[o].peer
    <2>1. CASE byLogin # None /\ heap' = [heap EXCEPT ![byLogin].play = TRUE]
      <3>1. byLogin \in Obj /\ heap \in [Obj -> Data] /\ heap[byLogin] \in Data
        BY <2>1 DEF DbTyped
      <3>2. /\ [heap[byLogin] EXCEPT !.play = TRUE] \in Data
            /\ heap' = [heap EXCEPT ![byLogin] = [heap[byLogin] EXCEPT !.play = TRUE]]
        BY <2>1, <3>1 DEF Data
      <3>3. LET n == [heap[byLogin] EXCEPT !.play = TRUE]
                b == heap[byLogin]
            IN  /\ n.live = b.live /\ n.key = b.key /\ n.deleted = b.deleted
                /\ n.players = b.players /\ n.peer = b.peer
        BY <3>1 DEF Data
      <3> QED
        BY <3>1, <3>2, <3>3 DEF Same
    <2>2. CASE heap' = heap
      BY <2>2 DEF Same, DbTyped
    <2> QED
      BY <2>1, <2>2
  <1>2. logon \in Obj \cup {None}
    BY DEF DbTyped
  <1>3. DbTyped'
    BY <1>1 DEF DbTyped
  <1>4. logon' # None => heap'[logon'].live
    BY <1>1, <1>2 DEF NoDangling, Same
  <1>5. EntrySame
    BY <1>1, <1>2 DEF EntrySame
  <1> QED
    BY <1>1, <1>3, <1>4, <1>5, SameDangling

\* The object of the account gets the entry and the players, or nothing happens.
LEMMA ResultLoginFacts ==
    ASSUME DbTyped, NoDangling, RESULT_LOGIN
    PROVE  /\ DbTyped' /\ NoDangling'
           /\ sql \in Seq(Statement) /\ sql # <<>> /\ sql' = Tail(sql)
           /\ Head(sql) \in Statement /\ Head(sql).peer \in peers /\ Head(sql).q = "login"
           /\ \/ /\ logon = None /\ logon' # None /\ byLogin # None
                 /\ heap'[logon'].peer = Head(sql).peer
                 /\ odd' = odd \cup (IF lost = {} THEN {} ELSE {"taken"})
                 /\ Reply(Head(sql).peer, [type |-> "LOGIN_SUCCESS", desc |-> Head(sql).desc])
              \/ /\ EntrySame /\ odd' = odd /\ UNCHANGED <<heap, logon>>
                 /\ Reply(Head(sql).peer, [type |-> "LOGIN_ALREADY", desc |-> Head(sql).desc])
  <1>1. /\ sql # <<>> /\ Head(sql).q = "login" /\ Head(sql).peer \in peers
        /\ sql' = Tail(sql)
        /\ UNCHANGED <<byKey, byLogin, out, cached>>
    BY DEF RESULT_LOGIN, NextResult
  <1>2. /\ sql \in Seq(Statement) /\ Head(sql) \in Statement /\ Tail(sql) \in Seq(Statement)
        /\ Head(sql).peer \in Handle
    BY <1>1, SqlTail, StatementIs DEF DbTyped
  <1>3. CASE CanLogOn
    <2>1. /\ logon = None /\ byLogin # None
          /\ heap' = [heap EXCEPT ![byLogin].peer = Head(sql).peer,
                                  ![byLogin].players = TRUE]
          /\ logon' = byLogin
          /\ odd' = odd \cup (IF lost = {} THEN {} ELSE {"taken"})
          /\ Reply(Head(sql).peer, [type |-> "LOGIN_SUCCESS", desc |-> Head(sql).desc])
      BY <1>3 DEF RESULT_LOGIN, CanLogOn
    <2>2. byLogin \in Obj /\ heap \in [Obj -> Data] /\ heap[byLogin] \in Data
      BY <2>1 DEF DbTyped
    <2> DEFINE n == [heap[byLogin] EXCEPT !.peer = Head(sql).peer, !.players = TRUE]
    <2>3. /\ n \in Data /\ n.live = heap[byLogin].live /\ n.key = heap[byLogin].key
          /\ n.deleted = heap[byLogin].deleted /\ n.peer = Head(sql).peer
      BY <1>2, <2>2 DEF Data
    <2>4. heap' = [heap EXCEPT ![byLogin] = n]
      BY <2>1, <2>2
    <2> HIDE DEF n
    <2>5. /\ heap' \in [Obj -> Data] /\ heap'[byLogin] = n
          /\ \A o \in Obj : o # byLogin => heap'[o] = heap[o]
      BY <2>2, <2>3, <2>4
    <2>6. \A o \in Obj : /\ heap'[o].live = heap[o].live /\ heap'[o].key = heap[o].key
                         /\ heap'[o].deleted = heap[o].deleted
      BY <2>3, <2>5
    <2>7. DbTyped'
      BY <1>1, <1>2, <2>1, <2>5 DEF DbTyped
    <2>8. NoDangling'
      BY <1>1, <2>1, <2>2, <2>6 DEF NoDangling, DbTyped
    <2>9. heap'[logon'].peer = Head(sql).peer /\ logon' # None
      BY <2>1, <2>3, <2>5
    <2> QED
      BY <1>1, <1>2, <2>1, <2>7, <2>8, <2>9
  <1>4. CASE ~CanLogOn
    <2>1. /\ Reply(Head(sql).peer, [type |-> "LOGIN_ALREADY", desc |-> Head(sql).desc])
          /\ UNCHANGED <<heap, logon, odd>>
      BY <1>4 DEF RESULT_LOGIN
    <2>2. DbTyped'
      BY <1>1, <1>2, <2>1 DEF DbTyped
    <2>3. NoDangling'
      BY <1>1, <2>1 DEF NoDangling
    <2> QED
      BY <1>1, <1>2, <2>1, <2>2, <2>3 DEF EntrySame
  <1> QED
    BY <1>3, <1>4

LEMMA NewObjectsAt ==
    ASSUME heap \in [Obj -> Data], NEW S, NEW of \in NewObjects(S)
    PROVE  /\ DOMAIN of \in SUBSET Obj /\ \A o \in DOMAIN of : ~heap[o].live /\ of[o] \in S
           /\ \A Q \in SUBSET DOMAIN of : Q # {} => Min(Q) \in Q
  <1> DEFINE free == {o \in Obj : ~heap[o].live}
  <1>1. PICK O \in SUBSET free : of \in Bijection(O, S)
    BY DEF NewObjects
  <1>2. of \in [O -> S]
    BY <1>1 DEF Bijection, Injection
  <1>3. DOMAIN of \in SUBSET Obj /\ \A o \in DOMAIN of : ~heap[o].live /\ of[o] \in S
    BY <1>2
  <1>4. \A Q \in SUBSET DOMAIN of : Q # {} => Min(Q) \in Q
    BY <1>3, MinAt
  <1> QED
    BY <1>3, <1>4

\* The maps may take new objects; the first client on the list may get the entry.
LEMMA SetupFacts ==
    ASSUME DbTyped, NoDangling, LinkInv, up \in [Handle -> Seq(UpMsg)],
           NEW h \in Handle, QUERY_SETUP(h)
    PROVE  /\ DbTyped' /\ NoDangling'
           /\ byLogin # None => byLogin' = byLogin /\ Same(heap', heap, byLogin)
           /\ byLogin = None /\ byLogin' # None => ~heap'[byLogin'].players
           /\ \/ EntrySame /\ UNCHANGED <<logon, lost>>
              \/ /\ logon = None /\ logon' # None /\ byLogin' # None
                 /\ heap'[logon'].peer = h
                 /\ \E d \in DOMAIN Head(up[h]).keys :
                        lost' = IF \E c \in Core : link[c] = h THEN lost \ {d} ELSE lost
  <1>0. UNCHANGED <<out, cached, sql, toGame, odd>>
    BY DEF QUERY_SETUP
  <1>1. /\ h \in peers /\ up[h] # <<>> /\ Head(up[h]) \in UpMsg
        /\ Head(up[h]).type = "SETUP"
    BY ReceiveAt DEF QUERY_SETUP
  <1> DEFINE K == Head(up[h]).keys
             S == DOMAIN K
  <1>2. S \in SUBSET Desc /\ \A d \in S : K[d] \in Key \cup {None}
    BY <1>1, UpTypes
  <1>3. PICK of \in NewObjects(S) :
        LET O == DOMAIN of
            key == [o \in O |-> K[of[o]]]
            taken(k) == {o \in O : key[o] = k}
            made == [o \in Obj |-> IF o \in O THEN NewData(key[o], FALSE)
                                             ELSE heap[o]]
        IN  /\ byKey' = [k \in Key |-> IF taken(k) = {} THEN byKey[k]
                                       ELSE InsertKey(k, Min(taken(k)))]
            /\ byLogin' = IF O = {} THEN byLogin ELSE InsertLogin(Min(O))
            /\ IF O # {} /\ logon = None
               THEN /\ logon' = byLogin'
                    /\ heap' = [made EXCEPT ![byLogin'].peer = h, ![Min(O)].play = TRUE]
                    /\ lost' = IF \E c \in Core : link[c] = h
                               THEN lost \ {of[Min(O)]} ELSE lost
               ELSE heap' = made /\ UNCHANGED <<logon, lost>>
    BY DEF QUERY_SETUP
  <1> DEFINE O == DOMAIN of
             key == [o \in O |-> K[of[o]]]
             taken(k) == {o \in O : key[o] = k}
             made == [o \in Obj |-> IF o \in O THEN NewData(key[o], FALSE)
                                              ELSE heap[o]]
  <1>4. /\ heap \in [Obj -> Data] /\ byKey \in [Key -> Obj \cup {None}]
        /\ byLogin \in Obj \cup {None} /\ logon \in Obj \cup {None} /\ None \notin Obj
    BY ConstantTypes DEF DbTyped
  <1>5. /\ O \in SUBSET Obj /\ \A o \in O : ~heap[o].live /\ of[o] \in S
        /\ \A Q \in SUBSET O : Q # {} => Min(Q) \in Q
    BY <1>4, NewObjectsAt
  <1>6. \A o \in O : key[o] \in Key \cup {None}
    BY <1>2, <1>5
  <1> HIDE DEF key
  <1>7. /\ made \in [Obj -> Data]
        /\ \A o \in Obj : o \notin O => made[o] = heap[o]
        /\ \A o \in O : /\ (made[o].live = TRUE) /\ made[o].key = key[o]
                        /\ (made[o].deleted = FALSE) /\ (made[o].players = FALSE)
    <2>1. \A o \in O : LET n == NewData(key[o], FALSE)
                       IN  /\ n \in Data /\ (n.live = TRUE) /\ n.key = key[o]
                           /\ (n.deleted = FALSE) /\ (n.players = FALSE)
      BY <1>6, NewDataTypes
    <2> QED
      BY <1>4, <1>5, <2>1
  <1>8. \A k \in Key : taken(k) # {} => /\ Min(taken(k)) \in O
                                        /\ key[Min(taken(k))] = k
    BY <1>5
  <1>9. O # {} => Min(O) \in O
    BY <1>5
  <1>10. /\ byKey' \in [Key -> Obj \cup {None}]
         /\ \A k \in Key : \/ byKey'[k] = byKey[k]
                           \/ byKey'[k] \in O /\ key[byKey'[k]] = k
    <2>1. \A k \in Key : byKey'[k] = IF taken(k) = {} THEN byKey[k]
                                     ELSE IF byKey[k] = None THEN Min(taken(k)) ELSE byKey[k]
      BY <1>3 DEF InsertKey, key
    <2> HIDE DEF taken
    <2>2. \A k \in Key : \/ byKey'[k] = byKey[k]
                         \/ byKey'[k] \in O /\ key[byKey'[k]] = k
      BY <1>8, <2>1
    <2>3. byKey' \in [Key -> Obj \cup {None}]
      <3>1. byKey' = [k \in Key |-> byKey'[k]]
        BY <1>3
      <3>2. \A k \in Key : byKey'[k] \in Obj \cup {None}
        BY <1>4, <1>5, <2>2
      <3> QED
        BY <3>1, <3>2
    <2> QED
      BY <2>2, <2>3
  <1>11. \/ byLogin' = byLogin
         \/ byLogin = None /\ byLogin' \in O
    BY <1>3, <1>9 DEF InsertLogin
  <1>12. O # {} => byLogin' # None /\ byLogin' \in Obj
    BY <1>3, <1>4, <1>5, <1>9 DEF InsertLogin
  <1>13. /\ heap' \in [Obj -> Data] /\ \A o \in Obj : Same(heap', made, o)
         /\ logon # None \/ O = {} => heap' = made
         /\ logon = None /\ O # {} => heap'[byLogin'].peer = h
    <2>1. CASE O # {} /\ logon = None
      <3> DEFINE b == [made[byLogin'] EXCEPT !.peer = h]
                 mid == [made EXCEPT ![byLogin'] = b]
                 n == [mid[Min(O)] EXCEPT !.play = TRUE]
      <3> HIDE DEF made, O
      <3>1. heap' = [made EXCEPT ![byLogin'].peer = h, ![Min(O)].play = TRUE]
        BY <1>3, <2>1 DEF made, O, key
      <3>2. byLogin' \in Obj /\ Min(O) \in Obj
        BY <1>5, <1>9, <1>12, <2>1
      <3>3. made[byLogin'] \in Data /\ made \in [Obj -> Data]
        BY <1>7, <3>2
      <3>4. /\ b \in Data /\ b.live = made[byLogin'].live /\ b.key = made[byLogin'].key
            /\ b.deleted = made[byLogin'].deleted /\ b.players = made[byLogin'].players
            /\ b.peer = h
        BY <3>3 DEF Data
      <3>5. /\ heap' = [mid EXCEPT ![Min(O)] = n]
        BY <3>1, <3>2, <3>3
      <3> HIDE DEF b
      <3>6. /\ mid \in [Obj -> Data] /\ mid[byLogin'] = b
            /\ \A o \in Obj : o # byLogin' => mid[o] = made[o]
        BY <3>2, <3>3, <3>4
      <3> HIDE DEF mid
      <3>7. mid[Min(O)] \in Data
        BY <3>2, <3>6
      <3>8. /\ n \in Data /\ n.live = mid[Min(O)].live /\ n.key = mid[Min(O)].key
            /\ n.deleted = mid[Min(O)].deleted /\ n.players = mid[Min(O)].players
            /\ n.peer = mid[Min(O)].peer
        BY <3>7 DEF Data
      <3> HIDE DEF n
      <3>9. /\ heap' \in [Obj -> Data] /\ heap'[Min(O)] = n
            /\ \A o \in Obj : o # Min(O) => heap'[o] = mid[o]
        BY <3>2, <3>5, <3>6, <3>8
      <3>10. \A o \in Obj : Same(mid, made, o)
        BY <3>4, <3>6 DEF Same
      <3>11. \A o \in Obj : Same(heap', mid, o) /\ heap'[o].peer = mid[o].peer
        BY <3>8, <3>9 DEF Same
      <3>12. \A o \in Obj : Same(heap', made, o)
        BY <3>10, <3>11 DEF Same
      <3>13. heap'[byLogin'].peer = h
        BY <3>2, <3>4, <3>6, <3>11
      <3> QED
        BY <2>1, <3>9, <3>12, <3>13
    <2>2. CASE ~(O # {} /\ logon = None)
      <3>1. heap' = made
        BY <1>3, <2>2 DEF key
      <3> QED
        BY <1>7, <2>2, <3>1 DEF Same
    <2> QED
      BY <2>1, <2>2
  <1> HIDE DEF made
  <1>14. \A o \in Obj : heap[o].live => Same(heap', heap, o) /\ (logon # None => heap'[o] = heap[o])
    BY <1>5, <1>7, <1>13 DEF Same
  <1>15. \A o \in O : /\ heap'[o].live /\ heap'[o].key = key[o]
                      /\ ~heap'[o].deleted /\ ~heap'[o].players
    BY <1>5, <1>7, <1>13 DEF Same
  <1>16. /\ \/ logon' = logon /\ lost' = lost /\ (logon = None => O = {})
            \/ /\ O # {} /\ logon = None /\ logon' = byLogin'
               /\ lost' = IF \E c \in Core : link[c] = h THEN lost \ {of[Min(O)]} ELSE lost
    BY <1>3
  <1> HIDE DEF O
  <1>17. (\A k \in Key : byKey[k] # None =>
            heap[byKey[k]].live /\ heap[byKey[k]].key = k /\ ~heap[byKey[k]].deleted)'
    <2> SUFFICES ASSUME NEW k \in Key, byKey'[k] # None
                 PROVE  /\ heap'[byKey'[k]].live /\ heap'[byKey'[k]].key = k
                        /\ ~heap'[byKey'[k]].deleted
      OBVIOUS
    <2>1. CASE byKey'[k] = byKey[k]
      <3>1. /\ byKey[k] \in Obj /\ heap[byKey[k]].live /\ heap[byKey[k]].key = k
            /\ ~heap[byKey[k]].deleted
        BY <1>4, <2>1 DEF NoDangling
      <3> QED
        BY <1>14, <2>1, <3>1 DEF Same
    <2>2. CASE byKey'[k] \in O /\ key[byKey'[k]] = k
      BY <1>15, <2>2
    <2> QED
      BY <1>10, <2>1, <2>2
  <1>18. byLogin' # None => heap'[byLogin'].live /\ ~heap'[byLogin'].deleted
    <2>1. CASE byLogin' = byLogin
      BY <1>4, <1>14, <2>1 DEF NoDangling, Same
    <2>2. CASE byLogin' \in O
      BY <1>15, <2>2
    <2> QED
      BY <1>11, <2>1, <2>2
  <1>19. logon' # None => heap'[logon'].live
    <2>1. CASE logon' = logon
      BY <1>4, <1>14, <2>1 DEF NoDangling, Same
    <2>2. CASE logon' = byLogin'
      BY <1>18, <2>2
    <2> QED
      BY <1>16, <2>1, <2>2
  <1>20. NoDangling'
    BY <1>17, <1>18, <1>19 DEF NoDangling
  <1>21. byLogin' \in Obj \cup {None} /\ logon' \in Obj \cup {None}
    BY <1>4, <1>5, <1>11, <1>16
  <1>22. DbTyped'
    BY <1>0, <1>10, <1>13, <1>21 DEF DbTyped
  <1>23. byLogin # None => byLogin' = byLogin /\ Same(heap', heap, byLogin)
    BY <1>4, <1>11, <1>14 DEF NoDangling
  <1>24. byLogin = None /\ byLogin' # None => ~heap'[byLogin'].players
    BY <1>11, <1>15
  <1>25. CASE logon' = logon /\ lost' = lost /\ (logon = None => O = {})
    <2>1. logon # None => heap'[logon] = heap[logon]
      BY <1>4, <1>14 DEF NoDangling
    <2>2. EntrySame /\ UNCHANGED <<logon, lost>>
      BY <1>25, <2>1 DEF EntrySame
    <2> QED
      BY <1>20, <1>22, <1>23, <1>24, <2>2
  <1>26. CASE /\ O # {} /\ logon = None /\ logon' = byLogin'
              /\ lost' = IF \E c \in Core : link[c] = h THEN lost \ {of[Min(O)]} ELSE lost
    <2>1. of[Min(O)] \in S
      BY <1>5, <1>9, <1>26
    <2>2. logon' # None /\ heap'[logon'].peer = h
      BY <1>12, <1>13, <1>26
    <2>3. \E d \in S : lost' = IF \E c \in Core : link[c] = h THEN lost \ {d} ELSE lost
      BY <1>26, <2>1
    <2> QED
      BY <1>12, <1>20, <1>22, <1>23, <1>24, <1>26, <2>2, <2>3
  <1> QED
    BY <1>16, <1>25, <1>26

-----------------------------------------------------------------------------
(***************************************************************************)
(* Types and pointers, from step to step.                                   *)
(***************************************************************************)

LEMMA DeskTypes ==
    ASSUME GameTyped
    PROVE  /\ desc \in [Desc -> Client] /\ lost \subseteq Desc /\ issued \subseteq Key
           /\ \A d \in Desc :
                /\ desc[d].phase \in Phase /\ desc[d].core \in Core \cup {None}
                /\ desc[d].key \in Key \cup {None} /\ desc[d].other \in BOOLEAN
                /\ desc[d].account \in Whose /\ desc[d].char \in Whose
           /\ bounds.handle \in NCore + 1 .. NCore + NCore * MaxFault + 1
           /\ bounds.handle \in Nat
  BY ConstantTypes DEF GameTyped, Client, Counters

\* A client changes, and no other does.
LEMMA ClientAt ==
    ASSUME GameTyped, NEW d \in Desc, NEW n \in Client,
           n.phase = "play" => n.char # "none", desc' = [desc EXCEPT ![d] = n]
    PROVE  /\ desc' \in [Desc -> Client] /\ desc'[d] = n
           /\ \A e \in Desc : e # d => desc'[e] = desc[e]
           /\ \A e \in Desc : desc'[e].phase = "play" => desc'[e].char # "none"
  <1>1. desc' \in [Desc -> Client] /\ desc'[d] = n
    BY DEF GameTyped
  <1>2. \A e \in Desc : e # d => desc'[e] = desc[e]
    BY DEF GameTyped
  <1> QED
    BY <1>1, <1>2 DEF GameTyped

LEMMA CounterAt ==
    ASSUME NEW b \in Counters
    PROVE  /\ b.auth \in 0 .. MaxAuth /\ b.login \in 0 .. MaxLogin /\ b.load \in 0 .. MaxLoad
           /\ b.other \in 0 .. MaxOther /\ b.fault \in 0 .. MaxFault
           /\ \A x \in 0 .. MaxAuth : [b EXCEPT !.auth = x] \in Counters
           /\ \A x \in 0 .. MaxLogin : [b EXCEPT !.login = x] \in Counters
           /\ \A x \in 0 .. MaxOther : [b EXCEPT !.other = x] \in Counters
           /\ \A x \in 0 .. MaxLoad : [b EXCEPT !.load = x] \in Counters
           /\ \A x \in 0 .. MaxFault : [b EXCEPT !.fault = x] \in Counters
           /\ \A x \in NCore + 1 .. NCore + NCore * MaxFault + 1 :
                  [b EXCEPT !.handle = x] \in Counters
           /\ \A x : /\ [b EXCEPT !.auth = x].handle = b.handle
                     /\ [b EXCEPT !.login = x].handle = b.handle
                     /\ [b EXCEPT !.other = x].handle = b.handle
                     /\ [b EXCEPT !.login = x].other = b.other
                     /\ [b EXCEPT !.load = x].handle = b.handle
                     /\ [b EXCEPT !.fault = x].handle = b.handle
                     /\ [b EXCEPT !.handle = x].handle = x
  BY DEF Counters

\* A counter that has not reached its bound is raised.
LEMMA RaisedAt ==
    ASSUME GameTyped,
           \/ bounds.auth < MaxAuth /\ bounds' = [bounds EXCEPT !.auth = @ + 1]
           \/ bounds.login < MaxLogin /\ bounds' = [bounds EXCEPT !.login = @ + 1]
           \/ bounds.load < MaxLoad /\ bounds' = [bounds EXCEPT !.load = @ + 1]
           \/ bounds.fault < MaxFault /\ bounds' = [bounds EXCEPT !.fault = @ + 1]
    PROVE  bounds' \in Counters /\ bounds'.handle = bounds.handle
  <1>1. bounds \in Counters
    BY DEF GameTyped
  <1>2. /\ MaxAuth \in Nat /\ MaxLogin \in Nat /\ MaxLoad \in Nat /\ MaxFault \in Nat
    BY ConstantTypes
  <1>3. \A m \in Nat : \A x \in 0 .. m : x < m => x + 1 \in 0 .. m
    OBVIOUS
  <1>4. CASE bounds.auth < MaxAuth /\ bounds' = [bounds EXCEPT !.auth = @ + 1]
    <2>1. bounds.auth + 1 \in 0 .. MaxAuth
      BY <1>1, <1>2, <1>3, <1>4, CounterAt
    <2>2. bounds' = [bounds EXCEPT !.auth = bounds.auth + 1]
      BY <1>4
    <2> QED
      BY <1>1, <2>1, <2>2, CounterAt
  <1>5. CASE bounds.login < MaxLogin /\ bounds' = [bounds EXCEPT !.login = @ + 1]
    <2>1. bounds.login + 1 \in 0 .. MaxLogin
      BY <1>1, <1>2, <1>3, <1>5, CounterAt
    <2>2. bounds' = [bounds EXCEPT !.login = bounds.login + 1]
      BY <1>5
    <2> QED
      BY <1>1, <2>1, <2>2, CounterAt
  <1>6. CASE bounds.load < MaxLoad /\ bounds' = [bounds EXCEPT !.load = @ + 1]
    <2>1. bounds.load + 1 \in 0 .. MaxLoad
      BY <1>1, <1>2, <1>3, <1>6, CounterAt
    <2>2. bounds' = [bounds EXCEPT !.load = bounds.load + 1]
      BY <1>6
    <2> QED
      BY <1>1, <2>1, <2>2, CounterAt
  <1>7. CASE bounds.fault < MaxFault /\ bounds' = [bounds EXCEPT !.fault = @ + 1]
    <2>1. bounds.fault + 1 \in 0 .. MaxFault
      BY <1>1, <1>2, <1>3, <1>7, CounterAt
    <2>2. bounds' = [bounds EXCEPT !.fault = bounds.fault + 1]
      BY <1>7
    <2> QED
      BY <1>1, <2>1, <2>2, CounterAt
  <1> QED
    BY <1>4, <1>5, <1>6, <1>7

LEMMA AuthTypes ==
    ASSUME DbTyped, NetTyped, GameTyped, NoDangling, NEW k \in Key, QUERY_AUTH_LOGIN(k)
    PROVE  DbTyped' /\ NetTyped' /\ GameTyped' /\ NoDangling'
  <1>1. DbTyped' /\ NoDangling'
    BY AuthFacts
  <1>2. /\ bounds.auth < MaxAuth /\ bounds' = [bounds EXCEPT !.auth = @ + 1]
        /\ issued' = issued \/ issued' = issued \cup {k}
        /\ UNCHANGED <<peers, up, link, buffer, toGame, desc, lost>>
    BY DEF QUERY_AUTH_LOGIN, netVars
  <1>3. NetTyped'
    BY <1>2 DEF NetTyped
  <1>4. bounds' \in Counters
    BY <1>2, RaisedAt
  <1>5. GameTyped'
    BY <1>2, <1>4 DEF GameTyped
  <1> QED
    BY <1>1, <1>3, <1>5

LEMMA AskTypes ==
    ASSUME DbTyped, NetTyped, GameTyped, NoDangling, NEW h \in Handle, QUERY_LOGIN_BY_KEY(h)
    PROVE  /\ DbTyped' /\ NetTyped' /\ GameTyped' /\ NoDangling'
           /\ Head(up[h]).desc \in Desc
           /\ \/ /\ sql' = Append(sql, [q |-> "key", peer |-> h, desc |-> Head(up[h]).desc])
                 /\ toGame' = toGame
              \/ /\ sql' = sql
                 /\ \E t \in {"LOGIN_NOT_EXIST", "LOGIN_ALREADY"} :
                        Reply(h, [type |-> t, desc |-> Head(up[h]).desc])
  <1>1. /\ Receive(h, "LOGIN_BY_KEY")
        /\ UNCHANGED <<heap, byKey, byLogin, logon, out, cached, lost, odd>>
    BY DEF QUERY_LOGIN_BY_KEY
  <1>2. /\ up' \in [Handle -> Seq(UpMsg)]
        /\ Head(up[h]) \in UpMsg /\ Head(up[h]).type = "LOGIN_BY_KEY"
        /\ UNCHANGED <<peers, link, buffer, desc, issued, bounds>>
    BY <1>1, ReceiveAt DEF NetTyped
  <1>3. Head(up[h]).desc \in Desc
    BY <1>2, UpTypes
  <1>4. \/ /\ sql' = Append(sql, [q |-> "key", peer |-> h, desc |-> Head(up[h]).desc])
           /\ toGame' = toGame
        \/ /\ sql' = sql
           /\ \E t \in {"LOGIN_NOT_EXIST", "LOGIN_ALREADY"} :
                  Reply(h, [type |-> t, desc |-> Head(up[h]).desc])
    BY DEF QUERY_LOGIN_BY_KEY
  <1>5. sql' \in Seq(Statement) /\ toGame' \in [Core -> Seq(GameMsg)]
    <2>1. CASE /\ sql' = Append(sql, [q |-> "key", peer |-> h, desc |-> Head(up[h]).desc])
               /\ toGame' = toGame
      <3>1. [q |-> "key", peer |-> h, desc |-> Head(up[h]).desc] \in Statement
        BY <1>3, StatementAt
      <3> QED
        BY <2>1, <3>1 DEF DbTyped, NetTyped
    <2>2. CASE /\ sql' = sql
               /\ \E t \in {"LOGIN_NOT_EXIST", "LOGIN_ALREADY"} :
                      Reply(h, [type |-> t, desc |-> Head(up[h]).desc])
      <3>1. PICK t \in {"LOGIN_NOT_EXIST", "LOGIN_ALREADY"} :
                      Reply(h, [type |-> t, desc |-> Head(up[h]).desc])
        BY <2>2
      <3>2. [type |-> t, desc |-> Head(up[h]).desc] \in GameMsg
        BY <1>3, AnswerAt
      <3>3. toGame' \in [Core -> Seq(GameMsg)]
        BY <3>1, <3>2, ReplyAt DEF NetTyped
      <3> QED
        BY <2>2, <3>3 DEF DbTyped
    <2> QED
      BY <1>4, <2>1, <2>2
  <1>6. DbTyped'
    BY <1>1, <1>5 DEF DbTyped
  <1>7. NoDangling'
    BY <1>1 DEF NoDangling
  <1>8. NetTyped'
    BY <1>2, <1>5 DEF NetTyped
  <1>9. GameTyped'
    BY <1>1, <1>2 DEF GameTyped
  <1> QED
    BY <1>3, <1>4, <1>6, <1>7, <1>8, <1>9

\* What a step of the db leaves alone of the connections and the cores.
GameSame == UNCHANGED <<peers, up, link, buffer, desc, issued, lost, bounds>>

LEMMA DropTypes ==
    ASSUME DbTyped, NetTyped, GameTyped, NoDangling, DropResult
    PROVE  /\ DbTyped' /\ NetTyped' /\ GameTyped' /\ NoDangling'
           /\ sql # <<>> /\ sql' = Tail(sql) /\ GameSame /\ toGame' = toGame
           /\ UNCHANGED <<heap, byKey, byLogin, logon, out, cached, odd>>
  <1>1. /\ sql # <<>> /\ sql' = Tail(sql) /\ GameSame /\ toGame' = toGame
        /\ UNCHANGED <<heap, byKey, byLogin, logon, out, cached, odd>>
    BY DEF DropResult, GameSame, netVars
  <1>2. DbTyped'
    BY <1>1, SqlTail DEF DbTyped
  <1>3. NetTyped' /\ GameTyped'
    BY <1>1 DEF NetTyped, GameTyped, GameSame
  <1>4. NoDangling'
    BY <1>1 DEF NoDangling
  <1> QED
    BY <1>1, <1>2, <1>3, <1>4

LEMMA ReadTypes ==
    ASSUME DbTyped, NetTyped, GameTyped, NoDangling, RESULT_LOGIN_BY_KEY
    PROVE  /\ DbTyped' /\ NetTyped' /\ GameTyped' /\ NoDangling'
           /\ sql # <<>> /\ GameSame
           /\ Head(sql) \in Statement /\ Head(sql).q = "key"
           /\ UNCHANGED <<heap, byKey, byLogin, logon, out, cached, odd>>
           /\ \/ /\ sql' = Append(Tail(sql), [q |-> "login", peer |-> Head(sql).peer,
                                              desc |-> Head(sql).desc])
                 /\ toGame' = toGame
              \/ /\ sql' = Tail(sql)
                 /\ Reply(Head(sql).peer,
                          [type |-> "LOGIN_NOT_EXIST", desc |-> Head(sql).desc])
  <1>1. /\ sql # <<>> /\ Head(sql).q = "key" /\ GameSame
        /\ UNCHANGED <<heap, byKey, byLogin, logon, out, cached, odd>>
    BY DEF RESULT_LOGIN_BY_KEY, NextResult, GameSame
  <1>2. Head(sql) \in Statement /\ Tail(sql) \in Seq(Statement)
    BY <1>1, SqlTail DEF DbTyped
  <1>3. [Head(sql) EXCEPT !.q = "login"]
            = [q |-> "login", peer |-> Head(sql).peer, desc |-> Head(sql).desc]
    BY <1>2 DEF Statement
  <1>4. \/ /\ sql' = Append(Tail(sql), [q |-> "login", peer |-> Head(sql).peer,
                                        desc |-> Head(sql).desc])
           /\ toGame' = toGame
        \/ /\ sql' = Tail(sql)
           /\ Reply(Head(sql).peer,
                    [type |-> "LOGIN_NOT_EXIST", desc |-> Head(sql).desc])
    BY <1>3 DEF RESULT_LOGIN_BY_KEY
  <1>5. sql' \in Seq(Statement) /\ toGame' \in [Core -> Seq(GameMsg)]
    <2>1. /\ [q |-> "login", peer |-> Head(sql).peer, desc |-> Head(sql).desc] \in Statement
          /\ [type |-> "LOGIN_NOT_EXIST", desc |-> Head(sql).desc] \in GameMsg
      BY <1>2 DEF Statement, GameMsg
    <2>2. CASE /\ sql' = Append(Tail(sql), [q |-> "login", peer |-> Head(sql).peer,
                                             desc |-> Head(sql).desc])
               /\ toGame' = toGame
      BY <1>2, <2>1, <2>2 DEF NetTyped
    <2>3. CASE /\ sql' = Tail(sql)
               /\ Reply(Head(sql).peer,
                        [type |-> "LOGIN_NOT_EXIST", desc |-> Head(sql).desc])
      <3>1. toGame' \in [Core -> Seq(GameMsg)]
        BY <2>1, <2>3, ReplyAt DEF NetTyped
      <3> QED
        BY <1>2, <2>3, <3>1
    <2> QED
      BY <1>4, <2>2, <2>3
  <1>6. DbTyped'
    BY <1>1, <1>5 DEF DbTyped
  <1>7. NetTyped' /\ GameTyped'
    BY <1>1, <1>5 DEF NetTyped, GameTyped, GameSame
  <1>8. NoDangling'
    BY <1>1 DEF NoDangling
  <1> QED
    BY <1>1, <1>2, <1>4, <1>6, <1>7, <1>8

LEMMA ResultLoginTypes ==
    ASSUME DbTyped, NetTyped, GameTyped, NoDangling, RESULT_LOGIN
    PROVE  DbTyped' /\ NetTyped' /\ GameTyped' /\ NoDangling' /\ GameSame
  <1>1. GameSame
    BY DEF RESULT_LOGIN, GameSame
  <1>2. /\ DbTyped' /\ NoDangling' /\ Head(sql) \in Statement
        /\ \/ Reply(Head(sql).peer, [type |-> "LOGIN_SUCCESS", desc |-> Head(sql).desc])
           \/ Reply(Head(sql).peer, [type |-> "LOGIN_ALREADY", desc |-> Head(sql).desc])
    BY ResultLoginFacts
  <1>3. /\ [type |-> "LOGIN_SUCCESS", desc |-> Head(sql).desc] \in GameMsg
        /\ [type |-> "LOGIN_ALREADY", desc |-> Head(sql).desc] \in GameMsg
    BY <1>2 DEF Statement, GameMsg
  <1>4. toGame' \in [Core -> Seq(GameMsg)]
    BY <1>2, <1>3, ReplyAt DEF NetTyped
  <1>5. NetTyped' /\ GameTyped'
    BY <1>1, <1>4 DEF NetTyped, GameTyped, GameSame
  <1> QED
    BY <1>1, <1>2, <1>5

LEMMA LogoutTypes ==
    ASSUME DbTyped, NetTyped, GameTyped, NoDangling, NEW h \in Handle, QUERY_LOGOUT(h)
    PROVE  /\ DbTyped' /\ NetTyped' /\ GameTyped' /\ NoDangling'
           /\ UNCHANGED <<byKey, byLogin, cached, sql, toGame, lost>>
           /\ byLogin # None => Same(heap', heap, byLogin)
           /\ byLogin # None /\ Entry(h) => logon' = None
           /\ ~(byLogin # None /\ Entry(h)) => EntrySame
           /\ out' = (out \/ HasPlayers)
           /\ odd' = odd \cup (IF Head(up[h]).strayed THEN {"strayed"} ELSE {})
  <1>1. /\ Receive(h, "LOGOUT")
        /\ out' = (out \/ HasPlayers)
        /\ odd' = odd \cup (IF Head(up[h]).strayed THEN {"strayed"} ELSE {})
        /\ UNCHANGED <<byKey, byLogin, cached, sql, toGame, lost>>
    BY DEF QUERY_LOGOUT, HasPlayers
  <1>2. /\ up' \in [Handle -> Seq(UpMsg)]
        /\ UNCHANGED <<peers, link, buffer, desc, issued, bounds>>
    BY <1>1, ReceiveAt DEF NetTyped
  <1> DEFINE P == byLogin # None
  <1>3. IF P /\ logon # None /\ heap[logon].peer = h
        THEN heap' = LoggedOff(heap, logon) /\ logon' = None
        ELSE UNCHANGED <<heap, logon>>
    BY DEF QUERY_LOGOUT
  <1>4. /\ out' \in BOOLEAN /\ cached' \in BOOLEAN
        /\ odd' \subseteq {"refused", "strayed", "taken", "left"}
    <2>1. HasPlayers \in BOOLEAN
      BY DEF HasPlayers, DbTyped, Data
    <2> QED
      BY <1>1, <2>1 DEF DbTyped
  <1>5. P \in BOOLEAN
    OBVIOUS
  <1> HIDE DEF P
  <1>6. /\ DbTyped' /\ NoDangling'
        /\ byLogin # None => Same(heap', heap, byLogin)
        /\ P /\ Entry(h) => logon' = None
        /\ ~(P /\ Entry(h)) => EntrySame
    BY <1>1, <1>3, <1>4, <1>5, LogOffFacts
  <1>7. NetTyped'
    BY <1>1, <1>2 DEF NetTyped
  <1>8. GameTyped'
    BY <1>1, <1>2 DEF GameTyped
  <1> QED
    BY <1>1, <1>6, <1>7, <1>8 DEF P

LEMMA RemoveTypes ==
    ASSUME DbTyped, NetTyped, GameTyped, NoDangling, NEW h \in Handle, RemovePeer(h)
    PROVE  /\ DbTyped' /\ NetTyped' /\ GameTyped' /\ NoDangling'
           /\ h \in peers /\ \A c \in Core : link[c] # h
           /\ up[h] = <<>> /\ peers' = peers \ {h}
           /\ byLogin # None => Same(heap', heap, byLogin)
           /\ Entry(h) => logon' = None
           /\ ~Entry(h) => EntrySame
           /\ UNCHANGED <<byKey, byLogin, out, cached, sql, up, link, buffer, toGame, desc,
                          issued, lost, odd, bounds>>
  <1>1. /\ h \in peers /\ \A c \in Core : link[c] # h
        /\ up[h] = <<>> /\ peers' = peers \ {h}
        /\ UNCHANGED <<byKey, byLogin, out, cached, sql, up, link, buffer, toGame, desc,
                       issued, lost, odd, bounds>>
        /\ IF TRUE /\ logon # None /\ heap[logon].peer = h
           THEN heap' = LoggedOff(heap, logon) /\ logon' = None
           ELSE UNCHANGED <<heap, logon>>
    BY DEF RemovePeer
  <1>2. /\ out' \in BOOLEAN /\ cached' \in BOOLEAN
        /\ odd' \subseteq {"refused", "strayed", "taken", "left"}
    BY <1>1 DEF DbTyped
  <1>3. /\ DbTyped' /\ NoDangling'
        /\ byLogin # None => Same(heap', heap, byLogin)
        /\ TRUE /\ Entry(h) => logon' = None
        /\ ~(TRUE /\ Entry(h)) => EntrySame
    BY <1>1, <1>2, LogOffFacts
  <1>4. NetTyped'
    BY <1>1 DEF NetTyped
  <1>5. GameTyped'
    BY <1>1 DEF GameTyped
  <1> QED
    BY <1>1, <1>3, <1>4, <1>5

LEMMA SetupTypes ==
    ASSUME DbTyped, NetTyped, GameTyped, NoDangling, LinkInv,
           NEW h \in Handle, QUERY_SETUP(h)
    PROVE  DbTyped' /\ NetTyped' /\ GameTyped' /\ NoDangling' /\ lost' \subseteq lost
  <1>1. Receive(h, "SETUP") /\ UNCHANGED <<sql, toGame, odd>>
    BY DEF QUERY_SETUP
  <1>2. /\ up' \in [Handle -> Seq(UpMsg)]
        /\ UNCHANGED <<peers, link, buffer, desc, issued, bounds>>
    BY <1>1, ReceiveAt DEF NetTyped
  <1>3. DbTyped' /\ NoDangling' /\ lost' \subseteq lost
    BY SetupFacts DEF NetTyped
  <1>4. NetTyped'
    BY <1>1, <1>2 DEF NetTyped
  <1>5. GameTyped'
    BY <1>2, <1>3 DEF GameTyped
  <1> QED
    BY <1>3, <1>4, <1>5

LEMMA PlayerLoadTypes ==
    ASSUME DbTyped, NetTyped, GameTyped, NoDangling, NEW h \in Handle, QUERY_PLAYER_LOAD(h)
    PROVE  /\ DbTyped' /\ NetTyped' /\ GameTyped' /\ NoDangling' /\ EntrySame
           /\ UNCHANGED <<byKey, byLogin, logon, cached, lost, odd>>
           /\ byLogin # None => Same(heap', heap, byLogin)
           /\ Head(up[h]).desc \in Desc
           /\ out' = (out /\ ~HasPlayers)
           /\ \/ /\ sql' = Append(sql, [q |-> "load", peer |-> h, desc |-> Head(up[h]).desc])
                 /\ toGame' = toGame
              \/ /\ sql' = sql /\ toGame' = toGame
              \/ /\ sql' = sql /\ (cached = TRUE)
                 /\ Reply(h, [type |-> "PLAYER_LOAD", desc |-> Head(up[h]).desc])
  <1>1. /\ Receive(h, "PLAYER_LOAD")
        /\ out' = (out /\ ~HasPlayers)
        /\ UNCHANGED <<byKey, byLogin, logon, cached, lost, odd>>
    BY DEF QUERY_PLAYER_LOAD, HasPlayers
  <1>2. /\ up' \in [Handle -> Seq(UpMsg)]
        /\ Head(up[h]) \in UpMsg /\ Head(up[h]).type = "PLAYER_LOAD"
        /\ UNCHANGED <<peers, link, buffer, desc, issued, bounds>>
    BY <1>1, ReceiveAt DEF NetTyped
  <1>3. Head(up[h]).desc \in Desc
    BY <1>2, UpTypes
  <1>4. /\ \/ byLogin # None /\ heap' = [heap EXCEPT ![byLogin].play = TRUE]
           \/ heap' = heap
        /\ \/ /\ sql' = Append(sql, [q |-> "load", peer |-> h, desc |-> Head(up[h]).desc])
              /\ toGame' = toGame
           \/ /\ sql' = sql /\ toGame' = toGame
           \/ /\ sql' = sql /\ cached
              /\ Reply(h, [type |-> "PLAYER_LOAD", desc |-> Head(up[h]).desc])
    BY DEF QUERY_PLAYER_LOAD
  <1>5. sql' \in Seq(Statement) /\ toGame' \in [Core -> Seq(GameMsg)]
    <2>1. [q |-> "load", peer |-> h, desc |-> Head(up[h]).desc] \in Statement
      BY <1>3, StatementAt
    <2>2. [type |-> "PLAYER_LOAD", desc |-> Head(up[h]).desc] \in GameMsg
      BY <1>3, AnswerAt
    <2>3. CASE sql' = Append(sql, [q |-> "load", peer |-> h, desc |-> Head(up[h]).desc])
               /\ toGame' = toGame
      BY <2>1, <2>3 DEF DbTyped, NetTyped
    <2>4. CASE sql' = sql /\ toGame' = toGame
      BY <2>4 DEF DbTyped, NetTyped
    <2>5. CASE sql' = sql /\ Reply(h, [type |-> "PLAYER_LOAD", desc |-> Head(up[h]).desc])
      <3>1. toGame' \in [Core -> Seq(GameMsg)]
        BY <2>2, <2>5, ReplyAt DEF NetTyped
      <3> QED
        BY <2>5, <3>1 DEF DbTyped
    <2> QED
      BY <1>4, <2>3, <2>4, <2>5
  <1>6. out' \in BOOLEAN /\ cached' \in BOOLEAN /\ cached \in BOOLEAN
    <2>1. HasPlayers \in BOOLEAN
      BY DEF HasPlayers, DbTyped, Data
    <2> QED
      BY <1>1, <2>1 DEF DbTyped
  <1>7. /\ DbTyped' /\ NoDangling' /\ EntrySame
        /\ byLogin # None => Same(heap', heap, byLogin)
    BY <1>1, <1>4, <1>5, <1>6, SetPlayFacts
  <1>8. NetTyped'
    BY <1>2, <1>5 DEF NetTyped
  <1>9. GameTyped'
    BY <1>1, <1>2 DEF GameTyped
  <1> QED
    BY <1>1, <1>3, <1>4, <1>6, <1>7, <1>8, <1>9

LEMMA ResultPlayerLoadTypes ==
    ASSUME DbTyped, NetTyped, GameTyped, NoDangling, RESULT_PLAYER_LOAD
    PROVE  /\ DbTyped' /\ NetTyped' /\ GameTyped' /\ NoDangling' /\ EntrySame /\ GameSame
           /\ UNCHANGED <<byKey, byLogin, logon, out, odd>>
           /\ byLogin # None => Same(heap', heap, byLogin)
           /\ sql # <<>> /\ sql' = Tail(sql)
           /\ Head(sql) \in Statement /\ Head(sql).q = "load"
           /\ \/ cached' = cached /\ toGame' = toGame
              \/ /\ (cached' = TRUE)
                 /\ Reply(Head(sql).peer, [type |-> "PLAYER_LOAD", desc |-> Head(sql).desc])
  <1>1. /\ sql # <<>> /\ Head(sql).q = "load" /\ sql' = Tail(sql)
        /\ UNCHANGED <<byKey, byLogin, logon, out, odd>> /\ GameSame
    BY DEF RESULT_PLAYER_LOAD, NextResult, GameSame
  <1>2. Head(sql) \in Statement /\ sql' \in Seq(Statement)
    BY <1>1, SqlTail DEF DbTyped
  <1>3. \/ /\ byLogin # None /\ heap' = [heap EXCEPT ![byLogin].play = TRUE]
           /\ (cached' = TRUE)
           /\ Reply(Head(sql).peer, [type |-> "PLAYER_LOAD", desc |-> Head(sql).desc])
        \/ UNCHANGED <<heap, cached, toGame>>
    BY DEF RESULT_PLAYER_LOAD
  <1>4. toGame' \in [Core -> Seq(GameMsg)]
    <2>1. [type |-> "PLAYER_LOAD", desc |-> Head(sql).desc] \in GameMsg
      BY <1>2 DEF Statement, GameMsg
    <2> QED
      BY <1>3, <2>1, ReplyAt DEF NetTyped
  <1>5. out' \in BOOLEAN /\ cached' \in BOOLEAN
    BY <1>1, <1>3 DEF DbTyped
  <1>6. /\ DbTyped' /\ NoDangling' /\ EntrySame
        /\ byLogin # None => Same(heap', heap, byLogin)
    BY <1>1, <1>2, <1>3, <1>5, SetPlayFacts
  <1>7. NetTyped' /\ GameTyped'
    BY <1>1, <1>4 DEF NetTyped, GameTyped, GameSame
  <1> QED
    BY <1>1, <1>2, <1>3, <1>6, <1>7

LEMMA SaveTypes ==
    ASSUME DbTyped, NetTyped, GameTyped, NoDangling, NEW h \in Handle, QUERY_PLAYER_SAVE(h)
    PROVE  /\ DbTyped' /\ NetTyped' /\ GameTyped' /\ NoDangling'
           /\ (cached' = TRUE)
           /\ UNCHANGED <<heap, byKey, byLogin, logon, out, sql, toGame, lost, odd>>
  <1>1. /\ Receive(h, "PLAYER_SAVE") /\ (cached' = TRUE)
        /\ UNCHANGED <<heap, byKey, byLogin, logon, out, sql, toGame, lost, odd>>
    BY DEF QUERY_PLAYER_SAVE
  <1>2. /\ up' \in [Handle -> Seq(UpMsg)]
        /\ UNCHANGED <<peers, link, buffer, desc, issued, bounds>>
    BY <1>1, ReceiveAt DEF NetTyped
  <1>3. DbTyped'
    BY <1>1 DEF DbTyped
  <1>4. NoDangling'
    BY <1>1 DEF NoDangling
  <1>5. NetTyped'
    BY <1>1, <1>2 DEF NetTyped
  <1>6. GameTyped'
    BY <1>1, <1>2 DEF GameTyped
  <1> QED
    BY <1>1, <1>3, <1>4, <1>5, <1>6

LEMMA FlushTypes ==
    ASSUME DbTyped, NetTyped, GameTyped, NoDangling, UpdateLogoutPlayer
    PROVE  /\ DbTyped' /\ NetTyped' /\ GameTyped' /\ NoDangling' /\ GameSame
           /\ out /\ (out' = FALSE)
           /\ UNCHANGED <<heap, byKey, byLogin, logon, sql, toGame, odd>>
  <1>1. /\ out /\ (out' = FALSE) /\ (cached' = FALSE)
        /\ UNCHANGED <<heap, byKey, byLogin, logon, sql, toGame, odd>> /\ GameSame
    BY DEF UpdateLogoutPlayer, GameSame, netVars
  <1>2. DbTyped'
    BY <1>1 DEF DbTyped
  <1>3. NoDangling'
    BY <1>1 DEF NoDangling
  <1>4. NetTyped' /\ GameTyped'
    BY <1>1 DEF NetTyped, GameTyped, GameSame
  <1> QED
    BY <1>1, <1>2, <1>3, <1>4

LEMMA RestartTypes ==
    ASSUME DbTyped, NetTyped, GameTyped, NoDangling, DbRestart
    PROVE  DbTyped' /\ NetTyped' /\ GameTyped' /\ NoDangling' /\ bounds'.handle = bounds.handle
  <1>1. /\ bounds.fault < MaxFault /\ bounds' = [bounds EXCEPT !.fault = @ + 1]
        /\ heap' = [o \in Obj |-> Freed] /\ byKey' = [k \in Key |-> None]
        /\ byLogin' = None /\ logon' = None /\ (out' = FALSE) /\ (cached' = FALSE)
        /\ sql' = <<>> /\ peers' = {} /\ up' = [h \in Handle |-> <<>>]
        /\ link' = [c \in Core |-> None] /\ toGame' = [c \in Core |-> <<>>]
        /\ lost' = lost \cup {d \in Desc : Bound(d)}
        /\ UNCHANGED <<buffer, desc, issued, odd>>
    BY DEF DbRestart
  <1>2. DbTyped'
    <2>1. heap' \in [Obj -> Data] /\ byKey' \in [Key -> Obj \cup {None}]
      BY <1>1, NewDataTypes
    <2>2. sql' \in Seq(Statement) /\ odd' \subseteq {"refused", "strayed", "taken", "left"}
      BY <1>1 DEF DbTyped
    <2> QED
      BY <1>1, <2>1, <2>2 DEF DbTyped
  <1>3. NoDangling'
    BY <1>1 DEF NoDangling
  <1>4. NetTyped'
    <2>1. <<>> \in Seq(UpMsg) /\ <<>> \in Seq(GameMsg)
      OBVIOUS
    <2>2. /\ up' \in [Handle -> Seq(UpMsg)] /\ link' \in [Core -> Handle \cup {None}]
          /\ toGame' \in [Core -> Seq(GameMsg)]
      BY <1>1, <2>1
    <2>3. peers' \subseteq Handle /\ buffer' \in [Core -> Seq(UpMsg)]
      BY <1>1 DEF NetTyped
    <2> QED
      BY <2>2, <2>3 DEF NetTyped
  <1>7. /\ bounds' \in Counters
        /\ bounds'.handle = bounds.handle
    BY <1>1, RaisedAt
  <1>8. GameTyped'
    BY <1>1, <1>7 DEF GameTyped
  <1> QED
    BY <1>2, <1>3, <1>4, <1>7, <1>8

LEMMA DbSame ==
    ASSUME DbTyped, NoDangling, UNCHANGED <<dbVars, odd>>
    PROVE  /\ DbTyped' /\ NoDangling' /\ EntrySame /\ HasPlayers' = HasPlayers
           /\ UNCHANGED <<heap, byKey, byLogin, logon, out, cached, sql>>
  <1>1. UNCHANGED <<heap, byKey, byLogin, logon, out, cached, sql, odd>>
    BY DEF dbVars
  <1> QED
    BY <1>1 DEF DbTyped, NoDangling, EntrySame, HasPlayers

\* What a packet of core c leaves alone, sent with ms.
Sends(c, ms) ==
    /\ ms \in Seq(UpMsg)
    /\ \A h \in Handle : up'[h] = IF h = link[c] THEN up[h] \o ms ELSE up[h]
    /\ \A e \in Core : buffer'[e] = IF e = c /\ link[c] = None THEN buffer[e] \o ms
                                                              ELSE buffer[e]

\* Core c takes its next packet, which is about client d.
Takes(c, d) ==
    /\ toGame[c] # <<>> /\ Head(toGame[c]) \in GameMsg /\ Head(toGame[c]).desc = d
    /\ \A e \in Core : toGame'[e] = IF e = c THEN Tail(toGame[e]) ELSE toGame[e]

\* Client d changes, on its core, and no other does.
Steady(d) ==
    /\ \A e \in Desc : e # d => desc'[e] = desc[e]
    /\ desc'[d].core = desc[d].core
    /\ desc[d].phase # "unused" /\ desc'[d].phase # "unused"
    /\ desc'[d].phase = "closed" => desc'[d].account = "none"

\* Client d shows a key to core c.
Shows(d, c) ==
    /\ \A e \in Desc : e # d => desc'[e] = desc[e]
    /\ desc[d].phase = "unused" \/ (desc[d].phase = "login" /\ desc[d].core = c)
    /\ desc'[d].phase = "login" /\ desc'[d].core = c
    /\ desc'[d].account = desc[d].account /\ desc'[d].char = desc[d].char

LEMMA ShowTypes ==
    ASSUME GameTyped, NEW d \in Desc, NEW c \in Core, NEW k \in Key \cup {None}, Show(d, c, k)
    PROVE  /\ Shows(d, c) /\ desc' \in [Desc -> Client]
           /\ \A e \in Desc : desc'[e].phase = "play" => desc'[e].char # "none"
           /\ bounds.login < MaxLogin
  <1> DEFINE o == desc[d].other \/ k = None
             n == [desc[d] EXCEPT !.phase = "login", !.core = c, !.key = k, !.other = o]
  <1>1. /\ desc[d].phase = "unused" \/ (desc[d].phase = "login" /\ desc[d].core = c)
        /\ bounds.login < MaxLogin
        /\ desc' = [desc EXCEPT ![d] = n]
    BY DEF Show
  <1>2. desc[d] \in Client /\ desc \in [Desc -> Client]
    BY DeskTypes
  <1>6. o \in BOOLEAN
    BY Zenon
  <1> HIDE DEF o
  <1>3. /\ n \in Client /\ n.phase = "login" /\ n.core = c
        /\ n.account = desc[d].account /\ n.char = desc[d].char
    BY <1>2, <1>6 DEF Client, Phase
  <1> HIDE DEF n
  <1>5. /\ desc' \in [Desc -> Client] /\ desc'[d] = n
        /\ \A e \in Desc : e # d => desc'[e] = desc[e]
        /\ \A e \in Desc : desc'[e].phase = "play" => desc'[e].char # "none"
    BY <1>1, <1>3, ClientAt
  <1> QED
    BY <1>1, <1>3, <1>5 DEF Shows

LEMMA LoginByKeyTypes ==
    ASSUME DbTyped, NetTyped, GameTyped, NoDangling,
           NEW d \in Desc, NEW c \in Core, NEW k \in Key, LoginByKey(d, c, k)
    PROVE  /\ DbTyped' /\ NetTyped' /\ GameTyped' /\ NoDangling' /\ Shows(d, c)
           /\ Sends(c, <<[type |-> "LOGIN_BY_KEY", desc |-> d, key |-> k]>>)
           /\ bounds'.handle = bounds.handle
           /\ UNCHANGED <<dbVars, peers, link, toGame, issued, lost, odd>>
  <1>1. /\ Show(d, c, k) /\ bounds' = [bounds EXCEPT !.login = @ + 1]
        /\ Send(c, <<[type |-> "LOGIN_BY_KEY", desc |-> d, key |-> k]>>)
        /\ UNCHANGED <<dbVars, peers, link, toGame, issued, lost, odd>>
    BY DEF LoginByKey
  <1>2. /\ Shows(d, c) /\ desc' \in [Desc -> Client] /\ bounds.login < MaxLogin
        /\ \A e \in Desc : desc'[e].phase = "play" => desc'[e].char # "none"
    BY <1>1, ShowTypes
  <1>3. bounds' \in Counters /\ bounds'.handle = bounds.handle
    BY <1>1, <1>2, RaisedAt
  <1>4. <<[type |-> "LOGIN_BY_KEY", desc |-> d, key |-> k]>> \in Seq(UpMsg)
    BY AskAt
  <1>5. /\ up' \in [Handle -> Seq(UpMsg)] /\ buffer' \in [Core -> Seq(UpMsg)]
        /\ Sends(c, <<[type |-> "LOGIN_BY_KEY", desc |-> d, key |-> k]>>)
    BY <1>1, <1>4, SendAt DEF NetTyped, Sends
  <1>6. NetTyped' /\ GameTyped'
    BY <1>1, <1>2, <1>3, <1>5 DEF NetTyped, GameTyped
  <1> QED
    BY <1>1, <1>2, <1>3, <1>5, <1>6, DbSame

LEMMA LoginByOtherKeyTypes ==
    ASSUME DbTyped, NetTyped, GameTyped, NoDangling,
           NEW d \in Desc, NEW c \in Core, LoginByOtherKey(d, c)
    PROVE  /\ DbTyped' /\ NetTyped' /\ GameTyped' /\ NoDangling' /\ Shows(d, c)
           /\ bounds'.handle = bounds.handle
           /\ UNCHANGED <<dbVars, netVars, issued, lost, odd>>
  <1>1. /\ Show(d, c, None) /\ bounds.other < MaxOther
        /\ bounds' = [bounds EXCEPT !.login = @ + 1, !.other = @ + 1]
        /\ UNCHANGED <<dbVars, netVars, issued, lost, odd>>
    BY DEF LoginByOtherKey
  <1>2. /\ Shows(d, c) /\ desc' \in [Desc -> Client] /\ bounds.login < MaxLogin
        /\ \A e \in Desc : desc'[e].phase = "play" => desc'[e].char # "none"
    BY <1>1, ShowTypes
  <1>3. bounds' \in Counters /\ bounds'.handle = bounds.handle
    <2> DEFINE x == bounds.login + 1
               y == bounds.other + 1
               b == [bounds EXCEPT !.login = x]
    <2>1. bounds \in Counters
      BY DEF GameTyped
    <2>2. x \in 0 .. MaxLogin /\ y \in 0 .. MaxOther
      <3>1. MaxLogin \in Nat /\ MaxOther \in Nat
        BY ConstantTypes
      <3>2. \A m \in Nat : \A i \in 0 .. m : i < m => i + 1 \in 0 .. m
        OBVIOUS
      <3> QED
        BY <1>1, <1>2, <2>1, <3>1, <3>2, CounterAt
    <2>3. bounds' = [b EXCEPT !.other = y]
      BY <1>1
    <2> HIDE DEF x, y
    <2>4. b \in Counters /\ b.handle = bounds.handle
      BY <2>1, <2>2, CounterAt
    <2> HIDE DEF b
    <2> QED
      BY <2>2, <2>3, <2>4, CounterAt
  <1>4. NetTyped' /\ GameTyped'
    BY <1>1, <1>2, <1>3 DEF NetTyped, GameTyped, netVars
  <1> QED
    BY <1>1, <1>2, <1>3, <1>4, DbSame

\* A client is bound to an account, whichever.
LEMMA BoundTypes ==
    ASSUME GameTyped, NEW d \in Desc, NEW a \in {"this", "other"},
           desc' = [desc EXCEPT ![d].phase = "login", ![d].account = a]
    PROVE  /\ desc' \in [Desc -> Client]
           /\ \A e \in Desc : desc'[e].phase = "play" => desc'[e].char # "none"
           /\ \A e \in Desc : e # d => desc'[e] = desc[e]
           /\ desc'[d].phase = "login" /\ desc'[d].account = a
           /\ desc'[d].core = desc[d].core /\ desc'[d].char = desc[d].char
  <1> DEFINE n == [desc[d] EXCEPT !.phase = "login", !.account = a]
  <1>1. desc[d] \in Client /\ desc \in [Desc -> Client]
    BY DeskTypes
  <1>2. /\ n \in Client /\ n.phase = "login" /\ n.account = a
        /\ n.core = desc[d].core /\ n.char = desc[d].char
    BY <1>1 DEF Client, Phase, Whose
  <1>3. desc' = [desc EXCEPT ![d] = n]
    BY <1>1
  <1> HIDE DEF n
  <1> QED
    BY <1>2, <1>3, ClientAt

LEMMA LoginSuccessTypes ==
    ASSUME DbTyped, NetTyped, GameTyped, NoDangling, NEW c \in Core, LoginSuccess(c)
    PROVE  /\ DbTyped' /\ NetTyped' /\ GameTyped' /\ NoDangling'
           /\ UNCHANGED <<dbVars, peers, link, issued, odd, bounds>>
           /\ \E d \in Desc :
                /\ Takes(c, d) /\ Head(toGame[c]).type = "LOGIN_SUCCESS"
                /\ \/ /\ desc[d].phase = "closed" /\ Sends(c, <<Logout(d)>>)
                      /\ UNCHANGED <<desc, lost>>
                   \/ /\ desc[d].phase # "closed" /\ lost' = lost \ {d}
                      /\ \A e \in Desc : e # d => desc'[e] = desc[e]
                      /\ desc'[d].phase = "login" /\ desc'[d].account = "this"
                      /\ desc'[d].core = desc[d].core /\ desc'[d].char = desc[d].char
                      /\ UNCHANGED <<up, buffer>>
  <1> DEFINE d == Head(toGame[c]).desc
  <1>1. /\ toGame' \in [Core -> Seq(GameMsg)] /\ Takes(c, d)
        /\ Head(toGame[c]).type = "LOGIN_SUCCESS"
        /\ UNCHANGED <<dbVars, peers, link, issued, odd, bounds>>
    BY TakeAt DEF LoginSuccess, Takes, NetTyped
  <1>2. d \in Desc
    BY <1>1, GameTypes DEF Takes
  <1>3. \/ /\ desc[d].phase = "closed" /\ Send(c, <<Logout(d)>>) /\ UNCHANGED <<desc, lost>>
        \/ /\ desc[d].phase # "closed" /\ lost' = lost \ {d}
           /\ desc' = [desc EXCEPT ![d].phase = "login", ![d].account = "this"]
           /\ UNCHANGED <<up, buffer>>
    BY DEF LoginSuccess
  <1> HIDE DEF d
  <1>5. CASE desc[d].phase = "closed" /\ Send(c, <<Logout(d)>>) /\ UNCHANGED <<desc, lost>>
    <2>1. <<Logout(d)>> \in Seq(UpMsg)
      BY <1>2, LogoutAt
    <2>2. /\ up' \in [Handle -> Seq(UpMsg)] /\ buffer' \in [Core -> Seq(UpMsg)]
          /\ Sends(c, <<Logout(d)>>)
      BY <1>5, <2>1, SendAt DEF NetTyped, Sends
    <2>3. NetTyped' /\ GameTyped'
      BY <1>1, <1>5, <2>2 DEF NetTyped, GameTyped
    <2> QED
      BY <1>1, <1>2, <1>5, <2>2, <2>3, DbSame
  <1>6. CASE /\ desc[d].phase # "closed" /\ lost' = lost \ {d}
             /\ desc' = [desc EXCEPT ![d].phase = "login", ![d].account = "this"]
             /\ UNCHANGED <<up, buffer>>
    <2>1. /\ desc' \in [Desc -> Client]
          /\ \A e \in Desc : desc'[e].phase = "play" => desc'[e].char # "none"
          /\ \A e \in Desc : e # d => desc'[e] = desc[e]
          /\ desc'[d].phase = "login" /\ desc'[d].account = "this"
          /\ desc'[d].core = desc[d].core /\ desc'[d].char = desc[d].char
      BY <1>2, <1>6, BoundTypes
    <2>2. NetTyped' /\ GameTyped'
      BY <1>1, <1>6, <2>1 DEF NetTyped, GameTyped
    <2> QED
      BY <1>1, <1>2, <1>6, <2>1, <2>2, DbSame
  <1> QED
    BY <1>3, <1>5, <1>6

\* A client that is in use, is bound, or has shown another's key is on a core.
LEMMA OnCore ==
    ASSUME LinkInv, NEW d \in Desc,
           desc[d].phase # "unused" \/ desc[d].account # "none" \/ desc[d].other
    PROVE  desc[d].core \in Core /\ desc[d].phase # "unused"
  BY DEF LinkInv, Placed

LEMMA OtherLoginSuccessTypes ==
    ASSUME DbTyped, NetTyped, GameTyped, NoDangling, LinkInv,
           NEW d \in Desc, OtherLoginSuccess(d)
    PROVE  /\ DbTyped' /\ NetTyped' /\ GameTyped' /\ NoDangling' /\ Steady(d)
           /\ desc[d].phase # "closed" /\ desc'[d].phase = "login"
           /\ desc'[d].account = "other" /\ desc'[d].char = desc[d].char
           /\ lost' = lost \ {d} /\ odd' = odd \cup (IF Bound(d) THEN {"left"} ELSE {})
           /\ UNCHANGED <<dbVars, netVars, issued, bounds>>
  <1>1. /\ desc[d].phase # "closed" /\ desc[d].other
        /\ desc' = [desc EXCEPT ![d].phase = "login", ![d].account = "other"]
        /\ lost' = lost \ {d} /\ odd' = odd \cup (IF Bound(d) THEN {"left"} ELSE {})
        /\ UNCHANGED <<dbVars, netVars, issued, bounds>>
    BY DEF OtherLoginSuccess
  <1>2. desc[d].phase # "unused"
    BY <1>1, OnCore
  <1>3. /\ desc' \in [Desc -> Client]
        /\ \A e \in Desc : desc'[e].phase = "play" => desc'[e].char # "none"
        /\ \A e \in Desc : e # d => desc'[e] = desc[e]
        /\ desc'[d].phase = "login" /\ desc'[d].account = "other"
        /\ desc'[d].core = desc[d].core /\ desc'[d].char = desc[d].char
    BY <1>1, BoundTypes
  <1>4. NetTyped' /\ GameTyped'
    BY <1>1, <1>3 DEF NetTyped, GameTyped, netVars
  <1>5. DbTyped' /\ NoDangling'
    <2>1. UNCHANGED <<heap, byKey, byLogin, logon, out, cached, sql>>
      BY <1>1 DEF dbVars
    <2>2. odd' \subseteq {"refused", "strayed", "taken", "left"}
      BY <1>1 DEF DbTyped
    <2> QED
      BY <2>1, <2>2 DEF DbTyped, NoDangling
  <1> QED
    BY <1>1, <1>2, <1>3, <1>4, <1>5 DEF Steady

LEMMA LoginFailureTypes ==
    ASSUME DbTyped, NetTyped, GameTyped, NoDangling, NEW c \in Core, LoginFailure(c)
    PROVE  /\ DbTyped' /\ NetTyped' /\ GameTyped' /\ NoDangling'
           /\ UNCHANGED <<dbVars, peers, link, issued, lost, odd, bounds, up, buffer, desc>>
           /\ \E d \in Desc :
                Takes(c, d) /\ Head(toGame[c]).type \in {"LOGIN_ALREADY", "LOGIN_NOT_EXIST"}
  <1> DEFINE d == Head(toGame[c]).desc
  <1>1. /\ toGame' \in [Core -> Seq(GameMsg)] /\ Takes(c, d)
        /\ Head(toGame[c]).type \in {"LOGIN_ALREADY", "LOGIN_NOT_EXIST"}
        /\ UNCHANGED <<dbVars, peers, link, issued, odd, bounds>>
    BY TakeAt DEF LoginFailure, Takes, NetTyped
  <1>2. d \in Desc
    BY <1>1, GameTypes DEF Takes
  <1>3. UNCHANGED <<up, buffer, desc, lost>>
    BY DEF LoginFailure
  <1>4. NetTyped' /\ GameTyped'
    BY <1>1, <1>3 DEF NetTyped, GameTyped
  <1> QED
    BY <1>1, <1>2, <1>3, <1>4, DbSame

LEMMA CharacterSelectTypes ==
    ASSUME DbTyped, NetTyped, GameTyped, NoDangling, LinkInv,
           NEW d \in Desc, CharacterSelect(d)
    PROVE  /\ DbTyped' /\ NetTyped' /\ GameTyped' /\ NoDangling'
           /\ desc[d].phase = "login" /\ Bound(d) /\ bounds'.handle = bounds.handle
           /\ Sends(desc[d].core, <<[type |-> "PLAYER_LOAD", desc |-> d]>>)
           /\ UNCHANGED <<dbVars, peers, link, toGame, desc, issued, lost, odd>>
  <1>1. /\ desc[d].phase = "login" /\ Bound(d) /\ bounds.load < MaxLoad
        /\ bounds' = [bounds EXCEPT !.load = @ + 1]
        /\ Send(desc[d].core, <<[type |-> "PLAYER_LOAD", desc |-> d]>>)
        /\ UNCHANGED <<dbVars, peers, link, toGame, desc, issued, lost, odd>>
    BY DEF CharacterSelect
  <1>2. bounds' \in Counters /\ bounds'.handle = bounds.handle
    BY <1>1, RaisedAt
  <1>3. <<[type |-> "PLAYER_LOAD", desc |-> d]>> \in Seq(UpMsg) /\ desc[d].core \in Core
    BY <1>1, LoadAt, OnCore
  <1>4. /\ up' \in [Handle -> Seq(UpMsg)] /\ buffer' \in [Core -> Seq(UpMsg)]
        /\ Sends(desc[d].core, <<[type |-> "PLAYER_LOAD", desc |-> d]>>)
    BY <1>1, <1>3, SendAt DEF NetTyped, Sends
  <1>5. NetTyped' /\ GameTyped'
    BY <1>1, <1>2, <1>4 DEF NetTyped, GameTyped
  <1> QED
    BY <1>1, <1>2, <1>4, <1>5, DbSame

\* A client gets a character.
LEMMA CharTypes ==
    ASSUME GameTyped, NEW d \in Desc, NEW x \in {"this", "other"},
           desc' = [desc EXCEPT ![d].char = x]
    PROVE  /\ desc' \in [Desc -> Client]
           /\ \A e \in Desc : desc'[e].phase = "play" => desc'[e].char # "none"
           /\ \A e \in Desc : e # d => desc'[e] = desc[e]
           /\ desc'[d].phase = desc[d].phase /\ desc'[d].account = desc[d].account
           /\ desc'[d].core = desc[d].core /\ desc'[d].char = x
           /\ desc'[d].other = desc[d].other
  <1> DEFINE n == [desc[d] EXCEPT !.char = x]
  <1>1. desc[d] \in Client /\ desc \in [Desc -> Client]
    BY DeskTypes
  <1>2. /\ n \in Client /\ n.phase = desc[d].phase /\ n.account = desc[d].account
        /\ n.core = desc[d].core /\ n.char = x /\ n.other = desc[d].other
    BY <1>1 DEF Client, Whose
  <1>3. desc' = [desc EXCEPT ![d] = n]
    BY <1>1
  <1> HIDE DEF n
  <1> QED
    BY <1>2, <1>3, ClientAt

LEMMA PlayerLoadedTypes ==
    ASSUME DbTyped, NetTyped, GameTyped, NoDangling, NEW c \in Core, PlayerLoad(c)
    PROVE  /\ DbTyped' /\ NetTyped' /\ GameTyped' /\ NoDangling'
           /\ UNCHANGED <<dbVars, peers, link, issued, lost, odd, bounds, up, buffer>>
           /\ \E d \in Desc :
                /\ Takes(c, d) /\ Head(toGame[c]).type = "PLAYER_LOAD"
                /\ \/ desc' = desc
                   \/ /\ desc[d].phase # "closed" /\ desc'[d].phase = desc[d].phase
                      /\ \A e \in Desc : e # d => desc'[e] = desc[e]
                      /\ desc'[d].account = desc[d].account
                      /\ desc'[d].core = desc[d].core /\ desc'[d].char = "this"
                      /\ desc'[d].other = desc[d].other
  <1> DEFINE d == Head(toGame[c]).desc
  <1>1. /\ toGame' \in [Core -> Seq(GameMsg)] /\ Takes(c, d)
        /\ Head(toGame[c]).type = "PLAYER_LOAD"
        /\ UNCHANGED <<dbVars, peers, link, issued, odd, bounds>>
    BY TakeAt DEF PlayerLoad, Takes, NetTyped
  <1>2. d \in Desc
    BY <1>1, GameTypes DEF Takes
  <1>3. /\ \/ desc' = desc
           \/ desc[d].phase # "closed" /\ desc' = [desc EXCEPT ![d].char = "this"]
        /\ UNCHANGED <<up, buffer, lost>>
    BY DEF PlayerLoad
  <1> HIDE DEF d
  <1>4. CASE desc' = desc
    <2>1. NetTyped' /\ GameTyped'
      BY <1>1, <1>3, <1>4 DEF NetTyped, GameTyped
    <2> QED
      BY <1>1, <1>2, <1>3, <1>4, <2>1, DbSame
  <1>5. CASE desc[d].phase # "closed" /\ desc' = [desc EXCEPT ![d].char = "this"]
    <2>1. /\ desc' \in [Desc -> Client]
          /\ \A e \in Desc : desc'[e].phase = "play" => desc'[e].char # "none"
          /\ \A e \in Desc : e # d => desc'[e] = desc[e]
          /\ desc'[d].phase = desc[d].phase /\ desc'[d].account = desc[d].account
          /\ desc'[d].core = desc[d].core /\ desc'[d].char = "this"
          /\ desc'[d].other = desc[d].other
      BY <1>2, <1>5, CharTypes
    <2>2. NetTyped' /\ GameTyped'
      BY <1>1, <1>3, <2>1 DEF NetTyped, GameTyped
    <2> QED
      BY <1>1, <1>2, <1>3, <1>5, <2>1, <2>2, DbSame
  <1> QED
    BY <1>3, <1>4, <1>5

\* A client gets a character of another account, or goes into the game.
Local(d) ==
    /\ Steady(d) /\ desc[d].phase # "closed" /\ desc'[d].phase # "closed"
    /\ desc'[d].account = desc[d].account
    /\ desc'[d].char = "this" => desc[d].char = "this"
    /\ UNCHANGED <<dbVars, netVars, issued, lost, odd, bounds>>

LEMMA LocalTypes ==
    ASSUME DbTyped, NetTyped, GameTyped, NoDangling, LinkInv, NEW d \in Desc,
           OtherPlayerLoad(d) \/ Entergame(d)
    PROVE  DbTyped' /\ NetTyped' /\ GameTyped' /\ NoDangling' /\ Local(d)
  <1>1. UNCHANGED <<dbVars, netVars, issued, lost, odd, bounds>>
    BY DEF OtherPlayerLoad, Entergame
  <1>2. ASSUME /\ desc' \in [Desc -> Client]
               /\ \A e \in Desc : desc'[e].phase = "play" => desc'[e].char # "none"
        PROVE  DbTyped' /\ NetTyped' /\ GameTyped' /\ NoDangling'
    <2>1. NetTyped' /\ GameTyped'
      BY <1>1, <1>2 DEF NetTyped, GameTyped, netVars
    <2> QED
      BY <1>1, <2>1, DbSame
  <1>3. CASE OtherPlayerLoad(d)
    <2>1. desc[d].account = "other" /\ desc' = [desc EXCEPT ![d].char = "other"]
      BY <1>3 DEF OtherPlayerLoad
    <2>2. desc[d].phase # "unused" /\ desc[d].phase # "closed"
      BY <2>1 DEF LinkInv, Placed
    <2>3. /\ desc' \in [Desc -> Client]
          /\ \A e \in Desc : desc'[e].phase = "play" => desc'[e].char # "none"
          /\ \A e \in Desc : e # d => desc'[e] = desc[e]
          /\ desc'[d].phase = desc[d].phase /\ desc'[d].account = desc[d].account
          /\ desc'[d].core = desc[d].core /\ desc'[d].char = "other"
      BY <2>1, CharTypes
    <2> QED
      BY <1>1, <1>2, <2>2, <2>3 DEF Local, Steady
  <1>4. CASE Entergame(d)
    <2> DEFINE n == [desc[d] EXCEPT !.phase = "play"]
    <2>1. /\ desc[d].phase = "login" /\ desc[d].char # "none"
          /\ desc' = [desc EXCEPT ![d].phase = "play"]
      BY <1>4 DEF Entergame
    <2>2. desc[d] \in Client /\ desc \in [Desc -> Client]
      BY DeskTypes
    <2>3. /\ n \in Client /\ n.phase = "play" /\ n.account = desc[d].account
          /\ n.core = desc[d].core /\ n.char = desc[d].char
      BY <2>2 DEF Client, Phase
    <2>4. desc' = [desc EXCEPT ![d] = n]
      BY <2>1, <2>2
    <2> HIDE DEF n
    <2>5. /\ desc' \in [Desc -> Client] /\ desc'[d] = n
          /\ \A e \in Desc : e # d => desc'[e] = desc[e]
          /\ \A e \in Desc : desc'[e].phase = "play" => desc'[e].char # "none"
      BY <2>1, <2>3, <2>4, ClientAt
    <2> QED
      BY <1>1, <1>2, <2>1, <2>3, <2>5 DEF Local, Steady
  <1> QED
    BY <1>3, <1>4

\* The save of a character: no other packet.
LEMMA SavedAt ==
    ASSUME NEW d \in Desc
    PROVE  /\ Save(d) \in Seq(UpMsg)
           /\ \A e : ~Some(Save(d), AskOf(e)) /\ ~Some(Save(d), LoadMsg(e))
           /\ ~Some(Save(d), LogoutMsg) /\ ~Some(Save(d), AnyLogout)
           /\ ~Some(Save(d), SetupMsg) /\ Once(Save(d), LogoutMsg)
  <1> DEFINE s == [type |-> "PLAYER_SAVE"]
  <1>1. /\ s \in UpMsg /\ s \notin LogoutMsg /\ s.type = "PLAYER_SAVE"
        /\ s \notin SetupMsg /\ s \notin AnyLogout
        /\ \A e : s \notin AskOf(e) /\ s \notin LoadMsg(e)
    BY SaveAt DEF SetupMsg, AnyLogout
  <1>2. Save(d) = <<s>> \/ Save(d) = <<>>
    BY DEF Save
  <1> HIDE DEF s
  <1>3. /\ <<s>> \in Seq(UpMsg) /\ <<>> \in Seq(UpMsg)
        /\ \A M : (Some(<<s>>, M) <=> s \in M) /\ Once(<<s>>, M)
        /\ \A M : ~Some(<<>>, M) /\ Once(<<>>, M)
    BY <1>1, ShortAt
  <1> QED
    BY <1>1, <1>2, <1>3

LEMMA PhaseSelectTypes ==
    ASSUME DbTyped, NetTyped, GameTyped, NoDangling, LinkInv, NEW d \in Desc, PhaseSelect(d)
    PROVE  /\ DbTyped' /\ NetTyped' /\ GameTyped' /\ NoDangling' /\ Steady(d)
           /\ desc[d].phase = "play" /\ desc'[d].phase = "login"
           /\ desc'[d].account = desc[d].account /\ desc'[d].char = "none"
           /\ Sends(desc[d].core, Save(d))
           /\ UNCHANGED <<dbVars, peers, link, toGame, issued, lost, odd, bounds>>
  <1> DEFINE n == [desc[d] EXCEPT !.phase = "login", !.char = "none"]
  <1>1. /\ desc[d].phase = "play"
        /\ desc' = [desc EXCEPT ![d].phase = "login", ![d].char = "none"]
        /\ Send(desc[d].core, Save(d))
        /\ UNCHANGED <<dbVars, peers, link, toGame, issued, lost, odd, bounds>>
    BY DEF PhaseSelect
  <1>2. desc[d] \in Client /\ desc \in [Desc -> Client]
    BY DeskTypes
  <1>3. /\ n \in Client /\ n.phase = "login" /\ n.account = desc[d].account
        /\ n.core = desc[d].core /\ n.char = "none"
    BY <1>2 DEF Client, Phase, Whose
  <1>4. desc' = [desc EXCEPT ![d] = n]
    BY <1>1, <1>2
  <1> HIDE DEF n
  <1>5. /\ desc' \in [Desc -> Client] /\ desc'[d] = n
        /\ \A e \in Desc : e # d => desc'[e] = desc[e]
        /\ \A e \in Desc : desc'[e].phase = "play" => desc'[e].char # "none"
    BY <1>3, <1>4, ClientAt
  <1>6. Save(d) \in Seq(UpMsg) /\ desc[d].core \in Core
    BY <1>1, SavedAt, OnCore
  <1>7. /\ up' \in [Handle -> Seq(UpMsg)] /\ buffer' \in [Core -> Seq(UpMsg)]
        /\ Sends(desc[d].core, Save(d))
    BY <1>1, <1>6, SendAt DEF NetTyped, Sends
  <1>8. NetTyped' /\ GameTyped'
    BY <1>1, <1>5, <1>7 DEF NetTyped, GameTyped
  <1> QED
    BY <1>1, <1>3, <1>5, <1>7, <1>8, DbSame DEF Steady

\* What a client sends that leaves: its save first, if it has the character, and its
\* logout, if it is bound.
Farewell(d) == Save(d) \o (IF Bound(d) THEN <<Logout(d)>> ELSE <<>>)

LEMMA FarewellAt ==
    ASSUME NEW d \in Desc
    PROVE  /\ Farewell(d) \in Seq(UpMsg)
           /\ \A e : ~Some(Farewell(d), AskOf(e)) /\ ~Some(Farewell(d), LoadMsg(e))
           /\ Some(Farewell(d), LogoutMsg) <=> Bound(d) /\ d \notin lost
           /\ Once(Farewell(d), LogoutMsg)
           /\ Some(Farewell(d), AnyLogout) <=> Bound(d)
           /\ ~Some(Farewell(d), SetupMsg)
  <1> DEFINE z == IF Bound(d) THEN <<Logout(d)>> ELSE <<>>
  <1>1. /\ Logout(d) \in UpMsg /\ Logout(d).type = "LOGOUT"
        /\ Logout(d) \in LogoutMsg <=> d \notin lost
        /\ Logout(d) \in AnyLogout /\ Logout(d) \notin SetupMsg
        /\ \A e : Logout(d) \notin AskOf(e) /\ Logout(d) \notin LoadMsg(e)
    BY LogoutAt DEF AnyLogout, SetupMsg
  <1>2. /\ z \in Seq(UpMsg)
        /\ \A M : (Some(z, M) <=> Bound(d) /\ Logout(d) \in M) /\ Once(z, M)
    <2>1. /\ <<Logout(d)>> \in Seq(UpMsg) /\ <<>> \in Seq(UpMsg)
          /\ \A M : (Some(<<Logout(d)>>, M) <=> Logout(d) \in M) /\ Once(<<Logout(d)>>, M)
          /\ \A M : ~Some(<<>>, M) /\ Once(<<>>, M)
      BY <1>1, ShortAt
    <2>2. /\ Bound(d) => z = <<Logout(d)>>
          /\ ~Bound(d) => z = <<>>
      OBVIOUS
    <2> HIDE DEF z
    <2> QED
      BY <2>1, <2>2
  <1>3. Farewell(d) = Save(d) \o z
    BY DEF Farewell
  <1> HIDE DEF z
  <1>4. /\ Save(d) \o z \in Seq(UpMsg)
        /\ \A M : Some(Save(d) \o z, M) <=> Some(Save(d), M) \/ Some(z, M)
        /\ \A M : /\ Once(Save(d), M) /\ Once(z, M) /\ ~(Some(Save(d), M) /\ Some(z, M))
                  => Once(Save(d) \o z, M)
    BY <1>2, ConcatAt, SavedAt
  <1> QED
    BY <1>1, <1>2, <1>3, <1>4, SavedAt

\* What is left of a client.
LEMMA ClosedAt ==
    ASSUME GameTyped, NEW d \in Desc
    PROVE  /\ Closed(d) \in Client /\ Closed(d).phase = "closed" /\ Closed(d).account = "none"
           /\ Closed(d).core = desc[d].core /\ Closed(d).char = "none"
  <1>1. desc[d].core \in Core \cup {None}
    BY DeskTypes
  <1> QED
    BY <1>1 DEF Closed, NoClient, Client, Phase, Whose

LEMMA DestroyTypes ==
    ASSUME DbTyped, NetTyped, GameTyped, NoDangling, LinkInv, NEW d \in Desc, Destroy(d)
    PROVE  /\ DbTyped' /\ NetTyped' /\ GameTyped' /\ NoDangling' /\ Steady(d)
           /\ desc[d].phase # "closed" /\ desc'[d].phase = "closed"
           /\ desc'[d].account = "none" /\ desc'[d].char = "none"
           /\ lost' = lost \ {d} /\ Sends(desc[d].core, Farewell(d))
           /\ UNCHANGED <<dbVars, peers, link, toGame, issued, odd, bounds>>
  <1>1. /\ desc[d].phase \notin {"unused", "closed"}
        /\ desc' = [desc EXCEPT ![d] = Closed(d)]
        /\ lost' = lost \ {d}
        /\ Send(desc[d].core, Farewell(d))
        /\ UNCHANGED <<dbVars, peers, link, toGame, issued, odd, bounds>>
    BY DEF Destroy, Farewell
  <1>2. /\ desc' \in [Desc -> Client] /\ desc'[d] = Closed(d)
        /\ \A e \in Desc : e # d => desc'[e] = desc[e]
        /\ \A e \in Desc : desc'[e].phase = "play" => desc'[e].char # "none"
    BY <1>1, ClosedAt, ClientAt
  <1>3. Farewell(d) \in Seq(UpMsg) /\ desc[d].core \in Core
    BY <1>1, FarewellAt, OnCore
  <1>4. /\ up' \in [Handle -> Seq(UpMsg)] /\ buffer' \in [Core -> Seq(UpMsg)]
        /\ Sends(desc[d].core, Farewell(d))
    BY <1>1, <1>3, SendAt DEF NetTyped, Sends
  <1>5. lost' \subseteq Desc
    BY <1>1 DEF GameTyped
  <1>6. NetTyped' /\ GameTyped'
    BY <1>1, <1>2, <1>4, <1>5 DEF NetTyped, GameTyped
  <1> QED
    BY <1>1, <1>2, <1>4, <1>6, ClosedAt, DbSame DEF Steady

\* A connection breaks: what is left of its packets is all of them, or none.
Breaks(c) ==
    /\ link[c] \in Handle /\ link'[c] = None /\ toGame'[c] = <<>>
    /\ \A e \in Core : e # c => link'[e] = link[e] /\ toGame'[e] = toGame[e]
    /\ \A h \in Handle : up'[h] = up[h] \/ (h = link[c] /\ up'[h] = <<>>)
    /\ bounds'.handle = bounds.handle
    /\ UNCHANGED <<dbVars, peers, buffer, issued, odd>>

LEMMA BrokenTypes ==
    ASSUME NetTyped, GameTyped, NEW c \in Core, Broken(c)
    PROVE  /\ NetTyped' /\ Breaks(c)
           /\ bounds' \in Counters
  <1>1. /\ link[c] # None /\ bounds.fault < MaxFault
        /\ bounds' = [bounds EXCEPT !.fault = @ + 1]
        /\ link' = [link EXCEPT ![c] = None]
        /\ toGame' = [toGame EXCEPT ![c] = <<>>]
        /\ up' = up \/ up' = [up EXCEPT ![link[c]] = <<>>]
        /\ UNCHANGED <<dbVars, peers, buffer, issued, odd>>
    BY DEF Broken
  <1>2. /\ up \in [Handle -> Seq(UpMsg)] /\ link \in [Core -> Handle \cup {None}]
        /\ toGame \in [Core -> Seq(GameMsg)]
        /\ <<>> \in Seq(UpMsg) /\ <<>> \in Seq(GameMsg)
    BY DEF NetTyped
  <1>3. /\ bounds' \in Counters
        /\ bounds'.handle = bounds.handle
    BY <1>1, RaisedAt
  <1>4. /\ up' \in [Handle -> Seq(UpMsg)] /\ link' \in [Core -> Handle \cup {None}]
        /\ toGame' \in [Core -> Seq(GameMsg)]
        /\ link[c] \in Handle /\ link'[c] = None /\ toGame'[c] = <<>>
        /\ \A e \in Core : e # c => link'[e] = link[e] /\ toGame'[e] = toGame[e]
        /\ \A h \in Handle : up'[h] = up[h] \/ (h = link[c] /\ up'[h] = <<>>)
    BY <1>1, <1>2
  <1> QED
    BY <1>1, <1>3, <1>4 DEF NetTyped, Breaks

LEMMA LinkLossTypes ==
    ASSUME DbTyped, NetTyped, GameTyped, NoDangling, NEW c \in Core, LinkLoss(c)
    PROVE  /\ DbTyped' /\ NetTyped' /\ GameTyped' /\ NoDangling'
           /\ Breaks(c) /\ lost' = lost \cup BoundOn(c) /\ UNCHANGED desc
  <1>1. /\ Broken(c) /\ lost' = lost \cup BoundOn(c) /\ UNCHANGED desc
    BY DEF LinkLoss
  <1>2. /\ NetTyped' /\ Breaks(c)
        /\ bounds' \in Counters
    BY <1>1, BrokenTypes
  <1>3. GameTyped'
    BY <1>1, <1>2 DEF GameTyped, Breaks, BoundOn
  <1> QED
    BY <1>1, <1>2, <1>3, DbSame DEF Breaks

LEMMA CoreCrashTypes ==
    ASSUME DbTyped, NetTyped, GameTyped, NoDangling, NEW c \in Core, CoreCrash(c)
    PROVE  /\ DbTyped' /\ NetTyped' /\ GameTyped' /\ NoDangling'
           /\ Breaks(c) /\ lost' = {d \in lost : desc[d].core # c}
           /\ \A d \in Desc :
                IF desc[d].core = c
                THEN /\ desc'[d].phase = "closed" /\ desc'[d].account = "none"
                     /\ desc'[d].char = "none" /\ desc'[d].core = desc[d].core
                ELSE desc'[d] = desc[d]
  <1>1. /\ Broken(c) /\ lost' = {d \in lost : desc[d].core # c}
        /\ desc' = [d \in Desc |-> IF desc[d].core = c THEN Closed(d) ELSE desc[d]]
    BY DEF CoreCrash
  <1>2. /\ NetTyped' /\ Breaks(c)
        /\ bounds' \in Counters
    BY <1>1, BrokenTypes
  <1>3. \A d \in Desc : /\ Closed(d) \in Client /\ Closed(d).phase = "closed"
                        /\ Closed(d).account = "none" /\ Closed(d).char = "none"
                        /\ Closed(d).core = desc[d].core
    BY ClosedAt
  <1>4. /\ desc' \in [Desc -> Client]
        /\ \A d \in Desc : desc'[d] = IF desc[d].core = c THEN Closed(d) ELSE desc[d]
    BY <1>1, <1>3 DEF GameTyped
  <1>5. GameTyped'
    BY <1>1, <1>2, <1>3, <1>4 DEF GameTyped, Breaks
  <1> QED
    BY <1>1, <1>2, <1>3, <1>4, <1>5, DbSame DEF Breaks

\* What core c sends to the db first: its bound clients, with their keys.
SetupOf(c) == [type |-> "SETUP", keys |-> [d \in BoundOn(c) |-> desc[d].key]]

LEMMA SetupOfAt ==
    ASSUME GameTyped, NEW c \in Core
    PROVE  /\ SetupOf(c) \in UpMsg /\ SetupOf(c) \notin LogoutMsg
           /\ SetupOf(c).type = "SETUP" /\ DOMAIN SetupOf(c).keys = BoundOn(c)
           /\ \A e : SetupOf(c) \notin AskOf(e) /\ SetupOf(c) \notin LoadMsg(e)
  <1> DEFINE f == [d \in BoundOn(c) |-> desc[d].key]
  <1>1. BoundOn(c) \in SUBSET Desc
    BY DEF BoundOn
  <1>2. f \in [BoundOn(c) -> Key \cup {None}] /\ DOMAIN f = BoundOn(c)
    BY <1>1, DeskTypes
  <1>3. SetupOf(c) = [type |-> "SETUP", keys |-> f]
    BY DEF SetupOf
  <1> HIDE DEF f
  <1> QED
    BY <1>1, <1>2, <1>3, SetupAt

LEMMA ReconnectTypes ==
    ASSUME DbTyped, NetTyped, GameTyped, NoDangling, LinkInv, NEW c \in Core, Reconnect(c)
    PROVE  /\ DbTyped' /\ NetTyped' /\ GameTyped' /\ NoDangling'
           /\ link[c] = None /\ bounds.handle \in Handle
           /\ link'[c] = bounds.handle /\ \A e \in Core : e # c => link'[e] = link[e]
           /\ peers' = peers \cup {bounds.handle} /\ bounds'.handle = bounds.handle + 1
           /\ up'[bounds.handle]
                = Append(buffer[c], SetupOf(c))
           /\ \A h \in Handle : h # bounds.handle => up'[h] = up[h]
           /\ buffer'[c] = <<>> /\ \A e \in Core : e # c => buffer'[e] = buffer[e]
           /\ UNCHANGED <<dbVars, toGame, desc, issued, lost, odd>>
  <1> DEFINE h == bounds.handle
             m == SetupOf(c)
  <1>1. /\ link[c] = None /\ h \in Handle
        /\ link' = [link EXCEPT ![c] = h] /\ peers' = peers \cup {h}
        /\ up' = [up EXCEPT ![h] = Append(buffer[c], m)]
        /\ bounds' = [bounds EXCEPT !.handle = h + 1]
        /\ buffer' = [buffer EXCEPT ![c] = <<>>]
        /\ UNCHANGED <<dbVars, toGame, desc, issued, lost, odd>>
    BY DEF Reconnect, SetupOf
  <1>2. m \in UpMsg
    BY SetupOfAt
  <1>3. h + 1 \in NCore + 1 .. NCore + NCore * MaxFault + 1
    <2>1. /\ h \in 1 .. NCore + NCore * MaxFault
          /\ h \in NCore + 1 .. NCore + NCore * MaxFault + 1
          /\ NCore \in Nat /\ NCore * MaxFault \in Nat
      BY <1>1, DeskTypes, ConstantTypes
    <2> QED
      BY <2>1
  <1> HIDE DEF m
  <1>4. /\ bounds' \in Counters
        /\ bounds'.handle = h + 1
    BY <1>1, <1>3, CounterAt DEF GameTyped
  <1> HIDE DEF h
  <1>5. /\ up \in [Handle -> Seq(UpMsg)] /\ link \in [Core -> Handle \cup {None}]
        /\ buffer \in [Core -> Seq(UpMsg)] /\ peers \subseteq Handle
        /\ <<>> \in Seq(UpMsg) /\ Append(buffer[c], m) \in Seq(UpMsg)
    BY <1>2 DEF NetTyped
  <1>6. /\ up' \in [Handle -> Seq(UpMsg)] /\ link' \in [Core -> Handle \cup {None}]
        /\ buffer' \in [Core -> Seq(UpMsg)] /\ peers' \subseteq Handle
        /\ up'[h] = Append(buffer[c], m) /\ \A g \in Handle : g # h => up'[g] = up[g]
        /\ link'[c] = h /\ \A e \in Core : e # c => link'[e] = link[e]
        /\ buffer'[c] = <<>> /\ \A e \in Core : e # c => buffer'[e] = buffer[e]
    BY <1>1, <1>5
  <1>7. NetTyped'
    BY <1>1, <1>6 DEF NetTyped
  <1>8. GameTyped'
    BY <1>1, <1>4 DEF GameTyped
  <1> QED
    BY <1>1, <1>4, <1>6, <1>7, <1>8, DbSame DEF h, m

\* The types, and that no map points to a freed object, are preserved.
LEMMA TypesStep ==
    ASSUME DbTyped, NetTyped, GameTyped, NoDangling, LinkInv, Next
    PROVE  DbTyped' /\ NetTyped' /\ GameTyped' /\ NoDangling'
  <1>1. ASSUME Db PROVE DbTyped' /\ NetTyped' /\ GameTyped' /\ NoDangling'
    BY <1>1, AuthTypes, AskTypes, LogoutTypes, SetupTypes, PlayerLoadTypes, SaveTypes,
       RemoveTypes, ReadTypes, ResultLoginTypes, ResultPlayerLoadTypes, DropTypes,
       FlushTypes, RestartTypes DEF Db
  <1>2. ASSUME Game PROVE DbTyped' /\ NetTyped' /\ GameTyped' /\ NoDangling'
    BY <1>2, LoginByKeyTypes, LoginByOtherKeyTypes, OtherLoginSuccessTypes, LocalTypes,
       CharacterSelectTypes, PhaseSelectTypes, DestroyTypes, LoginSuccessTypes, LoginFailureTypes, PlayerLoadedTypes, LinkLossTypes,
       CoreCrashTypes, ReconnectTypes DEF Game
  <1> QED
    BY <1>1, <1>2 DEF Next

-----------------------------------------------------------------------------
(***************************************************************************)
(* What a step does to the queues.                                          *)
(***************************************************************************)

LEMMA TakesAt ==
    ASSUME NetTyped, NEW c \in Core, NEW d, Takes(c, d)
    PROVE  \A M :
        /\ \A e \in Core : /\ Some(toGame'[e], M) => Some(toGame[e], M)
                           /\ Once(toGame[e], M) => Once(toGame'[e], M)
                           /\ e # c => toGame'[e] = toGame[e]
        /\ Some(toGame[c], M) <=> Head(toGame[c]) \in M \/ Some(toGame'[c], M)
        /\ Once(toGame[c], M) /\ Head(toGame[c]) \in M => ~Some(toGame'[c], M)
  <1>1. /\ toGame[c] # <<>> /\ toGame[c] \in Seq(GameMsg) /\ toGame'[c] = Tail(toGame[c])
        /\ \A e \in Core : e # c => toGame'[e] = toGame[e]
    BY DEF Takes, NetTyped
  <1>2. \A M : /\ Some(toGame[c], M) <=> Head(toGame[c]) \in M \/ Some(toGame'[c], M)
               /\ Once(toGame[c], M) => /\ Once(toGame'[c], M)
                                        /\ Head(toGame[c]) \in M => ~Some(toGame'[c], M)
    BY <1>1, TailAt
  <1> QED
    BY <1>1, <1>2

LEMMA RepliesAt ==
    ASSUME NetTyped, NEW h, NEW m \in GameMsg, Reply(h, m)
    PROVE  \A M : \A e \in Core :
        /\ Some(toGame'[e], M) <=> Some(toGame[e], M) \/ (link[e] = h /\ m \in M)
        /\ Once(toGame[e], M) /\ ~(link[e] = h /\ m \in M /\ Some(toGame[e], M))
               => Once(toGame'[e], M)
        /\ link[e] # h => toGame'[e] = toGame[e]
  <1>1. \A c \in Core : /\ toGame'[c] = IF link[c] = h THEN Append(toGame[c], m)
                                                       ELSE toGame[c]
                        /\ toGame[c] \in Seq(GameMsg)
    BY ReplyAt DEF NetTyped
  <1> SUFFICES ASSUME NEW M, NEW e \in Core
               PROVE  /\ Some(toGame'[e], M) <=> Some(toGame[e], M) \/ (link[e] = h /\ m \in M)
                      /\ Once(toGame[e], M) /\ ~(link[e] = h /\ m \in M /\ Some(toGame[e], M))
                             => Once(toGame'[e], M)
                      /\ link[e] # h => toGame'[e] = toGame[e]
    OBVIOUS
  <1>2. /\ Some(Append(toGame[e], m), M) <=> Some(toGame[e], M) \/ m \in M
        /\ Once(toGame[e], M) /\ (m \in M => ~Some(toGame[e], M))
               => Once(Append(toGame[e], m), M)
    BY <1>1, AppendAt
  <1> QED
    BY <1>1, <1>2

LEMMA SqlTakes ==
    ASSUME DbTyped, sql # <<>>
    PROVE  \A M : /\ Some(Tail(sql), M) => Some(sql, M)
                  /\ Once(sql, M) => Once(Tail(sql), M)
                  /\ Some(sql, M) <=> Head(sql) \in M \/ Some(Tail(sql), M)
                  /\ Once(sql, M) /\ Head(sql) \in M => ~Some(Tail(sql), M)
  <1>1. sql \in Seq(Statement)
    BY DEF DbTyped
  <1>2. \A M : /\ Some(sql, M) <=> Head(sql) \in M \/ Some(Tail(sql), M)
               /\ Once(sql, M) => /\ Once(Tail(sql), M)
                                  /\ Head(sql) \in M => ~Some(Tail(sql), M)
    BY <1>1, TailAt
  <1> QED
    BY <1>2

LEMMA SqlPuts ==
    ASSUME NEW q \in Seq(Statement), NEW s \in Statement
    PROVE  \A M : /\ Some(Append(q, s), M) <=> Some(q, M) \/ s \in M
                  /\ Once(q, M) /\ ~(s \in M /\ Some(q, M)) => Once(Append(q, s), M)
  BY AppendAt

LEMMA LineTypes ==
    ASSUME NetTyped, NEW c \in Core
    PROVE  Line(c) \in Seq(UpMsg) /\ (link[c] # None => link[c] \in Handle)
  BY DEF NetTyped, Line

\* The db takes the packets of one connection.
LEMMA ReceivesAt ==
    ASSUME NetTyped, NEW h \in Handle, NEW type, Receive(h, type)
    PROVE  /\ up[h] # <<>> /\ Head(up[h]) \in UpMsg /\ Head(up[h]).type = type /\ h \in peers
           /\ UNCHANGED <<peers, link, buffer, desc, issued, bounds>>
           /\ \A g \in Handle : g # h => up'[g] = up[g]
           /\ \A e \in Core : link[e] # h => Line(e)' = Line(e)
           /\ \A M :
                /\ Some(up[h], M) <=> Head(up[h]) \in M \/ Some(up'[h], M)
                /\ Once(up[h], M) => Once(up'[h], M)
                /\ Once(up[h], M) /\ Head(up[h]) \in M => ~Some(up'[h], M)
                /\ \A g \in Handle : /\ Some(up'[g], M) => Some(up[g], M)
                                     /\ Once(up[g], M) => Once(up'[g], M)
                /\ \A e \in Core : /\ Some(Line(e)', M) => Some(Line(e), M)
                                   /\ Once(Line(e), M) => Once(Line(e)', M)
                                   /\ link[e] = h => Line(e) = up[h] /\ Line(e)' = up'[h]
  <1>1. /\ up[h] # <<>> /\ Head(up[h]) \in UpMsg /\ Head(up[h]).type = type /\ h \in peers
        /\ UNCHANGED <<peers, link, buffer, desc, issued, bounds>>
        /\ \A g \in Handle : up'[g] = IF g = h THEN Tail(up[g]) ELSE up[g]
        /\ up[h] \in Seq(UpMsg)
    BY ReceiveAt DEF NetTyped
  <1>2. \A M : /\ Some(up[h], M) <=> Head(up[h]) \in M \/ Some(up'[h], M)
               /\ Once(up[h], M) => /\ Once(up'[h], M)
                                    /\ Head(up[h]) \in M => ~Some(up'[h], M)
    BY <1>1, TailAt
  <1>3. \A e \in Core : /\ link[e] # h => Line(e)' = Line(e)
                        /\ link[e] = h => Line(e) = up[h] /\ Line(e)' = up'[h]
    BY <1>1, LineTypes, ConstantTypes DEF Line
  <1>4. \A M : \A g \in Handle : /\ Some(up'[g], M) => Some(up[g], M)
                                 /\ Once(up[g], M) => Once(up'[g], M)
    BY <1>1, <1>2
  <1>5. \A M : \A e \in Core : /\ Some(Line(e)', M) => Some(Line(e), M)
                               /\ Once(Line(e), M) => Once(Line(e)', M)
    BY <1>3, <1>4
  <1> QED
    BY <1>1, <1>2, <1>3, <1>4, <1>5

\* A core sends packets.
LEMMA SendsAt ==
    ASSUME NetTyped, LinkInv, NEW c \in Core, NEW ms, Sends(c, ms), UNCHANGED link
    PROVE  \A M :
        /\ \A h \in Handle :
            /\ Some(up'[h], M) <=> Some(up[h], M) \/ (h = link[c] /\ Some(ms, M))
            /\ Once(up[h], M) /\ Once(ms, M) /\ ~(h = link[c] /\ Some(up[h], M) /\ Some(ms, M))
                   => Once(up'[h], M)
            /\ h # link[c] => up'[h] = up[h]
        /\ \A e \in Core :
            /\ Some(buffer'[e], M) <=>
                   Some(buffer[e], M) \/ (e = c /\ link[c] = None /\ Some(ms, M))
            /\ Once(buffer[e], M) /\ Once(ms, M)
                    /\ ~(e = c /\ link[c] = None /\ Some(buffer[e], M) /\ Some(ms, M))
                   => Once(buffer'[e], M)
            /\ Some(Line(e)', M) <=>
                   Some(Line(e), M) \/ (e = c /\ link[c] # None /\ Some(ms, M))
            /\ Once(Line(e), M) /\ Once(ms, M)
                    /\ ~(e = c /\ link[c] # None /\ Some(Line(e), M) /\ Some(ms, M))
                   => Once(Line(e)', M)
            /\ e # c => buffer'[e] = buffer[e] /\ Line(e)' = Line(e)
            /\ link[c] # None => buffer'[e] = buffer[e]
            /\ link[c] = None => Line(e)' = Line(e)
  <1>1. /\ ms \in Seq(UpMsg) /\ up \in [Handle -> Seq(UpMsg)] /\ buffer \in [Core -> Seq(UpMsg)]
        /\ link \in [Core -> Handle \cup {None}] /\ None \notin Handle
    BY ConstantTypes DEF Sends, NetTyped
  <1>2. \A q \in Seq(UpMsg) : \A M :
            /\ Some(q \o ms, M) <=> Some(q, M) \/ Some(ms, M)
            /\ Once(q, M) /\ Once(ms, M) /\ ~(Some(q, M) /\ Some(ms, M)) => Once(q \o ms, M)
    BY <1>1, ConcatAt
  <1>3. \A h \in Handle : up'[h] = IF h = link[c] THEN up[h] \o ms ELSE up[h]
    BY DEF Sends
  <1>4. \A e \in Core : buffer'[e] = IF e = c /\ link[c] = None THEN buffer[e] \o ms
                                                                ELSE buffer[e]
    BY DEF Sends
  <1>5. \A e \in Core : Line(e)' = IF e = c /\ link[c] # None THEN Line(e) \o ms ELSE Line(e)
    <2> SUFFICES ASSUME NEW e \in Core
                 PROVE  Line(e)' = IF e = c /\ link[c] # None THEN Line(e) \o ms ELSE Line(e)
      OBVIOUS
    <2>1. link[e] # None /\ link[e] = link[c] => e = c
      BY DEF LinkInv
    <2>2. link[e] # None => link[e] \in Handle
      BY <1>1
    <2> QED
      BY <1>3, <2>1, <2>2 DEF Line
  <1>6. \A e \in Core : Line(e) \in Seq(UpMsg)
    BY LineTypes
  <1> SUFFICES ASSUME NEW M
               PROVE
        /\ \A h \in Handle :
            /\ Some(up'[h], M) <=> Some(up[h], M) \/ (h = link[c] /\ Some(ms, M))
            /\ Once(up[h], M) /\ Once(ms, M) /\ ~(h = link[c] /\ Some(up[h], M) /\ Some(ms, M))
                   => Once(up'[h], M)
            /\ h # link[c] => up'[h] = up[h]
        /\ \A e \in Core :
            /\ Some(buffer'[e], M) <=>
                   Some(buffer[e], M) \/ (e = c /\ link[c] = None /\ Some(ms, M))
            /\ Once(buffer[e], M) /\ Once(ms, M)
                    /\ ~(e = c /\ link[c] = None /\ Some(buffer[e], M) /\ Some(ms, M))
                   => Once(buffer'[e], M)
            /\ Some(Line(e)', M) <=>
                   Some(Line(e), M) \/ (e = c /\ link[c] # None /\ Some(ms, M))
            /\ Once(Line(e), M) /\ Once(ms, M)
                    /\ ~(e = c /\ link[c] # None /\ Some(Line(e), M) /\ Some(ms, M))
                   => Once(Line(e)', M)
            /\ e # c => buffer'[e] = buffer[e] /\ Line(e)' = Line(e)
            /\ link[c] # None => buffer'[e] = buffer[e]
            /\ link[c] = None => Line(e)' = Line(e)
    OBVIOUS
  <1>7. \A h \in Handle :
            /\ Some(up'[h], M) <=> Some(up[h], M) \/ (h = link[c] /\ Some(ms, M))
            /\ Once(up[h], M) /\ Once(ms, M) /\ ~(h = link[c] /\ Some(up[h], M) /\ Some(ms, M))
                   => Once(up'[h], M)
            /\ h # link[c] => up'[h] = up[h]
    BY <1>1, <1>2, <1>3
  <1>8. \A e \in Core :
            /\ Some(buffer'[e], M) <=>
                   Some(buffer[e], M) \/ (e = c /\ link[c] = None /\ Some(ms, M))
            /\ Once(buffer[e], M) /\ Once(ms, M)
                    /\ ~(e = c /\ link[c] = None /\ Some(buffer[e], M) /\ Some(ms, M))
                   => Once(buffer'[e], M)
            /\ e # c \/ link[c] # None => buffer'[e] = buffer[e]
    BY <1>1, <1>2, <1>4
  <1>9. \A e \in Core :
            /\ Some(Line(e)', M) <=>
                   Some(Line(e), M) \/ (e = c /\ link[c] # None /\ Some(ms, M))
            /\ Once(Line(e), M) /\ Once(ms, M)
                    /\ ~(e = c /\ link[c] # None /\ Some(Line(e), M) /\ Some(ms, M))
                   => Once(Line(e)', M)
            /\ e # c \/ link[c] = None => Line(e)' = Line(e)
    <2> SUFFICES ASSUME NEW e \in Core
                 PROVE
            /\ Some(Line(e)', M) <=>
                   Some(Line(e), M) \/ (e = c /\ link[c] # None /\ Some(ms, M))
            /\ Once(Line(e), M) /\ Once(ms, M)
                    /\ ~(e = c /\ link[c] # None /\ Some(Line(e), M) /\ Some(ms, M))
                   => Once(Line(e)', M)
            /\ e # c \/ link[c] = None => Line(e)' = Line(e)
      OBVIOUS
    <2>1. /\ Some(Line(e) \o ms, M) <=> Some(Line(e), M) \/ Some(ms, M)
          /\ Once(Line(e), M) /\ Once(ms, M) /\ ~(Some(Line(e), M) /\ Some(ms, M))
                 => Once(Line(e) \o ms, M)
      BY <1>2, <1>6
    <2>2. CASE e = c /\ link[c] # None
      <3>1. Line(e)' = Line(e) \o ms
        BY <1>5, <2>2
      <3> QED
        BY <2>1, <2>2, <3>1
    <2>3. CASE ~(e = c /\ link[c] # None)
      <3>1. Line(e)' = Line(e)
        BY <1>5, <2>3
      <3> QED
        BY <2>3, <3>1
    <2> QED
      BY <2>2, <2>3
  <1> QED
    BY <1>7, <1>8, <1>9

-----------------------------------------------------------------------------
(***************************************************************************)
(* Requests.                                                                *)
(***************************************************************************)

\* Queue p has of M no more than queue q.
Fall(q, p, M) == (Some(p, M) => Some(q, M)) /\ (Once(q, M) => Once(p, M))

LEMMA FallAt ==
    ASSUME NEW M
    PROVE  /\ \A q : Fall(q, q, M) /\ Fall(q, <<>>, M)
           /\ \A q, p : p = q => Fall(q, p, M)
  BY EmptyAt DEF Fall

\* A step that asks for nothing and answers nothing leaves a request as it is.
LEMMA RequestFalls ==
    ASSUME NEW c \in Core, NEW d \in Desc, OneRequest(c, d),
           Fall(buffer[c], buffer'[c], AskOf(d)),
           Fall(Line(c), Line(c)', AskOf(d)),
           \/ link'[c] = link[c] /\ Fall(sql, sql', ReadOf(d, link[c]))
           \/ ~Some(sql', ReadOf(d, link'[c])),
           Fall(toGame[c], toGame'[c], AnswerOf(d)),
           desc'[d].core = desc[d].core,
           desc[d].phase # "unused" => desc'[d].phase # "unused"
    PROVE  OneRequest(c, d)'
  <1>1. Some(sql', ReadOf(d, link'[c])) => Some(sql, ReadOf(d, link[c]))
    BY DEF Fall
  <1> QED
    BY <1>1 DEF Fall, OneRequest, Asking

LEMMA RequestSame ==
    ASSUME NEW c \in Core, NEW d \in Desc, OneRequest(c, d),
           UNCHANGED <<buffer, up, link, toGame, sql, desc>>
    PROVE  OneRequest(c, d)'
  <1>1. Line(c)' = Line(c)
    BY DEF Line
  <1> QED
    BY <1>1, FallAt, RequestFalls

\* The db takes a packet that is not a request.
LEMMA RequestReceived ==
    ASSUME NetTyped, NEW c \in Core, NEW d \in Desc, OneRequest(c, d),
           NEW h \in Handle, NEW type, Receive(h, type),
           Fall(sql, sql', ReadOf(d, link[c])),
           Fall(toGame[c], toGame'[c], AnswerOf(d))
    PROVE  OneRequest(c, d)'
  <1>1. UNCHANGED <<link, buffer, desc>>
    BY ReceivesAt
  <1>2. Fall(Line(c), Line(c)', AskOf(d))
    BY ReceivesAt DEF Fall
  <1>3. Fall(buffer[c], buffer'[c], AskOf(d))
    BY <1>1, FallAt
  <1> QED
    BY <1>1, <1>2, <1>3, RequestFalls

\* The packets a core may send without a request of client d.
LEMMA RequestSent ==
    ASSUME NetTyped, LinkInv, NEW c \in Core, NEW d \in Desc, OneRequest(c, d),
           NEW e \in Core, NEW ms, Sends(e, ms), ~Some(ms, AskOf(d)),
           UNCHANGED <<link, sql>>,
           Fall(toGame[c], toGame'[c], AnswerOf(d)),
           desc'[d].core = desc[d].core,
           desc[d].phase # "unused" => desc'[d].phase # "unused"
    PROVE  OneRequest(c, d)'
  <1>1. /\ Some(Line(c)', AskOf(d)) => Some(Line(c), AskOf(d))
        /\ Some(buffer'[c], AskOf(d)) => Some(buffer[c], AskOf(d))
    BY SendsAt
  <1> QED
    BY <1>1 DEF OneRequest, Asking, Fall

\* A request is taken: the account's players are asked for, or it is refused.
LEMMA RequestAsked ==
    ASSUME DbTyped, NetTyped, GameTyped, NoDangling, NEW c \in Core, NEW d \in Desc,
           OneRequest(c, d), NEW h \in Handle, QUERY_LOGIN_BY_KEY(h)
    PROVE  OneRequest(c, d)'
  <1>1. Receive(h, "LOGIN_BY_KEY")
    BY DEF QUERY_LOGIN_BY_KEY
  <1> DEFINE e == Head(up[h]).desc
  <1>2. /\ Head(up[h]) \in UpMsg /\ Head(up[h]).type = "LOGIN_BY_KEY" /\ e \in Desc
        /\ UNCHANGED <<link, buffer, desc>>
    BY <1>1, ReceivesAt, AskTypes
  <1>3. Head(up[h]) \in AskOf(d) <=> d = e
    BY <1>2, UpIs
  <1>4. /\ Some(sql', ReadOf(d, link[c])) =>
               Some(sql, ReadOf(d, link[c])) \/ (d = e /\ link[c] = h)
        /\ Some(toGame'[c], AnswerOf(d)) =>
               Some(toGame[c], AnswerOf(d)) \/ (d = e /\ link[c] = h)
    <2>1. CASE /\ sql' = Append(sql, [q |-> "key", peer |-> h, desc |-> e])
               /\ toGame' = toGame
      <3> DEFINE s == [q |-> "key", peer |-> h, desc |-> e]
      <3>1. s \in Statement /\ (s \in ReadOf(d, link[c]) <=> d = e /\ link[c] = h)
        <4> HIDE DEF e
        <4>1. s \in Statement /\ s.q = "key" /\ s.peer = h /\ s.desc = e
          BY <1>2 DEF Statement
        <4> HIDE DEF s
        <4> QED
          BY <4>1, StatementIs
      <3>2. sql \in Seq(Statement) /\ sql' = Append(sql, s)
        BY <2>1 DEF DbTyped
      <3> HIDE DEF s
      <3> QED
        BY <2>1, <3>1, <3>2, SqlPuts
    <2>2. CASE /\ sql' = sql
               /\ \E t \in {"LOGIN_NOT_EXIST", "LOGIN_ALREADY"} :
                      Reply(h, [type |-> t, desc |-> e])
      <3>1. PICK t \in {"LOGIN_NOT_EXIST", "LOGIN_ALREADY"} : Reply(h, [type |-> t, desc |-> e])
        BY <2>2
      <3> DEFINE m == [type |-> t, desc |-> e]
      <3>2. m \in GameMsg /\ m.type = t /\ m.desc = e /\ Reply(h, m)
        BY <1>2, <3>1, AnswerAt
      <3> HIDE DEF m
      <3>3. m \in AnswerOf(d) <=> d = e
        BY <3>2, GameIs
      <3> QED
        BY <2>2, <3>2, <3>3, RepliesAt
    <2> QED
      BY <2>1, <2>2, AskTypes
  <1>5. d = e /\ link[c] = h => Some(Line(c), AskOf(d))
    BY <1>1, <1>3, ReceivesAt
  <1>6. Some(Line(c)', AskOf(d)) => Some(Line(c), AskOf(d))
    BY <1>1, ReceivesAt
  <1> QED
    BY <1>2, <1>4, <1>5, <1>6 DEF OneRequest, Asking

\* The result of a request: the players are read next, or the client is answered.
Answers(t) ==
    /\ sql' = Tail(sql)
    /\ Reply(Head(sql).peer, [type |-> t, desc |-> Head(sql).desc])
ReadsOn ==
    /\ sql' = Append(Tail(sql), [q |-> "login", peer |-> Head(sql).peer,
                                 desc |-> Head(sql).desc])
    /\ toGame' = toGame

LEMMA RequestResult ==
    ASSUME DbTyped, NetTyped, NEW c \in Core, NEW d \in Desc, OneRequest(c, d),
           sql # <<>>, Head(sql) \in Statement, Head(sql).q # "load", GameSame,
           ReadsOn \/ \E t \in {"LOGIN_SUCCESS", "LOGIN_NOT_EXIST", "LOGIN_ALREADY"} : Answers(t)
    PROVE  OneRequest(c, d)'
  <1> DEFINE e == Head(sql).desc
             h == Head(sql).peer
             q == Tail(sql)
  <1>1. /\ e \in Desc /\ h \in Handle /\ q \in Seq(Statement)
        /\ Head(sql) \in ReadOf(d, link[c]) <=> d = e /\ link[c] = h
    BY StatementIs, SqlTail DEF DbTyped
  <1>2. /\ Some(q, ReadOf(d, link[c])) => Some(sql, ReadOf(d, link[c]))
        /\ d = e /\ link[c] = h => Some(sql, ReadOf(d, link[c]))
    BY <1>1, SqlTakes
  <1>3. /\ Some(sql', ReadOf(d, link[c])) => Some(sql, ReadOf(d, link[c]))
        /\ Some(toGame'[c], AnswerOf(d)) =>
               Some(toGame[c], AnswerOf(d)) \/ Some(sql, ReadOf(d, link[c]))
    <2>1. CASE ReadsOn
      <3> DEFINE n == [q |-> "login", peer |-> h, desc |-> e]
      <3>1. n \in Statement /\ (n \in ReadOf(d, link[c]) <=> d = e /\ link[c] = h)
        <4> HIDE DEF e, h
        <4>1. n \in Statement /\ n.q = "login" /\ n.peer = h /\ n.desc = e
          BY <1>1 DEF Statement
        <4> HIDE DEF n
        <4> QED
          BY <4>1, StatementIs
      <3>2. sql' = Append(q, n) /\ toGame' = toGame
        BY <2>1 DEF ReadsOn
      <3> HIDE DEF n, q, e, h
      <3> QED
        BY <1>1, <1>2, <3>1, <3>2, SqlPuts
    <2>2. CASE \E t \in {"LOGIN_SUCCESS", "LOGIN_NOT_EXIST", "LOGIN_ALREADY"} : Answers(t)
      <3>1. PICK t \in {"LOGIN_SUCCESS", "LOGIN_NOT_EXIST", "LOGIN_ALREADY"} : Answers(t)
        BY <2>2
      <3> DEFINE m == [type |-> t, desc |-> e]
      <3>2. m \in GameMsg /\ m.type = t /\ m.desc = e /\ Reply(h, m) /\ sql' = q
        BY <1>1, <3>1, AnswerAt DEF Answers
      <3> HIDE DEF m, e, h, q
      <3>3. m \in AnswerOf(d) => d = e
        BY <3>2, GameIs
      <3> QED
        BY <1>2, <3>2, <3>3, RepliesAt
    <2> QED
      BY <2>1, <2>2
  <1>4. Line(c)' = Line(c) /\ UNCHANGED <<buffer, link, desc>>
    BY DEF Line, GameSame
  <1> QED
    BY <1>3, <1>4 DEF OneRequest, Asking

LEMMA RequestDb ==
    ASSUME DbTyped, NetTyped, GameTyped, NoDangling, LinkInv, RequestInv, Db
    PROVE  RequestInv'
  <1> SUFFICES ASSUME NEW c \in Core, NEW d \in Desc
               PROVE  OneRequest(c, d)'
    BY DEF RequestInv
  <1>1. OneRequest(c, d)
    BY DEF RequestInv
  <1>2. ASSUME NEW k \in Key, QUERY_AUTH_LOGIN(k) PROVE OneRequest(c, d)'
    <2>1. UNCHANGED <<buffer, up, link, toGame, sql, desc>>
      BY <1>2 DEF QUERY_AUTH_LOGIN, netVars
    <2> QED
      BY <1>1, <2>1, RequestSame
  <1>3. ASSUME NEW h \in Handle, QUERY_LOGIN_BY_KEY(h) PROVE OneRequest(c, d)'
    BY <1>1, <1>3, RequestAsked
  <1>4. ASSUME NEW h \in Handle, QUERY_LOGOUT(h) PROVE OneRequest(c, d)'
    <2>1. Receive(h, "LOGOUT") /\ UNCHANGED <<sql, toGame>>
      BY <1>4 DEF QUERY_LOGOUT
    <2> QED
      BY <1>1, <2>1, FallAt, RequestReceived
  <1>5. ASSUME NEW h \in Handle, QUERY_SETUP(h) PROVE OneRequest(c, d)'
    <2>1. Receive(h, "SETUP") /\ UNCHANGED <<sql, toGame>>
      BY <1>5 DEF QUERY_SETUP
    <2> QED
      BY <1>1, <2>1, FallAt, RequestReceived
  <1>6. ASSUME NEW h \in Handle, QUERY_PLAYER_LOAD(h) PROVE OneRequest(c, d)'
    <2>1. Receive(h, "PLAYER_LOAD")
      BY <1>6 DEF QUERY_PLAYER_LOAD
    <2> DEFINE e == Head(up[h]).desc
    <2>2. Fall(sql, sql', ReadOf(d, link[c])) /\ Fall(toGame[c], toGame'[c], AnswerOf(d))
      <3>1. CASE /\ sql' = Append(sql, [q |-> "load", peer |-> h, desc |-> e])
                 /\ toGame' = toGame
        <4> DEFINE s == [q |-> "load", peer |-> h, desc |-> e]
        <4>1. s \in Statement /\ s.q = "load"
          BY <1>6, PlayerLoadTypes DEF Statement
        <4>2. sql' = Append(sql, s) /\ sql \in Seq(Statement)
          BY <3>1 DEF DbTyped
        <4> HIDE DEF s
        <4>3. s \notin ReadOf(d, link[c])
          BY <4>1, StatementIs
        <4> QED
          BY <3>1, <4>1, <4>2, <4>3, SqlPuts, FallAt DEF Fall
      <3>2. CASE sql' = sql /\ toGame' = toGame
        BY <3>2, FallAt
      <3>3. CASE sql' = sql /\ Reply(h, [type |-> "PLAYER_LOAD", desc |-> e])
        <4> DEFINE m == [type |-> "PLAYER_LOAD", desc |-> e]
        <4>1. m \in GameMsg /\ m.type = "PLAYER_LOAD" /\ Reply(h, m)
          BY <1>6, <3>3, PlayerLoadTypes DEF GameMsg
        <4> HIDE DEF m
        <4>2. m \notin AnswerOf(d)
          BY <4>1, GameIs
        <4> QED
          BY <3>3, <4>1, <4>2, RepliesAt, FallAt DEF Fall
      <3> QED
        BY <1>6, <3>1, <3>2, <3>3, PlayerLoadTypes
    <2> QED
      BY <1>1, <2>1, <2>2, RequestReceived
  <1>7. ASSUME NEW h \in Handle, QUERY_PLAYER_SAVE(h) PROVE OneRequest(c, d)'
    <2>1. Receive(h, "PLAYER_SAVE") /\ UNCHANGED <<sql, toGame>>
      BY <1>7 DEF QUERY_PLAYER_SAVE
    <2> QED
      BY <1>1, <2>1, FallAt, RequestReceived
  <1>8. ASSUME NEW h \in Handle, RemovePeer(h) PROVE OneRequest(c, d)'
    BY <1>1, <1>8, RemoveTypes, RequestSame
  <1>9. ASSUME RESULT_LOGIN_BY_KEY PROVE OneRequest(c, d)'
    <2>1. /\ sql # <<>> /\ GameSame /\ Head(sql) \in Statement /\ Head(sql).q # "load"
          /\ ReadsOn \/ Answers("LOGIN_NOT_EXIST")
      BY <1>9, ReadTypes DEF ReadsOn, Answers
    <2> QED
      BY <1>1, <2>1, RequestResult
  <1>10. ASSUME RESULT_LOGIN PROVE OneRequest(c, d)'
    <2>1. /\ sql # <<>> /\ GameSame /\ Head(sql) \in Statement /\ Head(sql).q # "load"
          /\ Answers("LOGIN_SUCCESS") \/ Answers("LOGIN_ALREADY")
      BY <1>10, ResultLoginTypes, ResultLoginFacts DEF Answers
    <2> QED
      BY <1>1, <2>1, RequestResult
  <1>11. ASSUME RESULT_PLAYER_LOAD PROVE OneRequest(c, d)'
    <2> DEFINE m == [type |-> "PLAYER_LOAD", desc |-> Head(sql).desc]
    <2>1. /\ sql # <<>> /\ sql' = Tail(sql) /\ GameSame
          /\ toGame' = toGame \/ Reply(Head(sql).peer, m)
          /\ m \in GameMsg /\ m.type = "PLAYER_LOAD"
      BY <1>11, ResultPlayerLoadTypes, StatementIs DEF GameMsg
    <2> HIDE DEF m
    <2>2. m \notin AnswerOf(d)
      BY <2>1, GameIs
    <2>3. Fall(toGame[c], toGame'[c], AnswerOf(d))
      <3>1. CASE toGame' = toGame
        BY <3>1, FallAt
      <3>2. CASE Reply(Head(sql).peer, m)
        BY <2>1, <2>2, <3>2, RepliesAt DEF Fall
      <3> QED
        BY <2>1, <3>1, <3>2
    <2>4. Fall(sql, sql', ReadOf(d, link[c]))
      BY <2>1, SqlTakes DEF Fall
    <2>5. Line(c)' = Line(c)
      BY <2>1 DEF GameSame, Line
    <2> QED
      BY <1>1, <2>1, <2>3, <2>4, <2>5, FallAt, RequestFalls DEF GameSame
  <1>12. ASSUME DropResult PROVE OneRequest(c, d)'
    <2>1. sql # <<>> /\ sql' = Tail(sql) /\ GameSame /\ toGame' = toGame
      BY <1>12, DropTypes
    <2>2. Fall(sql, sql', ReadOf(d, link[c]))
      BY <2>1, SqlTakes DEF Fall
    <2>3. Line(c)' = Line(c)
      BY <2>1 DEF GameSame, Line
    <2> QED
      BY <1>1, <2>1, <2>2, <2>3, FallAt, RequestFalls DEF GameSame
  <1>13. ASSUME UpdateLogoutPlayer PROVE OneRequest(c, d)'
    <2>1. UNCHANGED <<buffer, up, link, toGame, sql, desc>>
      BY <1>13, FlushTypes DEF GameSame
    <2> QED
      BY <1>1, <2>1, RequestSame
  <1>14. ASSUME DbRestart PROVE OneRequest(c, d)'
    <2>1. /\ sql' = <<>> /\ link'[c] = None /\ toGame'[c] = <<>> /\ UNCHANGED <<buffer, desc>>
      BY <1>14 DEF DbRestart
    <2>2. Line(c)' = <<>>
      BY <2>1 DEF Line
    <2>3. ~Some(sql', ReadOf(d, link'[c]))
      BY <2>1, EmptyAt
    <2> QED
      BY <1>1, <2>1, <2>2, <2>3, FallAt, RequestFalls
  <1> QED
    BY <1>2, <1>3, <1>4, <1>5, <1>6, <1>7, <1>8, <1>9, <1>10, <1>11, <1>12, <1>13, <1>14 DEF Db

\* One packet that is sent.
LEMMA OneSent ==
    ASSUME NEW m \in UpMsg, NEW M
    PROVE  (Some(<<m>>, M) <=> m \in M) /\ Once(<<m>>, M)
  BY ShortAt

\* A client shows a key: what is asked for it is asked of its core.
LEMMA RequestShown ==
    ASSUME RequestInv, NEW c \in Core, NEW d \in Desc, Shows(d, c),
           \A b \in Core, e \in Desc : Asking(b, e)' => Asking(b, e) \/ (b = c /\ e = d)
    PROVE  RequestInv'
  <1> SUFFICES ASSUME NEW b \in Core, NEW e \in Desc
               PROVE  OneRequest(b, e)'
    BY DEF RequestInv
  <1>1. OneRequest(b, e) /\ (Asking(b, e)' => Asking(b, e) \/ (b = c /\ e = d))
    BY DEF RequestInv
  <1> QED
    BY <1>1 DEF OneRequest, Shows

LEMMA RequestMade ==
    ASSUME DbTyped, NetTyped, GameTyped, NoDangling, LinkInv, RequestInv,
           NEW c \in Core, NEW d \in Desc, NEW k \in Key, LoginByKey(d, c, k)
    PROVE  RequestInv'
  <1> DEFINE m == [type |-> "LOGIN_BY_KEY", desc |-> d, key |-> k]
  <1>1. m \in UpMsg /\ Sends(c, <<m>>) /\ UNCHANGED <<link, sql, toGame>> /\ Shows(d, c)
    BY LoginByKeyTypes, AskAt DEF dbVars
  <1>2. \A e : m \in AskOf(e) <=> e = d
    BY AskAt
  <1> HIDE DEF m
  <1>3. ASSUME NEW b \in Core, NEW e \in Desc, Asking(b, e)'
        PROVE  Asking(b, e) \/ (b = c /\ e = d)
    <2>1. Some(<<m>>, AskOf(e)) <=> e = d
      BY <1>1, <1>2, OneSent
    <2>2. /\ Some(buffer'[b], AskOf(e)) => Some(buffer[b], AskOf(e)) \/ (b = c /\ e = d)
          /\ Some(Line(b)', AskOf(e)) => Some(Line(b), AskOf(e)) \/ (b = c /\ e = d)
      BY <1>1, <2>1, SendsAt
    <2> QED
      BY <1>1, <1>3, <2>2 DEF Asking
  <1> QED
    BY <1>1, <1>3, RequestShown

\* A core changes its clients, and takes or sends what asks for nothing.
LEMMA RequestSteady ==
    ASSUME NetTyped, RequestInv, UNCHANGED <<link, sql>>,
           \A b \in Core, e \in Desc :
               /\ Some(buffer'[b], AskOf(e)) => Some(buffer[b], AskOf(e))
               /\ Some(Line(b)', AskOf(e)) => Some(Line(b), AskOf(e))
               /\ Some(toGame'[b], AnswerOf(e)) => Some(toGame[b], AnswerOf(e)),
           \A e \in Desc : /\ desc'[e].core = desc[e].core
                           /\ desc[e].phase # "unused" => desc'[e].phase # "unused"
    PROVE  RequestInv'
  BY DEF RequestInv, OneRequest, Asking

\* A core loses its connection, and whatever was on it, or its process.
LEMMA RequestBroken ==
    ASSUME DbTyped, NetTyped, LinkInv, RequestInv, NEW c \in Core, Breaks(c),
           \A d \in Desc :
               /\ desc'[d].core = desc[d].core
               /\ desc[d].phase # "unused" => desc'[d].phase # "unused"
    PROVE  RequestInv'
  <1> SUFFICES ASSUME NEW b \in Core, NEW e \in Desc
               PROVE  OneRequest(b, e)'
    BY DEF RequestInv
  <1>1. OneRequest(b, e) /\ Fall(buffer[b], buffer'[b], AskOf(e))
    BY FallAt DEF RequestInv, Breaks
  <1>2. CASE b = c
    <2>1. link'[b] = None /\ toGame'[b] = <<>> /\ Line(b)' = <<>>
      BY <1>2 DEF Breaks, Line
    <2>2. ReadOf(e, None) = {}
      BY ConstantTypes DEF ReadOf, Statement
    <2>3. ~Some(sql', ReadOf(e, None))
      BY <2>2 DEF Some
    <2> QED
      BY <1>1, <2>1, <2>3, FallAt, RequestFalls
  <1>3. CASE b # c
    <2>1. link'[b] = link[b] /\ toGame'[b] = toGame[b] /\ sql' = sql
      BY <1>3 DEF Breaks, dbVars
    <2>2. Line(b)' = Line(b)
      <3>1. CASE link[b] = None
        BY <2>1, <3>1 DEF Line
      <3>2. CASE link[b] # None
        <4>1. link[b] \in Handle /\ link[b] # link[c]
          BY <1>3, <3>2, LineTypes DEF LinkInv
        <4>2. up'[link[b]] = up[link[b]]
          BY <4>1 DEF Breaks
        <4> QED
          BY <2>1, <4>2 DEF Line
      <3> QED
        BY <3>1, <3>2
    <2> QED
      BY <1>1, <2>1, <2>2, FallAt, RequestFalls
  <1> QED
    BY <1>2, <1>3

\* On a new connection everything that was kept back is sent, and then SETUP.
LEMMA NewLine ==
    ASSUME NetTyped, LinkInv, NEW c \in Core, link[c] = None, bounds.handle \in Handle,
           link'[c] = bounds.handle, \A e \in Core : e # c => link'[e] = link[e],
           up'[bounds.handle] = Append(buffer[c], SetupOf(c)),
           \A h \in Handle : h # bounds.handle => up'[h] = up[h]
    PROVE  /\ Line(c)' = Append(buffer[c], SetupOf(c))
           /\ \A e \in Core : e # c => Line(e)' = Line(e) /\ link[e] # bounds.handle
           /\ up[bounds.handle] = <<>>
           /\ bounds.handle \notin peers /\ ~Some(sql, FromPeer(bounds.handle))
  <1>1. bounds.handle # None /\ bounds.handle \in Nat
    BY ConstantTypes
  <1>2. ~(bounds.handle < bounds.handle)
    BY <1>1
  <1>3. bounds.handle \notin peers
    BY <1>2 DEF LinkInv
  <1>4. \A e \in Core : e # c => Line(e)' = Line(e) /\ link[e] # bounds.handle
    <2> SUFFICES ASSUME NEW e \in Core, e # c
                 PROVE  Line(e)' = Line(e) /\ link[e] # bounds.handle
      OBVIOUS
    <2>1. link[e] # bounds.handle
      BY <1>1, <1>3 DEF LinkInv
    <2>2. link[e] # None => up'[link[e]] = up[link[e]]
      BY <2>1, LineTypes
    <2> QED
      BY <2>1, <2>2 DEF Line
  <1>5. bounds.handle >= bounds.handle
    BY <1>1
  <1> QED
    BY <1>1, <1>3, <1>4, <1>5 DEF Line, LinkInv

LEMMA RequestReconnect ==
    ASSUME DbTyped, NetTyped, GameTyped, NoDangling, LinkInv, RequestInv,
           NEW c \in Core, Reconnect(c)
    PROVE  RequestInv'
  <1> DEFINE m == SetupOf(c)
  <1>1. /\ Line(c)' = Append(buffer[c], m) /\ \A b \in Core : b # c => Line(b)' = Line(b)
        /\ link'[c] = bounds.handle /\ link[c] = None /\ ~Some(sql, FromPeer(bounds.handle))
        /\ \A b \in Core : b # c => link'[b] = link[b] /\ buffer'[b] = buffer[b]
        /\ buffer'[c] = <<>> /\ UNCHANGED <<sql, toGame, desc>>
    BY ReconnectTypes, NewLine DEF dbVars
  <1>2. m \in UpMsg /\ \A e : m \notin AskOf(e)
    BY SetupOfAt
  <1> HIDE DEF m
  <1> SUFFICES ASSUME NEW b \in Core, NEW e \in Desc
               PROVE  OneRequest(b, e)'
    BY DEF RequestInv
  <1>3. OneRequest(b, e)
    BY DEF RequestInv
  <1>4. CASE b = c
    <2>1. buffer[c] \in Seq(UpMsg) /\ m \notin AskOf(e)
      BY <1>2 DEF NetTyped
    <2>2. Some(Line(c)', AskOf(e)) => Some(buffer[c], AskOf(e))
      BY <1>1, <1>2, <2>1, AppendAt
    <2>3. ~Some(sql', ReadOf(e, bounds.handle))
      <3>1. ReadOf(e, bounds.handle) \subseteq FromPeer(bounds.handle)
        BY DEF ReadOf, FromPeer
      <3> QED
        BY <1>1, <3>1 DEF Some
    <2>4. ~Some(buffer'[c], AskOf(e))
      BY <1>1, EmptyAt
    <2> QED
      BY <1>1, <1>3, <1>4, <2>2, <2>3, <2>4 DEF OneRequest, Asking
  <1>5. CASE b # c
    BY <1>1, <1>3, <1>5, FallAt, RequestFalls
  <1> QED
    BY <1>4, <1>5

LEMMA RequestGame ==
    ASSUME DbTyped, NetTyped, GameTyped, NoDangling, LinkInv, RequestInv, Game
    PROVE  RequestInv'
  <1>1. ASSUME NEW d \in Desc, NEW c \in Core, NEW k \in Key, LoginByKey(d, c, k)
        PROVE  RequestInv'
    BY <1>1, RequestMade
  <1>2. ASSUME NEW d \in Desc, NEW c \in Core, LoginByOtherKey(d, c) PROVE RequestInv'
    <2>1. Shows(d, c) /\ UNCHANGED <<up, link, buffer, toGame, sql>>
      BY <1>2, LoginByOtherKeyTypes DEF netVars, dbVars
    <2>2. \A b \in Core, e \in Desc : Asking(b, e)' => Asking(b, e)
      BY <2>1 DEF Asking, Line
    <2> QED
      BY <2>1, <2>2, RequestShown
  <1>3. ASSUME NEW d \in Desc, Steady(d), UNCHANGED <<dbVars, netVars>> PROVE RequestInv'
    <2>1. UNCHANGED <<up, link, buffer, toGame, sql>>
      BY <1>3 DEF netVars, dbVars
    <2>2. \A b \in Core : Line(b)' = Line(b)
      BY <2>1 DEF Line
    <2> QED
      BY <1>3, <2>1, <2>2, RequestSteady DEF Steady
  <1>4. ASSUME NEW d \in Desc, OtherLoginSuccess(d) PROVE RequestInv'
    BY <1>3, <1>4, OtherLoginSuccessTypes
  <1>5. ASSUME NEW d \in Desc, OtherPlayerLoad(d) \/ Entergame(d) PROVE RequestInv'
    BY <1>3, <1>5, LocalTypes DEF Local
  <1>6. ASSUME NEW c \in Core, NEW ms, Sends(c, ms), \A e : ~Some(ms, AskOf(e)),
               UNCHANGED <<link, sql>>,
               \A b \in Core, e \in Desc :
                   Some(toGame'[b], AnswerOf(e)) => Some(toGame[b], AnswerOf(e)),
               \A e \in Desc : /\ desc'[e].core = desc[e].core
                               /\ desc[e].phase # "unused" => desc'[e].phase # "unused"
        PROVE  RequestInv'
    <2>1. \A b \in Core, e \in Desc :
               /\ Some(buffer'[b], AskOf(e)) => Some(buffer[b], AskOf(e))
               /\ Some(Line(b)', AskOf(e)) => Some(Line(b), AskOf(e))
      BY <1>6, SendsAt
    <2> QED
      BY <1>6, <2>1, RequestSteady
  <1>7. ASSUME NEW d \in Desc, CharacterSelect(d) PROVE RequestInv'
    <2> DEFINE m == [type |-> "PLAYER_LOAD", desc |-> d]
    <2>1. /\ desc[d].core \in Core /\ Sends(desc[d].core, <<m>>)
          /\ UNCHANGED <<link, sql, toGame, desc>>
      BY <1>7, CharacterSelectTypes, OnCore DEF dbVars
    <2>2. m \in UpMsg /\ \A e : m \notin AskOf(e)
      BY LoadAt
    <2> HIDE DEF m
    <2>3. \A e : ~Some(<<m>>, AskOf(e))
      BY <2>2, OneSent
    <2> QED
      BY <1>6, <2>1, <2>3
  <1>8. ASSUME NEW d \in Desc, PhaseSelect(d) PROVE RequestInv'
    <2>1. /\ desc[d].core \in Core /\ Sends(desc[d].core, Save(d)) /\ Steady(d)
          /\ UNCHANGED <<link, sql, toGame>>
      BY <1>8, PhaseSelectTypes, OnCore DEF dbVars
    <2> QED
      BY <1>6, <2>1, SavedAt DEF Steady
  <1>9. ASSUME NEW d \in Desc, Destroy(d) PROVE RequestInv'
    <2>1. /\ desc[d].core \in Core /\ Sends(desc[d].core, Farewell(d)) /\ Steady(d)
          /\ UNCHANGED <<link, sql, toGame>>
      BY <1>9, DestroyTypes, OnCore DEF dbVars, Steady
    <2> QED
      BY <1>6, <2>1, FarewellAt DEF Steady
  <1>10. ASSUME NEW c \in Core, NEW d \in Desc, Takes(c, d), UNCHANGED <<up, buffer, link, sql>>,
                \A e \in Desc : e # d => desc'[e] = desc[e],
                desc'[d].core = desc[d].core, desc'[d].phase # "unused" \/ desc' = desc
         PROVE  RequestInv'
    <2>1. \A b \in Core, e \in Desc : /\ Line(b)' = Line(b)
                                      /\ Some(toGame'[b], AnswerOf(e)) => Some(toGame[b], AnswerOf(e))
      BY <1>10, TakesAt DEF Line
    <2> QED
      BY <1>10, <2>1, RequestSteady
  <1>11. ASSUME NEW c \in Core, LoginSuccess(c) PROVE RequestInv'
    <2>1. PICK d \in Desc :
                /\ Takes(c, d)
                /\ \/ Sends(c, <<Logout(d)>>) /\ desc' = desc
                   \/ /\ \A e \in Desc : e # d => desc'[e] = desc[e]
                      /\ desc'[d].phase = "login" /\ desc'[d].core = desc[d].core
                      /\ UNCHANGED <<up, buffer>>
      BY <1>11, LoginSuccessTypes
    <2>2. UNCHANGED <<link, sql>>
      BY <1>11, LoginSuccessTypes DEF dbVars
    <2>3. CASE Sends(c, <<Logout(d)>>) /\ desc' = desc
      <3>1. \A e : ~Some(<<Logout(d)>>, AskOf(e))
        BY LogoutAt, OneSent
      <3>2. \A b \in Core, e \in Desc : Some(toGame'[b], AnswerOf(e)) => Some(toGame[b], AnswerOf(e))
        BY <2>1, TakesAt
      <3> QED
        BY <1>6, <2>2, <2>3, <3>1, <3>2
    <2> QED
      BY <1>10, <2>1, <2>2, <2>3
  <1>12. ASSUME NEW c \in Core, LoginFailure(c) PROVE RequestInv'
    <2>1. PICK d \in Desc : Takes(c, d)
      BY <1>12, LoginFailureTypes
    <2> QED
      BY <1>10, <1>12, <2>1, LoginFailureTypes DEF dbVars
  <1>13. ASSUME NEW c \in Core, PlayerLoad(c) PROVE RequestInv'
    <2>1. UNCHANGED <<up, buffer, link, sql>>
      BY <1>13, PlayerLoadedTypes DEF dbVars
    <2>2. PICK d \in Desc :
                /\ Takes(c, d)
                /\ \/ desc' = desc
                   \/ /\ \A e \in Desc : e # d => desc'[e] = desc[e]
                      /\ desc'[d].phase = desc[d].phase /\ desc'[d].core = desc[d].core
      BY <1>13, PlayerLoadedTypes
    <2>3. \A b \in Core, e \in Desc : /\ Line(b)' = Line(b)
                                      /\ Some(toGame'[b], AnswerOf(e)) => Some(toGame[b], AnswerOf(e))
      BY <2>1, <2>2, TakesAt DEF Line
    <2>4. \A e \in Desc : desc'[e].phase = desc[e].phase /\ desc'[e].core = desc[e].core
      BY <2>2
    <2> QED
      BY <2>1, <2>3, <2>4, RequestSteady
  <1>14. ASSUME NEW c \in Core, LinkLoss(c) PROVE RequestInv'
    BY <1>14, LinkLossTypes, RequestBroken
  <1>15. ASSUME NEW c \in Core, CoreCrash(c) PROVE RequestInv'
    <2>1. \A d \in Desc : /\ desc'[d].core = desc[d].core
                          /\ desc[d].phase # "unused" => desc'[d].phase # "unused"
      BY <1>15, CoreCrashTypes
    <2> QED
      BY <1>15, <2>1, CoreCrashTypes, RequestBroken
  <1>16. ASSUME NEW c \in Core, Reconnect(c) PROVE RequestInv'
    BY <1>16, RequestReconnect
  <1> QED
    BY <1>1, <1>2, <1>4, <1>5, <1>7, <1>8, <1>9, <1>11, <1>12, <1>13, <1>14, <1>15, <1>16
       DEF Game

LEMMA RequestStep ==
    ASSUME DbTyped, NetTyped, GameTyped, NoDangling, LinkInv, RequestInv, Next
    PROVE  RequestInv'
  BY RequestDb, RequestGame DEF Next

-----------------------------------------------------------------------------
(***************************************************************************)
(* Connections.                                                             *)
(***************************************************************************)

\* A step of the db that neither opens nor closes a connection.
LEMMA LinkKept ==
    ASSUME NetTyped, GameTyped, LinkInv, UNCHANGED <<link, buffer, desc, bounds, peers>>,
           \A h \in Handle \ peers : up'[h] = up[h],
           \A g \in Handle : Some(sql', FromPeer(g)) => Some(sql, FromPeer(g)) \/ g \in peers,
           \A c \in Core : link[c] = None =>
               toGame'[c] = toGame[c] /\ BoundOn(c) \cap lost \subseteq lost',
           lost' \subseteq lost,
           logon' # None => heap'[logon'].peer \in peers
    PROVE  LinkInv'
  <1>1. \A g \in Handle : g >= bounds.handle => ~Some(sql', FromPeer(g))
    <2> SUFFICES ASSUME NEW g \in Handle, g >= bounds.handle, g \in peers
                 PROVE  FALSE
      BY DEF LinkInv
    <2>1. g < bounds.handle /\ g \in Nat /\ bounds.handle \in Nat
      BY DeskTypes, ConstantTypes DEF LinkInv
    <2> QED
      BY <2>1
  <1>2. \A c \in Core : BoundOn(c)' = BoundOn(c)
    BY DEF BoundOn, Bound
  <1>3. \A d : Bound(d)' = Bound(d)
    BY DEF Bound
  <1>4. Placed' = Placed
    BY DEF Placed
  <1> QED
    BY <1>1, <1>2, <1>3, <1>4 DEF LinkInv

\* A step of a client or its core that neither opens nor closes a connection.
LEMMA LinkDesk ==
    ASSUME NetTyped, GameTyped, LinkInv, UNCHANGED <<dbVars, link, peers>>,
           bounds'.handle = bounds.handle,
           \A h \in Handle \ peers : up'[h] = up[h],
           \A c \in Core : link[c] = None =>
               toGame'[c] = toGame[c] /\ BoundOn(c)' \subseteq lost',
           \A c \in Core : ~Some(buffer'[c], LogoutMsg),
           \A d \in lost' : Bound(d)',
           Placed'
    PROVE  LinkInv'
  BY DEF LinkInv, dbVars

\* The db takes a packet; it answers on that connection.
LEMMA LinkReceived ==
    ASSUME NetTyped, GameTyped, LinkInv, NEW h \in Handle, NEW type, Receive(h, type),
           \A g \in Handle : Some(sql', FromPeer(g)) => Some(sql, FromPeer(g)) \/ g = h,
           \A c \in Core : link[c] = None =>
               toGame'[c] = toGame[c] /\ BoundOn(c) \cap lost \subseteq lost',
           lost' \subseteq lost,
           logon' # None => heap'[logon'].peer \in peers
    PROVE  LinkInv'
  <1>1. /\ h \in peers /\ UNCHANGED <<link, buffer, desc, bounds, peers>>
        /\ \A g \in Handle : g # h => up'[g] = up[g]
    BY ReceivesAt
  <1>2. \A g \in Handle : Some(sql', FromPeer(g)) => Some(sql, FromPeer(g)) \/ g \in peers
    BY <1>1
  <1>3. \A g \in Handle \ peers : up'[g] = up[g]
    BY <1>1
  <1> QED
    BY <1>1, <1>2, <1>3, LinkKept

\* An answer goes to the core that has the connection.
LEMMA Answered ==
    ASSUME NetTyped, NEW h \in Handle, NEW m \in GameMsg, Reply(h, m)
    PROVE  \A c \in Core : link[c] = None => toGame'[c] = toGame[c]
  <1>1. h # None
    BY ConstantTypes
  <1> QED
    BY <1>1, RepliesAt

LEMMA SqlPut ==
    ASSUME DbTyped, NEW h \in Handle, NEW d \in Desc, NEW t \in {"key", "login", "load"},
           NEW q \in Seq(Statement), \A M : Some(q, M) => Some(sql, M),
           sql' = Append(q, [q |-> t, peer |-> h, desc |-> d])
    PROVE  \A g \in Handle : Some(sql', FromPeer(g)) => Some(sql, FromPeer(g)) \/ g = h
  <1> DEFINE s == [q |-> t, peer |-> h, desc |-> d]
  <1>1. s \in Statement /\ s.peer = h
    BY StatementAt
  <1>2. sql' = Append(q, s)
    OBVIOUS
  <1> HIDE DEF s
  <1>3. \A g : s \in FromPeer(g) => g = h
    BY <1>1, StatementIs
  <1> QED
    BY <1>1, <1>2, <1>3, SqlPuts

\* The entry stays where it was.
LEMMA EntryStays ==
    ASSUME LinkInv, EntrySame
    PROVE  logon' # None => heap'[logon'].peer \in peers
  BY DEF LinkInv, EntrySame

\* SETUP gives back entries of clients of the core that sent it.
LEMMA SetupListed ==
    ASSUME NetTyped, SetupInv, NEW h \in Handle, Receive(h, "SETUP"),
           NEW c \in Core, link[c] = h, NEW d \in DOMAIN Head(up[h]).keys
    PROVE  /\ desc[d].core = c
           /\ \/ Bound(d) \/ "left" \in odd
              \/ desc[d].phase = "closed" /\ Some(up'[h], AnyLogout)
  <1>1. /\ up[h] # <<>> /\ up[h] \in Seq(UpMsg) /\ Head(up[h]) \in UpMsg
        /\ Head(up[h]).type = "SETUP" /\ Line(c) = up[h] /\ up'[h] = Tail(up[h])
        /\ h # None
    <2>1. up \in [Handle -> Seq(UpMsg)] /\ h # None
      BY ConstantTypes DEF NetTyped
    <2>2. /\ up[h] # <<>> /\ Head(up[h]) \in UpMsg /\ Head(up[h]).type = "SETUP"
          /\ up'[h] = Tail(up[h])
      BY <2>1, ReceiveAt
    <2> QED
      BY <2>1, <2>2 DEF Line
  <1>2. /\ 1 \in DOMAIN up[h] /\ Head(up[h]) = up[h][1] /\ DOMAIN up[h] = 1 .. Len(up[h])
        /\ DOMAIN Tail(up[h]) = 1 .. Len(up[h]) - 1 /\ Len(up[h]) \in Nat
        /\ \A j \in 1 .. Len(up[h]) - 1 : Tail(up[h])[j] = up[h][j + 1]
    BY <1>1
  <1>3. /\ desc[d].core = c
        /\ \/ Bound(d) \/ "left" \in odd
           \/ /\ desc[d].phase = "closed"
              /\ \E j \in DOMAIN up[h] : 1 < j /\ up[h][j].type = "LOGOUT"
    BY <1>1, <1>2 DEF SetupInv, OneSetup, Followed
  <1>4. ASSUME NEW j \in DOMAIN up[h], 1 < j, up[h][j].type = "LOGOUT"
        PROVE  Some(up'[h], AnyLogout)
    <2>1. j - 1 \in DOMAIN Tail(up[h]) /\ Tail(up[h])[j - 1] = up[h][j]
      BY <1>2, <1>4
    <2>2. up[h][j] \in UpMsg
      BY <1>1, <1>2, <1>4
    <2> QED
      BY <1>1, <1>4, <2>1, <2>2 DEF Some, AnyLogout
  <1> QED
    BY <1>3, <1>4

LEMMA LinkSetup ==
    ASSUME DbTyped, NetTyped, GameTyped, NoDangling, LinkInv, SetupInv,
           NEW h \in Handle, QUERY_SETUP(h)
    PROVE  LinkInv'
  <1>1. Receive(h, "SETUP") /\ UNCHANGED <<sql, toGame>>
    BY DEF QUERY_SETUP
  <1>2. h \in peers /\ h # None /\ up \in [Handle -> Seq(UpMsg)]
    BY <1>1, ReceivesAt, ConstantTypes DEF NetTyped
  <1>3. CASE EntrySame /\ UNCHANGED <<logon, lost>>
    BY <1>1, <1>3, EntryStays, LinkReceived
  <1>4. CASE /\ heap'[logon'].peer = h
             /\ \E d \in DOMAIN Head(up[h]).keys :
                    lost' = IF \E c \in Core : link[c] = h THEN lost \ {d} ELSE lost
    <2>1. PICK d \in DOMAIN Head(up[h]).keys :
            lost' = IF \E c \in Core : link[c] = h THEN lost \ {d} ELSE lost
      BY <1>4
    <2>2. ASSUME NEW c \in Core, link[c] = None, NEW e \in BoundOn(c) \cap lost
          PROVE  e \in lost'
      <3>1. ASSUME NEW b \in Core, link[b] = h PROVE e # d
        <4>1. desc[d].core = b
          BY <1>1, <3>1, SetupListed
        <4>2. desc[e].core = c
          BY <2>2 DEF BoundOn
        <4> QED
          BY <1>2, <2>2, <3>1, <4>1, <4>2
      <3> QED
        BY <2>1, <2>2, <3>1
    <2>3. lost' \subseteq lost
      BY <2>1
    <2>4. \A c \in Core : link[c] = None =>
            toGame'[c] = toGame[c] /\ BoundOn(c) \cap lost \subseteq lost'
      BY <1>1, <2>2
    <2> QED
      BY <1>1, <1>2, <1>4, <2>3, <2>4, LinkReceived
  <1> QED
    BY <1>2, <1>3, <1>4, SetupFacts

LEMMA LinkDb ==
    ASSUME DbTyped, NetTyped, GameTyped, NoDangling, LinkInv, SetupInv, Db
    PROVE  LinkInv'
  <1>1. ASSUME NEW k \in Key, QUERY_AUTH_LOGIN(k) PROVE LinkInv'
    <2>1. UNCHANGED <<peers, up, link, buffer, toGame, desc, lost, sql>>
      BY <1>1 DEF QUERY_AUTH_LOGIN, netVars
    <2>2. bounds'.handle = bounds.handle
      BY <1>1, CounterAt DEF QUERY_AUTH_LOGIN, GameTyped
    <2>3. logon' # None => heap'[logon'].peer \in peers
      BY <1>1, AuthFacts, EntryStays
    <2>4. \A c \in Core : BoundOn(c)' = BoundOn(c)
      BY <2>1 DEF BoundOn, Bound
    <2>5. \A d : Bound(d)' = Bound(d)
      BY <2>1 DEF Bound
    <2> QED
      BY <2>1, <2>2, <2>3, <2>4, <2>5 DEF LinkInv, Placed
  <1>2. ASSUME NEW h \in Handle, QUERY_LOGIN_BY_KEY(h) PROVE LinkInv'
    <2>1. Receive(h, "LOGIN_BY_KEY") /\ UNCHANGED <<heap, logon, lost>>
      BY <1>2 DEF QUERY_LOGIN_BY_KEY
    <2> DEFINE e == Head(up[h]).desc
    <2>2. /\ \A g \in Handle : Some(sql', FromPeer(g)) => Some(sql, FromPeer(g)) \/ g = h
          /\ \A c \in Core : link[c] = None => toGame'[c] = toGame[c]
      <3>1. e \in Desc
        BY <1>2, AskTypes
      <3>2. CASE /\ sql' = Append(sql, [q |-> "key", peer |-> h, desc |-> e])
                 /\ toGame' = toGame
        <4> HIDE DEF e
        <4>1. sql \in Seq(Statement)
          BY DEF DbTyped
        <4> QED
          BY <3>1, <3>2, <4>1, SqlPut
      <3>3. CASE /\ sql' = sql
                 /\ \E t \in {"LOGIN_NOT_EXIST", "LOGIN_ALREADY"} :
                        Reply(h, [type |-> t, desc |-> e])
        <4> HIDE DEF e
        <4>1. PICK t \in {"LOGIN_NOT_EXIST", "LOGIN_ALREADY"} : Reply(h, [type |-> t, desc |-> e])
          BY <3>3
        <4>2. [type |-> t, desc |-> e] \in GameMsg
          BY <3>1 DEF GameMsg
        <4> QED
          BY <3>3, <4>1, <4>2, Answered
      <3> QED
        BY <1>2, <3>2, <3>3, AskTypes
    <2>3. logon' # None => heap'[logon'].peer \in peers
      BY <2>1 DEF LinkInv
    <2> QED
      BY <2>1, <2>2, <2>3, LinkReceived
  <1>3. ASSUME NEW h \in Handle, QUERY_LOGOUT(h) PROVE LinkInv'
    <2>1. Receive(h, "LOGOUT") /\ UNCHANGED <<sql, toGame, lost>>
      BY <1>3 DEF QUERY_LOGOUT
    <2>2. logon' # None => heap'[logon'].peer \in peers
      <3>1. logon' = None \/ EntrySame
        BY <1>3, LogoutTypes
      <3> QED
        BY <3>1, EntryStays
    <2> QED
      BY <2>1, <2>2, LinkReceived
  <1>4. ASSUME NEW h \in Handle, QUERY_SETUP(h) PROVE LinkInv'
    BY <1>4, LinkSetup
  <1>5. ASSUME NEW h \in Handle, QUERY_PLAYER_LOAD(h) PROVE LinkInv'
    <2>1. Receive(h, "PLAYER_LOAD")
      BY <1>5 DEF QUERY_PLAYER_LOAD
    <2> DEFINE e == Head(up[h]).desc
    <2>2. lost' = lost /\ EntrySame /\ e \in Desc
      BY <1>5, PlayerLoadTypes
    <2>3. /\ \A g \in Handle : Some(sql', FromPeer(g)) => Some(sql, FromPeer(g)) \/ g = h
          /\ \A c \in Core : link[c] = None => toGame'[c] = toGame[c]
      <3>1. CASE /\ sql' = Append(sql, [q |-> "load", peer |-> h, desc |-> e])
                 /\ toGame' = toGame
        <4> HIDE DEF e
        <4>1. sql \in Seq(Statement)
          BY DEF DbTyped
        <4> QED
          BY <2>2, <3>1, <4>1, SqlPut
      <3>2. CASE sql' = sql /\ toGame' = toGame
        BY <3>2
      <3>3. CASE sql' = sql /\ Reply(h, [type |-> "PLAYER_LOAD", desc |-> e])
        <4> HIDE DEF e
        <4>1. [type |-> "PLAYER_LOAD", desc |-> e] \in GameMsg
          BY <2>2 DEF GameMsg
        <4> QED
          BY <3>3, <4>1, Answered
      <3> QED
        BY <1>5, <3>1, <3>2, <3>3, PlayerLoadTypes
    <2> QED
      BY <2>1, <2>2, <2>3, EntryStays, LinkReceived
  <1>6. ASSUME NEW h \in Handle, QUERY_PLAYER_SAVE(h) PROVE LinkInv'
    <2>1. Receive(h, "PLAYER_SAVE") /\ UNCHANGED <<sql, toGame, lost, heap, logon>>
      BY <1>6 DEF QUERY_PLAYER_SAVE
    <2>2. logon' # None => heap'[logon'].peer \in peers
      BY <2>1 DEF LinkInv
    <2> QED
      BY <2>1, <2>2, LinkReceived
  <1>7. ASSUME NEW h \in Handle, RemovePeer(h) PROVE LinkInv'
    <2>1. /\ h \in peers /\ \A c \in Core : link[c] # h
          /\ up[h] = <<>> /\ peers' = peers \ {h}
          /\ UNCHANGED <<sql, up, link, buffer, toGame, desc, lost, bounds>>
          /\ Entry(h) => logon' = None
          /\ ~Entry(h) => EntrySame
      BY <1>7, RemoveTypes
    <2>2. logon' # None => heap'[logon'].peer \in peers'
      <3>1. CASE Entry(h)
        BY <2>1, <3>1
      <3>2. CASE ~Entry(h)
        BY <2>1, <3>2 DEF EntrySame, Entry, LinkInv
      <3> QED
        BY <3>1, <3>2
    <2>3. \A c \in Core : BoundOn(c)' = BoundOn(c)
      BY <2>1 DEF BoundOn, Bound
    <2>4. \A d : Bound(d)' = Bound(d)
      BY <2>1 DEF Bound
    <2> QED
      BY <2>1, <2>2, <2>3, <2>4 DEF LinkInv, Placed
  <1>8. ASSUME RESULT_LOGIN_BY_KEY PROVE LinkInv'
    <2> DEFINE h == Head(sql).peer
               e == Head(sql).desc
               q == Tail(sql)
    <2>1. /\ GameSame /\ UNCHANGED <<heap, logon>> /\ Head(sql) \in Statement /\ sql # <<>>
          /\ Head(sql) \in FromPeer(h) /\ h \in Handle /\ e \in Desc
      BY <1>8, ReadTypes, StatementIs
    <2>2. q \in Seq(Statement) /\ \A M : Some(q, M) => Some(sql, M)
      BY <2>1, SqlTakes, SqlTail DEF DbTyped
    <2>3. Some(sql, FromPeer(h))
      BY <2>1, SqlTakes
    <2>4. /\ \A g \in Handle : Some(sql', FromPeer(g)) => Some(sql, FromPeer(g))
          /\ \A c \in Core : link[c] = None => toGame'[c] = toGame[c]
      <3>1. CASE /\ sql' = Append(q, [q |-> "login", peer |-> h, desc |-> e])
                 /\ toGame' = toGame
        <4> HIDE DEF h, e, q
        <4>1. \A g \in Handle : Some(sql', FromPeer(g)) => Some(sql, FromPeer(g)) \/ g = h
          BY <2>1, <2>2, <3>1, SqlPut
        <4> QED
          BY <2>3, <3>1, <4>1
      <3>2. CASE sql' = q /\ Reply(h, [type |-> "LOGIN_NOT_EXIST", desc |-> e])
        <4> HIDE DEF h, e, q
        <4>1. [type |-> "LOGIN_NOT_EXIST", desc |-> e] \in GameMsg
          BY <2>1 DEF GameMsg
        <4> QED
          BY <2>1, <2>2, <3>2, <4>1, Answered
      <3> QED
        BY <1>8, <3>1, <3>2, ReadTypes
    <2>5. logon' # None => heap'[logon'].peer \in peers
      BY <2>1 DEF LinkInv
    <2> QED
      BY <2>1, <2>4, <2>5, LinkKept DEF GameSame
  <1>9. ASSUME RESULT_LOGIN PROVE LinkInv'
    <2> DEFINE h == Head(sql).peer
               e == Head(sql).desc
    <2>1. /\ GameSame /\ sql # <<>> /\ sql' = Tail(sql) /\ Head(sql) \in Statement
          /\ h \in peers /\ e \in Desc /\ h \in Handle
          /\ \/ heap'[logon'].peer = h /\ Reply(h, [type |-> "LOGIN_SUCCESS", desc |-> e])
             \/ EntrySame /\ Reply(h, [type |-> "LOGIN_ALREADY", desc |-> e])
      BY <1>9, ResultLoginTypes, ResultLoginFacts, StatementIs
    <2>2. \A g \in Handle : Some(sql', FromPeer(g)) => Some(sql, FromPeer(g))
      BY <2>1, SqlTakes
    <2> HIDE DEF h, e
    <2>3. \A t \in {"LOGIN_SUCCESS", "LOGIN_ALREADY"} : [type |-> t, desc |-> e] \in GameMsg
      BY <2>1 DEF GameMsg
    <2>4. \A c \in Core : link[c] = None => toGame'[c] = toGame[c]
      BY <2>1, <2>3, Answered
    <2>5. logon' # None => heap'[logon'].peer \in peers
      BY <2>1, EntryStays
    <2> QED
      BY <2>1, <2>2, <2>4, <2>5, LinkKept DEF GameSame
  <1>10. ASSUME RESULT_PLAYER_LOAD PROVE LinkInv'
    <2> DEFINE h == Head(sql).peer
               e == Head(sql).desc
    <2>1. /\ GameSame /\ EntrySame /\ sql # <<>> /\ sql' = Tail(sql)
          /\ h \in Handle /\ e \in Desc
          /\ toGame' = toGame \/ Reply(h, [type |-> "PLAYER_LOAD", desc |-> e])
      BY <1>10, ResultPlayerLoadTypes, StatementIs
    <2>2. \A g \in Handle : Some(sql', FromPeer(g)) => Some(sql, FromPeer(g))
      BY <2>1, SqlTakes
    <2> HIDE DEF h, e
    <2>3. [type |-> "PLAYER_LOAD", desc |-> e] \in GameMsg
      BY <2>1 DEF GameMsg
    <2>4. \A c \in Core : link[c] = None => toGame'[c] = toGame[c]
      BY <2>1, <2>3, Answered
    <2> QED
      BY <2>1, <2>2, <2>4, EntryStays, LinkKept DEF GameSame
  <1>11. ASSUME DropResult PROVE LinkInv'
    <2>1. /\ GameSame /\ sql # <<>> /\ sql' = Tail(sql) /\ UNCHANGED <<heap, logon, toGame>>
      BY <1>11, DropTypes
    <2>2. \A g \in Handle : Some(sql', FromPeer(g)) => Some(sql, FromPeer(g))
      BY <2>1, SqlTakes
    <2>3. logon' # None => heap'[logon'].peer \in peers
      BY <2>1 DEF LinkInv
    <2> QED
      BY <2>1, <2>2, <2>3, LinkKept DEF GameSame
  <1>12. ASSUME UpdateLogoutPlayer PROVE LinkInv'
    <2>1. GameSame /\ UNCHANGED <<heap, logon, toGame, sql>>
      BY <1>12, FlushTypes
    <2>2. logon' # None => heap'[logon'].peer \in peers
      BY <2>1 DEF LinkInv
    <2> QED
      BY <2>1, <2>2, LinkKept DEF GameSame
  <1>13. ASSUME DbRestart PROVE LinkInv'
    <2>1. /\ sql' = <<>> /\ peers' = {} /\ logon' = None /\ UNCHANGED <<buffer, desc>>
          /\ up' = [h \in Handle |-> <<>>] /\ link' = [c \in Core |-> None]
          /\ toGame' = [c \in Core |-> <<>>] /\ lost' = lost \cup {d \in Desc : Bound(d)}
      BY <1>13 DEF DbRestart
    <2>2. \A c \in Core : BoundOn(c)' \subseteq lost'
      BY <2>1 DEF BoundOn, Bound
    <2>3. \A d \in lost' : Bound(d)'
      BY <2>1 DEF Bound, LinkInv
    <2>4. \A h \in Handle : ~Some(sql', FromPeer(h))
      BY <2>1, EmptyAt
    <2> QED
      BY <2>1, <2>2, <2>3, <2>4 DEF LinkInv, Placed
  <1> QED
    BY <1>1, <1>2, <1>3, <1>4, <1>5, <1>6, <1>7, <1>8, <1>9, <1>10, <1>11, <1>12, <1>13 DEF Db

\* What is sent goes to an open connection, or is kept back.
LEMMA LinkSent ==
    ASSUME NetTyped, LinkInv, NEW c \in Core, NEW ms, Sends(c, ms), UNCHANGED <<link, peers>>,
           link[c] = None => ~Some(ms, LogoutMsg)
    PROVE  /\ \A h \in Handle \ peers : up'[h] = up[h]
           /\ \A e \in Core : ~Some(buffer'[e], LogoutMsg)
  <1>1. \A h \in Handle \ peers : h # link[c]
    BY ConstantTypes DEF LinkInv
  <1> QED
    BY <1>1, SendsAt DEF LinkInv

\* A client that is answered is on the core that is told.
LEMMA AnsweredHere ==
    ASSUME NetTyped, RequestInv, NEW c \in Core, NEW d \in Desc, Takes(c, d),
           Head(toGame[c]).type # "PLAYER_LOAD"
    PROVE  desc[d].phase # "unused" /\ desc[d].core = c
  <1>1. Head(toGame[c]) \in AnswerOf(d)
    BY GameIs DEF Takes
  <1>2. Some(toGame[c], AnswerOf(d))
    BY <1>1, TakesAt
  <1> QED
    BY <1>2 DEF RequestInv, OneRequest, Asking

\* A core that is told something has a connection.
LEMMA TakesLinked ==
    ASSUME NetTyped, LinkInv, NEW c \in Core, NEW d, Takes(c, d)
    PROVE  /\ link[c] # None
           /\ \A e \in Core : link[e] = None => toGame'[e] = toGame[e]
  BY DEF Takes, LinkInv

\* Who is bound stays bound, and nobody else is.
LEMMA SameBound ==
    ASSUME LinkInv,
           \A e \in Desc : /\ desc'[e].account = desc[e].account
                           /\ desc'[e].core = desc[e].core \/ desc[e].phase = "unused"
    PROVE  /\ \A e \in Desc : Bound(e)' <=> Bound(e)
           /\ \A c : BoundOn(c)' = BoundOn(c)
  <1>1. \A e \in Desc : Bound(e)' <=> Bound(e)
    BY DEF Bound
  <1>2. \A e \in Desc : Bound(e) => desc'[e].core = desc[e].core
    BY DEF Bound, LinkInv, Placed
  <1> QED
    BY <1>1, <1>2 DEF BoundOn

LEMMA StaysPlaced ==
    ASSUME LinkInv, NEW d \in Desc, Steady(d) \/ \E c \in Core : Shows(d, c)
    PROVE  Placed'
  BY DEF LinkInv, Placed, Steady, Shows

\* A client shows a key, or changes on its core, and is bound as before.
LEMMA LinkQuiet ==
    ASSUME NetTyped, GameTyped, LinkInv, UNCHANGED <<dbVars, link, peers, lost>>,
           bounds'.handle = bounds.handle,
           \A h \in Handle \ peers : up'[h] = up[h],
           \A e \in Core : ~Some(buffer'[e], LogoutMsg),
           \A e \in Core : link[e] = None => toGame'[e] = toGame[e],
           \A e \in Desc : /\ desc'[e].account = desc[e].account
                           /\ desc'[e].core = desc[e].core \/ desc[e].phase = "unused",
           Placed'
    PROVE  LinkInv'
  <1>1. /\ \A e \in Desc : Bound(e)' <=> Bound(e)
        /\ \A b : BoundOn(b)' = BoundOn(b)
    BY SameBound
  <1>2. \A b \in Core : link[b] = None => BoundOn(b)' \subseteq lost'
    BY <1>1 DEF LinkInv
  <1>3. \A e \in lost' : Bound(e)'
    BY <1>1, DeskTypes DEF LinkInv
  <1> QED
    BY <1>2, <1>3, LinkDesk

\* A client leaves the account, or the core.
LEMMA LinkLeft ==
    ASSUME NetTyped, GameTyped, LinkInv, UNCHANGED <<dbVars, link, peers, toGame>>,
           bounds'.handle = bounds.handle,
           \A h \in Handle \ peers : up'[h] = up[h],
           \A e \in Core : ~Some(buffer'[e], LogoutMsg),
           NEW d \in Desc, Steady(d), desc'[d].account # "this", lost' = lost \ {d}
    PROVE  LinkInv'
  <1>1. /\ ~Bound(d)' /\ \A e \in Desc : e # d => (Bound(e)' <=> Bound(e))
        /\ \A e \in Desc : desc'[e].core = desc[e].core
    BY DEF Bound, Steady
  <1>2. \A b \in Core : link[b] = None => BoundOn(b)' \subseteq lost'
    BY <1>1 DEF LinkInv, BoundOn
  <1>3. \A e \in lost' : Bound(e)'
    BY <1>1, DeskTypes DEF LinkInv
  <1> QED
    BY <1>2, <1>3, StaysPlaced, LinkDesk

LEMMA LinkGame ==
    ASSUME DbTyped, NetTyped, GameTyped, NoDangling, LinkInv, RequestInv, Game
    PROVE  LinkInv'
  <1>1. ASSUME NEW d \in Desc, NEW c \in Core, NEW k \in Key, LoginByKey(d, c, k)
        PROVE  LinkInv'
    <2> DEFINE m == [type |-> "LOGIN_BY_KEY", desc |-> d, key |-> k]
    <2>1. /\ UNCHANGED <<dbVars, peers, link, toGame, lost>> /\ bounds'.handle = bounds.handle
          /\ Sends(c, <<m>>) /\ Shows(d, c)
      BY <1>1, LoginByKeyTypes
    <2>2. m \in UpMsg /\ m \notin LogoutMsg
      BY AskAt
    <2> HIDE DEF m
    <2>3. ~Some(<<m>>, LogoutMsg)
      BY <2>2, OneSent
    <2>4. \A e \in Desc : /\ desc'[e].account = desc[e].account
                          /\ desc'[e].core = desc[e].core \/ desc[e].phase = "unused"
      BY <2>1 DEF Shows
    <2> QED
      BY <2>1, <2>3, <2>4, LinkSent, StaysPlaced, LinkQuiet
  <1>2. ASSUME NEW d \in Desc, NEW c \in Core, LoginByOtherKey(d, c) PROVE LinkInv'
    <2>1. /\ UNCHANGED <<dbVars, peers, link, toGame, lost, up, buffer>>
          /\ bounds'.handle = bounds.handle /\ Shows(d, c)
      BY <1>2, LoginByOtherKeyTypes DEF netVars
    <2>2. \A e \in Desc : /\ desc'[e].account = desc[e].account
                          /\ desc'[e].core = desc[e].core \/ desc[e].phase = "unused"
      BY <2>1 DEF Shows
    <2>3. \A e \in Core : ~Some(buffer'[e], LogoutMsg)
      BY <2>1 DEF LinkInv
    <2> QED
      BY <2>1, <2>2, <2>3, StaysPlaced, LinkQuiet
  <1>3. ASSUME NEW d \in Desc, OtherPlayerLoad(d) \/ Entergame(d) PROVE LinkInv'
    <2>1. /\ UNCHANGED <<dbVars, peers, link, toGame, lost, up, buffer, bounds>>
          /\ Steady(d) /\ desc'[d].account = desc[d].account
      BY <1>3, LocalTypes DEF Local, netVars
    <2>2. \A e \in Desc : /\ desc'[e].account = desc[e].account
                          /\ desc'[e].core = desc[e].core \/ desc[e].phase = "unused"
      BY <2>1 DEF Steady
    <2>3. \A e \in Core : ~Some(buffer'[e], LogoutMsg)
      BY <2>1 DEF LinkInv
    <2> QED
      BY <2>1, <2>2, <2>3, StaysPlaced, LinkQuiet
  <1>4. ASSUME NEW d \in Desc, OtherLoginSuccess(d) PROVE LinkInv'
    <2>1. /\ UNCHANGED <<dbVars, peers, link, toGame, up, buffer, bounds>>
          /\ Steady(d) /\ desc'[d].account = "other" /\ lost' = lost \ {d}
      BY <1>4, OtherLoginSuccessTypes DEF netVars
    <2>2. \A e \in Core : ~Some(buffer'[e], LogoutMsg)
      BY <2>1 DEF LinkInv
    <2> QED
      BY <2>1, <2>2, LinkLeft
  <1>5. ASSUME NEW d \in Desc, CharacterSelect(d) PROVE LinkInv'
    <2> DEFINE m == [type |-> "PLAYER_LOAD", desc |-> d]
    <2>1. /\ UNCHANGED <<dbVars, peers, link, toGame, lost, desc>>
          /\ bounds'.handle = bounds.handle
          /\ Sends(desc[d].core, <<m>>) /\ desc[d].core \in Core
      BY <1>5, CharacterSelectTypes, OnCore
    <2>2. m \in UpMsg /\ m \notin LogoutMsg
      BY LoadAt
    <2> HIDE DEF m
    <2>3. ~Some(<<m>>, LogoutMsg)
      BY <2>2, OneSent
    <2>4. Placed'
      BY <2>1 DEF LinkInv, Placed
    <2> QED
      BY <2>1, <2>3, <2>4, LinkSent, LinkQuiet
  <1>6. ASSUME NEW d \in Desc, PhaseSelect(d) PROVE LinkInv'
    <2>1. /\ UNCHANGED <<dbVars, peers, link, toGame, lost, bounds>>
          /\ Sends(desc[d].core, Save(d)) /\ desc[d].core \in Core
          /\ Steady(d) /\ desc'[d].account = desc[d].account
      BY <1>6, PhaseSelectTypes, OnCore
    <2>2. \A e \in Desc : /\ desc'[e].account = desc[e].account
                          /\ desc'[e].core = desc[e].core \/ desc[e].phase = "unused"
      BY <2>1 DEF Steady
    <2> QED
      BY <2>1, <2>2, SavedAt, LinkSent, StaysPlaced, LinkQuiet
  <1>7. ASSUME NEW d \in Desc, Destroy(d) PROVE LinkInv'
    <2>1. /\ UNCHANGED <<dbVars, peers, link, toGame, bounds>>
          /\ Sends(desc[d].core, Farewell(d)) /\ Steady(d)
          /\ desc'[d].account = "none" /\ lost' = lost \ {d}
      BY <1>7, DestroyTypes
    <2>2. desc[d].core \in Core
      BY <2>1, OnCore DEF Steady
    <2>3. link[desc[d].core] = None /\ Bound(d) => d \in lost
      BY <2>2 DEF LinkInv, BoundOn
    <2>4. link[desc[d].core] = None => ~Some(Farewell(d), LogoutMsg)
      BY <2>3, FarewellAt
    <2> QED
      BY <2>1, <2>2, <2>4, LinkSent, LinkLeft
  <1>8. ASSUME NEW c \in Core, LoginSuccess(c) PROVE LinkInv'
    <2>1. UNCHANGED <<dbVars, peers, link, bounds>>
      BY <1>8, LoginSuccessTypes
    <2>2. PICK d \in Desc :
            /\ Takes(c, d) /\ Head(toGame[c]).type = "LOGIN_SUCCESS"
            /\ \/ /\ Sends(c, <<Logout(d)>>) /\ UNCHANGED <<desc, lost>>
               \/ /\ desc[d].phase # "closed" /\ lost' = lost \ {d}
                  /\ \A e \in Desc : e # d => desc'[e] = desc[e]
                  /\ desc'[d].phase = "login" /\ desc'[d].account = "this"
                  /\ desc'[d].core = desc[d].core
                  /\ UNCHANGED <<up, buffer>>
      BY <1>8, LoginSuccessTypes
    <2>3. /\ link[c] # None /\ \A e \in Core : link[e] = None => toGame'[e] = toGame[e]
          /\ desc[d].phase # "unused" /\ desc[d].core = c
      BY <2>2, TakesLinked, AnsweredHere
    <2>4. CASE Sends(c, <<Logout(d)>>) /\ UNCHANGED <<desc, lost>>
      <3>1. Placed'
        BY <2>4 DEF LinkInv, Placed
      <3> QED
        BY <2>1, <2>3, <2>4, <3>1, LinkSent, LinkQuiet
    <2>5. CASE /\ lost' = lost \ {d}
               /\ \A e \in Desc : e # d => desc'[e] = desc[e]
               /\ desc'[d].phase = "login" /\ desc'[d].account = "this"
               /\ desc'[d].core = desc[d].core
               /\ UNCHANGED <<up, buffer>>
      <3>1. /\ Steady(d) /\ \A e \in Desc : e # d => (Bound(e)' <=> Bound(e))
            /\ \A e \in Desc : desc'[e].core = desc[e].core
        BY <2>3, <2>5 DEF Bound, Steady
      <3>2. \A b \in Core : link[b] = None => BoundOn(b)' \subseteq lost'
        BY <2>3, <2>5, <3>1 DEF LinkInv, BoundOn
      <3>3. \A e \in lost' : Bound(e)'
        BY <2>5, <3>1, DeskTypes DEF LinkInv
      <3>4. \A e \in Core : ~Some(buffer'[e], LogoutMsg)
        BY <2>5 DEF LinkInv
      <3> QED
        BY <2>1, <2>3, <2>5, <3>1, <3>2, <3>3, <3>4, StaysPlaced, LinkDesk
    <2> QED
      BY <2>2, <2>4, <2>5
  <1>13. ASSUME NEW c \in Core, LoginFailure(c) PROVE LinkInv'
    <2>1. UNCHANGED <<dbVars, peers, link, lost, bounds, up, buffer, desc>>
      BY <1>13, LoginFailureTypes
    <2>2. \A e \in Core : link[e] = None => toGame'[e] = toGame[e]
      BY <1>13, LoginFailureTypes, TakesLinked
    <2>3. Placed' /\ \A e \in Core : ~Some(buffer'[e], LogoutMsg)
      BY <2>1 DEF LinkInv, Placed
    <2> QED
      BY <2>1, <2>2, <2>3, LinkQuiet
  <1>14. ASSUME NEW c \in Core, PlayerLoad(c) PROVE LinkInv'
    <2>1. UNCHANGED <<dbVars, peers, link, lost, bounds, up, buffer>>
      BY <1>14, PlayerLoadedTypes
    <2>2. PICK d \in Desc :
            /\ Takes(c, d)
            /\ \/ desc' = desc
               \/ /\ desc'[d].phase = desc[d].phase
                  /\ \A e \in Desc : e # d => desc'[e] = desc[e]
                  /\ desc'[d].account = desc[d].account /\ desc'[d].core = desc[d].core
                  /\ desc'[d].other = desc[d].other
      BY <1>14, PlayerLoadedTypes
    <2>3. \A e \in Core : link[e] = None => toGame'[e] = toGame[e]
      BY <2>2, TakesLinked
    <2>4. \A e \in Desc : /\ desc'[e].account = desc[e].account
                          /\ desc'[e].core = desc[e].core
                          /\ desc'[e].phase = desc[e].phase
      BY <2>2
    <2>5. \A e \in Desc : desc'[e].other = desc[e].other
      BY <2>2
    <2>6. Placed' /\ \A e \in Core : ~Some(buffer'[e], LogoutMsg)
      BY <2>1, <2>4, <2>5 DEF LinkInv, Placed
    <2> QED
      BY <2>1, <2>3, <2>4, <2>6, LinkQuiet
  <1>9. ASSUME NEW c \in Core, Breaks(c),
               \A e \in Core : BoundOn(e)' \subseteq BoundOn(e),
               \A e \in Core : e # c => BoundOn(e)' \cap lost \subseteq lost',
               BoundOn(c)' \subseteq lost', \A d \in lost' : Bound(d)',
               Placed'
        PROVE  LinkInv'
    <2>1. /\ UNCHANGED <<dbVars, peers, buffer>> /\ bounds'.handle = bounds.handle
          /\ link[c] \in Handle /\ link'[c] = None /\ toGame'[c] = <<>>
          /\ \A e \in Core : e # c => link'[e] = link[e] /\ toGame'[e] = toGame[e]
          /\ \A h \in Handle : up'[h] = up[h] \/ up'[h] = <<>>
      BY <1>9 DEF Breaks
    <2>2. \A e \in Core : link'[e] = None => toGame'[e] = <<>> /\ BoundOn(e)' \subseteq lost'
      BY <1>9, <2>1 DEF LinkInv
    <2>3. /\ \A e \in Core : link'[e] # None => link'[e] \in peers'
          /\ \A e, b \in Core : link'[e] # None /\ link'[e] = link'[b] => e = b
          /\ \A h \in Handle \ peers' : up'[h] = <<>>
      BY <2>1 DEF LinkInv
    <2> QED
      BY <1>9, <2>1, <2>2, <2>3 DEF LinkInv, dbVars
  <1>10. ASSUME NEW c \in Core, LinkLoss(c) PROVE LinkInv'
    <2>1. Breaks(c) /\ lost' = lost \cup BoundOn(c) /\ desc' = desc
      BY <1>10, LinkLossTypes
    <2>2. /\ \A e \in Core : BoundOn(e)' = BoundOn(e)
          /\ \A d : Bound(d)' = Bound(d)
      BY <2>1 DEF BoundOn, Bound
    <2>3. \A d \in lost' : Bound(d)'
      BY <2>1, <2>2 DEF BoundOn, LinkInv
    <2>4. Placed'
      BY <2>1 DEF LinkInv, Placed
    <2> QED
      BY <1>9, <2>1, <2>2, <2>3, <2>4
  <1>11. ASSUME NEW c \in Core, CoreCrash(c) PROVE LinkInv'
    <2>1. /\ Breaks(c) /\ lost' = {d \in lost : desc[d].core # c}
          /\ \A d \in Desc :
                IF desc[d].core = c
                THEN /\ desc'[d].phase = "closed" /\ desc'[d].account = "none"
                     /\ desc'[d].core = desc[d].core
                ELSE desc'[d] = desc[d]
      BY <1>11, CoreCrashTypes
    <2>2. /\ \A d \in Desc : Bound(d)' <=> Bound(d) /\ desc[d].core # c
          /\ \A e \in Core : BoundOn(e)' = IF e = c THEN {} ELSE BoundOn(e)
      <3>1. \A d \in Desc : Bound(d)' <=> Bound(d) /\ desc[d].core # c
        BY <2>1 DEF Bound
      <3> QED
        BY <2>1, <3>1 DEF BoundOn
    <2>3. \A d \in lost' : Bound(d)'
      BY <2>1, <2>2, DeskTypes DEF LinkInv
    <2>4. Placed'
      BY <2>1, ConstantTypes DEF LinkInv, Placed
    <2>5. \A e \in Core : e # c => BoundOn(e)' \cap lost \subseteq lost'
      BY <2>1, <2>2 DEF BoundOn
    <2>6. BoundOn(c)' \subseteq lost' /\ \A e \in Core : BoundOn(e)' \subseteq BoundOn(e)
      BY <2>2
    <2> QED
      BY <1>9, <2>1, <2>3, <2>4, <2>5, <2>6
  <1>12. ASSUME NEW c \in Core, Reconnect(c) PROVE LinkInv'
    <2> DEFINE h == bounds.handle
    <2>1. /\ UNCHANGED <<dbVars, toGame, desc, lost>> /\ link[c] = None /\ h \in Handle
          /\ link'[c] = h /\ \A e \in Core : e # c => link'[e] = link[e]
          /\ peers' = peers \cup {h} /\ bounds'.handle = h + 1
          /\ \A g \in Handle : g # h => up'[g] = up[g]
          /\ buffer'[c] = <<>> /\ \A e \in Core : e # c => buffer'[e] = buffer[e]
          /\ \A e \in Core : e # c => link[e] # h
      BY <1>12, ReconnectTypes, NewLine
    <2> HIDE DEF h
    <2>2. h \in Nat /\ h # None /\ h = bounds.handle /\ Handle \subseteq Nat
      BY <2>1, ConstantTypes DEF h
    <2>3. \A e \in Core : ~Some(buffer'[e], LogoutMsg)
      BY <2>1, EmptyAt DEF LinkInv
    <2>4. /\ \A g \in peers' : g < bounds'.handle
          /\ \A g \in Handle : g >= bounds'.handle => g >= h
      BY <2>1, <2>2 DEF LinkInv, NetTyped
    <2>5. /\ \A e \in Core : BoundOn(e)' = BoundOn(e)
          /\ \A d : Bound(d)' = Bound(d)
      BY <2>1 DEF BoundOn, Bound
    <2>6. \A e \in Core : link'[e] = None => toGame'[e] = <<>> /\ BoundOn(e)' \subseteq lost'
      BY <2>1, <2>2, <2>5 DEF LinkInv
    <2>7. /\ \A e \in Core : link'[e] # None => link'[e] \in peers'
          /\ \A e, b \in Core : link'[e] # None /\ link'[e] = link'[b] => e = b
          /\ \A g \in Handle \ peers' : up'[g] = <<>>
      BY <2>1, <2>2 DEF LinkInv
    <2>8. \A g \in Handle : g >= bounds'.handle => ~Some(sql', FromPeer(g))
      BY <2>1, <2>2, <2>4 DEF LinkInv, dbVars
    <2>9. logon' # None => heap'[logon'].peer \in peers'
      BY <2>1 DEF LinkInv, dbVars
    <2>10. \A d \in lost' : Bound(d)'
      BY <2>1, <2>5 DEF LinkInv
    <2>11. Placed'
      BY <2>1 DEF LinkInv, Placed
    <2> QED
      BY <2>3, <2>4, <2>6, <2>7, <2>8, <2>9, <2>10, <2>11 DEF LinkInv
  <1> QED
    BY <1>1, <1>2, <1>3, <1>4, <1>5, <1>6, <1>7, <1>8, <1>10, <1>11, <1>12, <1>13, <1>14
       DEF Game

LEMMA LinkStep ==
    ASSUME DbTyped, NetTyped, GameTyped, NoDangling, LinkInv, RequestInv, SetupInv, Next
    PROVE  LinkInv'
  BY LinkDb, LinkGame DEF Next

-----------------------------------------------------------------------------
(***************************************************************************)
(* Lists of clients.                                                        *)
(***************************************************************************)

\* A SETUP of queue p was in queue q, and a logout that followed it still does.
Carries(q, p) ==
    \A i \in DOMAIN p : p[i].type = "SETUP" =>
        \E j \in DOMAIN q : q[j] = p[i] /\ (Followed(q, j) => Followed(p, i))

LEMMA CarriesSame ==
    ASSUME NEW q, NEW p, p = q \/ p = <<>>
    PROVE  Carries(q, p)
  BY DEF Carries

LEMMA CarriesTail ==
    ASSUME NEW q \in Seq(UpMsg), q # <<>>
    PROVE  Carries(q, Tail(q))
  <1>1. /\ Len(q) \in Nat /\ DOMAIN q = 1 .. Len(q) /\ DOMAIN Tail(q) = 1 .. Len(q) - 1
        /\ \A i \in 1 .. Len(q) - 1 : Tail(q)[i] = q[i + 1]
    OBVIOUS
  <1> SUFFICES ASSUME NEW i \in DOMAIN Tail(q)
               PROVE  /\ i + 1 \in DOMAIN q /\ q[i + 1] = Tail(q)[i]
                      /\ Followed(q, i + 1) => Followed(Tail(q), i)
    BY DEF Carries
  <1>2. i + 1 \in DOMAIN q /\ q[i + 1] = Tail(q)[i]
    BY <1>1
  <1>3. ASSUME NEW j \in DOMAIN q, i + 1 < j, q[j].type = "LOGOUT"
        PROVE  Followed(Tail(q), i)
    <2>1. j - 1 \in DOMAIN Tail(q) /\ i < j - 1 /\ Tail(q)[j - 1] = q[j]
      BY <1>1, <1>3
    <2> QED
      BY <1>3, <2>1 DEF Followed
  <1> QED
    BY <1>2, <1>3 DEF Followed

LEMMA CarriesConcat ==
    ASSUME NEW q \in Seq(UpMsg), NEW p \in Seq(UpMsg), ~Some(p, SetupMsg)
    PROVE  /\ Carries(q, q \o p)
           /\ Some(p, AnyLogout) =>
                \A i \in DOMAIN (q \o p) : (q \o p)[i].type = "SETUP" => Followed(q \o p, i)
  <1>1. /\ q \o p \in Seq(UpMsg) /\ Len(q) \in Nat /\ Len(p) \in Nat
        /\ DOMAIN q = 1 .. Len(q) /\ DOMAIN p = 1 .. Len(p)
        /\ DOMAIN (q \o p) = 1 .. Len(q) + Len(p)
        /\ \A i \in 1 .. Len(q) : (q \o p)[i] = q[i]
        /\ \A i \in 1 .. Len(p) : (q \o p)[Len(q) + i] = p[i] /\ p[i] \in UpMsg
    OBVIOUS
  <1>2. ASSUME NEW i \in DOMAIN (q \o p), (q \o p)[i].type = "SETUP"
        PROVE  i \in DOMAIN q /\ q[i] = (q \o p)[i]
    <2>1. CASE i \in 1 .. Len(q)
      BY <1>1, <2>1
    <2>2. CASE i \notin 1 .. Len(q)
      <3>1. i - Len(q) \in 1 .. Len(p) /\ i = Len(q) + (i - Len(q))
        BY <1>1, <2>2
      <3>2. p[i - Len(q)] \in SetupMsg
        BY <1>1, <1>2, <3>1 DEF SetupMsg
      <3> QED
        BY <1>1, <3>1, <3>2 DEF Some
    <2> QED
      BY <2>1, <2>2
  <1>3. ASSUME NEW i \in DOMAIN q, Followed(q, i)
        PROVE  Followed(q \o p, i)
    <2>1. PICK j \in DOMAIN q : i < j /\ q[j].type = "LOGOUT"
      BY <1>3 DEF Followed
    <2>2. j \in DOMAIN (q \o p) /\ (q \o p)[j] = q[j]
      BY <1>1
    <2> QED
      BY <2>1, <2>2 DEF Followed
  <1>4. ASSUME NEW i \in DOMAIN q, Some(p, AnyLogout)
        PROVE  Followed(q \o p, i)
    <2>1. PICK j \in DOMAIN p : p[j].type = "LOGOUT"
      BY <1>4 DEF Some, AnyLogout
    <2>2. Len(q) + j \in DOMAIN (q \o p) /\ (q \o p)[Len(q) + j] = p[j] /\ i < Len(q) + j
      BY <1>1
    <2> QED
      BY <2>1, <2>2 DEF Followed
  <1>5. Carries(q, q \o p)
    BY <1>2, <1>3 DEF Carries
  <1> QED
    BY <1>2, <1>4, <1>5

\* What has happened has happened.
LEMMA OddGrows ==
    ASSUME DbTyped, NetTyped, GameTyped, NoDangling, LinkInv, Next
    PROVE  odd \subseteq odd'
  <1>1. ASSUME NEW k \in Key, QUERY_AUTH_LOGIN(k) PROVE odd \subseteq odd'
    BY <1>1 DEF QUERY_AUTH_LOGIN
  <1>2. ASSUME NEW h \in Handle,
               QUERY_LOGIN_BY_KEY(h) \/ QUERY_SETUP(h) \/ QUERY_PLAYER_LOAD(h)
                   \/ QUERY_PLAYER_SAVE(h) \/ RemovePeer(h)
        PROVE  odd' = odd
    BY <1>2 DEF QUERY_LOGIN_BY_KEY, QUERY_SETUP, QUERY_PLAYER_LOAD, QUERY_PLAYER_SAVE, RemovePeer
  <1>3. ASSUME NEW h \in Handle, QUERY_LOGOUT(h) PROVE odd \subseteq odd'
    BY <1>3 DEF QUERY_LOGOUT
  <1>4. RESULT_LOGIN_BY_KEY \/ RESULT_PLAYER_LOAD \/ DropResult \/ UpdateLogoutPlayer
            \/ DbRestart => odd' = odd
    BY DEF RESULT_LOGIN_BY_KEY, RESULT_PLAYER_LOAD, DropResult, UpdateLogoutPlayer, DbRestart
  <1>5. RESULT_LOGIN => odd \subseteq odd'
    BY DEF RESULT_LOGIN
  <1>6. ASSUME NEW d \in Desc,
               \/ \E c \in Core, k \in Key : LoginByKey(d, c, k)
               \/ \E c \in Core : LoginByOtherKey(d, c)
               \/ OtherPlayerLoad(d) \/ CharacterSelect(d) \/ Entergame(d) \/ PhaseSelect(d)
               \/ Destroy(d)
        PROVE  odd' = odd
    BY <1>6 DEF LoginByKey, LoginByOtherKey, OtherPlayerLoad, CharacterSelect, Entergame,
                PhaseSelect, Destroy
  <1>7. ASSUME NEW d \in Desc, OtherLoginSuccess(d) PROVE odd \subseteq odd'
    BY <1>7 DEF OtherLoginSuccess
  <1>8. ASSUME NEW c \in Core, LoginSuccess(c) \/ LoginFailure(c) \/ PlayerLoad(c)
        PROVE  odd' = odd
    BY <1>8 DEF LoginSuccess, LoginFailure, PlayerLoad, Take
  <1>9. ASSUME NEW c \in Core, LinkLoss(c) \/ CoreCrash(c) \/ Reconnect(c)
        PROVE  odd' = odd
    BY <1>9 DEF LinkLoss, CoreCrash, Reconnect, Broken
  <1>10. Db => odd \subseteq odd'
    BY <1>1, <1>2, <1>3, <1>4, <1>5 DEF Db
  <1>11. Game => odd \subseteq odd'
    BY <1>6, <1>7, <1>8, <1>9 DEF Game
  <1> QED
    BY <1>10, <1>11 DEF Next

\* A step that leaves the clients listed bound, or gone.
LEMMA SetupKept ==
    ASSUME NetTyped, NEW c \in Core, OneSetup(c), ~Some(buffer'[c], SetupMsg),
           Carries(Line(c), Line(c)'), "left" \in odd => "left" \in odd',
           \A d \in Desc : desc[d].core = c =>
               /\ desc'[d].core = c
               /\ Bound(d) => Bound(d)' \/ "left" \in odd'
               /\ desc[d].phase = "closed" => desc'[d].phase = "closed"
    PROVE  OneSetup(c)'
  <1> SUFFICES ASSUME NEW i \in DOMAIN Line(c)', Line(c)'[i].type = "SETUP",
                      NEW d \in DOMAIN Line(c)'[i].keys
               PROVE  /\ desc'[d].core = c
                      /\ \/ Bound(d)' \/ "left" \in odd'
                         \/ desc'[d].phase = "closed" /\ Followed(Line(c)', i)
    BY DEF OneSetup
  <1>1. PICK j \in DOMAIN Line(c) :
            /\ Line(c)[j] = Line(c)'[i]
            /\ Followed(Line(c), j) => Followed(Line(c)', i)
    BY DEF Carries
  <1>2. Line(c)[j] \in UpMsg
    BY LineTypes
  <1>3. d \in Desc
    BY <1>1, <1>2, UpTypes
  <1>4. /\ desc[d].core = c
        /\ \/ Bound(d) \/ "left" \in odd
           \/ desc[d].phase = "closed" /\ Followed(Line(c), j)
    BY <1>1 DEF OneSetup
  <1> QED
    BY <1>1, <1>3, <1>4

\* What a core does that sends no SETUP.
LEMMA SetupSent ==
    ASSUME NetTyped, LinkInv, SetupInv, NEW c \in Core, NEW ms, Sends(c, ms), UNCHANGED link,
           ~Some(ms, SetupMsg)
    PROVE  \A e \in Core : ~Some(buffer'[e], SetupMsg) /\ Carries(Line(e), Line(e)')
  <1> SUFFICES ASSUME NEW e \in Core
               PROVE  ~Some(buffer'[e], SetupMsg) /\ Carries(Line(e), Line(e)')
    OBVIOUS
  <1>1. ~Some(buffer'[e], SetupMsg)
    BY SendsAt DEF SetupInv, OneSetup
  <1>2. CASE e = c /\ link[c] # None
    <2>1. Line(e)' = Line(e) \o ms /\ ms \in Seq(UpMsg)
      BY <1>2, LineTypes DEF Sends, Line
    <2>2. Carries(Line(e), Line(e) \o ms)
      BY <2>1, LineTypes, CarriesConcat
    <2> QED
      BY <1>1, <2>1, <2>2
  <1>3. CASE ~(e = c /\ link[c] # None)
    <2>1. Line(e)' = Line(e)
      BY <1>3, SendsAt
    <2> QED
      BY <1>1, <2>1, CarriesSame
  <1> QED
    BY <1>2, <1>3

LEMMA SetupSame ==
    ASSUME NetTyped, SetupInv, UNCHANGED <<up, link, buffer, desc>>, odd \subseteq odd'
    PROVE  SetupInv'
  <1>1. \A c \in Core : Line(c)' = Line(c)
    BY DEF Line
  <1>2. \A d : Bound(d)' = Bound(d)
    BY DEF Bound
  <1> QED
    BY <1>1, <1>2, CarriesSame, SetupKept DEF SetupInv, OneSetup

LEMMA SetupReceived ==
    ASSUME NetTyped, SetupInv, NEW h \in Handle, NEW type, Receive(h, type),
           odd \subseteq odd'
    PROVE  SetupInv'
  <1>1. UNCHANGED <<buffer, desc>>
    BY ReceivesAt
  <1>2. ASSUME NEW c \in Core PROVE Carries(Line(c), Line(c)')
    <2>1. CASE link[c] = h
      <3>1. up \in [Handle -> Seq(UpMsg)]
        BY DEF NetTyped
      <3>2. Line(c) = up[h] /\ Line(c)' = up'[h] /\ up'[h] = Tail(up[h]) /\ up[h] # <<>>
        BY <2>1, <3>1, ReceivesAt, ReceiveAt
      <3> QED
        BY <3>1, <3>2, CarriesTail
    <2>2. CASE link[c] # h
      BY <2>2, ReceivesAt, CarriesSame
    <2> QED
      BY <2>1, <2>2
  <1>3. \A d : Bound(d)' = Bound(d)
    BY <1>1 DEF Bound
  <1> QED
    BY <1>1, <1>2, <1>3, SetupKept DEF SetupInv, OneSetup

LEMMA SetupDb ==
    ASSUME DbTyped, NetTyped, GameTyped, NoDangling, LinkInv, SetupInv, Db
    PROVE  SetupInv'
  <1>8. odd \subseteq odd'
    BY OddGrows DEF Next
  <1>1. CASE UNCHANGED <<up, link, buffer, desc>>
    BY <1>1, <1>8, SetupSame
  <1>2. ASSUME NEW h \in Handle, NEW type, Receive(h, type) PROVE SetupInv'
    BY <1>2, <1>8, SetupReceived
  <1>3. CASE DbRestart
    <2>1. /\ link' = [c \in Core |-> None] /\ UNCHANGED <<buffer, desc>>
      BY <1>3 DEF DbRestart
    <2>2. \A c \in Core : Line(c)' = <<>>
      BY <2>1 DEF Line
    <2>3. \A d : Bound(d)' = Bound(d)
      BY <2>1 DEF Bound
    <2> QED
      BY <1>8, <2>1, <2>2, <2>3, CarriesSame, SetupKept DEF SetupInv, OneSetup
  <1>4. ASSUME NEW k \in Key, QUERY_AUTH_LOGIN(k) PROVE UNCHANGED <<up, link, buffer, desc>>
    BY <1>4 DEF QUERY_AUTH_LOGIN, netVars
  <1>5. ASSUME NEW h \in Handle, RemovePeer(h) PROVE UNCHANGED <<up, link, buffer, desc>>
    BY <1>5 DEF RemovePeer
  <1>6. RESULT_LOGIN_BY_KEY \/ RESULT_LOGIN \/ RESULT_PLAYER_LOAD \/ DropResult \/ UpdateLogoutPlayer
            => UNCHANGED <<up, link, buffer, desc>>
    BY ReadTypes, ResultLoginTypes, ResultPlayerLoadTypes, DropTypes, FlushTypes DEF GameSame
  <1>7. ASSUME NEW h \in Handle,
               QUERY_LOGIN_BY_KEY(h) \/ QUERY_LOGOUT(h) \/ QUERY_SETUP(h)
                   \/ QUERY_PLAYER_LOAD(h) \/ QUERY_PLAYER_SAVE(h)
        PROVE  \E type : Receive(h, type)
    BY <1>7 DEF QUERY_LOGIN_BY_KEY, QUERY_LOGOUT, QUERY_SETUP, QUERY_PLAYER_LOAD, QUERY_PLAYER_SAVE
  <1> QED
    BY <1>1, <1>2, <1>3, <1>4, <1>5, <1>6, <1>7 DEF Db

\* The packets of one step, none of them SETUP.
LEMMA NoSetup ==
    /\ \A d \in Desc, k \in Key : ~Some(<<[type |-> "LOGIN_BY_KEY", desc |-> d, key |-> k]>>, SetupMsg)
    /\ \A d \in Desc : ~Some(<<[type |-> "PLAYER_LOAD", desc |-> d]>>, SetupMsg)
    /\ \A d \in Desc : ~Some(<<Logout(d)>>, SetupMsg)
  <1>1. \A m \in UpMsg : m.type # "SETUP" => ~Some(<<m>>, SetupMsg)
    BY OneSent DEF SetupMsg
  <1>2. ASSUME NEW d \in Desc, NEW k \in Key
        PROVE  ~Some(<<[type |-> "LOGIN_BY_KEY", desc |-> d, key |-> k]>>, SetupMsg)
    <2>1. [type |-> "LOGIN_BY_KEY", desc |-> d, key |-> k] \in UpMsg
      BY AskAt
    <2> QED
      BY <1>1, <2>1
  <1>3. ASSUME NEW d \in Desc
        PROVE  ~Some(<<[type |-> "PLAYER_LOAD", desc |-> d]>>, SetupMsg)
    <2>1. [type |-> "PLAYER_LOAD", desc |-> d] \in UpMsg
      BY LoadAt
    <2> QED
      BY <1>1, <2>1
  <1>4. ASSUME NEW d \in Desc PROVE ~Some(<<Logout(d)>>, SetupMsg)
    BY <1>1, LogoutAt
  <1> QED
    BY <1>2, <1>3, <1>4

LEMMA SetupReconnect ==
    ASSUME DbTyped, NetTyped, GameTyped, NoDangling, LinkInv, SetupInv,
           NEW c \in Core, Reconnect(c)
    PROVE  SetupInv'
  <1> DEFINE m == SetupOf(c)
  <1>1. /\ Line(c)' = Append(buffer[c], m) /\ \A b \in Core : b # c => Line(b)' = Line(b)
        /\ \A b \in Core : b # c => buffer'[b] = buffer[b]
        /\ buffer'[c] = <<>> /\ desc' = desc /\ odd' = odd
    BY ReconnectTypes, NewLine
  <1>2. \A d : Bound(d)' = Bound(d)
    BY <1>1 DEF Bound
  <1>3. ASSUME NEW b \in Core, b # c PROVE OneSetup(b)'
    BY <1>1, <1>2, <1>3, CarriesSame, SetupKept DEF SetupInv, OneSetup
  <1>4. OneSetup(c)'
    <2>1. m.type = "SETUP" /\ DOMAIN m.keys = BoundOn(c)
      BY SetupOfAt
    <2> HIDE DEF m
    <2>2. ~Some(buffer'[c], SetupMsg)
      BY <1>1, EmptyAt
    <2>3. buffer[c] \in Seq(UpMsg) /\ ~Some(buffer[c], SetupMsg)
      BY DEF NetTyped, SetupInv, OneSetup
    <2>4. /\ Len(buffer[c]) \in Nat /\ DOMAIN buffer[c] = 1 .. Len(buffer[c])
          /\ DOMAIN Line(c)' = 1 .. Len(buffer[c]) + 1
          /\ \A i \in 1 .. Len(buffer[c]) : Line(c)'[i] = buffer[c][i] /\ buffer[c][i] \in UpMsg
          /\ Line(c)'[Len(buffer[c]) + 1] = m
      BY <1>1, <2>3
    <2>5. ASSUME NEW i \in DOMAIN Line(c)', Line(c)'[i].type = "SETUP" PROVE Line(c)'[i] = m
      <3>1. CASE i \in 1 .. Len(buffer[c])
        <4>1. buffer[c][i] \in SetupMsg
          BY <2>4, <2>5, <3>1 DEF SetupMsg
        <4> QED
          BY <2>3, <2>4, <3>1, <4>1 DEF Some
      <3>2. CASE i \notin 1 .. Len(buffer[c])
        BY <2>4, <2>5, <3>2
      <3> QED
        BY <3>1, <3>2
    <2>6. \A d \in BoundOn(c) : desc'[d].core = c /\ Bound(d)'
      BY <1>1, <1>2 DEF BoundOn
    <2> QED
      BY <2>1, <2>2, <2>5, <2>6 DEF OneSetup
  <1> QED
    BY <1>3, <1>4 DEF SetupInv

LEMMA SetupGame ==
    ASSUME DbTyped, NetTyped, GameTyped, NoDangling, LinkInv, RequestInv, SetupInv, Game
    PROVE  SetupInv'
  <1>0. odd \subseteq odd'
    BY OddGrows DEF Next
  <1>1. ASSUME \A c \in Core : ~Some(buffer'[c], SetupMsg) /\ Carries(Line(c), Line(c)'),
               NEW d \in Desc,
               \A e \in Desc : e # d => desc'[e] = desc[e],
               \/ desc[d].phase = "unused"
               \/ /\ desc'[d].core = desc[d].core
                  /\ Bound(d) => desc'[d].account = "this" \/ "left" \in odd'
                  /\ desc[d].phase = "closed" => desc'[d].phase = "closed"
        PROVE  SetupInv'
    <2> SUFFICES ASSUME NEW c \in Core PROVE OneSetup(c)'
      BY DEF SetupInv
    <2>1. desc[d].phase = "unused" => desc[d].core # c
      BY ConstantTypes DEF LinkInv, Placed
    <2>2. \A e \in Desc : desc[e].core = c =>
               /\ desc'[e].core = c
               /\ Bound(e) => Bound(e)' \/ "left" \in odd'
               /\ desc[e].phase = "closed" => desc'[e].phase = "closed"
      BY <1>1, <2>1 DEF Bound
    <2> QED
      BY <1>0, <1>1, <2>2, SetupKept DEF SetupInv
  <1>2. ASSUME UNCHANGED <<up, buffer, link>>
        PROVE  \A c \in Core : ~Some(buffer'[c], SetupMsg) /\ Carries(Line(c), Line(c)')
    BY <1>2, CarriesSame DEF SetupInv, OneSetup, Line
  <1>14. ASSUME NEW d \in Desc, NEW c \in Core, Shows(d, c),
                \A b \in Core : ~Some(buffer'[b], SetupMsg) /\ Carries(Line(b), Line(b)')
         PROVE  SetupInv'
    BY <1>1, <1>14 DEF Shows, Bound
  <1>3. ASSUME NEW d \in Desc, NEW c \in Core, NEW k \in Key, LoginByKey(d, c, k) PROVE SetupInv'
    <2>1. /\ Sends(c, <<[type |-> "LOGIN_BY_KEY", desc |-> d, key |-> k]>>) /\ link' = link
          /\ Shows(d, c)
      BY <1>3, LoginByKeyTypes
    <2>2. \A b \in Core : ~Some(buffer'[b], SetupMsg) /\ Carries(Line(b), Line(b)')
      BY <2>1, NoSetup, SetupSent
    <2> QED
      BY <1>14, <2>1, <2>2
  <1>4. ASSUME NEW d \in Desc, NEW c \in Core, LoginByOtherKey(d, c) PROVE SetupInv'
    <2>1. Shows(d, c) /\ UNCHANGED <<up, buffer, link>>
      BY <1>4, LoginByOtherKeyTypes DEF netVars
    <2> QED
      BY <1>2, <1>14, <2>1
  <1>5. ASSUME NEW d \in Desc, OtherPlayerLoad(d) \/ Entergame(d) \/ OtherLoginSuccess(d)
        PROVE  SetupInv'
    <2>1. CASE OtherPlayerLoad(d) \/ Entergame(d)
      <3>1. /\ Steady(d) /\ desc[d].phase # "closed" /\ desc'[d].account = desc[d].account
            /\ UNCHANGED <<up, buffer, link>>
        BY <2>1, LocalTypes DEF Local, netVars
      <3> QED
        BY <1>1, <1>2, <3>1 DEF Steady, Bound
    <2>2. CASE OtherLoginSuccess(d)
      <3>1. /\ Steady(d) /\ desc[d].phase # "closed" /\ UNCHANGED <<up, buffer, link>>
            /\ Bound(d) => "left" \in odd'
        BY <2>2, OtherLoginSuccessTypes DEF netVars
      <3> QED
        BY <1>1, <1>2, <3>1 DEF Steady
    <2> QED
      BY <1>5, <2>1, <2>2
  <1>15. ASSUME NEW d \in Desc, CharacterSelect(d) PROVE SetupInv'
    <2>1. /\ Sends(desc[d].core, <<[type |-> "PLAYER_LOAD", desc |-> d]>>) /\ link' = link
          /\ desc[d].core \in Core /\ desc' = desc
      BY <1>15, CharacterSelectTypes, OnCore
    <2>2. \A c \in Core : ~Some(buffer'[c], SetupMsg) /\ Carries(Line(c), Line(c)')
      BY <2>1, NoSetup, SetupSent
    <2> QED
      BY <1>1, <2>1, <2>2 DEF Bound
  <1>16. ASSUME NEW d \in Desc, PhaseSelect(d) PROVE SetupInv'
    <2>1. /\ Sends(desc[d].core, Save(d)) /\ link' = link
          /\ desc[d].core \in Core /\ desc[d].phase = "play"
          /\ Steady(d) /\ desc'[d].account = desc[d].account
      BY <1>16, PhaseSelectTypes, OnCore
    <2>2. \A c \in Core : ~Some(buffer'[c], SetupMsg) /\ Carries(Line(c), Line(c)')
      BY <2>1, SavedAt, SetupSent
    <2> QED
      BY <1>1, <2>1, <2>2 DEF Steady, Bound
  <1>6. ASSUME NEW d \in Desc, Destroy(d) PROVE SetupInv'
    <2>1. /\ link' = link /\ Steady(d) /\ Sends(desc[d].core, Farewell(d))
          /\ desc[d].phase # "closed" /\ desc'[d].phase = "closed"
      BY <1>6, DestroyTypes
    <2>4. desc[d].core \in Core
      BY <2>1, OnCore DEF Steady
    <2>5. \A c \in Core : ~Some(buffer'[c], SetupMsg) /\ Carries(Line(c), Line(c)')
      BY <2>1, <2>4, FarewellAt, SetupSent
    <2>2. CASE ~Bound(d)
      BY <1>1, <2>1, <2>2, <2>5 DEF Steady
    <2>3. CASE Bound(d)
      <3> SUFFICES ASSUME NEW c \in Core PROVE OneSetup(c)'
        BY DEF SetupInv
      <3>1. /\ OneSetup(c) /\ ~Some(buffer'[c], SetupMsg) /\ Carries(Line(c), Line(c)')
            /\ Farewell(d) \in Seq(UpMsg) /\ Some(Farewell(d), AnyLogout) /\ ~Some(Farewell(d), SetupMsg)
        BY <2>3, <2>5, FarewellAt DEF SetupInv
      <3>2. ASSUME NEW i \in DOMAIN Line(c)', Line(c)'[i].type = "SETUP",
                   NEW e \in DOMAIN Line(c)'[i].keys
            PROVE  /\ desc'[e].core = c
                   /\ \/ Bound(e)' \/ "left" \in odd'
                      \/ desc'[e].phase = "closed" /\ Followed(Line(c)', i)
        <4>1. PICK j \in DOMAIN Line(c) :
                  /\ Line(c)[j] = Line(c)'[i]
                  /\ Followed(Line(c), j) => Followed(Line(c)', i)
          BY <3>1, <3>2 DEF Carries
        <4>2. Line(c)[j] \in UpMsg
          BY LineTypes
        <4>3. e \in Desc
          BY <3>2, <4>1, <4>2, UpTypes
        <4>4. /\ desc[e].core = c
              /\ \/ Bound(e) \/ "left" \in odd
                 \/ desc[e].phase = "closed" /\ Followed(Line(c), j)
          BY <3>1, <3>2, <4>1 DEF OneSetup
        <4>5. CASE e # d
          BY <1>0, <2>1, <4>1, <4>3, <4>4, <4>5 DEF Steady, Bound
        <4>6. CASE e = d
          <5>1. Line(c) # <<>>
            BY <4>1
          <5>2. link[c] # None
            BY <5>1 DEF Line
          <5>3. Line(c)' = Line(c) \o Farewell(d)
            BY <2>1, <2>3, <4>4, <4>6, <5>2, LineTypes DEF Sends, Line
          <5>4. Followed(Line(c)', i)
            <6> DEFINE q == Line(c)
                       p == Farewell(d)
            <6>1. q \in Seq(UpMsg) /\ Line(c)' = q \o p
              BY <5>3, LineTypes
            <6>2. /\ p \in Seq(UpMsg) /\ Some(p, AnyLogout) /\ ~Some(p, SetupMsg)
                  /\ i \in DOMAIN (q \o p) /\ (q \o p)[i].type = "SETUP"
              BY <3>1, <3>2, <5>3
            <6> HIDE DEF p, q
            <6>3. Followed(q \o p, i)
              BY <6>1, <6>2, CarriesConcat
            <6> QED
              BY <6>1, <6>3
          <5> QED
            BY <2>1, <4>3, <4>4, <4>6, <5>4 DEF Steady
        <4> QED
          BY <4>5, <4>6
      <3> QED
        BY <3>1, <3>2 DEF OneSetup
    <2> QED
      BY <2>2, <2>3
  <1>7. ASSUME NEW c \in Core, LoginSuccess(c) PROVE SetupInv'
    <2>1. link' = link
      BY <1>7, LoginSuccessTypes
    <2>2. PICK d \in Desc :
            /\ Takes(c, d)
            /\ \/ Sends(c, <<Logout(d)>>) /\ desc' = desc
               \/ /\ desc[d].phase # "closed" /\ desc'[d].core = desc[d].core
                  /\ \A e \in Desc : e # d => desc'[e] = desc[e]
                  /\ desc'[d].account = "this"
                  /\ UNCHANGED <<up, buffer>>
      BY <1>7, LoginSuccessTypes
    <2>4. \A e \in Core : ~Some(buffer'[e], SetupMsg) /\ Carries(Line(e), Line(e)')
      BY <1>2, <2>1, <2>2, NoSetup, SetupSent
    <2> QED
      BY <1>1, <2>2, <2>4 DEF Bound
  <1>8. ASSUME NEW c \in Core, LoginFailure(c) PROVE SetupInv'
    BY <1>0, <1>8, LoginFailureTypes, SetupSame
  <1>9. ASSUME NEW c \in Core, PlayerLoad(c) PROVE SetupInv'
    <2>1. UNCHANGED <<link, up, buffer>>
      BY <1>9, PlayerLoadedTypes
    <2>2. PICK d \in Desc :
            \/ desc' = desc
            \/ /\ desc[d].phase # "closed" /\ desc'[d].core = desc[d].core
               /\ \A e \in Desc : e # d => desc'[e] = desc[e]
               /\ desc'[d].account = desc[d].account
      BY <1>9, PlayerLoadedTypes
    <2> QED
      BY <1>0, <1>1, <1>2, <2>1, <2>2, SetupSame DEF Bound
  <1>10. ASSUME NEW c \in Core, Breaks(c),
                \A d \in Desc : desc'[d].core = desc[d].core
                                /\ (desc[d].core # c => desc'[d] = desc[d])
         PROVE  SetupInv'
    <2>1. Line(c)' = <<>> /\ \A b \in Core : b # c => Line(b)' = Line(b)
      <3>1. Line(c)' = <<>>
        BY <1>10 DEF Breaks, Line
      <3>2. ASSUME NEW b \in Core, b # c PROVE Line(b)' = Line(b)
        <4>1. link'[b] = link[b]
          BY <1>10, <3>2 DEF Breaks
        <4>2. link[b] # None => link[b] \in Handle /\ link[b] # link[c]
          BY <3>2, LineTypes DEF LinkInv
        <4>3. link[b] # None => up'[link[b]] = up[link[b]]
          BY <1>10, <4>2 DEF Breaks
        <4> QED
          BY <4>1, <4>3 DEF Line
      <3> QED
        BY <3>1, <3>2
    <2>2. buffer' = buffer
      BY <1>10 DEF Breaks
    <2> SUFFICES ASSUME NEW b \in Core PROVE OneSetup(b)'
      BY DEF SetupInv
    <2>3. CASE b = c
      BY <2>1, <2>2, <2>3 DEF OneSetup, SetupInv
    <2>4. CASE b # c
      <3>1. \A e \in Desc : desc[e].core = b =>
               /\ desc'[e].core = b
               /\ Bound(e) => Bound(e)'
               /\ desc[e].phase = "closed" => desc'[e].phase = "closed"
        BY <1>10, <2>4 DEF Bound
      <3> QED
        BY <1>0, <2>1, <2>2, <2>4, <3>1, CarriesSame, SetupKept DEF OneSetup, SetupInv
    <2> QED
      BY <2>3, <2>4
  <1>11. ASSUME NEW c \in Core, LinkLoss(c) PROVE SetupInv'
    BY <1>10, <1>11, LinkLossTypes
  <1>12. ASSUME NEW c \in Core, CoreCrash(c) PROVE SetupInv'
    BY <1>10, <1>12, CoreCrashTypes
  <1>13. ASSUME NEW c \in Core, Reconnect(c) PROVE SetupInv'
    BY <1>13, SetupReconnect
  <1> QED
    BY <1>3, <1>4, <1>5, <1>15, <1>16, <1>6, <1>7, <1>8, <1>9, <1>11, <1>12, <1>13 DEF Game

LEMMA SetupStep ==
    ASSUME DbTyped, NetTyped, GameTyped, NoDangling, LinkInv, RequestInv, SetupInv, Next
    PROVE  SetupInv'
  BY SetupDb, SetupGame DEF Next

-----------------------------------------------------------------------------
(***************************************************************************)
(* Loads.                                                                   *)
(***************************************************************************)

\* Who has been bound is bound, has gone, or has left the account; and a player comes
\* when he was asked for only.
Onward(d) ==
    /\ desc[d].phase # "unused" => desc'[d].phase # "unused"
    /\ Bound(d) \/ desc[d].phase = "closed" =>
           Bound(d)' \/ desc'[d].phase = "closed" \/ "left" \in odd'
    /\ desc'[d].char = "this" => desc[d].char = "this" \/ Loads(d)

LEMMA OnceBound ==
    ASSUME DbTyped, NetTyped, GameTyped, NoDangling, LinkInv, RequestInv, Next
    PROVE  \A d \in Desc : Onward(d)
  <1>1. ASSUME UNCHANGED desc PROVE \A d \in Desc : Onward(d)
    BY <1>1 DEF Onward, Bound
  <1>2. ASSUME Db PROVE UNCHANGED desc
    <2>1. ASSUME NEW k \in Key, QUERY_AUTH_LOGIN(k) PROVE UNCHANGED desc
      BY <2>1 DEF QUERY_AUTH_LOGIN
    <2>2. ASSUME NEW h \in Handle, RemovePeer(h) PROVE UNCHANGED desc
      BY <2>2 DEF RemovePeer
    <2>3. RESULT_LOGIN_BY_KEY \/ RESULT_LOGIN \/ RESULT_PLAYER_LOAD \/ DropResult \/ UpdateLogoutPlayer
              => UNCHANGED desc
      BY ReadTypes, ResultLoginTypes, ResultPlayerLoadTypes, DropTypes, FlushTypes DEF GameSame
    <2>4. ASSUME NEW h \in Handle,
                 QUERY_LOGIN_BY_KEY(h) \/ QUERY_LOGOUT(h) \/ QUERY_SETUP(h)
                     \/ QUERY_PLAYER_LOAD(h) \/ QUERY_PLAYER_SAVE(h)
          PROVE  UNCHANGED desc
      BY <2>4 DEF QUERY_LOGIN_BY_KEY, QUERY_LOGOUT, QUERY_SETUP, QUERY_PLAYER_LOAD,
                  QUERY_PLAYER_SAVE, Receive
    <2>5. DbRestart => UNCHANGED desc
      BY DEF DbRestart
    <2> QED
      BY <1>2, <2>1, <2>2, <2>3, <2>4, <2>5 DEF Db
  <1>3. ASSUME NEW d \in Desc, \A e \in Desc : e # d => desc'[e] = desc[e], Onward(d)
        PROVE  \A e \in Desc : Onward(e)
    BY <1>3 DEF Onward, Bound
  <1>4. ASSUME NEW d \in Desc, NEW c \in Core, Shows(d, c) PROVE \A e \in Desc : Onward(e)
    <2>1. /\ \A e \in Desc : e # d => desc'[e] = desc[e]
          /\ desc[d].phase # "closed" /\ desc'[d].phase = "login"
          /\ desc'[d].account = desc[d].account /\ desc'[d].char = desc[d].char
      BY <1>4 DEF Shows
    <2>2. Onward(d)
      BY <2>1 DEF Onward, Bound
    <2> QED
      BY <1>3, <2>1, <2>2
  <1>5. ASSUME NEW d \in Desc, Steady(d), desc[d].phase = "closed" => desc'[d].phase = "closed",
               Bound(d) => \/ desc'[d].account = "this" \/ desc'[d].phase = "closed"
                           \/ "left" \in odd',
               desc'[d].char = "this" => desc[d].char = "this"
        PROVE  \A e \in Desc : Onward(e)
    <2>1. Onward(d)
      BY <1>5 DEF Onward, Bound, Steady
    <2> QED
      BY <1>3, <1>5, <2>1 DEF Steady
  <1>6. ASSUME NEW d \in Desc,
               \/ \E c \in Core, k \in Key : LoginByKey(d, c, k)
               \/ \E c \in Core : LoginByOtherKey(d, c)
        PROVE  \A e \in Desc : Onward(e)
    BY <1>4, <1>6, LoginByKeyTypes, LoginByOtherKeyTypes
  <1>7. ASSUME NEW d \in Desc, OtherPlayerLoad(d) \/ Entergame(d) \/ PhaseSelect(d)
        PROVE  \A e \in Desc : Onward(e)
    <2>1. /\ Steady(d) /\ desc[d].phase # "closed" /\ desc'[d].account = desc[d].account
          /\ desc'[d].char = "this" => desc[d].char = "this"
      BY <1>7, LocalTypes, PhaseSelectTypes DEF Local
    <2> QED
      BY <1>5, <2>1 DEF Bound
  <1>8. ASSUME NEW d \in Desc, OtherLoginSuccess(d) \/ Destroy(d) PROVE \A e \in Desc : Onward(e)
    <2>1. /\ Steady(d) /\ desc[d].phase # "closed"
          /\ Bound(d) => desc'[d].phase = "closed" \/ "left" \in odd'
          /\ desc'[d].char = "this" => desc[d].char = "this"
      BY <1>8, OtherLoginSuccessTypes, DestroyTypes
    <2> QED
      BY <1>5, <2>1
  <1>9. ASSUME NEW d \in Desc, CharacterSelect(d) PROVE UNCHANGED desc
    BY <1>9, CharacterSelectTypes
  <1>10. ASSUME NEW c \in Core, LoginSuccess(c) PROVE \A e \in Desc : Onward(e)
    <2>1. PICK d \in Desc :
            \/ desc' = desc
            \/ /\ desc[d].phase # "closed" /\ desc'[d].phase = "login"
               /\ \A e \in Desc : e # d => desc'[e] = desc[e]
               /\ desc'[d].account = "this" /\ desc'[d].char = desc[d].char
      BY <1>10, LoginSuccessTypes
    <2>2. desc' # desc => Onward(d)
      BY <2>1 DEF Onward, Bound
    <2> QED
      BY <1>1, <1>3, <2>1, <2>2
  <1>11. ASSUME NEW c \in Core, PlayerLoad(c) PROVE \A e \in Desc : Onward(e)
    <2>1. PICK d \in Desc :
            /\ Takes(c, d) /\ Head(toGame[c]).type = "PLAYER_LOAD"
            /\ \/ desc' = desc
               \/ /\ desc'[d].phase = desc[d].phase
                  /\ \A e \in Desc : e # d => desc'[e] = desc[e]
                  /\ desc'[d].account = desc[d].account
      BY <1>11, PlayerLoadedTypes
    <2>2. Head(toGame[c]) \in LoadedMsg(d)
      BY <2>1, GameIs DEF Takes
    <2>3. Loads(d)
      BY <2>1, <2>2, TakesAt DEF Loads
    <2>4. desc' # desc => Onward(d)
      BY <2>1, <2>3 DEF Onward, Bound
    <2> QED
      BY <1>1, <1>3, <2>1, <2>4
  <1>12. ASSUME NEW c \in Core, LoginFailure(c) \/ LinkLoss(c) \/ Reconnect(c) PROVE UNCHANGED desc
    BY <1>12, LoginFailureTypes, LinkLossTypes, ReconnectTypes
  <1>13. ASSUME NEW c \in Core, CoreCrash(c) PROVE \A e \in Desc : Onward(e)
    <2>1. \A d \in Desc : \/ desc'[d] = desc[d]
                          \/ desc'[d].phase = "closed" /\ desc'[d].char = "none"
      BY <1>13, CoreCrashTypes
    <2> QED
      BY <2>1 DEF Onward, Bound
  <1>14. ASSUME Game PROVE \A d \in Desc : Onward(d)
    BY <1>1, <1>6, <1>7, <1>8, <1>9, <1>10, <1>11, <1>12, <1>13, <1>14 DEF Game
  <1> QED
    BY <1>1, <1>2, <1>14 DEF Next

LEMMA LoadKept ==
    ASSUME DbTyped, NetTyped, GameTyped, NoDangling, LinkInv, RequestInv, LoadInv, Next,
           \A d \in Desc : Loads(d)' => Loads(d) \/ Bound(d)
    PROVE  LoadInv'
  <1>1. \A d \in Desc : Onward(d)
    BY OnceBound
  <1>2. "left" \in odd => "left" \in odd'
    BY OddGrows
  <1>3. ASSUME NEW d \in Desc, Loads(d)' PROVE desc'[d].phase # "unused"
    <2>1. Bound(d) => desc[d].phase # "unused"
      BY DEF LinkInv, Placed, Bound
    <2> QED
      BY <1>1, <1>3, <2>1 DEF LoadInv, Onward
  <1>4. ASSUME NEW d \in Desc, "left" \notin odd', Loads(d)' \/ desc'[d].char = "this"
        PROVE  Bound(d)' \/ desc'[d].phase = "closed"
    <2>1. Bound(d) \/ desc[d].phase = "closed"
      BY <1>1, <1>2, <1>4 DEF LoadInv, Onward
    <2> QED
      BY <1>1, <1>4, <2>1 DEF Onward
  <1> QED
    BY <1>3, <1>4 DEF LoadInv

\* No queue has a load that was not asked for.
LEMMA LoadsFall ==
    ASSUME NEW d \in Desc,
           \A c \in Core : /\ Some(buffer'[c], LoadMsg(d)) => Loads(d)
                           /\ Some(toGame'[c], LoadedMsg(d)) => Loads(d),
           \A h \in Handle : /\ Some(up'[h], LoadMsg(d)) => Loads(d)
                             /\ Some(sql', LoadOf(d, h)) => Loads(d)
    PROVE  Loads(d)' => Loads(d)
  BY DEF Loads

LEMMA LoadsIn ==
    ASSUME NEW d
    PROVE  /\ \A c \in Core : /\ Some(buffer[c], LoadMsg(d)) => Loads(d)
                              /\ Some(toGame[c], LoadedMsg(d)) => Loads(d)
           /\ \A h \in Handle : /\ Some(up[h], LoadMsg(d)) => Loads(d)
                                /\ Some(sql, LoadOf(d, h)) => Loads(d)
  BY DEF Loads

\* Neither an answer to a login nor a statement for one is a load.
LEMMA NoLoadReply ==
    ASSUME NetTyped, NEW h \in Handle, NEW e \in Desc,
           NEW t \in {"LOGIN_SUCCESS", "LOGIN_ALREADY", "LOGIN_NOT_EXIST"},
           Reply(h, [type |-> t, desc |-> e])
    PROVE  \A d : \A c \in Core : Some(toGame'[c], LoadedMsg(d)) => Some(toGame[c], LoadedMsg(d))
  <1> DEFINE m == [type |-> t, desc |-> e]
  <1>1. m \in GameMsg /\ m.type = t /\ Reply(h, m)
    BY AnswerAt
  <1> HIDE DEF m
  <1>2. \A d : m \notin LoadedMsg(d)
    BY <1>1, GameIs
  <1> QED
    BY <1>1, <1>2, RepliesAt

LEMMA LoadReply ==
    ASSUME NetTyped, NEW h \in Handle, NEW e \in Desc,
           Reply(h, [type |-> "PLAYER_LOAD", desc |-> e])
    PROVE  \A d : \A c \in Core : Some(toGame'[c], LoadedMsg(d)) => Some(toGame[c], LoadedMsg(d)) \/ d = e
  <1> DEFINE m == [type |-> "PLAYER_LOAD", desc |-> e]
  <1>1. m \in GameMsg /\ m.type = "PLAYER_LOAD" /\ m.desc = e /\ Reply(h, m)
    BY AnswerAt
  <1> HIDE DEF m
  <1>2. \A d : m \in LoadedMsg(d) => d = e
    BY <1>1, GameIs
  <1> QED
    BY <1>1, <1>2, RepliesAt

LEMMA NoLoadPut ==
    ASSUME NEW q \in Seq(Statement), NEW h \in Handle, NEW e \in Desc, NEW t \in {"key", "login"},
           sql' = Append(q, [q |-> t, peer |-> h, desc |-> e])
    PROVE  \A d, g : Some(sql', LoadOf(d, g)) => Some(q, LoadOf(d, g))
  <1> DEFINE s == [q |-> t, peer |-> h, desc |-> e]
  <1>1. s \in Statement /\ s.q = t /\ sql' = Append(q, s)
    BY StatementAt
  <1> HIDE DEF s
  <1>2. \A d, g : s \notin LoadOf(d, g)
    BY <1>1, StatementIs
  <1> QED
    BY <1>1, <1>2, SqlPuts

LEMMA LoadPut ==
    ASSUME NEW q \in Seq(Statement), NEW h \in Handle, NEW e \in Desc,
           sql' = Append(q, [q |-> "load", peer |-> h, desc |-> e])
    PROVE  \A d, g : Some(sql', LoadOf(d, g)) => Some(q, LoadOf(d, g)) \/ (d = e /\ g = h)
  <1> DEFINE s == [q |-> "load", peer |-> h, desc |-> e]
  <1>1. s \in Statement /\ s.peer = h /\ s.desc = e /\ sql' = Append(q, s)
    BY StatementAt
  <1> HIDE DEF s
  <1>2. \A d, g : s \in LoadOf(d, g) => d = e /\ g = h
    BY <1>1, StatementIs
  <1> QED
    BY <1>1, <1>2, SqlPuts

LEMMA LoadsDb ==
    ASSUME DbTyped, NetTyped, GameTyped, NoDangling, LinkInv, Db, NEW d \in Desc
    PROVE  Loads(d)' => Loads(d)
  <1>1. ASSUME UNCHANGED <<up, buffer, toGame, sql>> PROVE Loads(d)' => Loads(d)
    BY <1>1 DEF Loads
  <1>2. ASSUME NEW h \in Handle, NEW type, Receive(h, type),
               \A c \in Core : Some(toGame'[c], LoadedMsg(d)) => Loads(d),
               \A g \in Handle : Some(sql', LoadOf(d, g)) => Loads(d)
        PROVE  Loads(d)' => Loads(d)
    <2>1. buffer' = buffer /\ \A g \in Handle : Some(up'[g], LoadMsg(d)) => Some(up[g], LoadMsg(d))
      BY <1>2, ReceivesAt
    <2> QED
      BY <1>2, <2>1, LoadsIn, LoadsFall
  <1>3. ASSUME GameSame,
               \A c \in Core : Some(toGame'[c], LoadedMsg(d)) => Loads(d),
               \A g \in Handle : Some(sql', LoadOf(d, g)) => Loads(d)
        PROVE  Loads(d)' => Loads(d)
    BY <1>3, LoadsIn, LoadsFall DEF GameSame
  <1>4. ASSUME NEW k \in Key, QUERY_AUTH_LOGIN(k) PROVE Loads(d)' => Loads(d)
    <2>1. UNCHANGED <<up, buffer, toGame, sql>>
      BY <1>4 DEF QUERY_AUTH_LOGIN, netVars
    <2> QED
      BY <1>1, <2>1
  <1>5. ASSUME NEW h \in Handle, QUERY_LOGIN_BY_KEY(h) PROVE Loads(d)' => Loads(d)
    <2> DEFINE e == Head(up[h]).desc
    <2>1. Receive(h, "LOGIN_BY_KEY") /\ e \in Desc
      BY <1>5, AskTypes DEF QUERY_LOGIN_BY_KEY
    <2>2. CASE /\ sql' = Append(sql, [q |-> "key", peer |-> h, desc |-> e])
               /\ toGame' = toGame
      <3> HIDE DEF e
      <3>1. \A g : Some(sql', LoadOf(d, g)) => Some(sql, LoadOf(d, g))
        BY <2>1, <2>2, NoLoadPut DEF DbTyped
      <3> QED
        BY <1>2, <2>1, <2>2, <3>1, LoadsIn
    <2>3. CASE /\ sql' = sql
               /\ \E t \in {"LOGIN_NOT_EXIST", "LOGIN_ALREADY"} :
                      Reply(h, [type |-> t, desc |-> e])
      <3> HIDE DEF e
      <3>1. \A c \in Core : Some(toGame'[c], LoadedMsg(d)) => Some(toGame[c], LoadedMsg(d))
        BY <2>1, <2>3, NoLoadReply
      <3> QED
        BY <1>2, <2>1, <2>3, <3>1, LoadsIn
    <2> QED
      BY <1>5, <2>2, <2>3, AskTypes
  <1>6. ASSUME NEW h \in Handle, NEW type, Receive(h, type), UNCHANGED <<sql, toGame>>
        PROVE  Loads(d)' => Loads(d)
    BY <1>2, <1>6, LoadsIn
  <1>7. ASSUME NEW h \in Handle, QUERY_LOGOUT(h) PROVE Loads(d)' => Loads(d)
    BY <1>6, <1>7 DEF QUERY_LOGOUT
  <1>8. ASSUME NEW h \in Handle, QUERY_SETUP(h) PROVE Loads(d)' => Loads(d)
    BY <1>6, <1>8 DEF QUERY_SETUP
  <1>9. ASSUME NEW h \in Handle, QUERY_PLAYER_SAVE(h) PROVE Loads(d)' => Loads(d)
    BY <1>6, <1>9 DEF QUERY_PLAYER_SAVE
  <1>10. ASSUME NEW h \in Handle, QUERY_PLAYER_LOAD(h) PROVE Loads(d)' => Loads(d)
    <2> DEFINE e == Head(up[h]).desc
    <2>1. Receive(h, "PLAYER_LOAD") /\ e \in Desc
      BY <1>10, PlayerLoadTypes DEF QUERY_PLAYER_LOAD
    <2>2. e = d => Loads(d)
      <3>1. /\ Head(up[h]) \in UpMsg /\ Head(up[h]).type = "PLAYER_LOAD"
            /\ Head(up[h]) \in LoadMsg(d) => Some(up[h], LoadMsg(d))
        BY <2>1, ReceivesAt
      <3>2. e = d => Head(up[h]) \in LoadMsg(d)
        BY <3>1, UpIs
      <3> QED
        BY <3>1, <3>2, LoadsIn
    <2>3. CASE /\ sql' = Append(sql, [q |-> "load", peer |-> h, desc |-> e])
               /\ toGame' = toGame
      <3> HIDE DEF e
      <3>1. \A g : Some(sql', LoadOf(d, g)) => Some(sql, LoadOf(d, g)) \/ d = e
        BY <2>1, <2>3, LoadPut DEF DbTyped
      <3> QED
        BY <1>2, <2>1, <2>2, <2>3, <3>1, LoadsIn
    <2>4. CASE sql' = sql /\ toGame' = toGame
      BY <1>6, <2>1, <2>4
    <2>5. CASE sql' = sql /\ Reply(h, [type |-> "PLAYER_LOAD", desc |-> e])
      <3> HIDE DEF e
      <3>1. \A c \in Core : Some(toGame'[c], LoadedMsg(d)) => Some(toGame[c], LoadedMsg(d)) \/ d = e
        BY <2>1, <2>5, LoadReply
      <3> QED
        BY <1>2, <2>1, <2>2, <2>5, <3>1, LoadsIn
    <2> QED
      BY <1>10, <2>3, <2>4, <2>5, PlayerLoadTypes
  <1>11. ASSUME NEW h \in Handle, RemovePeer(h) PROVE Loads(d)' => Loads(d)
    <2>1. UNCHANGED <<up, buffer, toGame, sql>>
      BY <1>11 DEF RemovePeer
    <2> QED
      BY <1>1, <2>1
  <1>12. ASSUME RESULT_LOGIN_BY_KEY PROVE Loads(d)' => Loads(d)
    <2> DEFINE h == Head(sql).peer
               e == Head(sql).desc
               q == Tail(sql)
    <2>1. GameSame /\ sql # <<>> /\ h \in Handle /\ e \in Desc /\ q \in Seq(Statement)
      BY <1>12, ReadTypes, StatementIs, SqlTail DEF DbTyped
    <2>2. \A g : Some(q, LoadOf(d, g)) => Some(sql, LoadOf(d, g))
      BY <2>1, SqlTakes
    <2>3. CASE /\ sql' = Append(q, [q |-> "login", peer |-> h, desc |-> e])
               /\ toGame' = toGame
      <3> HIDE DEF e, h, q
      <3>1. \A g : Some(sql', LoadOf(d, g)) => Some(q, LoadOf(d, g))
        BY <2>1, <2>3, NoLoadPut
      <3> QED
        BY <1>3, <2>1, <2>2, <2>3, <3>1, LoadsIn
    <2>4. CASE sql' = q /\ Reply(h, [type |-> "LOGIN_NOT_EXIST", desc |-> e])
      <3> HIDE DEF e, h, q
      <3>1. \A c \in Core : Some(toGame'[c], LoadedMsg(d)) => Some(toGame[c], LoadedMsg(d))
        BY <2>1, <2>4, NoLoadReply
      <3> QED
        BY <1>3, <2>1, <2>2, <2>4, <3>1, LoadsIn
    <2> QED
      BY <1>12, <2>3, <2>4, ReadTypes
  <1>13. ASSUME RESULT_LOGIN PROVE Loads(d)' => Loads(d)
    <2> DEFINE h == Head(sql).peer
               e == Head(sql).desc
    <2>1. /\ GameSame /\ sql # <<>> /\ sql' = Tail(sql) /\ h \in Handle /\ e \in Desc
          /\ \/ Reply(h, [type |-> "LOGIN_SUCCESS", desc |-> e])
             \/ Reply(h, [type |-> "LOGIN_ALREADY", desc |-> e])
      BY <1>13, ResultLoginTypes, ResultLoginFacts, StatementIs
    <2>2. \A g : Some(sql', LoadOf(d, g)) => Some(sql, LoadOf(d, g))
      BY <2>1, SqlTakes
    <2> HIDE DEF h, e
    <2>3. \A c \in Core : Some(toGame'[c], LoadedMsg(d)) => Some(toGame[c], LoadedMsg(d))
      BY <2>1, NoLoadReply
    <2> QED
      BY <1>3, <2>1, <2>2, <2>3, LoadsIn
  <1>14. ASSUME RESULT_PLAYER_LOAD PROVE Loads(d)' => Loads(d)
    <2> DEFINE h == Head(sql).peer
               e == Head(sql).desc
    <2>1. /\ GameSame /\ sql # <<>> /\ sql' = Tail(sql) /\ h \in Handle /\ e \in Desc
          /\ Head(sql) \in Statement /\ Head(sql).q = "load"
          /\ toGame' = toGame \/ Reply(h, [type |-> "PLAYER_LOAD", desc |-> e])
      BY <1>14, ResultPlayerLoadTypes, StatementIs
    <2>2. \A g : Some(sql', LoadOf(d, g)) => Some(sql, LoadOf(d, g))
      BY <2>1, SqlTakes
    <2>3. e = d => Some(sql, LoadOf(d, h))
      <3>1. e = d => Head(sql) \in LoadOf(d, h)
        BY <2>1, StatementIs
      <3> QED
        BY <2>1, <3>1, SqlTakes
    <2> HIDE DEF h, e
    <2>4. \A c \in Core : Some(toGame'[c], LoadedMsg(d)) => Some(toGame[c], LoadedMsg(d)) \/ d = e
      BY <2>1, LoadReply
    <2> QED
      BY <1>3, <2>1, <2>2, <2>3, <2>4, LoadsIn
  <1>15. ASSUME DropResult PROVE Loads(d)' => Loads(d)
    <2>1. GameSame /\ sql # <<>> /\ sql' = Tail(sql) /\ toGame' = toGame
      BY <1>15, DropTypes
    <2>2. \A g : Some(sql', LoadOf(d, g)) => Some(sql, LoadOf(d, g))
      BY <2>1, SqlTakes
    <2> QED
      BY <1>3, <2>1, <2>2, LoadsIn
  <1>16. ASSUME UpdateLogoutPlayer PROVE Loads(d)' => Loads(d)
    <2>1. UNCHANGED <<up, buffer, toGame, sql>>
      BY <1>16, FlushTypes DEF GameSame
    <2> QED
      BY <1>1, <2>1
  <1>17. ASSUME DbRestart PROVE Loads(d)' => Loads(d)
    <2>1. /\ sql' = <<>> /\ up' = [h \in Handle |-> <<>>] /\ toGame' = [c \in Core |-> <<>>]
          /\ buffer' = buffer
      BY <1>17 DEF DbRestart
    <2>2. /\ \A h \in Handle : up'[h] = <<>>
          /\ \A c \in Core : toGame'[c] = <<>>
      BY <2>1
    <2> QED
      BY <2>1, <2>2, EmptyAt, LoadsIn, LoadsFall
  <1> QED
    BY <1>4, <1>5, <1>7, <1>8, <1>9, <1>10, <1>11, <1>12, <1>13, <1>14, <1>15, <1>16, <1>17 DEF Db

LEMMA LoadsGame ==
    ASSUME DbTyped, NetTyped, GameTyped, NoDangling, LinkInv, Game, NEW d \in Desc
    PROVE  Loads(d)' => Loads(d) \/ Bound(d)
  <1>1. ASSUME NEW c \in Core, NEW ms, Sends(c, ms), UNCHANGED <<link, sql>>,
               Some(ms, LoadMsg(d)) => Bound(d),
               \A e \in Core : Some(toGame'[e], LoadedMsg(d)) => Some(toGame[e], LoadedMsg(d))
        PROVE  Loads(d)' => Loads(d) \/ Bound(d)
    <2>1. /\ \A h \in Handle : Some(up'[h], LoadMsg(d)) => Some(up[h], LoadMsg(d)) \/ Bound(d)
          /\ \A e \in Core : Some(buffer'[e], LoadMsg(d)) => Some(buffer[e], LoadMsg(d)) \/ Bound(d)
      BY <1>1, SendsAt
    <2> QED
      BY <1>1, <2>1, LoadsIn, LoadsFall
  <1>2. ASSUME UNCHANGED <<up, buffer, sql>>,
               \A e \in Core : Some(toGame'[e], LoadedMsg(d)) => Some(toGame[e], LoadedMsg(d))
        PROVE  Loads(d)' => Loads(d)
    BY <1>2, LoadsIn, LoadsFall
  <1>3. ASSUME NEW e \in Desc, NEW c \in Core, NEW k \in Key, LoginByKey(e, c, k)
        PROVE  Loads(d)' => Loads(d) \/ Bound(d)
    <2> DEFINE m == [type |-> "LOGIN_BY_KEY", desc |-> e, key |-> k]
    <2>1. Sends(c, <<m>>) /\ UNCHANGED <<link, sql, toGame>>
      BY <1>3, LoginByKeyTypes DEF dbVars
    <2>2. m \in UpMsg /\ m \notin LoadMsg(d)
      BY AskAt
    <2> HIDE DEF m
    <2> QED
      BY <1>1, <2>1, <2>2, OneSent
  <1>4. ASSUME NEW e \in Desc, CharacterSelect(e)
        PROVE  Loads(d)' => Loads(d) \/ Bound(d)
    <2> DEFINE m == [type |-> "PLAYER_LOAD", desc |-> e]
    <2>1. /\ Sends(desc[e].core, <<m>>) /\ UNCHANGED <<link, sql, toGame>>
          /\ Bound(e) /\ desc[e].core \in Core
      BY <1>4, CharacterSelectTypes, OnCore DEF dbVars
    <2>2. m \in UpMsg /\ (m \in LoadMsg(d) => d = e)
      BY LoadAt
    <2> HIDE DEF m
    <2> QED
      BY <1>1, <2>1, <2>2, OneSent
  <1>5. ASSUME NEW e \in Desc, PhaseSelect(e) \/ Destroy(e)
        PROVE  Loads(d)' => Loads(d) \/ Bound(d)
    <2>1. /\ Sends(desc[e].core, Save(e)) \/ Sends(desc[e].core, Farewell(e))
          /\ UNCHANGED <<link, sql, toGame>> /\ desc[e].core \in Core
      BY <1>5, PhaseSelectTypes, DestroyTypes, OnCore DEF dbVars, Steady
    <2>2. ~Some(Farewell(e), LoadMsg(d)) /\ ~Some(Save(e), LoadMsg(d))
      BY FarewellAt, SavedAt
    <2> QED
      BY <1>1, <2>1, <2>2
  <1>6. ASSUME NEW e \in Desc,
               \/ \E c \in Core : LoginByOtherKey(e, c)
               \/ OtherLoginSuccess(e) \/ OtherPlayerLoad(e) \/ Entergame(e)
        PROVE  Loads(d)' => Loads(d)
    <2>1. UNCHANGED <<up, buffer, sql, toGame>>
      BY <1>6, LoginByOtherKeyTypes, OtherLoginSuccessTypes, LocalTypes DEF Local, dbVars, netVars
    <2> QED
      BY <1>2, <2>1
  <1>7. ASSUME NEW c \in Core, LoginSuccess(c)
        PROVE  Loads(d)' => Loads(d) \/ Bound(d)
    <2>1. UNCHANGED <<link, sql>>
      BY <1>7, LoginSuccessTypes DEF dbVars
    <2>2. PICK e \in Desc : Takes(c, e) /\ (Sends(c, <<Logout(e)>>) \/ UNCHANGED <<up, buffer>>)
      BY <1>7, LoginSuccessTypes
    <2>3. /\ \A b \in Core : Some(toGame'[b], LoadedMsg(d)) => Some(toGame[b], LoadedMsg(d))
          /\ ~Some(<<Logout(e)>>, LoadMsg(d))
      BY <2>2, TakesAt, LogoutAt, OneSent
    <2> QED
      BY <1>1, <1>2, <2>1, <2>2, <2>3
  <1>8. ASSUME NEW c \in Core, LoginFailure(c) \/ PlayerLoad(c)
        PROVE  Loads(d)' => Loads(d)
    <2>1. UNCHANGED <<up, buffer, sql>> /\ \E e \in Desc : Takes(c, e)
      BY <1>8, LoginFailureTypes, PlayerLoadedTypes DEF dbVars
    <2>2. \A b \in Core : Some(toGame'[b], LoadedMsg(d)) => Some(toGame[b], LoadedMsg(d))
      BY <2>1, TakesAt
    <2> QED
      BY <1>2, <2>1, <2>2
  <1>9. ASSUME NEW c \in Core, Breaks(c)
        PROVE  Loads(d)' => Loads(d)
    <2>1. /\ UNCHANGED <<sql, buffer>>
          /\ \A h \in Handle : up'[h] = up[h] \/ up'[h] = <<>>
          /\ \A b \in Core : toGame'[b] = toGame[b] \/ toGame'[b] = <<>>
      BY <1>9 DEF Breaks, dbVars
    <2> QED
      BY <2>1, EmptyAt, LoadsIn, LoadsFall
  <1>10. ASSUME NEW c \in Core, Reconnect(c)
         PROVE  Loads(d)' => Loads(d)
    <2> DEFINE m == SetupOf(c)
    <2>1. /\ UNCHANGED <<sql, toGame>> /\ buffer'[c] = <<>>
          /\ \A b \in Core : b # c => buffer'[b] = buffer[b]
          /\ up'[bounds.handle] = Append(buffer[c], m)
          /\ \A h \in Handle : h # bounds.handle => up'[h] = up[h]
      BY <1>10, ReconnectTypes DEF dbVars
    <2>2. m \in UpMsg /\ m \notin LoadMsg(d) /\ buffer[c] \in Seq(UpMsg)
      BY SetupOfAt DEF NetTyped
    <2> HIDE DEF m
    <2>3. Some(Append(buffer[c], m), LoadMsg(d)) => Some(buffer[c], LoadMsg(d))
      BY <2>2, AppendAt
    <2> QED
      BY <2>1, <2>3, EmptyAt, LoadsIn, LoadsFall
  <1>11. ASSUME NEW c \in Core, LinkLoss(c) \/ CoreCrash(c) PROVE Loads(d)' => Loads(d)
    BY <1>9, <1>11, LinkLossTypes, CoreCrashTypes
  <1> QED
    BY <1>3, <1>4, <1>5, <1>6, <1>7, <1>8, <1>10, <1>11 DEF Game

LEMMA LoadStep ==
    ASSUME DbTyped, NetTyped, GameTyped, NoDangling, LinkInv, RequestInv, LoadInv, Next
    PROVE  LoadInv'
  BY LoadsDb, LoadsGame, LoadKept DEF Next

-----------------------------------------------------------------------------
(***************************************************************************)
(* Steps that neither begin nor end a session.                              *)
(***************************************************************************)

SameAnswers ==
    \A c \in Core : /\ Some(toGame'[c], SuccessMsg) <=> Some(toGame[c], SuccessMsg)
                    /\ Once(toGame[c], SuccessMsg) => Once(toGame'[c], SuccessMsg)
SameLogouts ==
    \A h \in Handle : /\ Fall(up[h], up'[h], LogoutMsg)
                      /\ Some(up[h], AnyLogout) => Some(up'[h], AnyLogout)

Quiet ==
    /\ UNCHANGED <<link, lost>> /\ EntrySame
    /\ \A c \in Core : BoundOn(c)' = BoundOn(c)
    /\ SameAnswers /\ SameLogouts
    /\ odd \subseteq odd'
    /\ byLogin # None /\ "refused" \notin odd' => byLogin' # None

LEMMA SameQueues ==
    /\ toGame' = toGame => SameAnswers
    /\ up' = up => SameLogouts
    /\ desc' = desc => \A c \in Core : BoundOn(c)' = BoundOn(c)
  BY FallAt DEF SameAnswers, SameLogouts, BoundOn, Bound

LEMMA QuietReceived ==
    ASSUME NetTyped, NEW h \in Handle, NEW type, Receive(h, type), type # "LOGOUT"
    PROVE  SameLogouts /\ UNCHANGED <<link, desc>>
  <1>1. /\ Head(up[h]) \in UpMsg /\ Head(up[h]).type = type /\ UNCHANGED <<link, desc>>
        /\ \A g \in Handle : g # h => up'[g] = up[g]
        /\ \A M : Some(up[h], M) <=> Head(up[h]) \in M \/ Some(up'[h], M)
        /\ \A M : \A g \in Handle : Fall(up[g], up'[g], M)
    BY ReceivesAt DEF Fall
  <1>2. Head(up[h]) \notin AnyLogout
    BY <1>1 DEF AnyLogout
  <1> QED
    BY <1>1, <1>2 DEF SameLogouts

LEMMA QuietReply ==
    ASSUME NetTyped, NEW h \in Handle, NEW e \in Desc,
           NEW t \in {"LOGIN_ALREADY", "LOGIN_NOT_EXIST", "PLAYER_LOAD"},
           Reply(h, [type |-> t, desc |-> e])
    PROVE  SameAnswers
  <1> DEFINE m == [type |-> t, desc |-> e]
  <1>1. m \in GameMsg /\ m.type = t /\ Reply(h, m)
    BY AnswerAt
  <1> HIDE DEF m
  <1>2. m \notin SuccessMsg
    BY <1>1, GameIs
  <1> QED
    BY <1>1, <1>2, RepliesAt DEF SameAnswers

LEMMA QuietTaken ==
    ASSUME NetTyped, NEW c \in Core, NEW d, Takes(c, d), Head(toGame[c]).type # "LOGIN_SUCCESS"
    PROVE  SameAnswers
  <1>1. Head(toGame[c]) \notin SuccessMsg
    BY GameIs DEF Takes
  <1> QED
    BY <1>1, TakesAt DEF SameAnswers

LEMMA QuietSent ==
    ASSUME NetTyped, LinkInv, NEW c \in Core, NEW ms, Sends(c, ms), UNCHANGED link,
           ~Some(ms, LogoutMsg), Once(ms, LogoutMsg)
    PROVE  SameLogouts
  BY SendsAt DEF SameLogouts, Fall

\* What the db does, apart from the steps that change the entry.
LEMMA QuietDb ==
    ASSUME DbTyped, NetTyped, GameTyped, NoDangling, LinkInv, Db
    PROVE  \/ Quiet
           \/ \E h \in Handle : QUERY_LOGOUT(h) \/ QUERY_SETUP(h)
           \/ \E h \in Handle : RemovePeer(h) /\ Entry(h)
           \/ RESULT_LOGIN \/ DbRestart
  <1>1. ASSUME NEW k \in Key, QUERY_AUTH_LOGIN(k) PROVE Quiet
    <2>1. UNCHANGED <<link, lost, toGame, up, desc>>
      BY <1>1 DEF QUERY_AUTH_LOGIN, netVars
    <2> QED
      BY <1>1, <2>1, AuthFacts, SameQueues DEF Quiet
  <1>2. ASSUME NEW h \in Handle, QUERY_LOGIN_BY_KEY(h) PROVE Quiet
    <2> DEFINE e == Head(up[h]).desc
    <2>1. Receive(h, "LOGIN_BY_KEY") /\ UNCHANGED <<heap, byLogin, logon, lost, odd>>
      BY <1>2 DEF QUERY_LOGIN_BY_KEY
    <2>2. SameLogouts /\ UNCHANGED <<link, desc>>
      BY <2>1, QuietReceived
    <2>3. e \in Desc
      BY <1>2, AskTypes
    <2>4. \/ toGame' = toGame
          \/ \E t \in {"LOGIN_NOT_EXIST", "LOGIN_ALREADY"} : Reply(h, [type |-> t, desc |-> e])
      BY <1>2, AskTypes
    <2> HIDE DEF e
    <2>5. SameAnswers
      BY <2>3, <2>4, SameQueues, QuietReply
    <2> QED
      BY <2>1, <2>2, <2>5, SameQueues DEF Quiet, EntrySame
  <1>3. ASSUME NEW h \in Handle, QUERY_PLAYER_LOAD(h) PROVE Quiet
    <2> DEFINE e == Head(up[h]).desc
    <2>1. Receive(h, "PLAYER_LOAD") /\ UNCHANGED <<byLogin, logon, lost, odd>> /\ EntrySame
          /\ e \in Desc
      BY <1>3, PlayerLoadTypes DEF QUERY_PLAYER_LOAD
    <2>2. SameLogouts /\ UNCHANGED <<link, desc>>
      BY <2>1, QuietReceived
    <2>3. toGame' = toGame \/ Reply(h, [type |-> "PLAYER_LOAD", desc |-> e])
      BY <1>3, PlayerLoadTypes
    <2> HIDE DEF e
    <2>4. SameAnswers
      BY <2>1, <2>3, SameQueues, QuietReply
    <2> QED
      BY <2>1, <2>2, <2>4, SameQueues DEF Quiet
  <1>4. ASSUME NEW h \in Handle, QUERY_PLAYER_SAVE(h) PROVE Quiet
    <2>1. Receive(h, "PLAYER_SAVE") /\ UNCHANGED <<heap, byLogin, logon, lost, odd, toGame>>
      BY <1>4 DEF QUERY_PLAYER_SAVE
    <2>2. SameLogouts /\ UNCHANGED <<link, desc>>
      BY <2>1, QuietReceived
    <2> QED
      BY <2>1, <2>2, SameQueues DEF Quiet, EntrySame
  <1>5. ASSUME NEW h \in Handle, RemovePeer(h), ~Entry(h) PROVE Quiet
    <2>1. EntrySame /\ UNCHANGED <<byLogin, link, lost, toGame, up, desc, odd>>
      BY <1>5, RemoveTypes
    <2> QED
      BY <2>1, SameQueues DEF Quiet
  <1>6. ASSUME RESULT_LOGIN_BY_KEY PROVE Quiet
    <2> DEFINE e == Head(sql).desc
               h == Head(sql).peer
    <2>1. /\ GameSame /\ UNCHANGED <<heap, byLogin, logon, odd>> /\ e \in Desc /\ h \in Handle
          /\ toGame' = toGame \/ Reply(h, [type |-> "LOGIN_NOT_EXIST", desc |-> e])
      BY <1>6, ReadTypes, StatementIs
    <2> HIDE DEF e, h
    <2>2. SameAnswers
      BY <2>1, SameQueues, QuietReply
    <2> QED
      BY <2>1, <2>2, SameQueues DEF Quiet, EntrySame, GameSame
  <1>7. ASSUME RESULT_PLAYER_LOAD PROVE Quiet
    <2> DEFINE e == Head(sql).desc
               h == Head(sql).peer
    <2>1. /\ GameSame /\ UNCHANGED <<byLogin, logon, odd>> /\ EntrySame /\ e \in Desc /\ h \in Handle
          /\ toGame' = toGame \/ Reply(h, [type |-> "PLAYER_LOAD", desc |-> e])
      BY <1>7, ResultPlayerLoadTypes, StatementIs
    <2> HIDE DEF e, h
    <2>2. SameAnswers
      BY <2>1, SameQueues, QuietReply
    <2> QED
      BY <2>1, <2>2, SameQueues DEF Quiet, GameSame
  <1>8. ASSUME DropResult \/ UpdateLogoutPlayer PROVE Quiet
    <2>1. GameSame /\ UNCHANGED <<heap, byLogin, logon, odd, toGame>>
      BY <1>8, DropTypes, FlushTypes
    <2> QED
      BY <2>1, SameQueues DEF Quiet, EntrySame, GameSame
  <1> QED
    BY <1>1, <1>2, <1>3, <1>4, <1>5, <1>6, <1>7, <1>8 DEF Db

\* What the cores do, apart from a client that is bound or leaves.
LEMMA QuietGame ==
    ASSUME DbTyped, NetTyped, GameTyped, NoDangling, LinkInv, RequestInv, Game
    PROVE  \/ Quiet
           \/ \E d \in Desc : (Destroy(d) \/ OtherLoginSuccess(d)) /\ Bound(d)
           \/ \E c \in Core : LoginSuccess(c) \/ LinkLoss(c) \/ CoreCrash(c) \/ Reconnect(c)
  <1>1. ASSUME UNCHANGED <<dbVars, link, lost, odd>>, SameAnswers, SameLogouts,
               \A c \in Core : BoundOn(c)' = BoundOn(c)
        PROVE  Quiet
    BY <1>1 DEF Quiet, EntrySame, dbVars
  <1>8. ASSUME NEW d \in Desc,
               \/ \E c \in Core : Shows(d, c)
               \/ Steady(d) /\ desc'[d].account = desc[d].account
        PROVE  \A b \in Core : BoundOn(b)' = BoundOn(b)
    <2>1. \A e \in Desc : /\ desc'[e].account = desc[e].account
                          /\ desc'[e].core = desc[e].core \/ desc[e].phase = "unused"
      BY <1>8 DEF Shows, Steady
    <2> QED
      BY <2>1, SameBound
  <1>2. ASSUME NEW d \in Desc, NEW c \in Core, NEW k \in Key, LoginByKey(d, c, k) PROVE Quiet
    <2> DEFINE m == [type |-> "LOGIN_BY_KEY", desc |-> d, key |-> k]
    <2>1. UNCHANGED <<dbVars, link, toGame, lost, odd>> /\ Sends(c, <<m>>) /\ Shows(d, c)
      BY <1>2, LoginByKeyTypes
    <2>2. m \in UpMsg /\ m \notin LogoutMsg
      BY AskAt
    <2> HIDE DEF m
    <2>3. SameLogouts
      BY <2>1, <2>2, OneSent, QuietSent
    <2> QED
      BY <1>1, <1>8, <2>1, <2>3, SameQueues
  <1>9. ASSUME NEW d \in Desc,
               \/ \E c \in Core : LoginByOtherKey(d, c)
               \/ OtherPlayerLoad(d) \/ Entergame(d)
        PROVE  Quiet
    <2>1. /\ UNCHANGED <<dbVars, link, toGame, up, lost, odd>>
          /\ \/ \E c \in Core : Shows(d, c)
             \/ Steady(d) /\ desc'[d].account = desc[d].account
      BY <1>9, LoginByOtherKeyTypes, LocalTypes DEF Local, netVars
    <2> QED
      BY <1>1, <1>8, <2>1, SameQueues
  <1>3. ASSUME NEW d \in Desc, CharacterSelect(d) PROVE Quiet
    <2> DEFINE m == [type |-> "PLAYER_LOAD", desc |-> d]
    <2>1. /\ UNCHANGED <<dbVars, link, toGame, lost, odd, desc>> /\ Sends(desc[d].core, <<m>>)
          /\ desc[d].core \in Core
      BY <1>3, CharacterSelectTypes, OnCore
    <2>2. m \in UpMsg /\ m \notin LogoutMsg
      BY LoadAt
    <2> HIDE DEF m
    <2>3. SameLogouts
      BY <2>1, <2>2, OneSent, QuietSent
    <2> QED
      BY <1>1, <2>1, <2>3, SameQueues
  <1>4. ASSUME NEW d \in Desc, PhaseSelect(d) PROVE Quiet
    <2>1. /\ UNCHANGED <<dbVars, link, toGame, lost, odd>> /\ Sends(desc[d].core, Save(d))
          /\ desc[d].core \in Core
          /\ Steady(d) /\ desc'[d].account = desc[d].account
      BY <1>4, PhaseSelectTypes, OnCore
    <2>3. SameLogouts
      BY <2>1, SavedAt, QuietSent
    <2> QED
      BY <1>1, <1>8, <2>1, <2>3, SameQueues
  <1>10. ASSUME NEW d \in Desc, Steady(d), ~Bound(d), desc'[d].account # "this"
         PROVE  \A b \in Core : BoundOn(b)' = BoundOn(b)
    BY <1>10 DEF BoundOn, Bound, Steady
  <1>5. ASSUME NEW d \in Desc, Destroy(d), ~Bound(d) PROVE Quiet
    <2>1. /\ UNCHANGED <<dbVars, link, toGame, odd>> /\ Sends(desc[d].core, Farewell(d))
          /\ Steady(d) /\ desc'[d].account = "none" /\ lost' = lost \ {d}
          /\ desc[d].core \in Core
      BY <1>5, DestroyTypes, OnCore DEF Steady
    <2>2. lost' = lost
      BY <1>5, <2>1 DEF LinkInv
    <2>3. SameLogouts
      BY <1>5, <2>1, FarewellAt, QuietSent
    <2> QED
      BY <1>1, <1>5, <1>10, <2>1, <2>2, <2>3, SameQueues
  <1>11. ASSUME NEW d \in Desc, OtherLoginSuccess(d), ~Bound(d) PROVE Quiet
    <2>1. /\ UNCHANGED <<dbVars, link, toGame, up>> /\ odd' = odd
          /\ Steady(d) /\ desc'[d].account = "other" /\ lost' = lost \ {d}
      BY <1>11, OtherLoginSuccessTypes DEF netVars
    <2>2. lost' = lost
      BY <1>11, <2>1 DEF LinkInv
    <2> QED
      BY <1>1, <1>10, <1>11, <2>1, <2>2, SameQueues
  <1>6. ASSUME NEW c \in Core, LoginFailure(c) PROVE Quiet
    <2>1. UNCHANGED <<dbVars, link, lost, odd, up, desc>>
      BY <1>6, LoginFailureTypes
    <2>2. SameAnswers
      BY <1>6, LoginFailureTypes, QuietTaken
    <2> QED
      BY <1>1, <2>1, <2>2, SameQueues
  <1>7. ASSUME NEW c \in Core, PlayerLoad(c) PROVE Quiet
    <2>1. UNCHANGED <<dbVars, link, lost, odd, up>>
      BY <1>7, PlayerLoadedTypes
    <2>2. PICK d \in Desc :
            /\ Takes(c, d) /\ Head(toGame[c]).type = "PLAYER_LOAD"
            /\ \/ desc' = desc
               \/ /\ \A e \in Desc : e # d => desc'[e] = desc[e]
                  /\ desc'[d].account = desc[d].account /\ desc'[d].core = desc[d].core
      BY <1>7, PlayerLoadedTypes
    <2>3. \A b \in Core : BoundOn(b)' = BoundOn(b)
      <3>1. \A e \in Desc : desc'[e].account = desc[e].account /\ desc'[e].core = desc[e].core
        BY <2>2
      <3> QED
        BY <3>1, SameBound
    <2>4. SameAnswers
      BY <2>2, QuietTaken
    <2> QED
      BY <1>1, <2>1, <2>3, <2>4, SameQueues
  <1> QED
    BY <1>2, <1>3, <1>4, <1>5, <1>6, <1>7, <1>9, <1>11 DEF Game

-----------------------------------------------------------------------------
(***************************************************************************)
(* Sessions.                                                                *)
(***************************************************************************)

\* Whoever holds the entry of a core keeps it, or gives it up.
LEMMA HolderKept ==
    ASSUME NEW c \in Core, OneHolder(c), Entry(link[c]) => Entry(link[c])',
           Fall(toGame[c], toGame'[c], SuccessMsg),
           Some(Line(c)', LogoutMsg) => Some(Line(c), LogoutMsg),
           Holding(c)' \subseteq Holding(c)
    PROVE  OneHolder(c)'
  BY DEF OneHolder, Fall

\* Nobody holds the entry of a core, and nobody will.
LEMMA HolderIdle ==
    ASSUME NEW c \in Core, ~Some(toGame'[c], SuccessMsg), Holding(c)' = {}
    PROVE  OneHolder(c)'
  BY DEF OneHolder, Some, Once

LEMMA LogoutKept ==
    ASSUME NEW h \in Handle, OneLogout(h), Entry(h) => Entry(h)',
           Fall(up[h], up'[h], LogoutMsg)
    PROVE  OneLogout(h)'
  BY DEF OneLogout, Fall

LEMMA LogoutIdle ==
    ASSUME NEW h \in Handle, ~Some(up'[h], LogoutMsg)
    PROVE  OneLogout(h)'
  BY DEF OneLogout, Some, Once

\* Only the connection of the entry has a session, or the end of one.
LEMMA OnlyEntry ==
    ASSUME SessionInv, "strayed" \notin odd
    PROVE  /\ \A h \in Handle : ~Entry(h) => ~Some(up[h], LogoutMsg)
           /\ \A c \in Core : ~Entry(link[c]) => ~Some(toGame[c], SuccessMsg) /\ Holding(c) = {}
  BY DEF SessionInv, OneLogout, OneHolder

LEMMA SameLine ==
    ASSUME NEW c \in Core, link'[c] = link[c], link[c] # None => up'[link[c]] = up[link[c]]
    PROVE  Line(c)' = Line(c)
  BY DEF Line

LEMMA SessionQuiet ==
    ASSUME NetTyped, SessionInv, Quiet
    PROVE  SessionInv'
  <1> SUFFICES ASSUME "strayed" \notin odd'
               PROVE  /\ \A h \in Handle : OneLogout(h)'
                      /\ \A c \in Core : OneHolder(c)'
    BY DEF SessionInv
  <1>1. /\ \A h \in Handle : OneLogout(h)
        /\ \A c \in Core : OneHolder(c)
    BY DEF SessionInv, Quiet
  <1>2. \A h : Entry(h) => Entry(h)'
    BY DEF Quiet, EntrySame, Entry
  <1>3. ASSUME NEW h \in Handle PROVE OneLogout(h)'
    BY <1>1, <1>2, LogoutKept DEF Quiet, SameLogouts
  <1>4. ASSUME NEW c \in Core PROVE OneHolder(c)'
    <2>1. link'[c] = link[c] /\ Holding(c)' = Holding(c)
      BY DEF Quiet, Holding
    <2>2. Entry(link[c]) => Entry(link[c])'
      BY <1>2, <2>1 DEF Quiet, EntrySame, Entry
    <2>3. Some(Line(c)', LogoutMsg) => Some(Line(c), LogoutMsg)
      BY <2>1, LineTypes DEF Quiet, SameLogouts, Fall, Line
    <2>4. Fall(toGame[c], toGame'[c], SuccessMsg)
      BY DEF Quiet, SameAnswers, Fall
    <2> QED
      BY <1>1, <2>1, <2>2, <2>3, <2>4, HolderKept
  <1> QED
    BY <1>3, <1>4

\* A logout is taken: the session has ended.
LEMMA SessionLogout ==
    ASSUME DbTyped, NetTyped, GameTyped, NoDangling, LinkInv, SessionInv,
           NEW h \in Handle, QUERY_LOGOUT(h)
    PROVE  SessionInv'
  <1> SUFFICES ASSUME "strayed" \notin odd'
               PROVE  /\ \A g \in Handle : OneLogout(g)'
                      /\ \A c \in Core : OneHolder(c)'
    BY DEF SessionInv
  <1>1. /\ UNCHANGED <<byLogin, toGame, lost>>
        /\ byLogin # None /\ Entry(h) => logon' = None
        /\ ~(byLogin # None /\ Entry(h)) => EntrySame
        /\ odd' = odd \cup (IF Head(up[h]).strayed THEN {"strayed"} ELSE {})
        /\ Receive(h, "LOGOUT")
    BY LogoutTypes DEF QUERY_LOGOUT
  <1>2. "strayed" \notin odd /\ ~Head(up[h]).strayed
    BY <1>1
  <1>3. /\ Head(up[h]) \in UpMsg /\ Head(up[h]).type = "LOGOUT"
        /\ UNCHANGED <<link, desc>>
        /\ \A M : Some(up[h], M) <=> Head(up[h]) \in M \/ Some(up'[h], M)
        /\ \A M : Once(up[h], M) /\ Head(up[h]) \in M => ~Some(up'[h], M)
        /\ \A M : \A g \in Handle : Fall(up[g], up'[g], M)
        /\ \A M : \A c \in Core : Some(Line(c)', M) => Some(Line(c), M)
        /\ \A c \in Core : link[c] = h => Line(c) = up[h]
    BY <1>1, ReceivesAt DEF Fall
  <1>4. Head(up[h]) \in LogoutMsg
    BY <1>2, <1>3, UpIs
  <1>5. /\ Entry(h) /\ Some(up[h], LogoutMsg) /\ ~Some(up'[h], LogoutMsg)
        /\ \A g \in Handle : OneLogout(g)
        /\ \A c \in Core : OneHolder(c)
    BY <1>2, <1>3, <1>4 DEF SessionInv, OneLogout
  <1>6. \A c \in Core : Holding(c)' = Holding(c)
    BY <1>1, <1>3 DEF Holding, BoundOn, Bound
  <1>7. \A c \in Core : ~Some(toGame[c], SuccessMsg) /\ Holding(c) = {}
    <2> SUFFICES ASSUME NEW c \in Core PROVE ~Some(toGame[c], SuccessMsg) /\ Holding(c) = {}
      OBVIOUS
    <2>1. CASE link[c] = h
      BY <1>3, <1>5, <2>1 DEF OneHolder
    <2>2. CASE link[c] # h
      BY <1>2, <1>5, <2>2, OnlyEntry DEF Entry
    <2> QED
      BY <2>1, <2>2
  <1>8. \A c \in Core : OneHolder(c)'
    BY <1>1, <1>6, <1>7, HolderIdle
  <1>9. ASSUME NEW g \in Handle PROVE OneLogout(g)'
    <2>1. CASE g = h
      BY <1>5, <2>1, LogoutIdle
    <2>2. CASE g # h
      <3>1. ~Some(up[g], LogoutMsg)
        BY <1>2, <1>5, <2>2, OnlyEntry DEF Entry
      <3> QED
        BY <1>3, <3>1, LogoutIdle DEF Fall
    <2> QED
      BY <2>1, <2>2
  <1> QED
    BY <1>8, <1>9

\* A connection is closed whose core has gone: nobody has its entry.
LEMMA SessionRemoved ==
    ASSUME DbTyped, NetTyped, GameTyped, NoDangling, SessionInv,
           NEW h \in Handle, RemovePeer(h), Entry(h)
    PROVE  SessionInv'
  <1> SUFFICES ASSUME "strayed" \notin odd'
               PROVE  /\ \A g \in Handle : OneLogout(g)'
                      /\ \A c \in Core : OneHolder(c)'
    BY DEF SessionInv
  <1>1. /\ \A c \in Core : link[c] # h
        /\ up[h] = <<>> /\ UNCHANGED <<up, link, toGame, desc, lost, odd>>
    BY RemoveTypes
  <1>2. "strayed" \notin odd
    BY <1>1
  <1>3. \A g \in Handle : ~Some(up[g], LogoutMsg)
    BY <1>1, <1>2, OnlyEntry, EmptyAt DEF Entry
  <1>4. \A c \in Core : ~Some(toGame[c], SuccessMsg) /\ Holding(c) = {}
    BY <1>1, <1>2, OnlyEntry DEF Entry
  <1>5. \A c \in Core : Holding(c)' = Holding(c)
    BY <1>1 DEF Holding, BoundOn, Bound
  <1> QED
    BY <1>1, <1>3, <1>4, <1>5, HolderIdle, LogoutIdle

\* A core gets the entry for a client that it lists.
LEMMA SessionSetup ==
    ASSUME DbTyped, NetTyped, GameTyped, NoDangling, LinkInv, SetupInv, SessionInv,
           NEW h \in Handle, QUERY_SETUP(h)
    PROVE  SessionInv'
  <1> SUFFICES ASSUME "strayed" \notin odd'
               PROVE  /\ \A g \in Handle : OneLogout(g)'
                      /\ \A c \in Core : OneHolder(c)'
    BY DEF SessionInv
  <1>1. Receive(h, "SETUP") /\ UNCHANGED <<toGame, odd>>
    BY DEF QUERY_SETUP
  <1>2. /\ UNCHANGED <<link, desc>>
        /\ \A M : \A g \in Handle : Fall(up[g], up'[g], M)
        /\ \A M : \A c \in Core : Some(Line(c)', M) => Some(Line(c), M)
    BY <1>1, ReceivesAt DEF Fall
  <1>3. "strayed" \notin odd
        /\ (\A g \in Handle : OneLogout(g)) /\ \A c \in Core : OneHolder(c)
    BY <1>1 DEF SessionInv
  <1>4. CASE EntrySame /\ UNCHANGED <<logon, lost>>
    <2>1. \A g : Entry(g) => Entry(g)'
      BY <1>4 DEF EntrySame, Entry
    <2>2. \A c \in Core : (Entry(link[c]) => Entry(link[c])') /\ Holding(c)' = Holding(c)
      BY <1>2, <1>4 DEF EntrySame, Entry, Holding, BoundOn, Bound
    <2>3. \A c \in Core : OneHolder(c)'
      BY <1>1, <1>2, <1>3, <2>2, FallAt, HolderKept
    <2> QED
      BY <1>2, <1>3, <2>1, <2>3, LogoutKept
  <1>5. CASE /\ logon = None /\ logon' # None /\ heap'[logon'].peer = h
             /\ \E d \in DOMAIN Head(up[h]).keys :
                    lost' = IF \E c \in Core : link[c] = h THEN lost \ {d} ELSE lost
    <2>1. PICK d \in DOMAIN Head(up[h]).keys :
            lost' = IF \E c \in Core : link[c] = h THEN lost \ {d} ELSE lost
      BY <1>5
    <2>2. /\ \A g \in Handle : ~Some(up[g], LogoutMsg)
          /\ \A c \in Core : ~Some(toGame[c], SuccessMsg) /\ Holding(c) = {}
      BY <1>3, <1>5, OnlyEntry DEF Entry
    <2>3. \A g \in Handle : OneLogout(g)'
      BY <1>2, <2>2, LogoutIdle DEF Fall
    <2>4. \A c \in Core : link[c] = h => desc[d].core = c
      BY <1>1, <2>1, SetupListed
    <2>5. ASSUME NEW c \in Core PROVE OneHolder(c)'
      <3>1. BoundOn(c)' = BoundOn(c) /\ ~Some(toGame'[c], SuccessMsg)
        BY <1>1, <1>2, <2>2 DEF BoundOn, Bound
      <3>2. CASE link[c] = h
        <4>1. Entry(link[c])'
          BY <1>2, <1>5, <3>2 DEF Entry
        <4>2. Line(c) = up[h]
          BY <1>1, <3>2, ReceivesAt
        <4>3. ~Some(Line(c)', LogoutMsg)
          BY <1>2, <2>2, <4>2
        <4>4. Holding(c)' \subseteq {d}
          BY <2>1, <2>2, <3>1, <3>2 DEF Holding
        <4>5. Once(toGame'[c], SuccessMsg)
          BY <3>1 DEF Some, Once
        <4> QED
          BY <3>1, <4>1, <4>3, <4>4, <4>5 DEF OneHolder
      <3>3. CASE link[c] # h
        <4>1. Holding(c)' = {}
          <5>1. ASSUME NEW e \in Holding(c)' PROVE FALSE
            <6>1. e \in BoundOn(c) /\ e \notin lost' /\ e \in lost
              BY <2>2, <3>1, <5>1 DEF Holding
            <6>2. e = d /\ \E b \in Core : link[b] = h
              BY <2>1, <6>1
            <6> QED
              BY <2>4, <3>3, <6>1, <6>2 DEF BoundOn
          <5> QED
            BY <5>1
        <4> QED
          BY <3>1, <4>1, HolderIdle
      <3> QED
        BY <3>2, <3>3
    <2> QED
      BY <2>3, <2>5
  <1> QED
    BY <1>4, <1>5, SetupFacts DEF NetTyped

\* A login ends with an entry, which no other session has, or with none.
LEMMA SessionLogin ==
    ASSUME DbTyped, NetTyped, GameTyped, NoDangling, SessionInv, RESULT_LOGIN
    PROVE  SessionInv'
  <1> SUFFICES ASSUME "strayed" \notin odd'
               PROVE  /\ \A g \in Handle : OneLogout(g)'
                      /\ \A c \in Core : OneHolder(c)'
    BY DEF SessionInv
  <1> DEFINE h == Head(sql).peer
             e == Head(sql).desc
  <1>1. /\ UNCHANGED <<up, link, desc, lost>>
        /\ h \in Handle /\ e \in Desc
        /\ \/ /\ logon = None /\ logon' # None /\ heap'[logon'].peer = h
              /\ odd' = odd \cup (IF lost = {} THEN {} ELSE {"taken"})
              /\ Reply(h, [type |-> "LOGIN_SUCCESS", desc |-> e])
           \/ /\ EntrySame /\ odd' = odd
              /\ Reply(h, [type |-> "LOGIN_ALREADY", desc |-> e])
    BY ResultLoginTypes, ResultLoginFacts, StatementIs DEF GameSame
  <1> HIDE DEF h, e
  <1>2. "strayed" \notin odd
        /\ (\A g \in Handle : OneLogout(g)) /\ \A c \in Core : OneHolder(c)
    BY <1>1 DEF SessionInv
  <1>3. \A c \in Core : Holding(c)' = Holding(c) /\ Line(c)' = Line(c)
    BY <1>1 DEF Holding, BoundOn, Bound, Line
  <1>4. CASE EntrySame /\ Reply(h, [type |-> "LOGIN_ALREADY", desc |-> e])
    <2>1. SameAnswers
      BY <1>1, <1>4, QuietReply
    <2>2. \A g : Entry(g) => Entry(g)'
      BY <1>4 DEF EntrySame, Entry
    <2>3. \A c \in Core : Entry(link[c]) => Entry(link[c])'
      BY <1>1, <1>4 DEF EntrySame, Entry
    <2>4. \A c \in Core : OneHolder(c)'
      BY <1>2, <1>3, <2>1, <2>3, HolderKept DEF SameAnswers, Fall
    <2>5. \A g \in Handle : OneLogout(g)'
      BY <1>1, <1>2, <2>2, FallAt, LogoutKept
    <2> QED
      BY <2>4, <2>5
  <1>5. CASE /\ logon = None /\ logon' # None /\ heap'[logon'].peer = h
             /\ Reply(h, [type |-> "LOGIN_SUCCESS", desc |-> e])
    <2> DEFINE m == [type |-> "LOGIN_SUCCESS", desc |-> e]
    <2>1. m \in GameMsg /\ Reply(h, m)
      BY <1>1, <1>5, AnswerAt
    <2> HIDE DEF m
    <2>2. /\ \A g \in Handle : ~Some(up[g], LogoutMsg)
          /\ \A c \in Core : ~Some(toGame[c], SuccessMsg) /\ Holding(c) = {}
      BY <1>2, <1>5, OnlyEntry DEF Entry
    <2>3. \A g \in Handle : OneLogout(g)'
      BY <1>1, <2>2, LogoutIdle
    <2>4. ASSUME NEW c \in Core PROVE OneHolder(c)'
      <3>1. CASE link[c] = h
        <4>1. Once(toGame[c], SuccessMsg)
          BY <2>2 DEF Some, Once
        <4>2. Once(toGame'[c], SuccessMsg)
          BY <2>1, <2>2, <4>1, RepliesAt
        <4>3. Entry(link[c])'
          BY <1>1, <1>5, <3>1 DEF Entry
        <4>4. ~Some(Line(c)', LogoutMsg)
          BY <1>1, <1>3, <2>2, <3>1 DEF Line, Some
        <4> QED
          BY <1>3, <2>2, <4>2, <4>3, <4>4 DEF OneHolder
      <3>2. CASE link[c] # h
        BY <1>3, <2>1, <2>2, <3>2, RepliesAt, HolderIdle
      <3> QED
        BY <3>1, <3>2
    <2> QED
      BY <2>3, <2>4
  <1> QED
    BY <1>1, <1>4, <1>5

LEMMA SessionRestart ==
    ASSUME NetTyped, GameTyped, DbRestart
    PROVE  SessionInv'
  <1>1. /\ \A h \in Handle : up'[h] = <<>>
        /\ \A c \in Core : toGame'[c] = <<>>
        /\ lost' = lost \cup {d \in Desc : Bound(d)} /\ desc' = desc
    BY DEF DbRestart
  <1>2. \A c \in Core : Holding(c)' = {}
    BY <1>1 DEF Holding, BoundOn, Bound
  <1> QED
    BY <1>1, <1>2, EmptyAt, HolderIdle, LogoutIdle DEF SessionInv

LEMMA SessionDb ==
    ASSUME DbTyped, NetTyped, GameTyped, NoDangling, LinkInv, SetupInv, SessionInv, Db
    PROVE  SessionInv'
  BY QuietDb, SessionQuiet, SessionLogout, SessionRemoved, SessionSetup, SessionLogin,
     SessionRestart

\* A client that leaves logs out: its entry goes with the logout, if it has one.
LEMMA SessionDestroy ==
    ASSUME DbTyped, NetTyped, GameTyped, NoDangling, LinkInv, SessionInv,
           NEW d \in Desc, Destroy(d), Bound(d)
    PROVE  SessionInv'
  <1> SUFFICES ASSUME "strayed" \notin odd'
               PROVE  /\ \A g \in Handle : OneLogout(g)'
                      /\ \A c \in Core : OneHolder(c)'
    BY DEF SessionInv
  <1> DEFINE b == desc[d].core
  <1>1. /\ UNCHANGED <<heap, logon, link, toGame, odd>>
        /\ \A e \in Desc : e # d => desc'[e] = desc[e]
        /\ ~Bound(d)' /\ lost' = lost \ {d}
        /\ Sends(b, Farewell(d)) /\ b \in Core
    BY DestroyTypes, OnCore DEF Bound, Steady, dbVars
  <1>2. d \in BoundOn(b)
    BY DEF BoundOn
  <1> HIDE DEF b
  <1>3. "strayed" \notin odd
        /\ (\A g \in Handle : OneLogout(g)) /\ \A c \in Core : OneHolder(c)
    BY <1>1 DEF SessionInv
  <1>4. \A h : Entry(h) => Entry(h)'
    BY <1>1 DEF Entry
  <1>5. \A c \in Core : Entry(link[c]) => Entry(link[c])'
    BY <1>1 DEF Entry
  <1>6. \A c \in Core : Holding(c)' \subseteq Holding(c) \ {d}
    BY <1>1 DEF Holding, BoundOn, Bound
  <1>7. CASE d \in lost
    <2>1. SameLogouts
      BY <1>1, <1>7, FarewellAt, QuietSent
    <2>2. \A c \in Core : Some(Line(c)', LogoutMsg) => Some(Line(c), LogoutMsg)
      BY <1>1, <1>7, FarewellAt, SendsAt
    <2>3. \A c \in Core : OneHolder(c)'
      BY <1>1, <1>3, <1>5, <1>6, <2>2, FallAt, HolderKept
    <2> QED
      BY <1>3, <1>4, <2>1, <2>3, LogoutKept DEF SameLogouts
  <1>8. CASE d \notin lost
    <2>1. d \in Holding(b)
      BY <1>2, <1>8 DEF Holding
    <2>2. /\ Entry(link[b]) /\ ~Some(Line(b), LogoutMsg) /\ ~Some(toGame[b], SuccessMsg)
          /\ Holding(b) = {d}
      BY <1>1, <1>3, <2>1 DEF OneHolder
    <2>3. link[b] # None
      BY <1>1, <1>2, <1>8 DEF LinkInv
    <2>4. ASSUME NEW c \in Core PROVE OneHolder(c)'
      <3>1. CASE c = b
        BY <1>1, <1>6, <2>2, <3>1, HolderIdle
      <3>2. CASE c # b
        <4>1. Line(c)' = Line(c)
          BY <1>1, <3>2, SendsAt
        <4> QED
          BY <1>1, <1>3, <1>5, <1>6, <4>1, FallAt, HolderKept
      <3> QED
        BY <3>1, <3>2
    <2>5. ASSUME NEW g \in Handle PROVE OneLogout(g)'
      <3>1. CASE g = link[b]
        <4>1. ~Some(up[g], LogoutMsg) /\ Once(up[g], LogoutMsg)
          BY <1>3, <2>2, <2>3, <3>1 DEF Line, OneLogout
        <4>2. Once(up'[g], LogoutMsg)
          BY <1>1, <4>1, FarewellAt, SendsAt
        <4>3. Entry(g)'
          BY <1>4, <2>2, <3>1
        <4> QED
          BY <4>2, <4>3 DEF OneLogout
      <3>2. CASE g # link[b]
        <4>1. up'[g] = up[g]
          BY <1>1, <3>2, SendsAt
        <4> QED
          BY <1>3, <1>4, <4>1, FallAt, LogoutKept
      <3> QED
        BY <3>1, <3>2
    <2> QED
      BY <2>4, <2>5
  <1> QED
    BY <1>7, <1>8

\* A client that leaves the account lets go of the entry, which stays.
LEMMA SessionLeft ==
    ASSUME DbTyped, NetTyped, GameTyped, NoDangling, LinkInv, SessionInv,
           NEW d \in Desc, OtherLoginSuccess(d)
    PROVE  SessionInv'
  <1> SUFFICES ASSUME "strayed" \notin odd'
               PROVE  /\ \A g \in Handle : OneLogout(g)'
                      /\ \A c \in Core : OneHolder(c)'
    BY DEF SessionInv
  <1>1. /\ UNCHANGED <<heap, logon, link, toGame, up>>
        /\ odd \subseteq odd' /\ lost' = lost \ {d} /\ ~Bound(d)'
        /\ \A e \in Desc : e # d => desc'[e] = desc[e]
    BY OtherLoginSuccessTypes DEF Bound, Steady, dbVars, netVars
  <1>2. (\A g \in Handle : OneLogout(g)) /\ \A c \in Core : OneHolder(c)
    BY <1>1 DEF SessionInv
  <1>3. \A h : Entry(h) => Entry(h)'
    BY <1>1 DEF Entry
  <1>4. \A c \in Core : /\ Entry(link[c]) => Entry(link[c])'
                       /\ Line(c)' = Line(c)
                       /\ Holding(c)' \subseteq Holding(c)
    BY <1>1 DEF Entry, Line, Holding, BoundOn, Bound
  <1> QED
    BY <1>1, <1>2, <1>3, <1>4, FallAt, HolderKept, LogoutKept

\* The client of an answer is bound, or its logout is sent.
LEMMA SessionBound ==
    ASSUME DbTyped, NetTyped, GameTyped, NoDangling, LinkInv, RequestInv, SessionInv,
           NEW c \in Core, LoginSuccess(c)
    PROVE  SessionInv'
  <1> SUFFICES ASSUME "strayed" \notin odd'
               PROVE  /\ \A g \in Handle : OneLogout(g)'
                      /\ \A b \in Core : OneHolder(b)'
    BY DEF SessionInv
  <1>1. UNCHANGED <<heap, logon, link, odd>>
    BY LoginSuccessTypes DEF dbVars
  <1>2. PICK d \in Desc :
          /\ Takes(c, d) /\ Head(toGame[c]).type = "LOGIN_SUCCESS"
          /\ \/ /\ desc[d].phase = "closed" /\ Sends(c, <<Logout(d)>>)
                /\ UNCHANGED <<desc, lost>>
             \/ /\ lost' = lost \ {d} /\ desc'[d].core = desc[d].core
                /\ \A e \in Desc : e # d => desc'[e] = desc[e]
                /\ UNCHANGED <<up, buffer>>
    BY LoginSuccessTypes
  <1>3. "strayed" \notin odd
        /\ (\A g \in Handle : OneLogout(g)) /\ \A b \in Core : OneHolder(b)
    BY <1>1 DEF SessionInv
  <1>4. desc[d].core = c /\ link[c] # None
    BY <1>2, AnsweredHere, TakesLinked
  <1>5. desc[d].phase = "closed" => d \notin lost
    BY DEF LinkInv, Placed, Bound
  <1>6. Head(toGame[c]) \in SuccessMsg
    BY <1>2, GameIs DEF Takes
  <1>7. /\ \A b \in Core : Fall(toGame[b], toGame'[b], SuccessMsg)
        /\ Some(toGame[c], SuccessMsg) /\ (Once(toGame[c], SuccessMsg) => ~Some(toGame'[c], SuccessMsg))
    BY <1>2, <1>6, TakesAt DEF Fall
  <1>8. /\ Entry(link[c]) /\ ~Some(Line(c), LogoutMsg) /\ Holding(c) = {}
        /\ ~Some(toGame'[c], SuccessMsg)
    BY <1>3, <1>7 DEF OneHolder
  <1>9. (\A h : Entry(h) => Entry(h)') /\ \A b \in Core : Entry(link[b]) => Entry(link[b])'
    BY <1>1 DEF Entry
  <1>10. \A b \in Core : b # c => Holding(b)' \subseteq Holding(b)
    BY <1>2, <1>4 DEF Holding, BoundOn, Bound
  <1>11. CASE /\ desc[d].phase = "closed" /\ Sends(c, <<Logout(d)>>)
              /\ UNCHANGED <<desc, lost>>
    <2>1. Holding(c)' = {}
      BY <1>8, <1>11 DEF Holding, BoundOn, Bound
    <2>2. Logout(d) \in UpMsg
      BY LogoutAt
    <2>3. \A b \in Core : b # c => Line(b)' = Line(b)
      BY <1>1, <1>11, SendsAt
    <2>4. ASSUME NEW b \in Core PROVE OneHolder(b)'
      <3>1. CASE b = c
        BY <1>8, <2>1, <3>1, HolderIdle
      <3>2. CASE b # c
        BY <1>3, <1>7, <1>9, <1>10, <2>3, <3>2, <1>1, HolderKept
      <3> QED
        BY <3>1, <3>2
    <2>5. ASSUME NEW g \in Handle PROVE OneLogout(g)'
      <3>1. CASE g = link[c]
        <4>1. ~Some(up[g], LogoutMsg) /\ Once(up[g], LogoutMsg)
          BY <1>3, <1>4, <1>8, <3>1 DEF Line, OneLogout
        <4>2. Once(up'[g], LogoutMsg)
          BY <1>1, <1>11, <2>2, <4>1, OneSent, SendsAt
        <4> QED
          BY <1>8, <1>9, <3>1, <4>2 DEF OneLogout
      <3>2. CASE g # link[c]
        <4>1. up'[g] = up[g]
          BY <1>1, <1>11, <3>2, SendsAt
        <4> QED
          BY <1>3, <1>9, <4>1, FallAt, LogoutKept
      <3> QED
        BY <3>1, <3>2
    <2> QED
      BY <2>4, <2>5
  <1>12. CASE /\ lost' = lost \ {d} /\ UNCHANGED <<up, buffer>>
              /\ \A e \in Desc : e # d => desc'[e] = desc[e]
    <2>1. Holding(c)' \subseteq {d}
      BY <1>8, <1>12 DEF Holding, BoundOn, Bound
    <2>2. \A b \in Core : Line(b)' = Line(b)
      BY <1>1, <1>12 DEF Line
    <2>3. ASSUME NEW b \in Core PROVE OneHolder(b)'
      <3>1. CASE b = c
        <4>1. Entry(link[c])' /\ ~Some(Line(c)', LogoutMsg) /\ Once(toGame'[c], SuccessMsg)
          BY <1>8, <1>9, <2>2 DEF Some, Once
        <4> QED
          BY <1>8, <2>1, <3>1, <4>1 DEF OneHolder
      <3>2. CASE b # c
        BY <1>1, <1>3, <1>7, <1>9, <1>10, <2>2, <3>2, HolderKept
      <3> QED
        BY <3>1, <3>2
    <2>4. \A g \in Handle : OneLogout(g)'
      BY <1>3, <1>9, <1>12, FallAt, LogoutKept
    <2> QED
      BY <2>3, <2>4
  <1> QED
    BY <1>2, <1>11, <1>12

\* The clients of a core that loses its connection, or its process, lose their entries.
LEMMA SessionBroken ==
    ASSUME DbTyped, NetTyped, GameTyped, NoDangling, LinkInv, SessionInv,
           NEW c \in Core, Breaks(c), Holding(c)' = {},
           \A b \in Core : b # c => Holding(b)' \subseteq Holding(b)
    PROVE  SessionInv'
  <1> SUFFICES ASSUME "strayed" \notin odd'
               PROVE  /\ \A g \in Handle : OneLogout(g)'
                      /\ \A b \in Core : OneHolder(b)'
    BY DEF SessionInv
  <1>1. /\ toGame'[c] = <<>> /\ UNCHANGED <<heap, logon, odd>>
        /\ \A e \in Core : e # c => link'[e] = link[e] /\ toGame'[e] = toGame[e]
        /\ \A h \in Handle : up'[h] = up[h] \/ up'[h] = <<>>
    BY DEF Breaks, dbVars
  <1>2. (\A g \in Handle : OneLogout(g)) /\ \A b \in Core : OneHolder(b)
    BY <1>1 DEF SessionInv
  <1>3. \A h : Entry(h) => Entry(h)'
    BY <1>1 DEF Entry
  <1>4. \A h \in Handle : Fall(up[h], up'[h], LogoutMsg)
    BY <1>1, FallAt
  <1>5. ASSUME NEW b \in Core, b # c PROVE OneHolder(b)'
    <2>1. Entry(link[b]) => Entry(link[b])'
      BY <1>1, <1>5 DEF Entry
    <2>2. Some(Line(b)', LogoutMsg) => Some(Line(b), LogoutMsg)
      BY <1>1, <1>4, <1>5, LineTypes DEF Line, Fall
    <2> QED
      BY <1>1, <1>2, <1>5, <2>1, <2>2, FallAt, HolderKept
  <1> QED
    BY <1>1, <1>2, <1>3, <1>4, <1>5, EmptyAt, HolderIdle, LogoutKept

\* A new connection has no session yet.
LEMMA SessionReconnect ==
    ASSUME DbTyped, NetTyped, GameTyped, NoDangling, LinkInv, SessionInv,
           NEW c \in Core, Reconnect(c)
    PROVE  SessionInv'
  <1> SUFFICES ASSUME "strayed" \notin odd'
               PROVE  /\ \A g \in Handle : OneLogout(g)'
                      /\ \A b \in Core : OneHolder(b)'
    BY DEF SessionInv
  <1> DEFINE m == SetupOf(c)
             h == bounds.handle
  <1>1. /\ link[c] = None /\ h \in Handle
        /\ \A e \in Core : e # c => link'[e] = link[e]
        /\ up'[h] = Append(buffer[c], m) /\ \A g \in Handle : g # h => up'[g] = up[g]
        /\ UNCHANGED <<heap, logon, toGame, desc, lost, odd>>
        /\ \A e \in Core : e # c => Line(e)' = Line(e)
    BY ReconnectTypes, NewLine DEF dbVars
  <1>2. m \in UpMsg /\ m \notin LogoutMsg
    BY SetupOfAt
  <1> HIDE DEF m, h
  <1>3. ~Some(up'[h], LogoutMsg)
    BY <1>1, <1>2, AppendAt DEF LinkInv, NetTyped
  <1>4. (\A g \in Handle : OneLogout(g)) /\ \A b \in Core : OneHolder(b)
    BY <1>1 DEF SessionInv
  <1>5. \A b \in Core : Holding(b)' = Holding(b)
    BY <1>1 DEF Holding, BoundOn, Bound
  <1>6. ASSUME NEW b \in Core PROVE OneHolder(b)'
    <2>1. CASE b = c
      <3>1. toGame'[c] = <<>> /\ Holding(c) = {}
        BY <1>1 DEF LinkInv, Holding
      <3> QED
        BY <1>5, <2>1, <3>1, EmptyAt, HolderIdle
    <2>2. CASE b # c
      <3>1. Entry(link[b]) => Entry(link[b])'
        BY <1>1, <2>2 DEF Entry
      <3> QED
        BY <1>1, <1>4, <1>5, <2>2, <3>1, FallAt, HolderKept
    <2> QED
      BY <2>1, <2>2
  <1>7. ASSUME NEW g \in Handle PROVE OneLogout(g)'
    <2>1. Entry(g) => Entry(g)'
      BY <1>1 DEF Entry
    <2> QED
      BY <1>1, <1>3, <1>4, <2>1, FallAt, LogoutKept, LogoutIdle
  <1> QED
    BY <1>6, <1>7

\* Nobody has an entry on a core that has lost its connection.
LEMMA BrokenHolding ==
    ASSUME DbTyped, NetTyped, GameTyped, NoDangling, NEW c \in Core,
           LinkLoss(c) \/ CoreCrash(c)
    PROVE  /\ Breaks(c) /\ Holding(c)' = {}
           /\ \A b \in Core : b # c => Holding(b)' \subseteq Holding(b)
           /\ \A d \in Desc : Bound(d)' => Bound(d) /\ desc'[d] = desc[d]
  <1>1. CASE LinkLoss(c)
    BY <1>1, LinkLossTypes DEF Holding, BoundOn, Bound
  <1>2. CASE CoreCrash(c)
    <2>1. /\ Breaks(c) /\ lost' = {d \in lost : desc[d].core # c}
          /\ \A d \in Desc : IF desc[d].core = c THEN desc'[d].account = "none"
                                                 ELSE desc'[d] = desc[d]
      BY <1>2, CoreCrashTypes
    <2>2. \A d \in Desc : Bound(d)' => Bound(d) /\ desc[d].core # c
      BY <2>1 DEF Bound
    <2>3. \A d \in Desc : desc[d].core # c => desc'[d] = desc[d]
      BY <2>1
    <2> QED
      BY <2>1, <2>2, <2>3 DEF Holding, BoundOn
  <1> QED
    BY <1>1, <1>2

LEMMA SessionGame ==
    ASSUME DbTyped, NetTyped, GameTyped, NoDangling, LinkInv, RequestInv, SessionInv, Game
    PROVE  SessionInv'
  BY QuietGame, SessionQuiet, SessionDestroy, SessionLeft, SessionBound, BrokenHolding,
     SessionBroken, SessionReconnect

LEMMA SessionStep ==
    ASSUME DbTyped, NetTyped, GameTyped, NoDangling, LinkInv, RequestInv, SetupInv,
           SessionInv, Next
    PROVE  SessionInv'
  BY SessionDb, SessionGame DEF Next

-----------------------------------------------------------------------------
(***************************************************************************)
(* Owners.                                                                  *)
(***************************************************************************)

\* The entry is that of a connection the db has.
LEMMA EntryOpen ==
    ASSUME NetTyped, LinkInv, NEW h, Entry(h)
    PROVE  h \in peers /\ h # None
  BY ConstantTypes DEF NetTyped, LinkInv, Entry

\* A core keeps its owner as long as nobody leaves it, and it is told nothing.
LEMMA OwnerKept ==
    ASSUME NEW c \in Core, Owned(c), BoundOn(c) \subseteq BoundOn(c)',
           Some(toGame[c], SuccessMsg) => Some(toGame'[c], SuccessMsg),
           Some(Line(c), AnyLogout) => Some(Line(c)', AnyLogout)
    PROVE  Owned(c)'
  BY DEF Owned

LEMMA OwnerQuiet ==
    ASSUME NetTyped, link' = link, \A c \in Core : BoundOn(c)' = BoundOn(c),
           SameAnswers, SameLogouts
    PROVE  \A c \in Core : Owned(c) => Owned(c)'
  <1> SUFFICES ASSUME NEW c \in Core, Owned(c) PROVE Owned(c)'
    OBVIOUS
  <1>1. Some(Line(c), AnyLogout) => Some(Line(c)', AnyLogout)
    BY LineTypes DEF SameLogouts, Line
  <1> QED
    BY <1>1, OwnerKept DEF SameAnswers

LEMMA OrphanQuiet ==
    ASSUME NetTyped, OrphanInv, Quiet
    PROVE  OrphanInv'
  <1> SUFFICES ASSUME odd' \cap {"refused", "left"} = {}
               PROVE  /\ logon' # None => byLogin' # None
                      /\ \A c \in Core : Entry(link[c])' => Owned(c)'
    BY DEF OrphanInv
  <1>1. \A c \in Core : Owned(c) => Owned(c)'
    BY OwnerQuiet DEF Quiet
  <1> QED
    BY <1>1 DEF OrphanInv, Quiet, EntrySame, Entry

LEMMA OrphanDb ==
    ASSUME DbTyped, NetTyped, GameTyped, NoDangling, LinkInv, SetupInv, OrphanInv, Db
    PROVE  OrphanInv'
  <1>1. ASSUME NEW h \in Handle, QUERY_LOGOUT(h) PROVE OrphanInv'
    <2> SUFFICES ASSUME odd' \cap {"refused", "left"} = {}, logon' # None
                 PROVE  /\ byLogin' # None
                        /\ \A c \in Core : Entry(link[c])' => Owned(c)'
      BY DEF OrphanInv, Entry
    <2>1. /\ UNCHANGED <<byLogin, toGame>> /\ odd \subseteq odd'
          /\ byLogin # None /\ Entry(h) => logon' = None
          /\ ~(byLogin # None /\ Entry(h)) => EntrySame
          /\ Receive(h, "LOGOUT")
      BY <1>1, LogoutTypes DEF QUERY_LOGOUT
    <2>2. /\ UNCHANGED <<link, desc>>
          /\ \A c \in Core : link[c] # h => Line(c)' = Line(c)
      BY <2>1, ReceivesAt
    <2>3. EntrySame /\ byLogin # None /\ ~Entry(h)
      BY <2>1 DEF OrphanInv, EntrySame
    <2>4. ASSUME NEW c \in Core, Entry(link[c])' PROVE Owned(c)'
      <3>1. Entry(link[c])
        BY <2>2, <2>3, <2>4 DEF EntrySame, Entry
      <3>2. Owned(c) /\ link[c] # h
        BY <2>1, <2>3, <3>1 DEF OrphanInv
      <3> QED
        BY <2>1, <2>2, <3>2, OwnerKept DEF BoundOn, Bound
    <2> QED
      BY <2>1, <2>3, <2>4
  <1>2. ASSUME NEW h \in Handle, QUERY_SETUP(h) PROVE OrphanInv'
    <2> SUFFICES ASSUME odd' \cap {"refused", "left"} = {}
                 PROVE  /\ logon' # None => byLogin' # None
                        /\ \A c \in Core : Entry(link[c])' => Owned(c)'
      BY DEF OrphanInv
    <2>1. Receive(h, "SETUP") /\ UNCHANGED <<toGame, odd>>
      BY <1>2 DEF QUERY_SETUP
    <2>2. /\ UNCHANGED <<link, desc>> /\ SameLogouts
          /\ Head(up[h]) \in UpMsg /\ Head(up[h]).type = "SETUP"
          /\ \A c \in Core : link[c] = h => Line(c)' = up'[h]
      BY <2>1, QuietReceived, ReceivesAt
    <2>3. CASE EntrySame /\ (byLogin # None => byLogin' = byLogin)
      <3>1. \A c \in Core : Owned(c) => Owned(c)'
        BY <2>1, <2>2, SameQueues, OwnerQuiet
      <3> QED
        BY <2>1, <2>2, <2>3, <3>1 DEF OrphanInv, EntrySame, Entry
    <2>4. CASE /\ byLogin' # None /\ heap'[logon'].peer = h
               /\ \E d \in DOMAIN Head(up[h]).keys : TRUE
      <3>1. PICK d \in DOMAIN Head(up[h]).keys : TRUE
        BY <2>4
      <3>2. d \in Desc
        BY <2>2, <3>1, UpTypes
      <3>3. ASSUME NEW c \in Core, Entry(link[c])' PROVE Owned(c)'
        <4>1. link[c] = h
          BY <2>2, <2>4, <3>3 DEF Entry
        <4>2. /\ desc[d].core = c
              /\ Bound(d) \/ Some(up'[h], AnyLogout)
          BY <2>1, <3>1, <4>1, SetupListed
        <4> QED
          BY <2>2, <3>2, <4>1, <4>2 DEF Owned, BoundOn, Bound
      <3> QED
        BY <2>4, <3>3
    <2> QED
      BY <1>2, <2>3, <2>4, SetupFacts DEF NetTyped
  <1>3. ASSUME NEW h \in Handle, RemovePeer(h), Entry(h) PROVE OrphanInv'
    BY <1>3, RemoveTypes DEF OrphanInv, Entry
  <1>4. ASSUME RESULT_LOGIN PROVE OrphanInv'
    <2> SUFFICES ASSUME odd' \cap {"refused", "left"} = {}
                 PROVE  /\ logon' # None => byLogin' # None
                        /\ \A c \in Core : Entry(link[c])' => Owned(c)'
      BY DEF OrphanInv
    <2> DEFINE h == Head(sql).peer
               e == Head(sql).desc
    <2>1. /\ UNCHANGED <<up, link, desc, lost, byLogin>> /\ odd \subseteq odd'
          /\ h \in Handle /\ e \in Desc
          /\ \/ /\ byLogin # None /\ heap'[logon'].peer = h
                /\ Reply(h, [type |-> "LOGIN_SUCCESS", desc |-> e])
             \/ /\ EntrySame /\ Reply(h, [type |-> "LOGIN_ALREADY", desc |-> e])
      BY <1>4, ResultLoginTypes, ResultLoginFacts, StatementIs DEF GameSame, RESULT_LOGIN
    <2> HIDE DEF h, e
    <2>2. CASE EntrySame /\ Reply(h, [type |-> "LOGIN_ALREADY", desc |-> e])
      <3>1. SameAnswers
        BY <2>1, <2>2, QuietReply
      <3>2. \A c \in Core : Owned(c) => Owned(c)'
        BY <2>1, <3>1, SameQueues, OwnerQuiet
      <3> QED
        BY <2>1, <2>2, <3>2 DEF OrphanInv, EntrySame, Entry
    <2>3. CASE /\ byLogin # None /\ heap'[logon'].peer = h
               /\ Reply(h, [type |-> "LOGIN_SUCCESS", desc |-> e])
      <3> DEFINE m == [type |-> "LOGIN_SUCCESS", desc |-> e]
      <3>1. m \in GameMsg /\ m \in SuccessMsg /\ Reply(h, m)
        BY <2>1, <2>3, AnswerAt DEF SuccessMsg
      <3> HIDE DEF m
      <3>2. \A c \in Core : Entry(link[c])' => link[c] = h
        BY <2>1, <2>3 DEF Entry
      <3>3. \A c \in Core : Entry(link[c])' => Owned(c)'
        BY <3>1, <3>2, RepliesAt DEF Owned
      <3> QED
        BY <2>1, <2>3, <3>3
    <2> QED
      BY <2>1, <2>2, <2>3
  <1>5. ASSUME DbRestart PROVE OrphanInv'
    BY <1>5 DEF DbRestart, OrphanInv, Entry
  <1> QED
    BY <1>1, <1>2, <1>3, <1>4, <1>5, QuietDb, OrphanQuiet

LEMMA OrphanGame ==
    ASSUME DbTyped, NetTyped, GameTyped, NoDangling, LinkInv, RequestInv, OrphanInv, Game
    PROVE  OrphanInv'
  <1>1. ASSUME UNCHANGED <<heap, logon, byLogin, odd>>,
               \A c \in Core : Entry(link'[c]) => Entry(link[c]) /\ (Owned(c) => Owned(c)')
        PROVE  OrphanInv'
    BY <1>1 DEF OrphanInv, Entry
  <1>6. ASSUME NEW d \in Desc, OtherLoginSuccess(d), Bound(d) PROVE OrphanInv'
    BY <1>6, OtherLoginSuccessTypes DEF OrphanInv
  <1>2. ASSUME NEW d \in Desc, Destroy(d), Bound(d) PROVE OrphanInv'
    <2> DEFINE b == desc[d].core
    <2>1. /\ UNCHANGED <<heap, logon, byLogin, link, toGame, odd>>
          /\ \A e \in Desc : e # d => desc'[e] = desc[e]
          /\ Sends(b, Farewell(d)) /\ b \in Core
      BY <1>2, DestroyTypes, OnCore DEF Bound, Steady, dbVars
    <2>2. \A c \in Core : c # b => BoundOn(c) \subseteq BoundOn(c)'
      BY <2>1 DEF BoundOn, Bound
    <2> HIDE DEF b
    <2>3. ASSUME NEW c \in Core, Entry(link[c]), Owned(c) PROVE Owned(c)'
      <3>1. CASE c = b
        BY <1>2, <2>1, <2>3, <3>1, EntryOpen, FarewellAt, SendsAt DEF Owned
      <3>2. CASE c # b
        BY <2>1, <2>2, <2>3, <3>2, SendsAt, OwnerKept
      <3> QED
        BY <3>1, <3>2
    <2> QED
      BY <1>1, <2>1, <2>3
  <1>3. ASSUME NEW c \in Core, LoginSuccess(c) PROVE OrphanInv'
    <2>1. UNCHANGED <<heap, logon, byLogin, link, odd>>
      BY <1>3, LoginSuccessTypes DEF dbVars
    <2>2. PICK d \in Desc :
            /\ Takes(c, d) /\ Head(toGame[c]).type = "LOGIN_SUCCESS"
            /\ \A e \in Desc : e # d => desc'[e] = desc[e]
            /\ \/ Sends(c, <<Logout(d)>>)
               \/ /\ desc'[d].account = "this" /\ desc'[d].core = desc[d].core
                  /\ UNCHANGED <<up, buffer>>
      BY <1>3, LoginSuccessTypes
    <2>3. desc[d].core = c /\ link[c] # None
      BY <2>2, AnsweredHere, TakesLinked
    <2>4. Logout(d) \in UpMsg /\ Logout(d) \in AnyLogout
      BY LogoutAt DEF AnyLogout
    <2>5. Owned(c)'
      <3>1. CASE Sends(c, <<Logout(d)>>)
        BY <2>1, <2>3, <2>4, <3>1, OneSent, SendsAt DEF Owned
      <3>2. CASE desc'[d].account = "this" /\ desc'[d].core = desc[d].core
        BY <2>3, <3>2 DEF Owned, BoundOn, Bound
      <3> QED
        BY <2>2, <3>1, <3>2
    <2>6. ASSUME NEW b \in Core, b # c, Owned(b) PROVE Owned(b)'
      <3>1. BoundOn(b) \subseteq BoundOn(b)'
        BY <2>2, <2>3, <2>6 DEF BoundOn, Bound
      <3>2. toGame'[b] = toGame[b]
        BY <2>2, <2>6 DEF Takes
      <3>3. CASE Sends(c, <<Logout(d)>>)
        BY <2>1, <2>6, <3>1, <3>2, <3>3, SendsAt, OwnerKept
      <3>4. CASE UNCHANGED <<up, buffer>>
        BY <2>1, <2>6, <3>1, <3>2, <3>4, OwnerKept DEF Line
      <3> QED
        BY <2>2, <3>3, <3>4
    <2> QED
      BY <1>1, <2>1, <2>5, <2>6
  <1>4. ASSUME NEW c \in Core, LinkLoss(c) \/ CoreCrash(c) PROVE OrphanInv'
    <2>1. /\ link[c] \in Handle /\ link'[c] = None
          /\ \A e \in Core : e # c => link'[e] = link[e] /\ toGame'[e] = toGame[e]
          /\ \A h \in Handle : h # link[c] => up'[h] = up[h]
          /\ UNCHANGED <<heap, logon, byLogin, odd>>
      BY <1>4, BrokenHolding DEF Breaks, dbVars
    <2>2. ASSUME NEW b \in Core, b # c PROVE BoundOn(b) \subseteq BoundOn(b)'
      BY <1>4, <2>2, LinkLossTypes, CoreCrashTypes DEF BoundOn, Bound
    <2>3. ~Entry(None)
      BY EntryOpen
    <2>4. ASSUME NEW b \in Core, b # c, Owned(b) PROVE Owned(b)'
      <3>1. link[b] # link[c]
        BY <2>1, <2>4, ConstantTypes DEF LinkInv
      <3>2. Line(b)' = Line(b)
        BY <2>1, <2>4, <3>1, LineTypes, SameLine
      <3> QED
        BY <2>1, <2>2, <2>4, <3>2, OwnerKept
    <2> QED
      BY <1>1, <2>1, <2>3, <2>4
  <1>5. ASSUME NEW c \in Core, Reconnect(c) PROVE OrphanInv'
    <2>1. /\ link'[c] = bounds.handle /\ bounds.handle \notin peers
          /\ \A e \in Core : e # c => link'[e] = link[e] /\ Line(e)' = Line(e)
          /\ UNCHANGED <<heap, logon, byLogin, toGame, desc, odd>>
      BY <1>5, ReconnectTypes, NewLine DEF dbVars
    <2>2. ~Entry(bounds.handle)
      BY <2>1, EntryOpen
    <2>3. ASSUME NEW b \in Core, b # c, Owned(b) PROVE Owned(b)'
      BY <2>1, <2>3, OwnerKept DEF BoundOn, Bound
    <2> QED
      BY <1>1, <2>1, <2>2, <2>3
  <1> QED
    BY <1>2, <1>3, <1>4, <1>5, <1>6, QuietGame, OrphanQuiet

LEMMA OrphanStep ==
    ASSUME DbTyped, NetTyped, GameTyped, NoDangling, LinkInv, RequestInv, SetupInv,
           OrphanInv, Next
    PROVE  OrphanInv'
  BY OrphanDb, OrphanGame DEF Next

-----------------------------------------------------------------------------
(***************************************************************************)
(* Players.                                                                 *)
(***************************************************************************)

\* A step that binds nobody, and leaves what was said of a player true.
LEMMA PlayKept ==
    ASSUME PlayInv, odd \subseteq odd',
           \A d \in Desc : Bound(d)' => Bound(d),
           \A c \in Core : Some(toGame'[c], SuccessMsg) => Some(toGame[c], SuccessMsg),
           \A h \in Handle : Some(up'[h], LogoutMsg) => Some(up[h], LogoutMsg),
           \A d \in Desc : Bound(d)' /\ HasPlayers' /\ (HasPlayers => Told(d)) => Told(d)'
    PROVE  PlayInv'
  <1> SUFFICES ASSUME odd' \cap {"strayed", "taken", "left"} = {}, NEW d \in Desc, Bound(d)'
               PROVE  /\ \A e \in Desc : Bound(e)' => d = e
                      /\ \A c \in Core : ~Some(toGame'[c], SuccessMsg)
                      /\ \A h \in Handle : ~Some(up'[h], LogoutMsg)
                      /\ HasPlayers' => Told(d)'
    BY DEF PlayInv
  <1>1. odd \cap {"strayed", "taken", "left"} = {}
    OBVIOUS
  <1>2. Bound(d)
    OBVIOUS
  <1>3. /\ \A e \in Desc : Bound(e) => d = e
        /\ \A c \in Core : ~Some(toGame[c], SuccessMsg)
        /\ \A h \in Handle : ~Some(up[h], LogoutMsg)
        /\ HasPlayers => Told(d)
    BY <1>1, <1>2 DEF PlayInv
  <1> QED
    BY <1>3

LEMMA ToldKept ==
    ASSUME NEW d \in Desc, Told(d), desc'[d].char = "this" => desc[d].char = "this",
           \A c \in Core : Some(toGame'[c], LoadedMsg(d)) => Some(toGame[c], LoadedMsg(d)),
           \A c \in Core : Some(sql', LoadOf(d, link'[c])) => Some(sql, LoadOf(d, link[c])),
           cached => cached', out' => out
    PROVE  Told(d)'
  BY DEF Told

\* The players of the account are what they were.
LEMMA SamePlayers ==
    ASSUME byLogin' = byLogin, byLogin # None => Same(heap', heap, byLogin)
    PROVE  HasPlayers' = HasPlayers
  BY DEF HasPlayers, Same

LEMMA NobodyBound ==
    ASSUME \A d \in Desc : ~Bound(d)'
    PROVE  PlayInv'
  BY DEF PlayInv

\* No statement belongs to a core without a connection.
LEMMA NoLink ==
    ASSUME NEW d, NEW q
    PROVE  ~Some(q, LoadOf(d, None))
  BY ConstantTypes DEF Some, LoadOf, Statement

LEMMA PlayLogout ==
    ASSUME DbTyped, NetTyped, GameTyped, NoDangling, PlayInv,
           NEW h \in Handle, QUERY_LOGOUT(h)
    PROVE  PlayInv'
  <1> SUFFICES ASSUME odd' \cap {"strayed", "taken", "left"} = {} PROVE PlayInv'
    BY DEF PlayInv
  <1>1. /\ odd' = odd \cup (IF Head(up[h]).strayed THEN {"strayed"} ELSE {})
        /\ Receive(h, "LOGOUT")
    BY LogoutTypes DEF QUERY_LOGOUT
  <1>2. /\ Head(up[h]) \in UpMsg /\ Head(up[h]).type = "LOGOUT" /\ desc' = desc
        /\ \A M : Some(up[h], M) <=> Head(up[h]) \in M \/ Some(up'[h], M)
    BY <1>1, ReceivesAt
  <1>3. odd \cap {"strayed", "taken", "left"} = {} /\ ~Head(up[h]).strayed
    BY <1>1
  <1>4. Some(up[h], LogoutMsg)
    BY <1>2, <1>3, UpIs
  <1>5. \A d \in Desc : ~Bound(d)'
    BY <1>2, <1>3, <1>4 DEF PlayInv, Bound
  <1> QED
    BY <1>5, NobodyBound

LEMMA PlayLogin ==
    ASSUME DbTyped, NetTyped, GameTyped, NoDangling, LinkInv, SessionInv, PlayInv, RESULT_LOGIN
    PROVE  PlayInv'
  <1> DEFINE h == Head(sql).peer
             e == Head(sql).desc
  <1>1. /\ UNCHANGED <<up, link, desc, lost, byLogin, out, cached>>
        /\ h \in Handle /\ e \in Desc /\ sql # <<>> /\ sql' = Tail(sql)
        /\ \/ /\ logon = None
              /\ odd' = odd \cup (IF lost = {} THEN {} ELSE {"taken"})
           \/ /\ UNCHANGED <<heap, odd>> /\ Reply(h, [type |-> "LOGIN_ALREADY", desc |-> e])
    BY ResultLoginTypes, ResultLoginFacts, StatementIs DEF GameSame, RESULT_LOGIN
  <1> HIDE DEF h, e
  <1>2. CASE UNCHANGED <<heap, odd>> /\ Reply(h, [type |-> "LOGIN_ALREADY", desc |-> e])
    <2>1. SameAnswers /\ HasPlayers' = HasPlayers
      BY <1>1, <1>2, QuietReply DEF HasPlayers
    <2>2. \A d : \A c \in Core : Some(toGame'[c], LoadedMsg(d)) => Some(toGame[c], LoadedMsg(d))
      BY <1>1, <1>2, NoLoadReply
    <2>3. \A M : Some(sql', M) => Some(sql, M)
      BY <1>1, SqlTakes
    <2>4. \A d \in Desc : Told(d) => Told(d)'
      BY <1>1, <2>2, <2>3, ToldKept
    <2> QED
      BY <1>1, <1>2, <2>1, <2>4, PlayKept DEF SameAnswers, Bound
  <1>3. CASE /\ logon = None /\ odd' = odd \cup (IF lost = {} THEN {} ELSE {"taken"})
    <2> SUFFICES ASSUME odd' \cap {"strayed", "taken", "left"} = {} PROVE PlayInv'
      BY DEF PlayInv
    <2>1. lost = {} /\ "strayed" \notin odd
      BY <1>3
    <2>2. \A c \in Core : Holding(c) = {}
      BY <1>3, <2>1, OnlyEntry DEF Entry
    <2>3. \A d \in Desc : Bound(d) => desc[d].core \in Core
      BY OnCore DEF Bound
    <2>4. \A d \in Desc : ~Bound(d)'
      BY <1>1, <2>1, <2>2, <2>3 DEF Holding, BoundOn, Bound
    <2> QED
      BY <2>4, NobodyBound
  <1> QED
    BY <1>1, <1>2, <1>3

LEMMA PlayAsked ==
    ASSUME DbTyped, NetTyped, GameTyped, NoDangling, PlayInv,
           NEW h \in Handle, QUERY_PLAYER_LOAD(h)
    PROVE  PlayInv'
  <1> DEFINE e == Head(up[h]).desc
  <1>1. /\ UNCHANGED <<byLogin, cached, odd>>
        /\ byLogin # None => Same(heap', heap, byLogin)
        /\ e \in Desc /\ out' = (out /\ ~HasPlayers)
        /\ \/ toGame' = toGame
           \/ (cached = TRUE) /\ Reply(h, [type |-> "PLAYER_LOAD", desc |-> e])
        /\ Receive(h, "PLAYER_LOAD")
    BY PlayerLoadTypes DEF QUERY_PLAYER_LOAD
  <1> HIDE DEF e
  <1>2. SameLogouts /\ UNCHANGED <<link, desc>> /\ SameAnswers
    BY <1>1, QuietReceived, QuietReply, SameQueues
  <1>3. HasPlayers' = HasPlayers
    BY <1>1, SamePlayers
  <1>4. \A d : \A c \in Core : Some(toGame'[c], LoadedMsg(d)) =>
            Some(toGame[c], LoadedMsg(d)) \/ (cached = TRUE)
    BY <1>1
  <1>5. ASSUME NEW d \in Desc, HasPlayers, Told(d) PROVE Told(d)'
    <2>1. ~out'
      BY <1>1, <1>5
    <2> QED
      BY <1>1, <1>2, <1>4, <1>5, <2>1 DEF Told
  <1> QED
    BY <1>1, <1>2, <1>3, <1>5, PlayKept DEF SameAnswers, SameLogouts, Fall, Bound

LEMMA PlayLoaded ==
    ASSUME DbTyped, NetTyped, GameTyped, NoDangling, PlayInv, RESULT_PLAYER_LOAD
    PROVE  PlayInv'
  <1> DEFINE h == Head(sql).peer
             e == Head(sql).desc
             m == [type |-> "PLAYER_LOAD", desc |-> e]
  <1>1. /\ GameSame /\ UNCHANGED <<byLogin, out, odd>>
        /\ byLogin # None => Same(heap', heap, byLogin)
        /\ sql # <<>> /\ sql' = Tail(sql) /\ h \in Handle /\ e \in Desc
        /\ Head(sql) \in LoadOf(e, h)
        /\ \/ cached' = cached /\ toGame' = toGame
           \/ (cached' = TRUE) /\ Reply(h, m)
    BY ResultPlayerLoadTypes, StatementIs
  <1>2. m \in GameMsg /\ m.type = "PLAYER_LOAD" /\ m.desc = e
    BY <1>1, AnswerAt
  <1>3. SameAnswers
    BY <1>1, QuietReply, SameQueues
  <1> HIDE DEF h, e, m
  <1>4. HasPlayers' = HasPlayers /\ \A M : Some(sql', M) => Some(sql, M)
    BY <1>1, SamePlayers, SqlTakes
  <1>5. ASSUME NEW d \in Desc, Told(d) PROVE Told(d)'
    <2>1. UNCHANGED <<link, desc>>
      BY <1>1 DEF GameSame
    <2>2. CASE cached' = cached /\ toGame' = toGame
      BY <1>1, <1>4, <1>5, <2>1, <2>2, ToldKept
    <2>3. CASE (cached' = TRUE) /\ Reply(h, m)
      <3>1. ASSUME NEW c \in Core, Some(toGame'[c], LoadedMsg(d))
            PROVE  Some(toGame[c], LoadedMsg(d)) \/ Some(sql, LoadOf(d, link[c]))
        <4>1. Some(toGame[c], LoadedMsg(d)) \/ (link[c] = h /\ m \in LoadedMsg(d))
          BY <1>2, <2>3, <3>1, RepliesAt
        <4>2. m \in LoadedMsg(d) => d = e
          BY <1>2, GameIs
        <4>3. Some(sql, LoadOf(e, h))
          BY <1>1, SqlTakes
        <4> QED
          BY <4>1, <4>2, <4>3
      <3> QED
        BY <1>1, <1>4, <1>5, <2>1, <2>3, <3>1 DEF Told
    <2> QED
      BY <1>1, <2>2, <2>3
  <1> QED
    BY <1>1, <1>3, <1>4, <1>5, PlayKept DEF SameAnswers, GameSame, Bound

LEMMA PlayDb ==
    ASSUME DbTyped, NetTyped, GameTyped, NoDangling, LinkInv, SessionInv, PlayInv, Db
    PROVE  PlayInv'
  <1>1. ASSUME NEW k \in Key, QUERY_AUTH_LOGIN(k) PROVE PlayInv'
    <2>1. UNCHANGED <<toGame, up, desc>>
      BY <1>1 DEF QUERY_AUTH_LOGIN, netVars
    <2>2. odd \subseteq odd' /\ ~HasPlayers'
      BY <1>1, AuthFacts DEF HasPlayers
    <2> QED
      BY <2>1, <2>2, PlayKept DEF Bound
  <1>2. ASSUME NEW h \in Handle, QUERY_LOGIN_BY_KEY(h) PROVE PlayInv'
    <2> DEFINE e == Head(up[h]).desc
    <2>1. Receive(h, "LOGIN_BY_KEY") /\ UNCHANGED <<heap, byLogin, out, cached, odd>>
      BY <1>2 DEF QUERY_LOGIN_BY_KEY
    <2>2. SameLogouts /\ UNCHANGED <<link, desc>> /\ HasPlayers' = HasPlayers
      BY <2>1, QuietReceived DEF HasPlayers
    <2>3. e \in Desc /\ sql \in Seq(Statement)
      BY <1>2, AskTypes DEF DbTyped
    <2>4. \/ sql' = Append(sql, [q |-> "key", peer |-> h, desc |-> e]) /\ toGame' = toGame
          \/ /\ sql' = sql
             /\ \E t \in {"LOGIN_NOT_EXIST", "LOGIN_ALREADY"} : Reply(h, [type |-> t, desc |-> e])
      BY <1>2, AskTypes
    <2> HIDE DEF e
    <2>5. SameAnswers
      BY <2>3, <2>4, SameQueues, QuietReply
    <2>6. \A d : \A c \in Core : Some(toGame'[c], LoadedMsg(d)) => Some(toGame[c], LoadedMsg(d))
      BY <2>3, <2>4, NoLoadReply
    <2>7. \A d, g : Some(sql', LoadOf(d, g)) => Some(sql, LoadOf(d, g))
      BY <2>3, <2>4, NoLoadPut
    <2>8. \A d \in Desc : Told(d) => Told(d)'
      BY <2>1, <2>2, <2>6, <2>7, ToldKept
    <2> QED
      BY <2>1, <2>2, <2>5, <2>8, PlayKept DEF SameAnswers, SameLogouts, Fall, Bound
  <1>3. ASSUME NEW h \in Handle, QUERY_PLAYER_SAVE(h) PROVE PlayInv'
    <2>1. /\ Receive(h, "PLAYER_SAVE") /\ (cached' = TRUE)
          /\ UNCHANGED <<heap, byLogin, out, odd, toGame, sql>>
      BY <1>3 DEF QUERY_PLAYER_SAVE
    <2>2. SameLogouts /\ UNCHANGED <<link, desc>> /\ HasPlayers' = HasPlayers
      BY <2>1, QuietReceived DEF HasPlayers
    <2>3. \A d \in Desc : Told(d) => Told(d)'
      BY <2>1, <2>2, ToldKept
    <2> QED
      BY <2>1, <2>2, <2>3, PlayKept DEF SameLogouts, Fall, Bound
  <1>4. ASSUME NEW h \in Handle, RemovePeer(h) PROVE PlayInv'
    <2>1. /\ UNCHANGED <<byLogin, link, toGame, up, desc, odd, sql, cached, out>>
          /\ HasPlayers' = HasPlayers
      BY <1>4, RemoveTypes, SamePlayers
    <2>2. \A d \in Desc : Told(d) => Told(d)'
      BY <2>1, ToldKept
    <2> QED
      BY <2>1, <2>2, PlayKept DEF Bound
  <1>5. ASSUME RESULT_LOGIN_BY_KEY PROVE PlayInv'
    <2> DEFINE e == Head(sql).desc
               h == Head(sql).peer
    <2>1. /\ GameSame /\ UNCHANGED <<heap, byLogin, odd, out, cached>>
          /\ e \in Desc /\ h \in Handle /\ sql # <<>>
          /\ \/ /\ sql' = Append(Tail(sql), [q |-> "login", peer |-> h, desc |-> e])
                /\ toGame' = toGame
             \/ /\ sql' = Tail(sql) /\ Reply(h, [type |-> "LOGIN_NOT_EXIST", desc |-> e])
      BY <1>5, ReadTypes, StatementIs
    <2> HIDE DEF e, h
    <2>2. SameAnswers /\ HasPlayers' = HasPlayers
      BY <2>1, SameQueues, QuietReply DEF HasPlayers
    <2>3. \A d : \A c \in Core : Some(toGame'[c], LoadedMsg(d)) => Some(toGame[c], LoadedMsg(d))
      BY <2>1, NoLoadReply
    <2>4. /\ Tail(sql) \in Seq(Statement)
          /\ \A M : Some(Tail(sql), M) => Some(sql, M)
      BY <2>1, SqlTail, SqlTakes DEF DbTyped
    <2>5. \A d, g : Some(sql', LoadOf(d, g)) => Some(sql, LoadOf(d, g))
      BY <2>1, <2>4, NoLoadPut
    <2>6. \A d \in Desc : Told(d) => Told(d)'
      BY <2>1, <2>3, <2>5, ToldKept DEF GameSame
    <2> QED
      BY <2>1, <2>2, <2>6, PlayKept DEF SameAnswers, GameSame, Bound
  <1>6. ASSUME DropResult PROVE PlayInv'
    <2>1. /\ GameSame /\ UNCHANGED <<heap, byLogin, odd, toGame, out, cached>>
          /\ HasPlayers' = HasPlayers /\ \A M : Some(sql', M) => Some(sql, M)
      BY <1>6, DropTypes, SqlTakes DEF HasPlayers
    <2>2. \A d \in Desc : Told(d) => Told(d)'
      BY <2>1, ToldKept DEF GameSame
    <2> QED
      BY <2>1, <2>2, PlayKept DEF GameSame, Bound
  <1>7. ASSUME UpdateLogoutPlayer PROVE PlayInv'
    <2>1. /\ GameSame /\ UNCHANGED <<heap, byLogin, odd, toGame, sql>> /\ out /\ ~out'
          /\ HasPlayers' = HasPlayers
      BY <1>7, FlushTypes DEF HasPlayers
    <2>2. \A d \in Desc : Told(d) => Told(d)'
      BY <2>1 DEF Told, GameSame
    <2> QED
      BY <2>1, <2>2, PlayKept DEF GameSame, Bound
  <1>8. ASSUME NEW h \in Handle, QUERY_SETUP(h) PROVE PlayInv'
    <2>1. Receive(h, "SETUP") /\ UNCHANGED <<out, cached, sql, toGame, odd>>
      BY <1>8 DEF QUERY_SETUP
    <2>2. SameLogouts /\ UNCHANGED <<link, desc>>
      BY <2>1, QuietReceived
    <2>3. HasPlayers' => HasPlayers
      BY <1>8, SetupFacts DEF HasPlayers, Same, NetTyped
    <2>4. \A d \in Desc : Told(d) => Told(d)'
      BY <2>1, <2>2, ToldKept
    <2> QED
      BY <2>1, <2>2, <2>3, <2>4, PlayKept DEF SameLogouts, Fall, Bound
  <1>9. ASSUME DbRestart PROVE PlayInv'
    <2>1. /\ ~HasPlayers' /\ desc' = desc /\ odd' = odd
          /\ \A h \in Handle : up'[h] = <<>>
          /\ \A c \in Core : toGame'[c] = <<>>
      BY <1>9 DEF DbRestart, HasPlayers
    <2> QED
      BY <2>1, EmptyAt, PlayKept DEF Bound
  <1> QED
    BY <1>1, <1>2, <1>3, <1>4, <1>5, <1>6, <1>7, <1>8, <1>9, PlayLogout, PlayLogin,
       PlayAsked, PlayLoaded DEF Db

\* A client is bound: nobody else is, nor will be, and it is told nothing yet.
LEMMA PlayBound ==
    ASSUME DbTyped, NetTyped, GameTyped, NoDangling, LinkInv, RequestInv, SessionInv, LoadInv,
           PlayInv, NEW c \in Core, LoginSuccess(c)
    PROVE  PlayInv'
  <1> SUFFICES ASSUME odd' \cap {"strayed", "taken", "left"} = {} PROVE PlayInv'
    BY DEF PlayInv
  <1>1. UNCHANGED <<dbVars, link, odd>>
    BY LoginSuccessTypes
  <1>2. PICK d \in Desc :
          /\ Takes(c, d) /\ Head(toGame[c]).type = "LOGIN_SUCCESS"
          /\ \/ desc' = desc
             \/ /\ desc[d].phase # "closed" /\ desc'[d].char = desc[d].char
                /\ \A e \in Desc : e # d => desc'[e] = desc[e]
                /\ UNCHANGED <<up, buffer>>
    BY LoginSuccessTypes
  <1>3. link[c] # None
    BY <1>2, TakesLinked
  <1>4. Head(toGame[c]) \in SuccessMsg
    BY <1>2, GameIs DEF Takes
  <1>5. /\ \A b \in Core : Some(toGame'[b], SuccessMsg) => Some(toGame[b], SuccessMsg)
        /\ Some(toGame[c], SuccessMsg) /\ (Once(toGame[c], SuccessMsg) => ~Some(toGame'[c], SuccessMsg))
        /\ \A b \in Core : Some(toGame'[b], LoadedMsg(d)) => Some(toGame[b], LoadedMsg(d))
    BY <1>2, <1>4, TakesAt
  <1>6. odd \cap {"strayed", "taken", "left"} = {}
    BY <1>1
  <1>7. \A e \in Desc : ~Bound(e)
    BY <1>5, <1>6 DEF PlayInv
  <1>9. CASE desc' = desc
    BY <1>7, <1>9, NobodyBound DEF Bound
  <1>10. CASE /\ desc[d].phase # "closed" /\ desc'[d].char = desc[d].char
              /\ \A e \in Desc : e # d => desc'[e] = desc[e]
              /\ UNCHANGED <<up, buffer>>
    <2>9. \A e \in Desc : Bound(e)' => e = d
      BY <1>7, <1>10 DEF Bound
    <2>1. /\ OneHolder(c) /\ (\A g \in Handle : OneLogout(g)) /\ "strayed" \notin odd
      BY <1>6 DEF SessionInv
    <2>2. Entry(link[c]) /\ ~Some(Line(c), LogoutMsg) /\ ~Some(toGame'[c], SuccessMsg)
      BY <1>5, <2>1 DEF OneHolder
    <2>3. ASSUME NEW b \in Core PROVE ~Some(toGame'[b], SuccessMsg)
      <3>1. CASE b = c
        BY <2>2, <3>1
      <3>2. CASE b # c
        <4>1. link[b] # link[c]
          BY <1>3, <3>2 DEF LinkInv
        <4>2. ~Entry(link[b])
          BY <2>2, <4>1 DEF Entry
        <4> QED
          BY <1>5, <2>1, <4>2, OnlyEntry
      <3> QED
        BY <3>1, <3>2
    <2>4. ASSUME NEW g \in Handle PROVE ~Some(up'[g], LogoutMsg)
      <3>1. CASE g = link[c]
        BY <1>3, <1>10, <2>2, <3>1 DEF Line
      <3>2. CASE g # link[c]
        BY <1>10, <2>1, <2>2, <3>2, OnlyEntry DEF Entry
      <3> QED
        BY <3>1, <3>2
    <2>5. ~Loads(d) /\ desc'[d].char # "this"
      BY <1>6, <1>7, <1>10 DEF LoadInv
    <2>6. \A b \in Core : ~Some(toGame'[b], LoadedMsg(d))
      BY <1>5, <2>5, LoadsIn
    <2>7. ASSUME NEW b \in Core PROVE ~Some(sql', LoadOf(d, link'[b]))
      <3>1. sql' = sql /\ link' = link
        BY <1>1 DEF dbVars
      <3>2. CASE link[b] = None
        BY <3>1, <3>2, NoLink
      <3>3. CASE link[b] # None
        BY <2>5, <3>1, <3>3, LoadsIn, LineTypes
      <3> QED
        BY <3>2, <3>3
    <2>8. Told(d)'
      BY <2>5, <2>6, <2>7 DEF Told
    <2> QED
      BY <2>9, <2>3, <2>4, <2>8 DEF PlayInv
  <1> QED
    BY <1>2, <1>9, <1>10

LEMMA PlayReconnect ==
    ASSUME DbTyped, NetTyped, GameTyped, NoDangling, LinkInv, PlayInv,
           NEW c \in Core, Reconnect(c)
    PROVE  PlayInv'
  <1> DEFINE m == SetupOf(c)
             h == bounds.handle
  <1>1. /\ link[c] = None /\ h \in Handle /\ link'[c] = h
        /\ \A e \in Core : e # c => link'[e] = link[e]
        /\ up'[h] = Append(buffer[c], m) /\ \A g \in Handle : g # h => up'[g] = up[g]
        /\ UNCHANGED <<dbVars, toGame, desc, lost, odd>>
        /\ ~Some(sql, FromPeer(h))
    BY ReconnectTypes, NewLine
  <1>2. m \in UpMsg /\ m \notin LogoutMsg
    BY SetupOfAt
  <1> HIDE DEF m, h
  <1>3. ~Some(up'[h], LogoutMsg)
    BY <1>1, <1>2, AppendAt DEF LinkInv, NetTyped
  <1>4. sql' = sql /\ UNCHANGED <<heap, byLogin, cached, out>>
    BY <1>1 DEF dbVars
  <1>5. HasPlayers' = HasPlayers
    BY <1>4 DEF HasPlayers
  <1>6. \A d : LoadOf(d, h) \subseteq FromPeer(h)
    BY DEF LoadOf, FromPeer
  <1>7. \A d : ~Some(sql, LoadOf(d, h))
    BY <1>1, <1>6 DEF Some
  <1>8. ASSUME NEW d \in Desc, Told(d) PROVE Told(d)'
    <2>1. \A b \in Core : Some(sql', LoadOf(d, link'[b])) => Some(sql, LoadOf(d, link[b]))
      BY <1>1, <1>4, <1>7
    <2> QED
      BY <1>1, <1>4, <1>8, <2>1, ToldKept
  <1> QED
    BY <1>1, <1>3, <1>5, <1>8, PlayKept DEF Bound

LEMMA PlayGame ==
    ASSUME DbTyped, NetTyped, GameTyped, NoDangling, LinkInv, RequestInv, SessionInv, LoadInv,
           PlayInv, Game
    PROVE  PlayInv'
  <1>1. ASSUME UNCHANGED <<dbVars, link>>, odd \subseteq odd',
               \A d \in Desc : Bound(d)' => Bound(d),
               \A d \in Desc : HasPlayers /\ Bound(d)' /\ desc'[d].char = "this"
                   => desc[d].char = "this" \/ (Told(d) => cached /\ ~out),
               \A M : \A c \in Core : Some(toGame'[c], M) => Some(toGame[c], M),
               \A h \in Handle : Some(up'[h], LogoutMsg) => Some(up[h], LogoutMsg)
        PROVE  PlayInv'
    <2>1. UNCHANGED <<heap, byLogin, cached, out, sql, link>>
      BY <1>1 DEF dbVars
    <2>2. HasPlayers' = HasPlayers
      BY <2>1 DEF HasPlayers
    <2>3. ASSUME NEW d \in Desc, HasPlayers, Bound(d)', Told(d) PROVE Told(d)'
      <3>1. desc'[d].char = "this" => cached /\ ~out
        BY <1>1, <2>3 DEF Told
      <3> QED
        BY <1>1, <2>1, <2>3, <3>1 DEF Told
    <2> QED
      BY <1>1, <2>2, <2>3, PlayKept
  <1>2. ASSUME NEW d \in Desc, NEW c \in Core, NEW k \in Key, LoginByKey(d, c, k) PROVE PlayInv'
    <2> DEFINE m == [type |-> "LOGIN_BY_KEY", desc |-> d, key |-> k]
    <2>1. UNCHANGED <<dbVars, link, toGame, odd>> /\ Sends(c, <<m>>) /\ Shows(d, c)
      BY <1>2, LoginByKeyTypes
    <2>2. m \in UpMsg /\ m \notin LogoutMsg
      BY AskAt
    <2> HIDE DEF m
    <2>3. \A h \in Handle : Some(up'[h], LogoutMsg) => Some(up[h], LogoutMsg)
      BY <2>1, <2>2, OneSent, SendsAt
    <2>4. \A e \in Desc : /\ Bound(e)' => Bound(e)
                          /\ desc'[e].char = desc[e].char
      BY <2>1 DEF Bound, Shows
    <2> QED
      BY <1>1, <2>1, <2>3, <2>4
  <1>9. ASSUME NEW d \in Desc,
               \/ \E c \in Core : LoginByOtherKey(d, c)
               \/ OtherPlayerLoad(d) \/ Entergame(d) \/ OtherLoginSuccess(d)
        PROVE  PlayInv'
    <2>1. CASE \E c \in Core : LoginByOtherKey(d, c)
      <3>1. UNCHANGED <<dbVars, netVars, odd>> /\ \E c \in Core : Shows(d, c)
        BY <2>1, LoginByOtherKeyTypes
      <3>2. \A e \in Desc : Bound(e)' => Bound(e)
        BY <3>1 DEF Bound, Shows
      <3>3. \A e \in Desc : desc'[e].char = desc[e].char
        BY <3>1 DEF Shows
      <3> QED
        BY <1>1, <3>1, <3>2, <3>3 DEF netVars
    <2>2. CASE OtherPlayerLoad(d) \/ Entergame(d)
      <3>1. Local(d)
        BY <2>2, LocalTypes
      <3>2. \A e \in Desc : Bound(e)' => Bound(e)
        BY <3>1 DEF Bound, Local, Steady
      <3>3. \A e \in Desc : desc'[e].char = "this" => desc[e].char = "this"
        BY <3>1 DEF Local, Steady
      <3> QED
        BY <1>1, <3>1, <3>2, <3>3 DEF Local, netVars
    <2>3. CASE OtherLoginSuccess(d)
      <3>1. /\ UNCHANGED <<dbVars, netVars>> /\ odd \subseteq odd' /\ Steady(d)
            /\ desc'[d].account = "other" /\ desc'[d].char = desc[d].char
        BY <2>3, OtherLoginSuccessTypes
      <3>2. \A e \in Desc : Bound(e)' => Bound(e)
        BY <3>1 DEF Bound, Steady
      <3>3. \A e \in Desc : desc'[e].char = desc[e].char
        BY <3>1 DEF Steady
      <3> QED
        BY <1>1, <3>1, <3>2, <3>3 DEF netVars
    <2> QED
      BY <1>9, <2>1, <2>2, <2>3
  <1>3. ASSUME NEW d \in Desc, CharacterSelect(d) PROVE PlayInv'
    <2> DEFINE m == [type |-> "PLAYER_LOAD", desc |-> d]
    <2>1. /\ UNCHANGED <<dbVars, link, toGame, desc, odd>> /\ Sends(desc[d].core, <<m>>)
          /\ desc[d].core \in Core
      BY <1>3, CharacterSelectTypes, OnCore
    <2>2. m \in UpMsg /\ m \notin LogoutMsg
      BY LoadAt
    <2> HIDE DEF m
    <2>3. \A h \in Handle : Some(up'[h], LogoutMsg) => Some(up[h], LogoutMsg)
      BY <2>1, <2>2, OneSent, SendsAt
    <2> QED
      BY <1>1, <2>1, <2>3 DEF Bound
  <1>4. ASSUME NEW d \in Desc, PhaseSelect(d) PROVE PlayInv'
    <2>1. /\ UNCHANGED <<dbVars, link, toGame, odd>> /\ Sends(desc[d].core, Save(d))
          /\ desc[d].core \in Core /\ desc'[d].char = "none"
          /\ Steady(d) /\ desc'[d].account = desc[d].account
      BY <1>4, PhaseSelectTypes, OnCore
    <2>2. \A h \in Handle : Some(up'[h], LogoutMsg) => Some(up[h], LogoutMsg)
      BY <2>1, SavedAt, SendsAt
    <2>3. \A e \in Desc : Bound(e)' => Bound(e)
      BY <2>1 DEF Bound, Steady
    <2>4. \A e \in Desc : desc'[e].char = "this" => desc[e].char = "this"
      BY <2>1 DEF Steady
    <2> QED
      BY <1>1, <2>1, <2>2, <2>3, <2>4
  <1>5. ASSUME NEW d \in Desc, Destroy(d) PROVE PlayInv'
    <2>1. /\ UNCHANGED <<dbVars, link, toGame, odd>> /\ Sends(desc[d].core, Farewell(d))
          /\ desc'[d].account = "none" /\ desc'[d].char = "none" /\ Steady(d)
          /\ desc[d].core \in Core
      BY <1>5, DestroyTypes, OnCore DEF Steady
    <2>2. \A e \in Desc : Bound(e)' => Bound(e) /\ e # d
      BY <2>1 DEF Bound, Steady
    <2>3. CASE Bound(d)
      <3> SUFFICES ASSUME odd' \cap {"strayed", "taken", "left"} = {} PROVE PlayInv'
        BY DEF PlayInv
      <3>1. \A e \in Desc : Bound(e) => d = e
        BY <2>1, <2>3 DEF PlayInv
      <3> QED
        BY <2>2, <3>1, NobodyBound
    <2>4. CASE ~Bound(d)
      <3>1. \A h \in Handle : Some(up'[h], LogoutMsg) => Some(up[h], LogoutMsg)
        BY <2>1, <2>4, FarewellAt, SendsAt
      <3>2. \A e \in Desc : desc'[e].char = "this" => desc[e].char = "this"
        BY <2>1 DEF Steady
      <3> QED
        BY <1>1, <2>1, <2>2, <3>1, <3>2
    <2> QED
      BY <2>3, <2>4
  <1>6. ASSUME NEW c \in Core, LoginFailure(c) PROVE PlayInv'
    <2>1. UNCHANGED <<dbVars, link, odd, up, desc>>
      BY <1>6, LoginFailureTypes
    <2>2. PICK d \in Desc : Takes(c, d)
      BY <1>6, LoginFailureTypes
    <2>3. \A M : \A b \in Core : Some(toGame'[b], M) => Some(toGame[b], M)
      BY <2>2, TakesAt
    <2> QED
      BY <1>1, <2>1, <2>3 DEF Bound
  <1>7. ASSUME NEW c \in Core, PlayerLoad(c) PROVE PlayInv'
    <2>1. UNCHANGED <<dbVars, link, odd, up>>
      BY <1>7, PlayerLoadedTypes
    <2>2. PICK d \in Desc :
            /\ Takes(c, d) /\ Head(toGame[c]).type = "PLAYER_LOAD"
            /\ \/ desc' = desc
               \/ /\ \A e \in Desc : e # d => desc'[e] = desc[e]
                  /\ desc'[d].account = desc[d].account
      BY <1>7, PlayerLoadedTypes
    <2>3. \A M : \A b \in Core : Some(toGame'[b], M) => Some(toGame[b], M)
      BY <2>2, TakesAt
    <2>4. Head(toGame[c]) \in LoadedMsg(d)
      BY <2>2, GameIs DEF Takes
    <2>5. Told(d) => cached /\ ~out
      BY <2>2, <2>4, TakesAt DEF Told
    <2>6. \A e \in Desc : /\ Bound(e)' => Bound(e)
                          /\ e # d => desc'[e].char = desc[e].char
      BY <2>2 DEF Bound
    <2> QED
      BY <1>1, <2>1, <2>3, <2>5, <2>6
  <1>8. ASSUME NEW c \in Core, LinkLoss(c) \/ CoreCrash(c) PROVE PlayInv'
    <2>1. /\ link'[c] = None /\ toGame'[c] = <<>>
          /\ \A e \in Core : e # c => link'[e] = link[e] /\ toGame'[e] = toGame[e]
          /\ \A h \in Handle : up'[h] = up[h] \/ up'[h] = <<>>
          /\ UNCHANGED <<dbVars, odd>>
          /\ \A d \in Desc : Bound(d)' => Bound(d) /\ desc'[d] = desc[d]
      BY <1>8, BrokenHolding DEF Breaks
    <2>2. UNCHANGED <<heap, byLogin, cached, out, sql>>
      BY <2>1 DEF dbVars
    <2>3. HasPlayers' = HasPlayers
      BY <2>2 DEF HasPlayers
    <2>4. \A M : \A b \in Core : Some(toGame'[b], M) => Some(toGame[b], M)
      BY <2>1, EmptyAt
    <2>5. \A h \in Handle : Some(up'[h], LogoutMsg) => Some(up[h], LogoutMsg)
      BY <2>1, EmptyAt
    <2>6. ASSUME NEW d \in Desc, Bound(d)', Told(d) PROVE Told(d)'
      <3>1. \A b \in Core : Some(sql', LoadOf(d, link'[b])) => Some(sql, LoadOf(d, link[b]))
        BY <2>1, <2>2, NoLink
      <3> QED
        BY <2>1, <2>2, <2>4, <2>6, <3>1, ToldKept
    <2> QED
      BY <2>1, <2>3, <2>4, <2>5, <2>6, PlayKept
  <1> QED
    BY <1>2, <1>3, <1>4, <1>5, <1>6, <1>7, <1>8, <1>9, PlayBound, PlayReconnect DEF Game

LEMMA PlayStep ==
    ASSUME DbTyped, NetTyped, GameTyped, NoDangling, LinkInv, RequestInv, SessionInv, LoadInv,
           PlayInv, Next
    PROVE  PlayInv'
  BY PlayDb, PlayGame DEF Next

-----------------------------------------------------------------------------
(***************************************************************************)
(* The inductive invariant, from the first state on.                        *)
(***************************************************************************)

LEMMA InitIInv == Init => IInv
  <1> SUFFICES ASSUME Init PROVE IInv
    OBVIOUS
  <1>1. /\ heap = [o \in Obj |-> Freed] /\ byKey = [k \in Key |-> None]
        /\ byLogin = None /\ logon = None /\ out = FALSE /\ cached = FALSE /\ sql = <<>>
        /\ peers = Core /\ up = [h \in Handle |-> <<>>] /\ link = [c \in Core |-> c]
        /\ buffer = [c \in Core |-> <<>>] /\ toGame = [c \in Core |-> <<>>]
        /\ issued = {} /\ lost = {} /\ odd = {}
        /\ bounds = [auth |-> 0, login |-> 0, other |-> 0, load |-> 0, fault |-> 0,
                     handle |-> NCore + 1]
        /\ desc = [d \in Desc |-> NoClient]
    BY DEF Init
  <1>2. \A d \in Desc : /\ desc[d].phase = "unused" /\ desc[d].core = None
                       /\ desc[d].account = "none" /\ desc[d].char = "none" /\ ~desc[d].other
    BY <1>1 DEF NoClient
  <1>3. desc \in [Desc -> Client]
    <2>1. FALSE \in BOOLEAN
      BY Zenon
    <2>2. NoClient \in Client
      BY <2>1, ConstantTypes DEF NoClient, Client, Phase, Whose
    <2> QED
      BY <1>1, <2>2
  <1>4. \A d \in Desc : ~Bound(d)
    BY <1>2 DEF Bound
  <1>5. \A c : BoundOn(c) = {}
    BY <1>4 DEF BoundOn
  <1>6. /\ \A h \in Handle : up[h] = <<>>
        /\ \A c \in Core : /\ link[c] = c /\ buffer[c] = <<>> /\ toGame[c] = <<>>
                           /\ c \in Handle /\ c # None /\ Line(c) = <<>>
    BY <1>1, ConstantTypes DEF Line
  <1>7. \A M : ~Some(<<>>, M) /\ Once(<<>>, M)
    BY EmptyAt
  <1>8. TypeOK
    <2>1. bounds.handle \in NCore + 1 .. NCore + NCore * MaxFault + 1
      BY <1>1, ConstantTypes
    <2>2. GameTyped
      BY <1>1, <1>2, <1>3, <2>1, ConstantTypes DEF GameTyped, Counters
    <2>3. DbTyped
      <3>1. Freed \in Data
        BY NewDataTypes
      <3>2. /\ heap \in [Obj -> Data] /\ byKey \in [Key -> Obj \cup {None}]
            /\ byLogin \in Obj \cup {None} /\ logon \in Obj \cup {None}
        BY <1>1, <3>1
      <3>3. out \in BOOLEAN /\ cached \in BOOLEAN
        BY <1>1, Zenon
      <3>4. odd \subseteq {"refused", "strayed", "taken", "left"} /\ sql \in Seq(Statement)
        BY <1>1
      <3> QED
        BY <3>2, <3>3, <3>4 DEF DbTyped
    <2>4. NetTyped
      BY <1>1, ConstantTypes DEF NetTyped
    <2> QED
      BY <2>2, <2>3, <2>4, TypesApart
  <1>9. NoDangling
    BY <1>1 DEF NoDangling
  <1>10. LinkInv
    <2>1. \A h \in peers : h < bounds.handle
      BY <1>1, ConstantTypes DEF Core
    <2>2. Placed
      BY <1>2 DEF Placed
    <2> QED
      BY <1>1, <1>6, <1>7, <2>1, <2>2 DEF LinkInv
  <1>11. RequestInv
    BY <1>1, <1>6, <1>7 DEF RequestInv, OneRequest, Asking
  <1>12. SetupInv
    BY <1>6, <1>7 DEF SetupInv, OneSetup
  <1>13. SessionInv
    BY <1>5, <1>6, <1>7 DEF SessionInv, OneLogout, OneHolder, Holding
  <1>14. OrphanInv
    BY <1>1 DEF OrphanInv, Entry
  <1>15. LoadInv
    BY <1>1, <1>2, <1>6, <1>7 DEF LoadInv, Loads
  <1>16. PlayInv
    BY <1>4 DEF PlayInv
  <1> QED
    BY <1>8, <1>9, <1>10, <1>11, <1>12, <1>13, <1>14, <1>15, <1>16 DEF IInv

LEMMA StepIInv == IInv /\ [Next]_vars => IInv'
  <1> SUFFICES ASSUME IInv, [Next]_vars PROVE IInv'
    OBVIOUS
  <1>1. /\ DbTyped /\ NetTyped /\ GameTyped /\ NoDangling /\ LinkInv /\ RequestInv /\ SetupInv
        /\ SessionInv /\ OrphanInv /\ LoadInv /\ PlayInv
    BY TypesApart DEF IInv
  <1>2. CASE Next
    <2>1. TypeOK' /\ NoDangling'
      BY <1>1, <1>2, TypesStep, TypesApart DEF TypeOK, DbTyped, NetTyped, GameTyped, Statement, Counters
    <2>2. LinkInv' /\ RequestInv' /\ SetupInv'
      BY <1>1, <1>2, LinkStep, RequestStep, SetupStep
    <2>3. SessionInv' /\ OrphanInv'
      BY <1>1, <1>2, SessionStep, OrphanStep
    <2>4. LoadInv' /\ PlayInv'
      BY <1>1, <1>2, LoadStep, PlayStep
    <2> QED
      BY <2>1, <2>2, <2>3, <2>4 DEF IInv
  <1>3. CASE UNCHANGED vars
    <2> USE DEF vars, dbVars, netVars
    <2>1. /\ TypeOK' /\ NoDangling'
      BY <1>1, <1>3 DEF IInv, TypeOK, NoDangling
    <2>2. LinkInv'
      BY <1>1, <1>3 DEF LinkInv, Placed, BoundOn, Bound
    <2>3. RequestInv'
      BY <1>1, <1>3 DEF RequestInv, OneRequest, Asking, Line
    <2>4. SetupInv'
      BY <1>1, <1>3 DEF SetupInv, OneSetup, Line, Bound
    <2>5. SessionInv'
      BY <1>1, <1>3 DEF SessionInv, OneLogout, OneHolder, Entry, Holding, BoundOn, Bound, Line
    <2>6. OrphanInv'
      BY <1>1, <1>3 DEF OrphanInv, Entry, Owned, BoundOn, Bound, Line
    <2>7. LoadInv'
      BY <1>1, <1>3 DEF LoadInv, Loads, Bound
    <2>8. PlayInv'
      BY <1>1, <1>3 DEF PlayInv, Bound, HasPlayers, Told
    <2> QED
      BY <2>1, <2>2, <2>3, <2>4, <2>5, <2>6, <2>7, <2>8 DEF IInv
  <1> QED
    BY <1>2, <1>3

\* What every state of the program satisfies, for any number of cores, clients,
\* keys and faults: who waits for which answer, which packets are on the way, and who
\* has the entry of the account in the logon table.
THEOREM IInvHolds == Spec => []IInv
  BY InitIInv, StepIInv, PTL DEF Spec

-----------------------------------------------------------------------------
(***************************************************************************)
(* The invariants of LoginData.                                             *)
(***************************************************************************)

\* A client that has its entry holds that of its core's connection.
LEMMA HolderHolds ==
    ASSUME LinkInv, SessionInv, "strayed" \notin odd, NEW d \in Holders
    PROVE  /\ d \in Desc /\ Bound(d) /\ desc[d].core \in Core /\ d \in Holding(desc[d].core)
           /\ OneHolder(desc[d].core) /\ Entry(link[desc[d].core])
  <1>1. d \in Desc /\ Bound(d) /\ d \notin lost
    BY DEF Holders
  <1>2. desc[d].core \in Core
    BY <1>1, OnCore DEF Bound
  <1>3. d \in Holding(desc[d].core)
    BY <1>1 DEF Holding, BoundOn
  <1> QED
    BY <1>1, <1>2, <1>3 DEF SessionInv, OneHolder

LEMMA OneSessionFollows ==
    ASSUME NetTyped, LinkInv, SessionInv
    PROVE  OneSession
  <1> SUFFICES ASSUME "strayed" \notin odd, NEW d \in Holders, NEW e \in Holders PROVE d = e
    BY DEF OneSession
  <1> DEFINE c == desc[d].core
             b == desc[e].core
  <1>1. c \in Core /\ d \in Holding(c) /\ OneHolder(c) /\ Entry(link[c])
    BY HolderHolds
  <1>2. b \in Core /\ e \in Holding(b) /\ Entry(link[b])
    BY HolderHolds
  <1> HIDE DEF c, b
  <1>3. link[c] = link[b] /\ link[c] # None
    BY <1>1, <1>2, EntryOpen DEF Entry
  <1>4. c = b
    BY <1>1, <1>2, <1>3 DEF LinkInv
  <1> QED
    BY <1>1, <1>2, <1>4 DEF OneHolder

LEMMA NoOrphanFollows ==
    ASSUME NetTyped, LinkInv, OrphanInv
    PROVE  NoOrphanLogon
  <1> DEFINE h == heap[logon].peer
  <1> SUFFICES ASSUME logon # None, odd \cap {"refused", "left"} = {}, NEW c \in Core, link[c] = h
               PROVE  \/ InFlight(up[h], "LOGOUT")
                      \/ BoundOn(c) # {} \/ InFlight(toGame[c], "LOGIN_SUCCESS")
    BY DEF NoOrphanLogon
  <1>1. Entry(link[c])
    BY DEF Entry
  <1> HIDE DEF h
  <1>2. Owned(c) /\ Line(c) = up[h] /\ h \in Handle
    BY <1>1, EntryOpen DEF OrphanInv, Line, NetTyped
  <1>3. up[h] \in Seq(UpMsg) /\ toGame[c] \in Seq(GameMsg)
    BY <1>2 DEF NetTyped
  <1>4. DOMAIN up[h] = 1 .. Len(up[h]) /\ DOMAIN toGame[c] = 1 .. Len(toGame[c])
    BY <1>3
  <1>5. Some(up[h], AnyLogout) => InFlight(up[h], "LOGOUT")
    BY <1>4 DEF Some, AnyLogout, InFlight
  <1>6. Some(toGame[c], SuccessMsg) => InFlight(toGame[c], "LOGIN_SUCCESS")
    BY <1>4 DEF Some, SuccessMsg, InFlight
  <1> QED
    BY <1>2, <1>5, <1>6 DEF Owned

LEMMA PlayingFollows ==
    ASSUME LinkInv, SessionInv, PlayInv
    PROVE  PlayingIsKept
  <1> SUFFICES ASSUME NEW d \in Holders, desc[d].char = "this", logon = byLogin,
                      heap[logon].players, odd \cap {"strayed", "taken", "left"} = {}
               PROVE  cached /\ ~out
    BY DEF PlayingIsKept
  <1>1. "strayed" \notin odd
    OBVIOUS
  <1>2. d \in Desc /\ Bound(d) /\ logon # None
    BY <1>1, HolderHolds DEF Entry
  <1>3. HasPlayers
    BY <1>2 DEF HasPlayers
  <1> QED
    BY <1>2, <1>3 DEF PlayInv, Told

\* The variables of LoginData keep their types, whatever the cores and the db do.
THEOREM LoginTypesHold == Spec => []TypeOK
  BY IInvHolds, PTL DEF IInv

\* The db never follows a pointer to a CLoginData object that it has freed: what
\* QUERY_AUTH_LOGIN, QUERY_LOGOUT, RemovePeer and QUERY_SETUP do to the maps and to the
\* logon table fits together.
THEOREM NothingDangles == Spec => []NoDangling
  BY IInvHolds, PTL DEF IInv

\* As long as no client logs out whose entry has gone, the account is bound to one
\* client at most, on all the cores, whatever packets and answers cross each other.
THEOREM SessionIsUnique == Spec => []OneSession
  <1>1. IInv => OneSession
    BY TypesApart, OneSessionFollows DEF IInv
  <1> QED
    BY <1>1, IInvHolds, PTL

\* A client that is bound, and has not lost its entry, is in the logon table on the
\* connection its core has: its logout will be taken for it.
THEOREM HoldersAreLoggedOn == Spec => []HolderIsLoggedOn
  <1>1. LinkInv /\ SessionInv => HolderIsLoggedOn
    BY HolderHolds DEF HolderIsLoggedOn, Entry
  <1>2. IInv => HolderIsLoggedOn
    BY <1>1 DEF IInv
  <1> QED
    BY <1>2, IInvHolds, PTL

\* The entry of the account goes with its client: as long as no authentication is
\* refused, and no client that is bound to the account goes over to another one, nobody
\* is locked out by an entry that has no owner.
THEOREM LogonIsOwned == Spec => []NoOrphanLogon
  <1>1. IInv => NoOrphanLogon
    BY TypesApart, NoOrphanFollows DEF IInv
  <1> QED
    BY <1>1, IInvHolds, PTL

\* The player of a client keeps its cache, and is not written off as logged out, by a
\* logout that arrives late or by a load that was asked for before, as long as no client
\* loses its entry to another, logs out without it, or leaves the account.
THEOREM PlayersAreKept == Spec => []PlayingIsKept
  <1>1. IInv => PlayingIsKept
    BY PlayingFollows DEF IInv
  <1> QED
    BY <1>1, IInvHolds, PTL

=============================================================================
