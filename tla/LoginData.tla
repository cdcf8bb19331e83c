------------------------------ MODULE LoginData ------------------------------
(***************************************************************************)
(* Who is logged on: the login data and the logon table of the db process  *)
(* (db/ClientManagerLogin, ClientManager, LoginData) and the connections of *)
(* clients to the game cores (game/desc, input_login, input_db).           *)
(*                                                                         *)
(* An authentication makes a CLoginData object, which the db finds by its  *)
(* key (byKey) and by its account (byLogin, for the maps by login and by   *)
(* account id, which always agree).  A client shows the key to a core, the *)
(* core asks the db (LOGIN_BY_KEY), the db reads the account's players and  *)
(* enters the object in the logon table: an account has one entry there, so *)
(* that it is on one core at a time.  LOGOUT, or the loss of the core's     *)
(* connection, takes the entry out again.                                  *)
(*                                                                         *)
(* Objects are freed by hand, so they are cells of a heap here and the maps *)
(* hold pointers.  There is one account here, with one player, and its keys *)
(* may repeat.  Other accounts are what they do to a client: it may show    *)
(* one of their keys at any time, be bound to one instead, and get one of   *)
(* their characters.  Packets travel in order between a core and the db, on *)
(* the connection they were sent on; a connection may break while packets   *)
(* are on their way, and the core may notice that before the db does.  Why  *)
(* a client leaves (it quits, its core moves it to another, another login   *)
(* of its account has it closed) is left open: Destroy may happen at any    *)
(* time.                                                                   *)
(***************************************************************************)
EXTENDS Naturals, Sequences, FiniteSetsExt

CONSTANTS
    NCore,      \* the number of game cores
    Key,        \* login keys
    MaxDesc,    \* bound: client connections
    MaxAuth,    \* bound: authentications
    MaxFault,   \* bound: connections of cores lost, cores that crash, restarts
                \* of the db process
    MaxLogin,   \* bound: keys that clients show
    MaxOther,   \* bound: of these, keys of another account
    MaxLoad,    \* bound: characters that clients of the account select
    MaxRequest, \* bound: authentications, keys shown and selections, and the faults
                \* before the last of them, together
    MaxObj      \* bound: live CLoginData objects

ASSUME LoginAssumption ==
    /\ NCore \in Nat \ {0}
    /\ {MaxDesc, MaxAuth, MaxFault, MaxLogin, MaxOther, MaxLoad, MaxRequest,
      MaxObj} \subseteq Nat
    /\ Key \cap {0} = {}

VARIABLES
    heap,       \* CLoginData objects
    byKey,      \* m_map_pkLoginData
    byLogin,    \* m_map_pkLoginDataByLogin, m_map_pkLoginDataByAID
    logon,      \* m_map_kLogonAccount: the object of the account's entry
    out,        \* the player is in m_map_logout
    cached,     \* the player has a TPlayerCache
    sql,        \* statements of logins and player loads in the SQL channel
    peers,      \* the connections the db has, by handle
    up,         \* packets on their way to the db, by connection
    link,       \* the connection of a core; 0 while it has none
    buffer,     \* what a core sends while it has none
    toGame,     \* packets on their way to a core
    desc,       \* client connections
    issued,     \* keys handed to clients
    lost,       \* history: bound clients whose entry went with a connection
    odd,        \* history: "refused" (an authentication was), "strayed" (a
                \* logout came from a client that had lost its entry), "taken"
                \* (the account got another entry by a login meanwhile), "left"
                \* (a bound client went over to another account)
    bounds      \* counters: authentications, keys shown, characters selected,
                \* faults, the next connection

dbVars == <<heap, byKey, byLogin, logon, out, cached, sql>>
netVars == <<peers, up, link, buffer, toGame>>
vars == <<dbVars, netVars, desc, issued, lost, odd, bounds>>

Core == 1 .. NCore
Desc == 1 .. MaxDesc
Handle == 1 .. NCore + NCore * MaxFault
Obj == 1 .. MaxObj
MayAsk == bounds.auth + bounds.login + bounds.load + bounds.fault < MaxRequest
None == 0               \* no object, no connection, no key

\* CLoginData: m_dwKey, m_adwClientKey (known, or what was on the stack of
\* QUERY_SETUP), m_dwConnectedPeerHandle, m_bPlay, m_bDeleted and whether its
\* account table lists the player.
Data == [key : Key \cup {None}, clientKey : BOOLEAN, peer : Handle \cup {None},
         play : BOOLEAN, deleted : BOOLEAN, players : BOOLEAN, live : BOOLEAN]
NewData(k, known) ==
    [key |-> k, clientKey |-> known, peer |-> None, play |-> FALSE,
     deleted |-> FALSE, players |-> FALSE, live |-> TRUE]
Freed == [NewData(None, FALSE) EXCEPT !.live = FALSE]

\* DESC, by its input processor: "login" from the handshake on, and again once
\* an account is bound or a character chosen, "play" in the game.  Its account
\* table and its character are this account's, another's, or none; its login key
\* is None if it is another account's.
Phase == {"unused", "login", "play", "closed"}
Whose == {"none", "this", "other"}
Client == [phase : Phase, core : Core \cup {None}, key : Key \cup {None},
           account : Whose, char : Whose, other : BOOLEAN]
NoClient == [phase |-> "unused", core |-> None, key |-> None, account |-> "none",
             char |-> "none", other |-> FALSE]
Closed(d) == [NoClient EXCEPT !.phase = "closed", !.core = desc[d].core]
Bound(d) == desc[d].account = "this"
BoundOn(c) == {d \in Desc : Bound(d) /\ desc[d].core = c}

-----------------------------------------------------------------------------
(* The db: maps and objects.                                                *)

Free(h, o) == [h EXCEPT ![o] = Freed]
Alloc(h) == CHOOSE o \in Obj : ~h[o].live /\ \A n \in Obj : ~h[n].live => o <= n
HasRoom(h) == \E o \in Obj : ~h[o].live

\* InsertLoginData: map::insert does not replace an entry.
InsertKey(k, o) == IF byKey[k] = None THEN o ELSE byKey[k]
InsertLogin(o) == IF byLogin = None THEN o ELSE byLogin

(* Faulty variants, see PROJECT.json: slips in the operator each comment    *)
(* names.  No specification uses them.                                      *)

\* CanLogOn: InsertLogonAccount does not look for an entry.
CanLogOnAnyway == byLogin # None

\* LoggedOff: an object that is marked deleted is freed, one that is not too.
LoggedOffFrees(h, o) == Free(h, o)

\* What SetPlay(false) and a delete for m_bDeleted leave of an object whose
\* entry in the logon table is erased (DeleteLogonAccount, RemovePeer).
LoggedOff(h, o) ==
    IF h[o].deleted THEN Free(h, o) ELSE [h EXCEPT ![o].play = FALSE]

\* InsertLogonAccount has found neither an entry nor a missing object.
CanLogOn == logon = None /\ byLogin # None

Reply(h, m) ==
    LET cs == {c \in Core : link[c] = h}
    IN  toGame' = [c \in Core |-> IF c \in cs THEN Append(toGame[c], m) ELSE toGame[c]]

\* The db takes the next packet of connection h.
Receive(h, type) ==
    /\ h \in peers
    /\ up[h] # <<>>
    /\ Head(up[h]).type = type
    /\ up' = [up EXCEPT ![h] = Tail(@)]
    /\ UNCHANGED <<peers, link, buffer, desc, issued, bounds>>

\* Core c's packets go to its connection, or wait for the next one.
Send(c, ms) ==
    IF link[c] # None
    THEN up' = [up EXCEPT ![link[c]] = @ \o ms] /\ UNCHANGED buffer
    ELSE buffer' = [buffer EXCEPT ![c] = @ \o ms] /\ UNCHANGED up

\* RemovePeer: all entries go, whatever their connection.
RemovePeerOfAll(h) ==
    /\ h \in peers
    /\ \A c \in Core : link[c] # h
    /\ up[h] = <<>>
    /\ peers' = peers \ {h}
    /\ IF logon # None
       THEN heap' = LoggedOff(heap, logon) /\ logon' = None
       ELSE UNCHANGED <<heap, logon>>
    /\ UNCHANGED <<byKey, byLogin, out, cached, sql, up, link, buffer, toGame, desc,
                   issued, lost, odd, bounds>>

\* QUERY_PLAYER_LOAD: the player is not taken out of the logout map.
QUERY_PLAYER_LOAD_LoggedOut(h) ==
    /\ Receive(h, "PLAYER_LOAD")
    /\ LET d == Head(up[h]).desc
       IN  IF cached
           THEN /\ UNCHANGED sql
                /\ IF byLogin # None /\ ~heap[byLogin].play
                   THEN /\ heap' = [heap EXCEPT ![byLogin].play = TRUE]
                        /\ Reply(h, [type |-> "PLAYER_LOAD", desc |-> d])
                   ELSE UNCHANGED <<heap, toGame>>
           ELSE /\ sql' = Append(sql, [q |-> "load", peer |-> h, desc |-> d])
                /\ UNCHANGED <<heap, toGame>>
    /\ UNCHANGED <<byKey, byLogin, logon, out, cached, lost, odd>>

\* LoginSuccess: the client has gone, and nobody tells the db.
LoginSuccessIgnored(c) ==
    /\ toGame[c] # <<>>
    /\ Head(toGame[c]).type = "LOGIN_SUCCESS"
    /\ toGame' = [toGame EXCEPT ![c] = Tail(@)]
    /\ LET d == Head(toGame[c]).desc
       IN  IF desc[d].phase = "closed" THEN UNCHANGED <<desc, lost>>
           ELSE /\ desc' = [desc EXCEPT ![d].phase = "login", ![d].account = "this"]
                /\ lost' = lost \ {d}
    /\ UNCHANGED <<dbVars, peers, up, link, buffer, issued, odd, bounds>>

\* Entergame: nobody asks whether there is a character.
EntergameAnyway(d) ==
    /\ desc[d].phase = "login"
    /\ desc' = [desc EXCEPT ![d].phase = "play"]
    /\ UNCHANGED <<dbVars, netVars, issued, lost, odd, bounds>>

-----------------------------------------------------------------------------
(* AUTH_LOGIN comes from the auth core, whose keys are drawn at random      *)
(* (CreateLoginKey): an old login data of the account goes, or is marked if *)
(* the account is logged on (DeleteLoginData); a key in use is refused.     *)
QUERY_AUTH_LOGIN(k) ==
    LET old == byLogin
        dropped == IF old = None THEN byKey ELSE [byKey EXCEPT ![heap[old].key] = None]
        left == IF old = None THEN heap
                ELSE IF logon = None THEN Free(heap, old)
                ELSE [heap EXCEPT ![old].deleted = TRUE]
        o == Alloc(left)
    IN  /\ bounds.auth < MaxAuth /\ MayAsk
        /\ bounds' = [bounds EXCEPT !.auth = @ + 1]
        /\ IF dropped[k] # None
           THEN /\ heap' = left /\ byKey' = dropped /\ byLogin' = None
                /\ odd' = odd \cup {"refused"} /\ UNCHANGED issued
           ELSE /\ HasRoom(left)
                /\ heap' = [left EXCEPT ![o] = NewData(k, TRUE)]
                /\ byKey' = [dropped EXCEPT ![k] = o]
                /\ byLogin' = o
                /\ issued' = issued \cup {k}
                /\ UNCHANGED odd
        /\ UNCHANGED <<logon, out, cached, sql, netVars, desc, lost>>

(* A known key of an account that is not logged on, with its client key:    *)
(* the account's players are read.  An object that SETUP made compares the  *)
(* client key with whatever its constructor call found on the stack.        *)
QUERY_LOGIN_BY_KEY(h) ==
    /\ Receive(h, "LOGIN_BY_KEY")
    /\ LET m == Head(up[h])
           o == byKey[m.key]
           ask(ok) == IF ok
               THEN /\ sql' = Append(sql, [q |-> "key", peer |-> h, desc |-> m.desc])
                    /\ UNCHANGED toGame
               ELSE /\ Reply(h, [type |-> "LOGIN_NOT_EXIST", desc |-> m.desc])
                    /\ UNCHANGED sql
       IN  IF o = None THEN ask(FALSE)
           ELSE IF logon # None
           THEN Reply(h, [type |-> "LOGIN_ALREADY", desc |-> m.desc]) /\ UNCHANGED sql
           ELSE \E same \in IF heap[o].clientKey THEN {TRUE} ELSE BOOLEAN : ask(same)
    /\ UNCHANGED <<heap, byKey, byLogin, logon, out, cached, lost, odd>>

NextResult(q) == sql # <<>> /\ Head(sql).q = q

\* AnalyzeQueryResult: the result for a connection that is gone is dropped.
DropResult ==
    /\ sql # <<>>
    /\ Head(sql).peer \notin peers
    /\ sql' = Tail(sql)
    /\ UNCHANGED <<heap, byKey, byLogin, logon, out, cached, netVars, desc, issued,
                   lost, odd, bounds>>

\* The player ids are read; the players are read next, or the first SELECT
\* failed.
RESULT_LOGIN_BY_KEY ==
    /\ NextResult("key")
    /\ Head(sql).peer \in peers
    /\ \/ /\ sql' = Append(Tail(sql), [Head(sql) EXCEPT !.q = "login"])
          /\ UNCHANGED toGame
       \/ /\ sql' = Tail(sql)
          /\ Reply(Head(sql).peer, [type |-> "LOGIN_NOT_EXIST", desc |-> Head(sql).desc])
    /\ UNCHANGED <<heap, byKey, byLogin, logon, out, cached, peers, up, link, buffer,
                   desc, issued, lost, odd, bounds>>

\* The object that byLogin has now, whichever that is, gets the entry and the
\* players.  History: a bound client may have lost that entry.
RESULT_LOGIN ==
    /\ NextResult("login")
    /\ Head(sql).peer \in peers
    /\ sql' = Tail(sql)
    /\ IF CanLogOn
       THEN /\ heap' = [heap EXCEPT ![byLogin].peer = Head(sql).peer,
                                    ![byLogin].players = TRUE]
            /\ logon' = byLogin
            /\ odd' = odd \cup (IF lost = {} THEN {} ELSE {"taken"})
            /\ Reply(Head(sql).peer, [type |-> "LOGIN_SUCCESS", desc |-> Head(sql).desc])
       ELSE /\ Reply(Head(sql).peer, [type |-> "LOGIN_ALREADY", desc |-> Head(sql).desc])
            /\ UNCHANGED <<heap, logon, odd>>
    /\ UNCHANGED <<byKey, byLogin, out, cached, peers, up, link, buffer, desc, issued,
                   lost, bounds>>

(* Without login data nothing happens.  Else the players of the object that *)
(* byLogin has are put in the logout map, and the entry goes if it belongs  *)
(* to this connection (DeleteLogonAccount): which client of the core it is  *)
(* that leaves is not looked at.  History: the client had lost its entry.   *)
QUERY_LOGOUT(h) ==
    /\ Receive(h, "LOGOUT")
    /\ out' = (out \/ (byLogin # None /\ heap[byLogin].players))
    /\ IF byLogin # None /\ logon # None /\ heap[logon].peer = h
       THEN heap' = LoggedOff(heap, logon) /\ logon' = None
       ELSE UNCHANGED <<heap, logon>>
    /\ odd' = odd \cup (IF Head(up[h]).strayed THEN {"strayed"} ELSE {})
    /\ UNCHANGED <<byKey, byLogin, cached, sql, toGame, lost>>

(* A core that connects lists its bound clients, with the key each has shown *)
(* last, which may be another account's.  Each gets a new object,           *)
(* in the order of the list, which the maps may not take: a key that has an *)
(* object keeps it, and so does the account.  Only the first of the list    *)
(* can get an entry: if the account has none, the object that byLogin has   *)
(* now gets it, and IsPlay is set on the new object.  One that no map took  *)
(* is never freed.  History: the first client has its entry back.           *)
NewObjects(S) ==
    LET free == {o \in Obj : ~heap[o].live}
        next == {O \in SUBSET free : \A o \in O, p \in free : p < o => p \in O}
    IN  UNION {Bijection(O, S) : O \in next}

QUERY_SETUP(h) ==
    /\ Receive(h, "SETUP")
    /\ \E of \in NewObjects(DOMAIN Head(up[h]).keys) :
        LET O == DOMAIN of
            key == [o \in O |-> Head(up[h]).keys[of[o]]]
            taken(k) == {o \in O : key[o] = k}
            made == [o \in Obj |-> IF o \in O THEN NewData(key[o], FALSE) ELSE heap[o]]
        IN  /\ byKey' = [k \in Key |-> IF taken(k) = {} THEN byKey[k]
                                       ELSE InsertKey(k, Min(taken(k)))]
            /\ byLogin' = IF O = {} THEN byLogin ELSE InsertLogin(Min(O))
            /\ IF O # {} /\ logon = None
               THEN /\ logon' = byLogin'
                    /\ heap' = [made EXCEPT ![byLogin'].peer = h, ![Min(O)].play = TRUE]
                    /\ lost' = IF \E c \in Core : link[c] = h
                               THEN lost \ {of[Min(O)]} ELSE lost
               ELSE heap' = made /\ UNCHANGED <<logon, lost>>
    /\ UNCHANGED <<out, cached, sql, toGame, odd>>

\* From the cache at once, else from the tables.  Refused without an answer.
QUERY_PLAYER_LOAD(h) ==
    /\ Receive(h, "PLAYER_LOAD")
    /\ out' = (out /\ ~(byLogin # None /\ heap[byLogin].players))
    /\ LET d == Head(up[h]).desc
       IN  IF cached
           THEN /\ UNCHANGED sql
                /\ IF byLogin # None /\ ~heap[byLogin].play
                   THEN /\ heap' = [heap EXCEPT ![byLogin].play = TRUE]
                        /\ Reply(h, [type |-> "PLAYER_LOAD", desc |-> d])
                   ELSE UNCHANGED <<heap, toGame>>
           ELSE /\ sql' = Append(sql, [q |-> "load", peer |-> h, desc |-> d])
                /\ UNCHANGED <<heap, toGame>>
    /\ UNCHANGED <<byKey, byLogin, logon, cached, lost, odd>>

RESULT_PLAYER_LOAD ==
    /\ NextResult("load")
    /\ Head(sql).peer \in peers
    /\ sql' = Tail(sql)
    /\ IF byLogin # None /\ ~heap[byLogin].play
       THEN /\ heap' = [heap EXCEPT ![byLogin].play = TRUE]
            /\ cached' = TRUE
            /\ Reply(Head(sql).peer, [type |-> "PLAYER_LOAD", desc |-> Head(sql).desc])
       ELSE UNCHANGED <<heap, cached, toGame>>
    /\ UNCHANGED <<byKey, byLogin, logon, out, peers, up, link, buffer, desc, issued,
                   lost, odd, bounds>>

\* PLAYER_SAVE: a player without a cache gets one (PutPlayerCache).
QUERY_PLAYER_SAVE(h) ==
    /\ Receive(h, "PLAYER_SAVE")
    /\ cached' = TRUE
    /\ UNCHANGED <<heap, byKey, byLogin, logon, out, sql, toGame, lost, odd>>

\* The player has been in m_map_logout for g_iLogoutSeconds: FlushPlayerCache.
UpdateLogoutPlayer ==
    /\ out
    /\ out' = FALSE
    /\ cached' = FALSE
    /\ UNCHANGED <<heap, byKey, byLogin, logon, sql, netVars, desc, issued, lost,
                   odd, bounds>>

-----------------------------------------------------------------------------
(* The game cores.                                                          *)

\* A client has connected, to any core, or is on one already: no question is asked
\* of a request that is not answered yet, or of the account it is bound to.
Show(d, c, k) ==
    /\ \/ desc[d].phase = "unused" /\ (d > 1 => desc[d - 1].phase # "unused")
       \/ desc[d].phase = "login" /\ desc[d].core = c
    /\ bounds.login < MaxLogin /\ MayAsk
    /\ desc' = [desc EXCEPT ![d] = [desc[d] EXCEPT !.phase = "login", !.core = c, !.key = k,
                                                  !.other = desc[d].other \/ k = None]]

\* It shows a key it was given.
LoginByKey(d, c, k) ==
    /\ k \in issued
    /\ Show(d, c, k)
    /\ bounds' = [bounds EXCEPT !.login = @ + 1]
    /\ Send(c, <<[type |-> "LOGIN_BY_KEY", desc |-> d, key |-> k]>>)
    /\ UNCHANGED <<dbVars, peers, link, toGame, issued, lost, odd>>

\* It shows a key of another account.
LoginByOtherKey(d, c) ==
    /\ Show(d, c, None)
    /\ bounds.other < MaxOther
    /\ bounds' = [bounds EXCEPT !.login = @ + 1, !.other = @ + 1]
    /\ UNCHANGED <<dbVars, netVars, issued, lost, odd>>

Take(c, type) ==
    /\ toGame[c] # <<>>
    /\ Head(toGame[c]).type = type
    /\ toGame' = [toGame EXCEPT ![c] = Tail(@)]
    /\ UNCHANGED <<dbVars, peers, link, issued, odd, bounds>>

\* LOGOUT names the account; whether the client had lost its entry is history.
Logout(d) == [type |-> "LOGOUT", strayed |-> d \in lost]

\* The client may have gone: then the account is logged out again.  Else it is bound,
\* whatever it was before.
LoginSuccess(c) ==
    /\ Take(c, "LOGIN_SUCCESS")
    /\ LET d == Head(toGame[c]).desc
       IN  IF desc[d].phase = "closed"
           THEN Send(c, <<Logout(d)>>) /\ UNCHANGED <<desc, lost>>
           ELSE /\ desc' = [desc EXCEPT ![d].phase = "login", ![d].account = "this"]
                /\ lost' = lost \ {d}
                /\ UNCHANGED <<up, buffer>>

\* LOGIN_SUCCESS of another account takes the place of this one, and nobody logs
\* this one out.
OtherLoginSuccess(d) ==
    /\ desc[d].phase # "closed" /\ desc[d].other
    /\ link[desc[d].core] # None
    /\ desc' = [desc EXCEPT ![d].phase = "login", ![d].account = "other"]
    /\ lost' = lost \ {d}
    /\ odd' = odd \cup (IF Bound(d) THEN {"left"} ELSE {})
    /\ UNCHANGED <<dbVars, netVars, issued, bounds>>

\* LOGIN_ALREADY and LOGIN_NOT_EXIST: the client is told, and may try again.
LoginFailure(c) ==
    /\ Take(c, "LOGIN_ALREADY") \/ Take(c, "LOGIN_NOT_EXIST")
    /\ UNCHANGED <<up, buffer, desc, lost>>

\* A client may select again before the answer, and with a character.
CharacterSelect(d) ==
    /\ desc[d].phase = "login" /\ Bound(d)
    /\ bounds.load < MaxLoad /\ MayAsk
    /\ bounds' = [bounds EXCEPT !.load = @ + 1]
    /\ Send(desc[d].core, <<[type |-> "PLAYER_LOAD", desc |-> d]>>)
    /\ UNCHANGED <<dbVars, peers, link, toGame, desc, issued, lost, odd>>

\* Ignored if the client has gone or has a character, or the character is on this
\* core already.  Which account the client is bound to by now is not looked at.
PlayerLoad(c) ==
    /\ Take(c, "PLAYER_LOAD")
    /\ LET d == Head(toGame[c]).desc
           here == \E e \in Desc : desc[e].core = c /\ desc[e].char = "this"
       IN  desc' = IF desc[d].phase = "closed" \/ desc[d].char # "none" \/ here THEN desc
                   ELSE [desc EXCEPT ![d].char = "this"]
    /\ UNCHANGED <<up, buffer, lost>>

\* The same with a player of the other account.
OtherPlayerLoad(d) ==
    /\ desc[d].account = "other" /\ desc[d].char = "none"
    /\ desc' = [desc EXCEPT ![d].char = "other"]
    /\ UNCHANGED <<dbVars, netVars, issued, lost, odd, bounds>>

Entergame(d) ==
    /\ desc[d].phase = "login" /\ desc[d].char # "none"
    /\ desc' = [desc EXCEPT ![d].phase = "play"]
    /\ UNCHANGED <<dbVars, netVars, issued, lost, odd, bounds>>

Save(d) == IF desc[d].char = "this" THEN <<[type |-> "PLAYER_SAVE"]>> ELSE <<>>

\* "/phase_select": the character is saved and gone, the client selects again.
PhaseSelect(d) ==
    /\ desc[d].phase = "play"
    /\ desc' = [desc EXCEPT ![d].phase = "login", ![d].char = "none"]
    /\ Send(desc[d].core, Save(d))
    /\ UNCHANGED <<dbVars, peers, link, toGame, issued, lost, odd, bounds>>

\* DESC::Destroy: the character is saved, the account it is bound to logged out.
Destroy(d) ==
    /\ desc[d].phase \notin {"unused", "closed"}
    /\ desc' = [desc EXCEPT ![d] = Closed(d)]
    /\ lost' = lost \ {d}
    /\ Send(desc[d].core, Save(d) \o (IF Bound(d) THEN <<Logout(d)>> ELSE <<>>))
    /\ UNCHANGED <<dbVars, peers, link, toGame, issued, odd, bounds>>

-----------------------------------------------------------------------------
(* Connections of cores.                                                    *)

\* What core c had sent and the db has not read is lost or still arrives.
Broken(c) ==
    /\ link[c] # None
    /\ bounds.fault < MaxFault
    /\ bounds' = [bounds EXCEPT !.fault = @ + 1]
    /\ link' = [link EXCEPT ![c] = None]
    /\ toGame' = [toGame EXCEPT ![c] = <<>>]
    /\ up' \in {up, [up EXCEPT ![link[c]] = <<>>]}
    /\ UNCHANGED <<dbVars, peers, buffer, issued, odd>>

\* The core finds its connection closed: Destroy, Reset, and a new attempt.
LinkLoss(c) ==
    /\ Broken(c)
    /\ lost' = lost \cup BoundOn(c)
    /\ UNCHANGED desc

\* The process dies, and its clients with it.
CoreCrash(c) ==
    /\ Broken(c)
    /\ desc' = [d \in Desc |-> IF desc[d].core = c THEN Closed(d) ELSE desc[d]]
    /\ lost' = {d \in lost : desc[d].core # c}

\* What was sent meanwhile comes first, then SETUP with the bound clients.
Reconnect(c) ==
    /\ link[c] = None
    /\ LET h == bounds.handle
       IN  /\ h \in Handle
           /\ link' = [link EXCEPT ![c] = h]
           /\ peers' = peers \cup {h}
           /\ up' = [up EXCEPT ![h] =
                  Append(buffer[c], [type |-> "SETUP",
                                     keys |-> [d \in BoundOn(c) |-> desc[d].key]])]
           /\ bounds' = [bounds EXCEPT !.handle = h + 1]
    /\ buffer' = [buffer EXCEPT ![c] = <<>>]
    /\ UNCHANGED <<dbVars, toGame, desc, issued, lost, odd>>

\* The db has read what there was and closes: entries of this connection go,
\* their players are not put in the logout map.
RemovePeer(h) ==
    /\ h \in peers
    /\ \A c \in Core : link[c] # h
    /\ up[h] = <<>>
    /\ peers' = peers \ {h}
    /\ IF logon # None /\ heap[logon].peer = h
       THEN heap' = LoggedOff(heap, logon) /\ logon' = None
       ELSE UNCHANGED <<heap, logon>>
    /\ UNCHANGED <<byKey, byLogin, out, cached, sql, up, link, buffer, toGame, desc,
                   issued, lost, odd, bounds>>

\* The process ends and starts again, with nothing in memory.
DbRestart ==
    /\ bounds.fault < MaxFault
    /\ bounds' = [bounds EXCEPT !.fault = @ + 1]
    /\ heap' = [o \in Obj |-> Freed]
    /\ byKey' = [k \in Key |-> None]
    /\ byLogin' = None /\ logon' = None
    /\ out' = FALSE /\ cached' = FALSE
    /\ sql' = <<>>
    /\ peers' = {}
    /\ up' = [h \in Handle |-> <<>>]
    /\ link' = [c \in Core |-> None]
    /\ toGame' = [c \in Core |-> <<>>]
    /\ lost' = lost \cup {d \in Desc : Bound(d)}
    /\ UNCHANGED <<buffer, desc, issued, odd>>

-----------------------------------------------------------------------------
Init ==
    /\ heap = [o \in Obj |-> Freed]
    /\ byKey = [k \in Key |-> None]
    /\ byLogin = None /\ logon = None
    /\ out = FALSE /\ cached = FALSE
    /\ sql = <<>>
    /\ peers = Core
    /\ up = [h \in Handle |-> <<>>]
    /\ link = [c \in Core |-> c]
    /\ buffer = [c \in Core |-> <<>>]
    /\ toGame = [c \in Core |-> <<>>]
    /\ desc = [d \in Desc |-> NoClient]
    /\ issued = {}
    /\ lost = {}
    /\ odd = {}
    /\ bounds = [auth |-> 0, login |-> 0, other |-> 0, load |-> 0, fault |-> 0, handle |-> NCore + 1]

Db ==
    \/ \E k \in Key : QUERY_AUTH_LOGIN(k)
    \/ \E h \in Handle :
        \/ QUERY_LOGIN_BY_KEY(h) \/ QUERY_LOGOUT(h) \/ QUERY_SETUP(h)
        \/ QUERY_PLAYER_LOAD(h) \/ QUERY_PLAYER_SAVE(h)
        \/ RemovePeer(h)
    \/ RESULT_LOGIN_BY_KEY \/ RESULT_LOGIN \/ RESULT_PLAYER_LOAD \/ DropResult
    \/ UpdateLogoutPlayer
    \/ DbRestart

Game ==
    \/ \E d \in Desc :
        \/ \E c \in Core, k \in Key : LoginByKey(d, c, k)
        \/ \E c \in Core : LoginByOtherKey(d, c)
        \/ OtherLoginSuccess(d) \/ OtherPlayerLoad(d)
        \/ CharacterSelect(d) \/ Entergame(d) \/ PhaseSelect(d) \/ Destroy(d)
    \/ \E c \in Core :
        \/ LoginSuccess(c) \/ LoginFailure(c) \/ PlayerLoad(c)
        \/ LinkLoss(c) \/ CoreCrash(c) \/ Reconnect(c)

Next == Db \/ Game

Spec == Init /\ [][Next]_vars

-----------------------------------------------------------------------------
UpMsg ==
    [type : {"LOGIN_BY_KEY"}, desc : Desc, key : Key] \cup
    [type : {"PLAYER_LOAD"}, desc : Desc] \cup
    [type : {"LOGOUT"}, strayed : BOOLEAN] \cup
    [type : {"PLAYER_SAVE"}] \cup
    [type : {"SETUP"}, keys : UNION {[S -> Key \cup {None}] : S \in SUBSET Desc}]
GameMsg == [type : {"LOGIN_SUCCESS", "LOGIN_ALREADY", "LOGIN_NOT_EXIST", "PLAYER_LOAD"},
            desc : Desc]

\* The variables have their types, and a client in the game has a character.
TypeOK ==
    /\ heap \in [Obj -> Data]
    /\ byKey \in [Key -> Obj \cup {None}]
    /\ {byLogin, logon} \subseteq Obj \cup {None}
    /\ {out, cached} \subseteq BOOLEAN
    /\ odd \subseteq {"refused", "strayed", "taken", "left"}
    /\ sql \in Seq([q : {"key", "login", "load"}, peer : Handle, desc : Desc])
    /\ peers \subseteq Handle
    /\ up \in [Handle -> Seq(UpMsg)]
    /\ link \in [Core -> Handle \cup {None}]
    /\ buffer \in [Core -> Seq(UpMsg)]
    /\ toGame \in [Core -> Seq(GameMsg)]
    /\ desc \in [Desc -> Client]
    /\ \A d \in Desc : desc[d].phase = "play" => desc[d].char # "none"
    /\ issued \subseteq Key
    /\ lost \subseteq Desc
    /\ bounds \in [auth : 0 .. MaxAuth, login : 0 .. MaxLogin,
                   other : 0 .. MaxOther, load : 0 .. MaxLoad,
                   fault : 0 .. MaxFault,
                   handle : NCore + 1 .. NCore + NCore * MaxFault + 1]

\* No map and no logon entry points to a freed object, the maps by key, by login
\* and by account do not point to one that is marked deleted, and one that is
\* marked is freed with its entry: what DeleteLoginData (ClientManager.cpp:1910)
\* and DeleteLogonAccount leave to each other.
NoDangling ==
    /\ \A k \in Key : byKey[k] # None =>
        heap[byKey[k]].live /\ heap[byKey[k]].key = k /\ ~heap[byKey[k]].deleted
    /\ byLogin # None => heap[byLogin].live /\ ~heap[byLogin].deleted
    /\ logon # None => heap[logon].live

Holders == {d \in Desc : Bound(d)} \ lost

\* However logins, answers and logouts of two cores interleave, an account is
\* bound to one client at most; a client whose core lost its connection, and
\* whose entry SETUP could not restore, is not counted (OneSessionEver).
OneSession == "strayed" \notin odd => \A d, e \in Holders : d = e

\* A client that is bound, and has not lost its entry, is logged on, on the
\* connection its core has.
HolderIsLoggedOn ==
    "strayed" \notin odd => \A d \in Holders : logon # None /\ heap[logon].peer = link[desc[d].core]

InFlight(q, type) == \E i \in 1 .. Len(q) : q[i].type = type

\* The entry of an account does not outlive its client: somebody is bound, or is
\* about to be, or the logout is on its way, or the connection is being closed.
\* Else nobody could log on to the account again, which is so once a bound client
\* has gone over to another account: it logs out of that one only.  (A refused
\* authentication leaves no login data, and QUERY_LOGOUT then does nothing.)
NoOrphanLogon ==
    logon # None /\ odd \cap {"refused", "left"} = {} =>
        LET h == heap[logon].peer
        IN  \/ \A c \in Core : link[c] # h
            \/ InFlight(up[h], "LOGOUT")
            \/ \E c \in Core : link[c] = h /\
                (BoundOn(c) # {} \/ InFlight(toGame[c], "LOGIN_SUCCESS"))

\* The cache of a player in the game is not given up: he is not among the logged
\* out, unless another authentication has replaced the login data of his session,
\* the db has none of his players (it has been restarted), a login made the entry
\* anew while his core had lost its connection, or a client has gone over to
\* another account, perhaps with the player.
PlayingIsKept ==
    \A d \in Holders :
        desc[d].char = "this" /\ logon = byLogin /\ heap[logon].players
            /\ odd \cap {"strayed", "taken", "left"} = {} => cached /\ ~out
=============================================================================
