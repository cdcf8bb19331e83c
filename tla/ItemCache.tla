------------------------------ MODULE ItemCache ------------------------------
(***************************************************************************)
(* The write-back cache of items in the db process (db/ClientManagerPlayer, *)
(* db/Cache): which value of an item is the newest, and who is given it.    *)
(*                                                                         *)
(* A player's cache is created when his row has been loaded; from then on   *)
(* the items saved with him as owner are kept in memory, and written when   *)
(* they have been dirty for a while, when he has been logged out for a      *)
(* while, on request, and when the process ends.  What belongs to a player  *)
(* without a cache is written at once.                                     *)
(*                                                                         *)
(* Three SQL channels reach the item table, each a FIFO of its own and none *)
(* waiting for another: SQL_PLAYER_STUFF ("stuff": flushed and direct       *)
(* saves), SQL_PLAYER ("direct": the safebox, and items destroyed that are  *)
(* not cached) and SQL_PLAYER_STUFF_LOAD ("load": the SELECTs of a player   *)
(* load).  That a channel executes its statements in order and reports the  *)
(* answers in order is what SqlChannel promises.  Statements on different   *)
(* items commute, so stuff and direct have a queue per item.               *)
(*                                                                         *)
(* A core's packets reach the db in order, and a player is on one core at a *)
(* time, so a core's save and the db's handler of it are one action.  So is *)
(* the change that is saved: a core collects changed items and sends them   *)
(* in its next ITEM_MANAGER::Update, or at once when an item goes to        *)
(* another owner.  The two SELECTs of a safebox (account, items) are one.   *)
(* Items differ by owner, by being in a safebox and by version: every save  *)
(* is a new version.  An account has one player here.  Pets, the auction    *)
(* and the timed ignore of an item are left out.                           *)
(***************************************************************************)
EXTENDS Naturals, Sequences, FiniteSets

CONSTANTS
    Player,
    Item,
    Core,           \* the game cores
    Nobody,         \* not a player: the owner of an item that has no row
    Ground,         \* not a player: who has an item that lies on the ground
    NoCore,         \* not a core
    FlushAge,       \* CItemCache's m_expireTime, in heart beats
    LogoutAge,      \* g_iLogoutSeconds, in heart beats
    LimitReached,   \* BOOLEAN: m_iCacheFlushCountLimit may end a heart beat
    FlushRequests,  \* BOOLEAN: FLUSH_CACHE may be sent
    Safeboxes,      \* BOOLEAN: players open their safeboxes
    MaxSave,        \* bound: versions of an item
    MaxLoad         \* bound: SELECTs and answers of player loads waiting

\* Main.cpp:37 asks that the logout time exceed the flush time; of items it
\* does, CItemCache() takes MIN(60*5, ...) and g_iLogoutSeconds is 60*6.
ASSUME CacheAssumption ==
    /\ Nobody \notin Player /\ Ground \notin Player /\ Nobody # Ground
    /\ NoCore \notin Core
    /\ {FlushAge, LogoutAge, MaxSave, MaxLoad} \subseteq Nat
    /\ FlushAge <= LogoutAge
    /\ {LimitReached, FlushRequests, Safeboxes} \subseteq BOOLEAN

VARIABLES
    db,         \* the caches and the statements waiting in stuff and direct
    load,       \* the SELECTs and answers waiting in the load channel
    table,      \* the item table: a row per item
    logout,     \* m_map_logout: the beats since a player logged out
    isPlay,     \* the players whose CLoginData says IsPlay
    session,    \* the core a player is on, and how far he has come
    on,         \* for each core and item: who has it there
    inBox,      \* for each core: the items that are in a safebox
    open,       \* the players who have opened their safebox
    saved,      \* the newest value of each item: what was saved last
    flushed,    \* history: uncached players flushed on request
    raced,      \* history: items for which the channels got out of order
    down        \* the main loop has ended

coreVars == <<session, on, inBox, open>>
vars == <<db, load, table, logout, isPlay, coreVars, saved, flushed, raced, down>>

Row == [owner : Player \cup {Nobody}, box : BOOLEAN, ver : 0 .. MaxSave]
RowOf(p, box, ver) == [owner |-> p, box |-> box, ver |-> ver]
NoRow == RowOf(Nobody, FALSE, 0)

\* CItemCache; live is "vnum is not 0", age the beats since m_lastFlushTime.
Entry == [owner : Player \cup {Nobody}, live : BOOLEAN, ver : 0 .. MaxSave,
          need : BOOLEAN, age : 0 .. FlushAge + 1]
NoEntry == [owner |-> Nobody, live |-> FALSE, ver |-> 0, need |-> FALSE, age |-> 0]
Value(e) == RowOf(IF e.live THEN e.owner ELSE Nobody, FALSE, e.ver)

\* A statement of stuff or direct: a REPLACE or DELETE, or, if it asks for a
\* player, the SELECT of his safebox.
Statement == [row : Row, asks : Player \cup {Nobody}]
Write(row) == [row |-> row, asks |-> Nobody]
SelectBox(p) == [row |-> NoRow, asks |-> p]
Writes(q) == {k \in DOMAIN q : q[k].asks = Nobody}

\* A SELECT of the load channel: of a player's row or of his items.  It has
\* run or not; its answer goes to the session that asked, or to nobody, or,
\* when the peer is gone, is dropped.
Select == [what : {"player", "item"}, pid : Player, peer : Core,
           to : {"session", "nobody", "dropped"},
           run : BOOLEAN, rows : [Item -> Row]]
SelectOf(what, p, c) == [what |-> what, pid |-> p, peer |-> c, to |-> "session",
                         run |-> FALSE, rows |-> [i \in Item |-> NoRow]]

DB == [players : SUBSET Player,                 \* m_map_playerCache
       setItems : [Player -> SUBSET Item],      \* setItems of each
       entry : [Item -> Entry],                 \* m_map_itemCacheByID
       stuff : [Item -> Seq(Statement)],
       direct : [Item -> Seq(Statement)]]

Cached(i) == db.entry[i].owner # Nobody

\* The rows that stuff and direct have still to write.
Waiting(i) == {db.stuff[i][k].row : k \in Writes(db.stuff[i])}
                \cup {db.direct[i][k].row : k \in Writes(db.direct[i])}

Session == [core : Core \cup {NoCore}, phase : {"off", "wait", "play"}]
Off == [core |-> NoCore, phase |-> "off"]
Playing(p) == session[p].phase = "play"
CoreOf(p) == session[p].core

\* m_map_logout has no time for the player.
NotOut == LogoutAge + 2

\* One beat later; what is beyond max has run out and stays so.
Later(n, max) == IF n < max THEN n + 1 ELSE n

-----------------------------------------------------------------------------
(***************************************************************************)
(* Faulty variants: what a slip in the code would make of the operator named *)
(* in each comment.  No specification uses them; the properties below are   *)
(* tested by putting one in its operator's place.                           *)
(***************************************************************************)

\* Leave: PutItemCache keeps the item in the set of its old owner.
LeaveNot(d, I) == d.setItems

\* PutEntry: Put counts the time to the next flush from itself.
PutEntryDebounced(e, row, skip) ==
    [owner |-> row.owner, live |-> TRUE, ver |-> row.ver,
     need |-> e.need \/ ~skip, age |-> 0]

\* FlushPlayerCache: the caches are deleted without a Flush.
FlushPlayerCacheUnsaved(d, P) ==
    LET gone == P \cap d.players
        I == UNION {d.setItems[p] : p \in gone}
    IN  [d EXCEPT
           !.players = d.players \ gone,
           !.setItems = [p \in Player |-> IF p \in gone THEN {} ELSE d.setItems[p]],
           !.entry = [i \in Item |-> IF i \in I THEN NoEntry ELSE d.entry[i]]]

\* QueryItemSave: the item stays cached when it goes into the safebox.
QuerySaveKeepsCache(d, i, row) ==
    [d EXCEPT !.direct[i] = Append(@, Write(row))]

\* FlushDue: CheckFlushTimeout compares the wrong way round.
FlushDueSwapped(d, V) ==
    LET I == UNION {d.setItems[p] : p \in V}
    IN  [d EXCEPT
           !.stuff = [i \in Item |-> IF i \in I /\ d.entry[i].need /\ d.entry[i].age <= FlushAge
                        THEN Append(d.stuff[i], Write(Value(d.entry[i])))
                        ELSE d.stuff[i]],
           !.entry = [i \in Item |-> IF i \in I /\ d.entry[i].need /\ d.entry[i].age <= FlushAge
                        THEN [d.entry[i] EXCEPT !.need = FALSE, !.age = 0]
                        ELSE d.entry[i]]]

\* Leaves: a player who has left still has his safebox open.
LeavesOpen(P) ==
    /\ session' = [p \in Player |-> IF p \in P THEN Off ELSE session[p]]
    /\ open' = open
    /\ isPlay' = isPlay \ P

-----------------------------------------------------------------------------
(***************************************************************************)
(* The caches.  Each operator maps a db to the db after the call.           *)
(***************************************************************************)

\* cache<T>::Put, into a new CItemCache or into one there is.
PutEntry(e, row, skip) ==
    [owner |-> row.owner, live |-> TRUE, ver |-> row.ver,
     need |-> e.need \/ ~skip, age |-> e.age]

\* cache<T>::Flush and CItemCache::OnFlush, for a set of items.
Flush(d, I) ==
    LET dirty == {i \in I : d.entry[i].need}
    IN  [d EXCEPT
           !.stuff = [i \in Item |-> IF i \in dirty
                        THEN Append(d.stuff[i], Write(Value(d.entry[i])))
                        ELSE d.stuff[i]],
           !.entry = [i \in Item |-> IF i \in dirty
                        THEN [d.entry[i] EXCEPT !.need = FALSE, !.age = 0]
                        ELSE d.entry[i]]]

\* FlushPlayerCache, for a set of players.
FlushPlayerCache(d, P) ==
    LET gone == P \cap d.players
        I == UNION {d.setItems[p] : p \in gone}
        f == Flush(d, I)
    IN  [f EXCEPT
           !.players = d.players \ gone,
           !.setItems = [p \in Player |-> IF p \in gone THEN {} ELSE d.setItems[p]],
           !.entry = [i \in Item |-> IF i \in I THEN NoEntry ELSE f.entry[i]]]

\* Each owner's set without the items of I he owns.
Leave(d, I) ==
    [p \in Player |-> d.setItems[p] \ {i \in I : d.entry[i].owner = p}]

\* EraseItemCache.
EraseItemCache(d, I) ==
    [d EXCEPT !.setItems = Leave(d, I),
              !.entry = [i \in Item |-> IF i \in I THEN NoEntry ELSE d.entry[i]]]

\* PutItemCache, for each item i of I with the value row[i].
PutItemCache(d, I, row, skip) ==
    LET isNew == {i \in I : d.entry[i].owner # row[i].owner}
        refused == {i \in isNew : row[i].owner \notin d.players}
        left == Leave(d, isNew)
    IN  [d EXCEPT
           !.setItems = [p \in Player |->
                left[p] \cup {i \in isNew \ refused : row[i].owner = p}],
           !.entry = [i \in Item |->
                CASE i \in refused -> NoEntry
                  [] i \in I \ refused -> PutEntry(d.entry[i], row[i], skip)
                  [] OTHER -> d.entry[i]],
           !.stuff = [i \in Item |-> IF i \in refused /\ ~skip
                THEN Append(d.stuff[i], Write(row[i]))
                ELSE d.stuff[i]]]

\* QUERY_ITEM_SAVE: the safebox is saved directly, past the cache.
QueryItemSave(d, i, row) ==
    IF row.box
      THEN [EraseItemCache(d, {i}) EXCEPT !.direct[i] = Append(@, Write(row))]
      ELSE PutItemCache(d, {i}, [j \in {i} |-> row], FALSE)

\* QUERY_ITEM_DESTROY and CItemCache::Delete; a second Delete does nothing.
QueryItemDestroy(d, i, ver) ==
    LET delete == Write(RowOf(Nobody, FALSE, ver))
    IN  IF d.entry[i].owner = Nobody
          THEN [d EXCEPT !.direct[i] = Append(@, delete)]
        ELSE IF d.entry[i].live
          THEN [d EXCEPT !.entry[i] = [d.entry[i] EXCEPT !.live = FALSE, !.ver = ver,
                                                         !.need = FALSE],
                         !.stuff[i] = Append(@, delete)]
        ELSE d

-----------------------------------------------------------------------------
(***************************************************************************)
(* Logging on and off.                                                     *)
(***************************************************************************)

Init ==
    /\ table \in [Item -> Row]
    /\ \A i \in Item : table[i].ver = 0 /\ (table[i].owner = Nobody => ~table[i].box)
    /\ saved = table
    /\ db = [players |-> {}, setItems |-> [p \in Player |-> {}],
             entry |-> [i \in Item |-> NoEntry],
             stuff |-> [i \in Item |-> <<>>], direct |-> [i \in Item |-> <<>>]]
    /\ load = <<>>
    /\ logout = [p \in Player |-> NotOut]
    /\ isPlay = {}
    /\ session = [p \in Player |-> Off]
    /\ \E c \in Core : on = [b \in Core |-> [i \in Item |->
          IF b = c /\ table[i].owner = Nobody THEN Ground ELSE Nobody]]
    /\ inBox = [c \in Core |-> {}]
    /\ open = {}
    /\ flushed = {}
    /\ raced = {}
    /\ down = FALSE

\* A core creates the items it is sent, but for those whose id it has.
Give(c, p, I) ==
    on' = [on EXCEPT ![c] = [i \in Item |->
              IF i \in I /\ @[i] = Nobody THEN p ELSE @[i]]]

\* QUERY_PLAYER_LOAD, for a player who chose his character on core c.
Login(p, c) ==
    /\ ~down
    /\ session[p] = Off
    /\ logout' = [logout EXCEPT ![p] = NotOut]
    /\ \/ /\ p \in db.players \ isPlay
          /\ isPlay' = isPlay \cup {p}
          /\ session' = [session EXCEPT ![p] = [core |-> c, phase |-> "play"]]
          /\ Give(c, p, {i \in db.setItems[p] : db.entry[i].live})
          /\ UNCHANGED load
       \/ /\ p \in db.players \cap isPlay
          /\ session' = [session EXCEPT ![p] = [core |-> c, phase |-> "wait"]]
          /\ UNCHANGED <<load, isPlay, on>>
       \/ /\ p \notin db.players
          /\ Len(load) + 2 <= MaxLoad
          /\ load' = load \o <<SelectOf("player", p, c), SelectOf("item", p, c)>>
          /\ session' = [session EXCEPT ![p] = [core |-> c, phase |-> "wait"]]
          /\ UNCHANGED <<isPlay, on>>
    /\ UNCHANGED <<db, table, inBox, open, saved, flushed, raced, down>>

\* The items SELECT k finds.
Finds(k) == {i \in Item : /\ load[k].what = "item"
                         /\ table[i].owner = load[k].pid /\ ~table[i].box}

\* The load channel runs SELECT k, its next.  The rows it finds are out of order
\* if statements on them wait in another channel.
RunSelect(k) ==
    /\ ~load[k].run
    /\ \A j \in 1 .. k - 1 : load[j].run
    /\ load' = [load EXCEPT ![k] = [load[k] EXCEPT
          !.run = TRUE,
          !.rows = [i \in Item |-> IF i \in Finds(k) THEN table[i] ELSE NoRow]]]
    /\ raced' = raced \cup {i \in Finds(k) : Waiting(i) # {}}
    /\ UNCHANGED <<db, table, logout, isPlay, coreVars, saved, flushed, down>>

\* RESULT_PLAYER_LOAD.  That the session is gone is not looked at.
ResultPlayerLoad ==
    /\ load # <<>> /\ Head(load).run /\ Head(load).what = "player"
    /\ load' = Tail(load)
    /\ LET s == Head(load)
       IN  \/ /\ s.to = "dropped" \/ s.pid \in isPlay
              /\ UNCHANGED <<db, isPlay, session, flushed>>
           \/ /\ s.to # "dropped" /\ s.pid \notin isPlay
              /\ isPlay' = isPlay \cup {s.pid}
              /\ db' = [db EXCEPT !.players = @ \cup {s.pid}]
              /\ flushed' = flushed \ {s.pid}
              /\ session' = IF s.to = "session"
                              THEN [session EXCEPT ![s.pid].phase = "play"]
                              ELSE session
    /\ UNCHANGED <<table, logout, on, inBox, open, saved, raced, down>>

\* RESULT_ITEM_LOAD.  Neither IsPlay nor the session nor what is in the cache is
\* looked at.
ResultItemLoad ==
    /\ load # <<>> /\ Head(load).run /\ Head(load).what = "item"
    /\ load' = Tail(load)
    /\ LET s == Head(load)
           I == {i \in Item : s.rows[i].owner # Nobody}
       IN  /\ db' = IF s.to = "dropped" THEN db ELSE PutItemCache(db, I, s.rows, TRUE)
           /\ IF s.to = "session" /\ Playing(s.pid)
                THEN Give(CoreOf(s.pid), s.pid, I)
                ELSE UNCHANGED on
    /\ UNCHANGED <<table, logout, isPlay, session, inBox, open, saved, flushed, raced, down>>

\* The players of P are no longer on a core.
Leaves(P) ==
    /\ session' = [p \in Player |-> IF p \in P THEN Off ELSE session[p]]
    /\ open' = open \ P
    /\ isPlay' = isPlay \ P

\* QUERY_LOGOUT; also for a session that never came to play.
Logout(p) ==
    /\ ~down
    /\ session[p] # Off
    /\ Leaves({p})
    /\ on' = [on EXCEPT ![CoreOf(p)] = [i \in Item |->
                 IF @[i] = p THEN Nobody ELSE @[i]]]
    /\ inBox' = [inBox EXCEPT ![CoreOf(p)] = {i \in @ : on[CoreOf(p)][i] # p}]
    /\ logout' = [logout EXCEPT ![p] = 0]
    /\ load' = [k \in DOMAIN load |->
                  IF load[k].pid = p /\ load[k].to = "session"
                    THEN [load[k] EXCEPT !.to = "nobody"] ELSE load[k]]
    /\ UNCHANGED <<db, table, saved, flushed, raced, down>>

\* A core dies, and RemovePeer: nobody is put into m_map_logout.
RemovePeer(c) ==
    /\ ~down
    /\ Leaves({p \in Player : CoreOf(p) = c})
    /\ on' = [on EXCEPT ![c] = [i \in Item |-> Nobody]]
    /\ inBox' = [inBox EXCEPT ![c] = {}]
    /\ load' = [k \in DOMAIN load |->
                  IF load[k].peer = c
                    THEN [load[k] EXCEPT !.to = "dropped"] ELSE load[k]]
    /\ UNCHANGED <<db, table, logout, saved, flushed, raced, down>>

-----------------------------------------------------------------------------
(***************************************************************************)
(* What a core does with items.  Has(p, i) is the item object; the core     *)
(* saves it under its new owner, or asks to destroy it if it has none.      *)
(***************************************************************************)

Has(p, i) == Playing(p) /\ on[CoreOf(p)][i] = p
InBox(p, i) == i \in inBox[CoreOf(p)]
NextVer(i) == saved[i].ver + 1
CanSave(i) == ~down /\ saved[i].ver < MaxSave

MoveTo(c, i, who) == on' = [on EXCEPT ![c][i] = who]

\* An item is saved while its owner's items are being loaded: what the load
\* reads, or has read, of it is not its newest value.
RacesLoad(i) ==
    raced' = IF \E k \in DOMAIN load : /\ load[k].what = "item"
                                      /\ load[k].pid = saved[i].owner
               THEN raced \cup {i} ELSE raced

\* GDItemSavePacket with the item as row.
SendSave(i, row) ==
    /\ CanSave(i)
    /\ saved' = [saved EXCEPT ![i] = row]
    /\ db' = QueryItemSave(db, i, row)
    /\ RacesLoad(i)
    /\ UNCHANGED <<load, table, logout, isPlay, session, flushed, down>>

\* The item changes (count, sockets, cell) and is saved where it is.
Save(p, i) ==
    /\ Has(p, i)
    /\ SendSave(i, RowOf(p, InBox(p, i), NextVer(i)))
    /\ UNCHANGED <<on, inBox, open>>

\* Exchange, shop: from one player to another on the same core.
Trade(p, q, i) ==
    /\ p # q
    /\ Has(p, i) /\ ~InBox(p, i)
    /\ Playing(q) /\ CoreOf(q) = CoreOf(p)
    /\ SendSave(i, RowOf(q, FALSE, NextVer(i)))
    /\ MoveTo(CoreOf(p), i, q)
    /\ UNCHANGED <<inBox, open>>

PickUp(p, i) ==
    /\ Playing(p)
    /\ on[CoreOf(p)][i] = Ground
    /\ SendSave(i, RowOf(p, FALSE, NextVer(i)))
    /\ MoveTo(CoreOf(p), i, p)
    /\ UNCHANGED <<inBox, open>>

\* SaveSingleItem and DestroyItem without an owner: to the ground, or used up.
Drop(p, i) ==
    /\ Has(p, i)
    /\ CanSave(i)
    /\ saved' = [saved EXCEPT ![i] = RowOf(Nobody, FALSE, NextVer(i))]
    /\ db' = QueryItemDestroy(db, i, NextVer(i))
    /\ RacesLoad(i)
    /\ \/ ~InBox(p, i) /\ MoveTo(CoreOf(p), i, Ground)
       \/ MoveTo(CoreOf(p), i, Nobody)
    /\ inBox' = [inBox EXCEPT ![CoreOf(p)] = @ \ {i}]
    /\ UNCHANGED <<load, table, logout, isPlay, session, open, flushed, down>>

\* QUERY_SAFEBOX_LOAD.  Bound: not while an earlier SELECT of his waits.
OpenBox(p) ==
    /\ Safeboxes
    /\ ~down
    /\ Playing(p) /\ p \notin open
    /\ \A i \in Item : \A k \in DOMAIN db.direct[i] : db.direct[i][k].asks # p
    /\ open' = open \cup {p}
    /\ db' = [db EXCEPT !.direct =
                 [i \in Item |-> Append(db.direct[i], SelectBox(p))]]
    /\ UNCHANGED <<load, table, logout, isPlay, session, on, inBox, saved, flushed, raced, down>>

BoxLoaded(p) ==
    /\ p \in open
    /\ \A i \in Item : \A k \in DOMAIN db.direct[i] : db.direct[i][k].asks # p

\* CSafebox::Add.
Deposit(p, i) ==
    /\ Has(p, i) /\ ~InBox(p, i)
    /\ BoxLoaded(p)
    /\ SendSave(i, RowOf(p, TRUE, NextVer(i)))
    /\ inBox' = [inBox EXCEPT ![CoreOf(p)] = @ \cup {i}]
    /\ UNCHANGED <<on, open>>

\* SafeboxCheckout: a save and, at once, QUERY_ITEM_FLUSH.
Withdraw(p, i) ==
    /\ Has(p, i) /\ InBox(p, i)
    /\ CanSave(i)
    /\ LET row == RowOf(p, FALSE, NextVer(i))
       IN  /\ saved' = [saved EXCEPT ![i] = row]
           /\ db' = Flush(QueryItemSave(db, i, row), {i})
           /\ RacesLoad(i)
    /\ inBox' = [inBox EXCEPT ![CoreOf(p)] = @ \ {i}]
    /\ UNCHANGED <<load, table, logout, isPlay, session, on, open, flushed, down>>

-----------------------------------------------------------------------------
(***************************************************************************)
(* The db's own steps, and the other two channels.                          *)
(***************************************************************************)

\* QUERY_FLUSH_CACHE, whether the player is on a core or not.
FlushCache(p) ==
    /\ FlushRequests
    /\ ~down
    /\ p \in db.players
    /\ db' = FlushPlayerCache(db, {p})
    /\ flushed' = flushed \cup {p}
    /\ UNCHANGED <<load, table, logout, isPlay, coreVars, saved, raced, down>>

\* CheckFlushTimeout of the items of the players V that UpdatePlayerCache visits.
FlushDue(d, V) ==
    LET I == UNION {d.setItems[p] : p \in V}
    IN  Flush(d, {i \in I : d.entry[i].need /\ d.entry[i].age > FlushAge})

\* A beat later: in the caches, and since the logouts.
Older == [db EXCEPT !.entry = [i \in Item |->
            IF Cached(i) THEN [db.entry[i] EXCEPT !.age = Later(@, FlushAge + 1)]
                         ELSE db.entry[i]]]
SinceLogout == [p \in Player |-> IF logout[p] = NotOut THEN NotOut
                                    ELSE Later(logout[p], LogoutAge + 1)]

\* UpdatePlayerCache, and UpdateLogoutPlayer for the players of W.
Update(W) ==
    /\ db' = FlushPlayerCache(FlushDue(Older, db.players), W)
    /\ logout' = [p \in Player |-> IF p \in W THEN NotOut ELSE SinceLogout[p]]
Over == {p \in Player : SinceLogout[p] = LogoutAge + 1}

\* A heart beat.
HeartBeat ==
    /\ ~down
    /\ Update(Over)
    /\ UNCHANGED <<load, table, isPlay, coreVars, saved, flushed, raced, down>>

\* A heart beat that m_iCacheFlushCountLimit ends early: in UpdateLogoutPlayer, or
\* in UpdatePlayerCache, and then the former does nothing.  All kinds of caches
\* count, not only items.
LimitedHeartBeat ==
    /\ LimitReached
    /\ ~down
    /\ \/ \E W \in SUBSET Over : W # Over /\ Update(W)
       \/ /\ \E V \in SUBSET db.players : db' = FlushDue(Older, V)
          /\ logout' = SinceLogout
    /\ UNCHANGED <<load, table, isPlay, coreVars, saved, flushed, raced, down>>

\* The end of MainLoop: every cache is flushed and the process goes, but for its
\* channels; it takes no answer any more.
Shutdown ==
    /\ ~down
    /\ down' = TRUE
    /\ db' = FlushPlayerCache(db, db.players)
    /\ load' = <<>>
    /\ isPlay' = {}
    /\ logout' = [p \in Player |-> NotOut]
    /\ UNCHANGED <<table, coreVars, saved, flushed, raced>>

\* q holds a statement for the item that is older than ver.
HasOlder(q, ver) == \E k \in Writes(q) : q[k].row.ver < ver

RunStuff(i) ==
    /\ db.stuff[i] # <<>>
    /\ LET row == Head(db.stuff[i]).row
       IN  /\ table' = [table EXCEPT ![i] = row]
           /\ raced' = IF HasOlder(db.direct[i], row.ver) THEN raced \cup {i} ELSE raced
    /\ db' = [db EXCEPT !.stuff[i] = Tail(@)]
    /\ UNCHANGED <<load, logout, isPlay, coreVars, saved, flushed, down>>

RunDirect(i) ==
    /\ db.direct[i] # <<>>
    /\ db' = [db EXCEPT !.direct[i] = Tail(@)]
    /\ LET s == Head(db.direct[i])
           c == CoreOf(s.asks)
       IN  \/ /\ s.asks = Nobody
              /\ table' = [table EXCEPT ![i] = s.row]
              /\ raced' = IF HasOlder(db.stuff[i], s.row.ver)
                            THEN raced \cup {i} ELSE raced
              /\ UNCHANGED <<on, inBox>>
           \/ /\ s.asks # Nobody
              /\ raced' = IF Writes(db.stuff[i]) # {} THEN raced \cup {i} ELSE raced
              /\ IF /\ ~down /\ s.asks \in open
                    /\ table[i].owner = s.asks /\ table[i].box
                    /\ on[c][i] = Nobody
                   THEN /\ MoveTo(c, i, s.asks)
                        /\ inBox' = [inBox EXCEPT ![c] = @ \cup {i}]
                   ELSE UNCHANGED <<on, inBox>>
              /\ UNCHANGED table
    /\ UNCHANGED <<load, logout, isPlay, session, open, saved, flushed, down>>

Next ==
    \/ \E p \in Player : \/ \E c \in Core : Login(p, c)
                         \/ Logout(p)
                         \/ OpenBox(p)
                         \/ FlushCache(p)
    \/ \E p \in Player, i \in Item : \/ Save(p, i)
                                     \/ PickUp(p, i)
                                     \/ Drop(p, i)
                                     \/ Deposit(p, i)
                                     \/ Withdraw(p, i)
                                     \/ \E q \in Player : Trade(p, q, i)
    \/ \E c \in Core : RemovePeer(c)
    \/ \E k \in DOMAIN load : RunSelect(k)
    \/ ResultPlayerLoad \/ ResultItemLoad
    \/ HeartBeat \/ LimitedHeartBeat
    \/ Shutdown
    \/ \E i \in Item : RunStuff(i) \/ RunDirect(i)

Spec == Init /\ [][Next]_vars

\* The heart is a timer, and the limit, 200 and counted anew in each beat, does not
\* end every beat; each channel has a thread of its own.
FairSpec ==
    /\ Spec
    /\ WF_vars(HeartBeat)
    /\ \A i \in Item : WF_vars(RunStuff(i)) /\ WF_vars(RunDirect(i))

-----------------------------------------------------------------------------
(***************************************************************************)
(* What should hold.                                                       *)
(***************************************************************************)

\* Types of all variables; only who plays has his safebox open.
TypeOK ==
    /\ db \in DB
    /\ load \in Seq(Select)
    /\ table \in [Item -> Row]
    /\ logout \in [Player -> 0 .. LogoutAge + 2]
    /\ isPlay \subseteq Player
    /\ session \in [Player -> Session]
    /\ \A p \in Player : CoreOf(p) = NoCore <=> session[p].phase = "off"
    /\ on \in [Core -> [Item -> Player \cup {Ground, Nobody}]]
    /\ inBox \in [Core -> SUBSET Item]
    /\ open \subseteq {p \in Player : Playing(p)}
    /\ saved \in [Item -> Row]
    /\ flushed \subseteq Player
    /\ raced \subseteq Item
    /\ down \in BOOLEAN

\* The map of all cached items and the sets of the players agree: an item is
\* in the set of its owner and in no other, and only players with a cache have
\* one.  FlushPlayerCache deletes the items of a set, so an item in the wrong
\* set is deleted twice or used after it was deleted.
CacheBooks ==
    \A p \in Player :
        /\ \A i \in Item : i \in db.setItems[p] <=> db.entry[i].owner = p
        /\ p \notin db.players => db.setItems[p] = {}

\* The row an item will have when everything that waits has been executed.
RowToBe(i) == IF Waiting(i) = {} THEN table[i]
                ELSE CHOOSE r \in Waiting(i) : \A o \in Waiting(i) : o.ver <= r.ver

\* No save is lost on its way through the cache: as long as no channel overtook
\* another, the newest value is the one in the cache, and if that is clean or
\* there is none, the one waiting or in the table.
NewestIsKept ==
    \A i \in Item \ raced :
        /\ Cached(i) => Value(db.entry[i]) = saved[i]
        /\ db.entry[i].need \/ RowToBe(i) = saved[i]

\* What the SELECTs of a player load would read is what was saved last, once the
\* statements that wait are executed: when a player's cache is evicted, no item
\* that once was his is still dirty in another's cache.  This is why the logout
\* time must exceed the flush time (Main.cpp:37), and does not hold for a player
\* flushed on request.
NoStaleRow ==
    \A p \in Player \ (db.players \cup flushed), i \in Item \ raced :
        p \in {RowToBe(i).owner, saved[i].owner} => RowToBe(i) = saved[i]

\* A core that has an item has it where it was saved last, so no item is on two
\* cores, or with two players, or on the ground and in a row.
OneHolder ==
    \A i \in Item \ raced, c \in Core :
        on[c][i] # Nobody =>
            /\ saved[i].owner = (IF on[c][i] = Ground THEN Nobody ELSE on[c][i])
            /\ saved[i].box = (i \in inBox[c])

\* Whatever was saved is stored, or replaced by a newer save.
SavedIsStored ==
    \A i \in Item, v \in 1 .. MaxSave :
        saved[i].ver = v ~> (table[i].ver >= v \/ i \in raced)
=============================================================================
