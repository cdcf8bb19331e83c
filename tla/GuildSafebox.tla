---------------------------- MODULE GuildSafebox ----------------------------
(***************************************************************************)
(* The safebox of a guild (db/GuildSafeboxManager, game/guild_safebox).     *)
(*                                                                         *)
(* The db process has the safebox: a box of cells with items, the grid that *)
(* says which cells they cover, and gold.  Cores have a mirror, which the   *)
(* db fills when a core first asks for it and keeps up to date from then    *)
(* on.  A core judges its clients' requests by the mirror, the db judges    *)
(* again.  An item goes into the box with an ADD packet: the core destroys  *)
(* its item without a word to the db, which forgets its cache of the item;  *)
(* the row of the item table still names the depositor until FlushItems has *)
(* written what the delayed saves ask for.  On the way out the row belongs  *)
(* to the guild until the new owner's save has come through his caches.     *)
(*                                                                         *)
(* What is modelled of those caches is their effect on rows (ItemCache has  *)
(* their detail), and of a login its order with the logout before it        *)
(* (LoginData).  Packets travel in order between a core and the db; a       *)
(* broken connection loses those on their way, what is sent later waits for *)
(* the next one.  There is one guild; its safebox exists and keeps its      *)
(* size, and all players are members with all rights.                       *)
(***************************************************************************)
EXTENDS Integers, Sequences, FiniteSets, FiniteSetsExt, SequencesExt

CONSTANTS
    Core,       \* the game cores
    Player,     \* members of the guild
    Item,       \* items, by id
    Size,       \* the cells an item covers, one below the other
    MaxNum,     \* GUILD_SAFEBOX_MAX_NUM
    Width,      \* GUILD_SAFEBOX_ITEM_WIDTH
    Height,     \* GUILD_SAFEBOX_ITEM_HEIGHT
    Pages,      \* m_bSize: the pages the guild has
    GoldMax,    \* GUILD_SAFEBOX_GOLD_MAX
    NoOne,      \* no player; as a row's owner, no row
    Guild,      \* a row's owner: the guild
    NoItem,     \* no item
    NoCore,     \* no core
    InBox,      \* bound: the items in the safebox at first
    Gold,       \* bound: the gold there is, in the safebox at first
    MaxEvent    \* bound: logins, requests of clients, connections lost

ASSUME GuildSafeboxAssumption ==
    /\ Size \in [Item -> Nat \ {0}]
    /\ InBox \subseteq Item
    /\ {MaxNum, Width, Height} \subseteq Nat \ {0}
    /\ {Pages, GoldMax, Gold, MaxEvent} \subseteq Nat
    /\ Pages * Width * Height <= MaxNum
    /\ NoOne \notin Player \cup {Guild} /\ Guild \notin Player
    /\ NoItem \notin Item /\ NoCore \notin Core

\* The gold on the way to and from them, and in their purses, is summed up.
ASSUME FiniteAssumption == IsFiniteSet(Core) /\ IsFiniteSet(Player)

VARIABLES
    box,        \* m_pItems: the item in each cell
    grid,       \* m_bItemGrid: the cells that are covered
    unsaved,    \* m_map_DelayedItemSave: the cells of the items in it
    gold,       \* m_ullGold
    watchers,   \* m_set_ForwardPeer
    row,        \* the owner the item table has
    entry,      \* the owner an item has in the item cache
    due,        \* items whose cache has to be flushed (m_bNeedQuery)
    cached,     \* m_map_playerCache
    out,        \* m_map_logout
    logon,      \* players logged on, as the db sees it
    core,       \* the core a player is on
    login,      \* his descriptor there: the number of his login
    has,        \* his items
    dirty,      \* those in m_set_pkItemForDelayedSave
    purse,      \* his gold
    mirror,     \* CGuildSafeBox of each core
    up,         \* packets from each core
    down,       \* packets to each core
    late,       \* history: items loaded from a row that was not up to date
    gone,       \* history: items that were lost with a packet
    spilt,      \* history: gold that was lost with a packet
    events      \* counter: logins, requests, connections lost

boxVars == <<box, grid, unsaved, gold, watchers>>
rowVars == <<row, entry, due, cached, out, logon>>
gameVars == <<core, login, has, dirty, purse, mirror>>
history == <<late, gone, spilt, events>>
vars == <<boxVars, rowVars, gameVars, up, down, history>>

Cell == 0 .. MaxNum - 1
Span(c, i) == {c + Width * k : k \in 0 .. Size[i] - 1}
Filled == {c \in Cell : box[c] # NoItem}
On(c) == {p \in Player : core[p] = c}

\* What the items of f, a function from cells to items, cover.
Covered(f) == UNION {Span(c, f[c]) : c \in {d \in DOMAIN f : f[d] # NoItem}}

\* IsValidCell, one page, a page the guild has.
Fits(c, i) ==
    /\ c < MaxNum - Width * (Size[i] - 1)
    /\ c \div (Width * Height) = (c + Width * (Size[i] - 1)) \div (Width * Height)
    /\ c \div (Width * Height) < Pages

Amount == 1 .. Gold

-----------------------------------------------------------------------------
(* Faulty variants, see PROJECT.json: slips in the operator each comment    *)
(* names.  No specification uses them.                                      *)

\* IsFree: only the upper cell is looked at.
IsFreeAtTop(c, i) == Fits(c, i) /\ c \notin grid

\* Forget: the item stays in the cache of the depositor.
ForgetNothing(i) == UNCHANGED <<entry, due>>

\* CanPay: the gold there is is not looked at.
CanPayAlways(amount) == TRUE

\* Changed: the core that asks does not get what the others get.
ChangedElsewhere(c, ms) ==
    [b \in Core |-> IF b \in watchers \ {c} THEN down[b] \o ms ELSE down[b]]

-----------------------------------------------------------------------------
(* The db: the safebox.                                                     *)

IsFree(c, i) == Fits(c, i) /\ Span(c, i) \cap grid = {}

\* EraseItemCache: what had to be written of it is not.
Forget(i) ==
    /\ entry' = [entry EXCEPT ![i] = NoOne]
    /\ due' = due \ {i}

CanPay(amount) == gold >= amount

\* ForwardPacket; core c has asked for the change.
Changed(c, ms) == [b \in Core |-> IF b \in watchers THEN down[b] \o ms ELSE down[b]]

SetCell(c, i) == [type |-> "SET", cell |-> c, item |-> i]
DelCell(c) == [type |-> "DEL", cell |-> c]
GiveItem(m, i) == [type |-> "GIVE", pid |-> m.pid, login |-> m.login, item |-> i]
SetGold(g) == [type |-> "GOLD", gold |-> g]
PayGold(m, g) == [type |-> "PAY", pid |-> m.pid, login |-> m.login, gold |-> g]

\* The db takes the next packet of core c.
Receive(c, type) ==
    /\ up[c] # <<>>
    /\ Head(up[c]).type = type
    /\ up' = [up EXCEPT ![c] = Tail(@)]
    /\ UNCHANGED <<gameVars, history>>

\* RequestAddItem, after EraseItemCache.  A core that judged by an old mirror,
\* or by less than IsFree, gets the item back, and its row is deleted.
GUILD_SAFEBOX_ADD(c) ==
    /\ Receive(c, "ADD")
    /\ LET m == Head(up[c])
       IN  /\ Forget(m.item)
           /\ IF IsFree(m.cell, m.item)
              THEN /\ box' = [box EXCEPT ![m.cell] = m.item]
                   /\ grid' = grid \cup Span(m.cell, m.item)
                   /\ unsaved' = unsaved \cup {m.cell}
                   /\ down' = Changed(c, <<SetCell(m.cell, m.item)>>)
                   /\ UNCHANGED row
              ELSE /\ row' = [row EXCEPT ![m.item] = NoOne]
                   /\ down' = [down EXCEPT ![c] = Append(@, GiveItem(m, m.item))]
                   /\ UNCHANGED <<box, grid, unsaved>>
    /\ UNCHANGED <<gold, watchers, cached, out, logon>>

\* RequestMoveItem: the target has to be free while the item is where it is.
GUILD_SAFEBOX_MOVE(c) ==
    /\ Receive(c, "MOVE")
    /\ LET m == Head(up[c])
           i == box[m.from]
       IN  IF i # NoItem /\ IsFree(m.to, i)
           THEN /\ box' = [box EXCEPT ![m.from] = NoItem, ![m.to] = i]
                /\ grid' = (grid \ Span(m.from, i)) \cup Span(m.to, i)
                /\ unsaved' = (unsaved \ {m.from}) \cup {m.to}
                /\ down' = Changed(c, <<DelCell(m.from), SetCell(m.to, i)>>)
           ELSE UNCHANGED <<box, grid, unsaved, down>>
    /\ UNCHANGED <<gold, watchers, rowVars>>

\* RequestTakeItem: the row stays the guild's, or the depositor's.
GUILD_SAFEBOX_TAKE(c) ==
    /\ Receive(c, "TAKE")
    /\ LET m == Head(up[c])
           i == box[m.cell]
           told == Changed(c, <<DelCell(m.cell)>>)
       IN  IF i # NoItem
           THEN /\ box' = [box EXCEPT ![m.cell] = NoItem]
                /\ grid' = grid \ Span(m.cell, i)
                /\ unsaved' = unsaved \ {m.cell}
                /\ down' = [told EXCEPT ![c] = Append(@, GiveItem(m, i))]
           ELSE UNCHANGED <<box, grid, unsaved, down>>
    /\ UNCHANGED <<gold, watchers, rowVars>>

\* ChangeGold.
GUILD_SAFEBOX_GIVE_GOLD(c) ==
    /\ Receive(c, "GIVE_GOLD")
    /\ LET all == gold + Head(up[c]).gold
       IN  /\ gold' = all
           /\ down' = Changed(c, <<SetGold(all)>>)
    /\ UNCHANGED <<box, grid, unsaved, watchers, rowVars>>

\* The core is told what it may pay out: 0 if there is not enough.
GUILD_SAFEBOX_GET_GOLD(c) ==
    /\ Receive(c, "GET_GOLD")
    /\ LET m == Head(up[c])
           told == Changed(c, <<SetGold(gold - m.gold)>>)
       IN  IF CanPay(m.gold)
           THEN /\ gold' = gold - m.gold
                /\ down' = [told EXCEPT ![c] = Append(@, PayGold(m, m.gold))]
           ELSE /\ down' = [down EXCEPT ![c] = Append(@, PayGold(m, 0))]
                /\ UNCHANGED gold
    /\ UNCHANGED <<box, grid, unsaved, watchers, rowVars>>

\* LoadItems: a core that is a watcher gets the gold and no items.
GUILD_SAFEBOX_LOAD(c) ==
    /\ Receive(c, "LOAD")
    /\ LET m == Head(up[c])
           items == IF c \in watchers THEN [d \in Cell |-> NoItem] ELSE box
       IN  down' = [down EXCEPT ![c] = Append(@,
                [type |-> "LOADED", pid |-> m.pid, login |-> m.login,
                 items |-> items, gold |-> gold])]
    /\ watchers' = watchers \cup {c}
    /\ UNCHANGED <<box, grid, unsaved, gold, rowVars>>

\* FlushItems, at most maxCnt at a time: some of the delayed saves.
FlushItems(S) ==
    /\ S # {} /\ S \subseteq unsaved
    /\ unsaved' = unsaved \ S
    /\ row' = [i \in Item |-> IF \E c \in S : box[c] = i THEN Guild ELSE row[i]]
    /\ UNCHANGED <<box, grid, gold, watchers, entry, due, cached, out, logon,
                   gameVars, up, down, history>>

-----------------------------------------------------------------------------
(* The db: items of players.                                                *)

\* PutItemCache, or a direct save if the player has no cache.
PutItems(p, I) ==
    IF p \in cached
    THEN /\ entry' = [i \in Item |-> IF i \in I THEN p ELSE entry[i]]
         /\ due' = due \cup I
         /\ UNCHANGED row
    ELSE /\ entry' = [i \in Item |-> IF i \in I THEN NoOne ELSE entry[i]]
         /\ due' = due \ I
         /\ row' = [i \in Item |-> IF i \in I THEN p ELSE row[i]]

\* ITEM_SAVE.
QUERY_ITEM_SAVE(c) ==
    /\ Receive(c, "SAVE")
    /\ PutItems(Head(up[c]).pid, Head(up[c]).items)
    /\ UNCHANGED <<boxVars, cached, out, logon, down>>

\* The last saves of a player who leaves, and LOGOUT.
QUERY_LOGOUT(c) ==
    /\ Receive(c, "LOGOUT")
    /\ LET m == Head(up[c])
       IN  /\ PutItems(m.pid, m.items)
           /\ logon' = logon \ {m.pid}
           /\ out' = out \cup {m.pid}
    /\ UNCHANGED <<boxVars, cached, down>>

Flush(I) == row' = [i \in Item |-> IF i \in I \cap due THEN entry[i] ELSE row[i]]

\* The cache of an item is old enough.
UpdateItemCache(i) ==
    /\ i \in due
    /\ Flush({i})
    /\ due' = due \ {i}
    /\ UNCHANGED <<boxVars, entry, cached, out, logon, gameVars, up, down, history>>

\* UpdateLogoutPlayer: FlushPlayerCache, when a player has been out long enough.
UpdateLogoutPlayer(p) ==
    /\ p \in out
    /\ LET I == {i \in Item : entry[i] = p}
       IN  /\ Flush(I)
           /\ due' = due \ I
           /\ entry' = [i \in Item |-> IF i \in I THEN NoOne ELSE entry[i]]
    /\ cached' = cached \ {p}
    /\ out' = out \ {p}
    /\ UNCHANGED <<boxVars, logon, gameVars, up, down, history>>

-----------------------------------------------------------------------------
(* The game cores.                                                          *)

Carries(m, i) == \/ m.type \in {"ADD", "GIVE"} /\ m.item = i
                 \/ m.type \in {"SAVE", "LOGOUT"} /\ i \in m.items
InQueue(q, i) == \E n \in 1 .. Len(q) : Carries(q[n], i)

\* The row of item i is not what it will be: a write, or a packet that leads to
\* one, is on its way.
RowIsLate(i) ==
    \/ i \in due
    \/ \E c \in unsaved : box[c] = i
    \/ \E p \in Player : i \in dirty[p]
    \/ \E c \in Core : InQueue(up[c], i) \/ InQueue(down[c], i)

OnCore(c) == UNION {has[p] : p \in On(c)}

\* Player p gets item i when he logs in.
Stored(p, i) == IF p \in cached THEN entry[i] = p ELSE row[i] = p

\* Something happens that is bounded.
Counted == events < MaxEvent /\ events' = events + 1

\* A player logs in on core c and gets the items of his cache, or, if there is
\* none, of the table, which go to the cache then; the core does not create an
\* item whose id it has.
Login(p, c) ==
    /\ p \notin logon
    /\ Counted
    /\ LET I == {i \in Item : Stored(p, i)}
       IN  /\ has' = [has EXCEPT ![p] = I \ OnCore(c)]
           /\ IF p \in cached
              THEN UNCHANGED <<entry, late>>
              ELSE /\ entry' = [i \in Item |-> IF i \in I THEN p ELSE entry[i]]
                   /\ late' = late \cup {i \in I : RowIsLate(i)}
    /\ cached' = cached \cup {p}
    /\ out' = out \ {p}
    /\ logon' = logon \cup {p}
    /\ core' = [core EXCEPT ![p] = c]
    /\ login' = [login EXCEPT ![p] = @ + 1]
    /\ UNCHANGED <<boxVars, row, due, dirty, purse, mirror, up, down, gone, spilt>>

Sends(c, m) == up' = [up EXCEPT ![c] = Append(@, m)]

\* CHARACTER::Disconnect: the safebox is closed, delayed saves are sent.
Logout(p) ==
    /\ core[p] # NoCore
    /\ Sends(core[p], [type |-> "LOGOUT", pid |-> p, items |-> dirty[p]])
    /\ core' = [core EXCEPT ![p] = NoCore]
    /\ has' = [has EXCEPT ![p] = {}]
    /\ dirty' = [dirty EXCEPT ![p] = {}]
    /\ UNCHANGED <<boxVars, rowVars, login, purse, mirror, down, history>>

\* ITEM_MANAGER::Update sends delayed saves; those of items with
\* ITEM_FLAG_SLOW_QUERY wait for the logout.
SaveItems(p, I) ==
    /\ core[p] # NoCore
    /\ I # {} /\ I \subseteq dirty[p]
    /\ Sends(core[p], [type |-> "SAVE", pid |-> p, items |-> I])
    /\ dirty' = [dirty EXCEPT ![p] = @ \ I]
    /\ UNCHANGED <<boxVars, rowVars, core, login, has, purse, mirror,
                   down, history>>

\* A client of player p makes a request.
Request(p, m) ==
    /\ core[p] # NoCore
    /\ Counted
    /\ Sends(core[p], m)
    /\ UNCHANGED <<boxVars, rowVars, core, login, mirror, down, late, gone, spilt>>

\* OpenSafebox: the core has no items yet and asks for them.  Once it has them
\* a player becomes a viewer at will, which is not a step of its own.
OpenSafebox(p) ==
    /\ Request(p, [type |-> "LOAD", pid |-> p, login |-> login[p]])
    /\ ~mirror[core[p]].loaded
    /\ UNCHANGED <<has, dirty, purse>>

ViewerAsks(p, m) ==
    /\ Request(p, m)
    /\ mirror[core[p]].loaded

\* IsEmpty looks at the whole span, and not for pages.
IsEmpty(c, i, m) ==
    /\ c + Width * (Size[i] - 1) < MaxNum
    /\ Span(c, i) \cap m.grid = {}

\* The item is destroyed with SetSkipSave, so that the db does not hear of it.
CheckInItem(p, i, c) ==
    /\ ViewerAsks(p, [type |-> "ADD", pid |-> p, login |-> login[p], item |-> i, cell |-> c])
    /\ i \in has[p]
    /\ IsEmpty(c, i, mirror[core[p]])
    /\ has' = [has EXCEPT ![p] = @ \ {i}]
    /\ dirty' = [dirty EXCEPT ![p] = @ \ {i}]
    /\ UNCHANGED purse

CheckOutItem(p, c) ==
    /\ ViewerAsks(p, [type |-> "TAKE", pid |-> p, login |-> login[p], cell |-> c])
    /\ mirror[core[p]].items[c] # NoItem
    /\ UNCHANGED <<has, dirty, purse>>

MoveItem(p, c, d) ==
    /\ ViewerAsks(p, [type |-> "MOVE", from |-> c, to |-> d])
    /\ c \in mirror[core[p]].grid
    /\ UNCHANGED <<has, dirty, purse>>

\* As much as the mirror says that the safebox may take.
GiveGold(p, g) ==
    /\ ViewerAsks(p, [type |-> "GIVE_GOLD", gold |-> g])
    /\ g <= purse[p]
    /\ mirror[core[p]].gold + g <= GoldMax
    /\ purse' = [purse EXCEPT ![p] = @ - g]
    /\ UNCHANGED <<has, dirty>>

\* As much as the mirror says that there is.
TakeGold(p, g) ==
    /\ ViewerAsks(p, [type |-> "GET_GOLD", pid |-> p, login |-> login[p], gold |-> g])
    /\ g <= mirror[core[p]].gold
    /\ UNCHANGED <<has, dirty, purse>>

-----------------------------------------------------------------------------
(* The game cores: CInputDB::GuildSafebox.                                  *)

Take(c, types) ==
    /\ down[c] # <<>>
    /\ Head(down[c]).type \in types
    /\ down' = [down EXCEPT ![c] = Tail(@)]
    /\ UNCHANGED <<boxVars, rowVars, core, login, late, events>>

\* FindByHandle: the descriptor that asked is still there.
StillThere(c, m) == core[m.pid] = c /\ login[m.pid] = m.login

\* DB_SetItem, DB_DelItem, DB_SetGold and LoadItem, which does nothing the
\* second time.
Apply(m, s) ==
    CASE m.type = "SET" -> [s EXCEPT !.items[m.cell] = m.item,
                                     !.grid = @ \cup Span(m.cell, m.item)]
      [] m.type = "DEL" /\ s.items[m.cell] # NoItem ->
            [s EXCEPT !.items[m.cell] = NoItem,
                      !.grid = @ \ Span(m.cell, s.items[m.cell])]
      [] m.type = "GOLD" -> [s EXCEPT !.gold = m.gold]
      [] m.type = "LOADED" /\ s.loaded -> [s EXCEPT !.gold = m.gold]
      [] m.type = "LOADED" /\ ~s.loaded ->
            [loaded |-> TRUE, items |-> m.items, grid |-> Covered(m.items), gold |-> m.gold]
      [] OTHER -> s

Changes(c) ==
    /\ Take(c, {"SET", "DEL", "GOLD", "LOADED"})
    /\ mirror' = [mirror EXCEPT ![c] = Apply(Head(down[c]), @)]
    /\ UNCHANGED <<up, has, dirty, purse, gone, spilt>>

\* Faulty variant of Give: the item is not put among the delayed saves.
GiveUnsaved(c) ==
    /\ Take(c, {"GIVE"})
    /\ LET m == Head(down[c])
       IN  IF StillThere(c, m) /\ m.item \notin OnCore(c)
           THEN has' = [has EXCEPT ![m.pid] = @ \cup {m.item}] /\ UNCHANGED gone
           ELSE gone' = gone \cup {m.item} /\ UNCHANGED has
    /\ UNCHANGED <<up, dirty, purse, mirror, spilt>>

\* AutoGiveItem: the item is created, unless the core has its id, and saved soon.
\* Without a character it is only written to a log.
Give(c) ==
    /\ Take(c, {"GIVE"})
    /\ LET m == Head(down[c])
       IN  IF StillThere(c, m) /\ m.item \notin OnCore(c)
           THEN /\ has' = [has EXCEPT ![m.pid] = @ \cup {m.item}]
                /\ dirty' = [dirty EXCEPT ![m.pid] = @ \cup {m.item}]
                /\ UNCHANGED gone
           ELSE gone' = gone \cup {m.item} /\ UNCHANGED <<has, dirty>>
    /\ UNCHANGED <<up, purse, mirror, spilt>>

\* Faulty variant of Pay: without the character nothing happens.
PayOrDrop(c) ==
    /\ Take(c, {"PAY"})
    /\ LET m == Head(down[c])
       IN  purse' = IF StillThere(c, m) THEN [purse EXCEPT ![m.pid] = @ + m.gold] ELSE purse
    /\ UNCHANGED <<up, has, dirty, mirror, gone, spilt>>

\* Without the character the gold goes back to the safebox.
Pay(c) ==
    /\ Take(c, {"PAY"})
    /\ LET m == Head(down[c])
       IN  IF StillThere(c, m)
           THEN purse' = [purse EXCEPT ![m.pid] = @ + m.gold] /\ UNCHANGED up
           ELSE Sends(c, [type |-> "GIVE_GOLD", gold |-> m.gold]) /\ UNCHANGED purse
    /\ UNCHANGED <<has, dirty, mirror, gone, spilt>>

\* PAY and GIVE_GOLD carry gold from one place to another, the others report it.
Carried(m) == IF m.type \in {"GIVE_GOLD", "PAY"} THEN m.gold ELSE 0
GoldIn(q) == FoldLeft(LAMBDA s, m : s + Carried(m), 0, q)

\* The connection of core c breaks and is made again: DisconnectPeer.  The
\* mirror stays as it is and, if it was loaded, is never loaded again.
LinkLoss(c) ==
    /\ Counted
    /\ watchers' = watchers \ {c}
    /\ logon' = logon \ {p \in Player : \E n \in 1 .. Len(up[c]) :
                            up[c][n].type = "LOGOUT" /\ up[c][n].pid = p}
    /\ up' = [up EXCEPT ![c] = <<>>]
    /\ down' = [down EXCEPT ![c] = <<>>]
    /\ gone' = gone \cup {i \in Item : InQueue(up[c], i) \/ InQueue(down[c], i)}
    /\ spilt' = spilt + GoldIn(up[c]) + GoldIn(down[c])
    /\ UNCHANGED <<box, grid, unsaved, gold, row, entry, due, cached, out, gameVars, late>>

-----------------------------------------------------------------------------
NoMirror == [loaded |-> FALSE, items |-> [c \in Cell |-> NoItem], grid |-> {}, gold |-> 0]

\* The db has read the safebox from its tables (Initialize, LoadItems); the
\* players are offline.
Init ==
    /\ row \in [Item -> Player \cup {Guild}]
    /\ InBox = {i \in Item : row[i] = Guild}
    /\ box \in [Cell -> InBox \cup {NoItem}]
    /\ \A i \in InBox : \E c \in Cell : {d \in Cell : box[d] = i} = {c}
    /\ \A c \in Filled : Fits(c, box[c])
    /\ \A c, d \in Filled : c # d => Span(c, box[c]) \cap Span(d, box[d]) = {}
    /\ grid = Covered(box)
    /\ unsaved = {} /\ gold = Gold /\ watchers = {}
    /\ entry = [i \in Item |-> NoOne]
    /\ due = {} /\ cached = {} /\ out = {} /\ logon = {}
    /\ core = [p \in Player |-> NoCore]
    /\ login = [p \in Player |-> 0]
    /\ has = [p \in Player |-> {}]
    /\ dirty = [p \in Player |-> {}]
    /\ purse = [p \in Player |-> 0]
    /\ mirror = [c \in Core |-> NoMirror]
    /\ up = [c \in Core |-> <<>>]
    /\ down = [c \in Core |-> <<>>]
    /\ late = {} /\ gone = {} /\ spilt = 0 /\ events = 0

Db ==
    \/ \E c \in Core :
        \/ GUILD_SAFEBOX_ADD(c) \/ GUILD_SAFEBOX_MOVE(c) \/ GUILD_SAFEBOX_TAKE(c)
        \/ GUILD_SAFEBOX_GIVE_GOLD(c) \/ GUILD_SAFEBOX_GET_GOLD(c)
        \/ GUILD_SAFEBOX_LOAD(c)
        \/ QUERY_ITEM_SAVE(c) \/ QUERY_LOGOUT(c)
    \/ \E S \in SUBSET unsaved : FlushItems(S)
    \/ \E i \in Item : UpdateItemCache(i)
    \/ \E p \in Player : UpdateLogoutPlayer(p)

Game ==
    \/ \E p \in Player :
        \/ \E c \in Core : Login(p, c)
        \/ Logout(p) \/ OpenSafebox(p)
        \/ \E I \in SUBSET dirty[p] : SaveItems(p, I)
        \/ \E i \in Item, c \in Cell : CheckInItem(p, i, c)
        \/ \E c \in Cell : CheckOutItem(p, c)
        \/ \E c, d \in Cell : MoveItem(p, c, d)
        \/ \E g \in Amount : GiveGold(p, g) \/ TakeGold(p, g)
    \/ \E c \in Core : Changes(c) \/ Give(c) \/ Pay(c) \/ LinkLoss(c)

Next == Db \/ Game

Spec == Init /\ [][Next]_vars

-----------------------------------------------------------------------------
UpMsg ==
    [type : {"ADD"}, pid : Player, login : Nat, item : Item, cell : Cell] \cup
    [type : {"TAKE"}, pid : Player, login : Nat, cell : Cell] \cup
    [type : {"MOVE"}, from : Cell, to : Cell] \cup
    [type : {"GIVE_GOLD"}, gold : Nat] \cup
    [type : {"GET_GOLD"}, pid : Player, login : Nat, gold : Nat] \cup
    [type : {"LOAD"}, pid : Player, login : Nat] \cup
    [type : {"SAVE", "LOGOUT"}, pid : Player, items : SUBSET Item]
DownMsg ==
    [type : {"SET"}, cell : Cell, item : Item] \cup
    [type : {"DEL"}, cell : Cell] \cup
    [type : {"GIVE"}, pid : Player, login : Nat, item : Item] \cup
    [type : {"GOLD"}, gold : Nat] \cup
    [type : {"PAY"}, pid : Player, login : Nat, gold : Nat] \cup
    [type : {"LOADED"}, pid : Player, login : Nat,
     items : [Cell -> Item \cup {NoItem}], gold : Nat]

\* The variables but the two that TypeOK adds have their types.
Typed ==
    /\ box \in [Cell -> Item \cup {NoItem}]
    /\ grid \subseteq Cell /\ unsaved \subseteq Cell
    /\ gold \in Nat
    /\ watchers \subseteq Core
    /\ row \in [Item -> Player \cup {Guild, NoOne}]
    /\ entry \in [Item -> Player \cup {NoOne}]
    /\ due \subseteq Item
    /\ cached \subseteq Player /\ out \subseteq Player /\ logon \subseteq Player
    /\ core \in [Player -> Core \cup {NoCore}]
    /\ login \in [Player -> Nat]
    /\ has \in [Player -> SUBSET Item] /\ dirty \in [Player -> SUBSET Item]
    /\ purse \in [Player -> Nat]
    /\ up \in [Core -> Seq(UpMsg)]
    /\ down \in [Core -> Seq(DownMsg)]
    /\ late \subseteq Item /\ gone \subseteq Item
    /\ events \in 0 .. MaxEvent

\* The variables have their types: no cell beyond the arrays is used, in the db
\* or a mirror, and the unsigned gold does not go below zero.
TypeOK ==
    /\ Typed
    /\ mirror \in [Core -> [loaded : BOOLEAN, items : [Cell -> Item \cup {NoItem}],
                            grid : SUBSET Cell, gold : Nat]]
    /\ spilt \in Nat

\* The items in the box do not overlap and the grid is what they cover, whatever
\* requests of cores with old mirrors, and whatever sizes, came in between; the
\* delayed saves hold pointers to items that are in the box (a pointer to a freed
\* item would be written by FlushItems).
BoxBooks ==
    /\ \A c, d \in Filled : c # d => Span(c, box[c]) \cap Span(d, box[d]) = {}
    /\ grid = Covered(box)
    /\ unsaved \subseteq Filled

\* A core that the db forwards changes to has, with the packets on their way to
\* it, what the db has.
MirrorFollows ==
    \A c \in watchers :
        LET s == FoldLeft(LAMBDA s, m : Apply(m, s), mirror[c], down[c])
        IN  s.loaded /\ s.items = box /\ s.grid = grid /\ s.gold = gold

\* The places item i is in: players who have it, cells, packets that move it.
Moves(q, i) == {n \in 1 .. Len(q) : q[n].type \in {"ADD", "GIVE"} /\ q[n].item = i}
Places(i) ==
    ({"player"} \X {p \in Player : i \in has[p]})
        \cup ({"cell"} \X {c \in Cell : box[c] = i})
        \cup UNION {({"up"} \X {c} \X Moves(up[c], i))
                       \cup ({"down"} \X {c} \X Moves(down[c], i)) : c \in Core}

\* An item is in one place at most, unless a packet with it was lost or somebody got
\* it from a row of the item table that was not up to date: a row that has been
\* written is never one of an item that somebody else has.
ItemOnce == \A i \in Item \ (late \cup gone) : \A x, y \in Places(i) : x = y

\* An item is not lost, but with a packet: it is in its place, or its owner will
\* get it back when he logs in.
ItemKept ==
    \A i \in Item \ (late \cup gone) :
        \/ Places(i) # {}
        \/ \E c \in Core : InQueue(up[c], i)
        \/ \E p \in Player : core[p] = NoCore /\ Stored(p, i)

\* Gold is neither made nor lost, but with a packet.
GoldKept ==
    gold + spilt + SumFunction(purse)
        + SumFunction([c \in Core |-> GoldIn(up[c]) + GoldIn(down[c])]) = Gold
=============================================================================
