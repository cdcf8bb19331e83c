# Verification of the server's databases and processes

The repository is the server of an online game (`src/Mt2/Source/Server`). This
directory holds TLA+ modules that model parts of it, TLC configurations that
check them on small instances, and proofs that TLAPS checks for instances of
every size. Paths below are relative to `src/Mt2/Source/Server`.

    tlasany M.tla                         parse a module
    tlc -workers 2 -config X.cfg MCM.tla  check a run (see PROJECT.json, "runs")
    tlapm M_proofs.tla                    check the proofs of a component

`PROJECT.json` is the index: components, runs, the source lines each definition
stands for ("map"), the hazards of the code, what was found, the theorems, and
for each property a slip of the code ("mutants") that makes it fail.

## 1. The system

Three kinds of program take part. The **db** process (`db/src`) is the only one
that reads and writes the player tables. Many **game** processes, called cores
(`game/src`), each simulate some maps and hold the players on them; one of them
may run as the authentication server. A **MySQL** server stores the tables. A
core keeps one TCP connection to the db; the db keeps one `CPeer` per core. Both
programs are single-threaded event loops, except that every connection to MySQL
(`CAsyncSQL`) has a worker thread.

| component | state | operations | interacts with | what is hard | what makes it correct |
|---|---|---|---|---|---|
| asynchronous SQL channel, `libsql/AsyncSQL.cpp`, `Semaphore.cpp` | queue of statements, the worker's private copy, queue of answers, semaphore, end flag | AsyncQuery, ReturnQuery, PopResult, Quit; the worker's loop and flush | owner thread by shared queues; MySQL | interleaving of two threads, retries, reconnects, shutdown | order of execution, at most once, one answer per ReturnQuery, no lost statement, no lost wake-up, Quit returns |
| db life cycle, `db/src/Main.cpp`, `DBManager.cpp` | four channels, running flag | start, heart beat, drain, quit | every db component | everything must be stored before the process ends | the drain ends and nothing is left |
| item id ranges, `db/src/ItemIDRangeManager.cpp`, `Peer.cpp`, `game/src/item_manager_idrange.cpp` | pool of ranges, two ranges per peer, two ranges and the next id per core | Build, GetRange, BOOT, REQ_SPARE_ITEM_ID_RANGE, GetNewID, OnClose | messages between core and db; SELECTs on the item table | crash of a core, broken link, message in flight, knowledge spread over table, caches and queues | no id given to two items, books disjoint, core and peer agree |
| write-back cache, `db/src/Cache.cpp`, `ClientManagerPlayer.cpp` | per player: player, item, quest, affect caches, flush times, logout times | load, save, flush by age, flush at logout, destroy | three SQL channels; cores | order between channels, stale rows, ownership change of an item while cached | the last saved value reaches the table; an item is loaded by one player |
| login data, `db/src/ClientManagerLogin.cpp`, `LoginData.cpp` | login keys, login data by name and by account, logged-on map | auth login, login by key, logon, logout, SETUP, RemovePeer | answers of SELECTs, peers, clients of the cores | two logins of an account in flight, second authentication, closing peer | one logged-on session per account; no dangling pointer; no entry without a client |
| peers and dispatch, `db/src/ClientManager.cpp`, `PeerBase.cpp` | set of peers, packet buffers | AddPeer, RemovePeer, some hundred handlers | all of the above | a peer closes with requests and answers in flight | answers go to the peer that asked or nowhere |
| guild safeboxes, `db/src/GuildSafeboxManager.cpp`, `game/src/guild_safebox.cpp` | items, gold, log, watchers per guild; a mirror per core | open, add, take, move, gold, delayed save | several cores change one storage | two cores take the same item, old mirrors, a row that is written later | an item is in one place and is not lost; each watcher sees every change |
| guilds, marriages, parties, privileges, awards, event flags | tables mirrored to all cores | one handler per row | broadcast to peers | a core that joins late | mirrors equal the table |
| proto tables, boot packet | tables read at start | load, send | BOOT | - | - |
| game: connection to the db, `game/src/desc_client.cpp`, `desc_manager.cpp` | descriptor, phase, static "boot sent" flag | connect, retry, flush | db | reconnect under a living process | the core still knows what the db thinks it knows |
| game: exchange, `game/src/exchange.cpp` | two sides, items, gold, accept flags | start, add, accept, cancel, done | inventories, item save | change after accept, full inventory | all or nothing; nothing created or lost |
| game: item storage, `item_manager.cpp`, `safebox.cpp`, `shop.cpp`, `auction_manager.cpp` | items, delayed-save set, grids | create, save, flush, destroy, move | db | an item leaves with its save pending | every item is stored by its last owner |
| game: events, `event.cpp`, `event_queue.cpp` | timer queue | create, cancel, reset, process | callbacks that cancel and re-arm | use after cancel inside a callback | each armed event fires once, none after cancel |
| game: PvP, arenas, guild wars, parties, dungeons | pairs, rooms, groups | agree, revenge, join, leave | db for parties and wars | leave and rejoin with timers pending | symmetric relations, no member of two groups |
| game: characters, battle, quests, client input | character data | hundreds of handlers, Lua | everything | mostly data | mostly arithmetic |
| `libthecore` | sockets, buffers, heart beat | read, write, select | all programs | buffer growth | bytes in order |
| `libgame`, `libpoly` | grid, formula | place, free, evaluate | items, battle | - | pure functions |
| vendored libraries, generated packet code | - | - | - | - | - |

`PROJECT.json` lists the same components with their status, and under "hazards"
the lines at which each of these difficulties bites.

## 2. The modules

| module | models | state and actions |
|---|---|---|
| `SqlChannel` | what a `CAsyncSQL` promises its owner | pending, running, applied, answered statements; five actions |
| `AsyncSQL` | `libsql/AsyncSQL.cpp`, `Semaphore.cpp`, the end of `db/src/Main.cpp` | both threads with a control variable each; one action per step under a mutex |
| `MCAsyncSQL` | TLC instance; one claim of the code's log texts | - |
| `AsyncSQL_proofs` | theorems of `AsyncSQL`: queues, semaphore, answers, and the proof that it implements `SqlChannel` | - |
| `ItemIDRange` | `ItemIDRangeManager.cpp`, `Peer.cpp`, `item_manager_idrange.cpp`, the parts of `ClientManager.cpp`, `desc_client.cpp` and `input_db.cpp` that move ranges and ids | db, cores, one pair of message queues per core; one action per handler |
| `MCItemIDRange` | TLC instance; one claim of the code | - |
| `ItemIDRange_proofs` | theorems of `ItemIDRange` | - |
| `ItemCache` | the items in `db/src/Cache.cpp`, `common/cache.h`, `ClientManagerPlayer.cpp`, the item, safebox, logout and flush requests of `ClientManager.cpp`, and the places in `game/src` where an item changes its owner | caches, three SQL channels, table, sessions, items on the cores; one action per request, answer, heart beat and statement executed |
| `MCItemCache` | TLC instance; one claim of the code; what an instance leaves aside | - |
| `ItemCache_proofs` | theorems of `ItemCache`: types and books | - |
| `ItemCacheNewest_proofs` | theorems of `ItemCache`: the newest value, stale rows, one holder | - |
| `LoginData` | `db/src/ClientManagerLogin.cpp`, `LoginData.cpp`, the login, logout, SETUP and peer parts of `ClientManager.cpp` and `ClientManagerPlayer.cpp`; `game/src/desc.cpp`, `input_login.cpp`, `input_db.cpp`, `desc_client.cpp` as far as a client's login goes | the db with its objects as a heap, connections, clients; one action per packet, answer, step of a client and fault |
| `MCLoginData` | TLC instance; one claim of the code | - |
| `LoginData_proofs` | theorems of `LoginData` | - |
| `GuildSafebox` | `db/src/GuildSafeboxManager.cpp`, `game/src/guild_safebox.cpp`, and what the item caches do to the rows of its items | the db's safebox, the cores' mirrors, packets both ways, members and their items; one action per packet, request, save and fault |
| `MCGuildSafebox` | TLC instance; one claim of the code | - |
| `GuildSafebox_proofs` | theorems of `GuildSafebox` | - |
| `Trade` | what an exchange promises two players | items, gold and deals; the exchange is one step |
| `Exchange` | `game/src/exchange.cpp`, `input_main.cpp`'s part of it, and of `char_item.cpp`, `char.cpp` and `item.cpp` the cells of the inventory, moves, swaps and gold | inventories, purses, exchanges, flags of items; one action per request, one per turn of the loops in Done |
| `MCExchange` | TLC instance | - |
| `Exchange_proofs` | theorems of `Exchange`, and what CheckSpace's answer is worth | - |
| `ExchangeTrade_proofs` | the proofs that `Exchange` implements `Trade`, and of what Done finds room for | - |

### AsyncSQL and SqlChannel

`SqlChannel` is the interface without threads: statements run one at a time in
the order of submission, each at most once; a ReturnQuery is answered exactly
once after it ran or was refused; a closed channel may abandon what waits.

`AsyncSQL` has the owner (`owner`: run, drain, quit, release, join, gone) and the
worker (`worker`: the program points of `AsyncSQLThread` and `ChildLoop` that are
separated by a mutex, the semaphore or a call to MySQL). A step under `m_mtxQuery`
or `m_mtxResult` is one action. MySQL is reduced to the outcome of one attempt:
the statement succeeds; it fails with an error number that `ChildLoop` does not
retry (then the server may or may not have executed it); or it fails with one of
the retried numbers (then it has not been executed). Each attempt may leave the
handle reconnected, after which the worker repeats `QueryLocaleSet`. The owner's
unsynchronised read of the queue's size in `CountQuery` may see the queue of
before or after a copy that is under way (`Drained`).

The refinement mapping puts the worker's copy in front of the queue; a statement
whose attempt ended is `running` until it is popped. `CAsyncSQL` abandons, when
it closes, what is in the copy: that is the step `Abandon` of the interface.

### ItemIDRange

The db cuts the space of item ids into ranges (`Build`). A core that boots gets
two of them, one to create items from and a spare one; when the first is used up
it goes over to the spare and asks for another. `CPeer` follows: it books the two
ranges for the connection and, on each request, makes the spare range the first.
When the connection closes `OnClose` returns both ranges to the front of the
pool, with a new start that `BuildRange` computes from the item table and from
the cached items of the players logged on through that peer.

A range is a record of its bounds and its first usable id. `toDB` and `toCore`
are the two directions of one connection. What was sent before a connection was
up stays in the output buffer of the descriptor (`desc_client.cpp:245`) and goes
out on the next one, so `Reconnect` keeps `toDB`. `core` is the process (off,
boot, run, stop). `place` says where the item with an id is: on its core, in a
cache that belongs to a player logged on at some core or at none, in a statement
that waits in an SQL channel, or in the table; only that matters to what
`OnClose` sees. `BuildRange` takes the answers of its two SELECTs as a
parameter, because a failed SELECT is treated as an empty result.

GetRange's collision check is left out because it has no effect: `for_each_peer`
takes its functor by value (`db/src/ClientManager.h:1000`), the verdict stays in
the copy. A spare range that `OnClose` has cut keeps its start; that the start it
had on loan is not remembered (`Peer.cpp:83` passes the bounds only) is in the
model, and is one of the ways to a duplicate.

### ItemCache

A core sends each changed item to the db. If the item's owner has a cache there
(`m_map_playerCache`, made when his row has been loaded), the value is kept in
memory (`PutItemCache`) and written later: when it has been dirty for longer than
the flush time, when its owner has been logged out for longer than the logout
time, on request, at the end of the process. Else it is written at once. What is
in a safebox, and the destruction of what is not cached, bypasses the caches. A
player who logs in is given the items of his cache, or, if he has none, those
two SELECTs find.

| state | code |
|---|---|
| `db.players`, `db.setItems` | keys of `m_map_playerCache`; `setItems` of each |
| `db.entry` | `m_map_itemCacheByID`: owner, whether `vnum` is not 0 (`CItemCache::Delete` clears it), version, `m_bNeedQuery`, beats since `m_lastFlushTime` |
| `db.stuff`, `db.direct` | what waits in `SQL_PLAYER_STUFF` and `SQL_PLAYER`, per item |
| `load` | what waits in `SQL_PLAYER_STUFF_LOAD`, and the answers: `to` says whether the client that asked is still there (`session`), has gone (`nobody`), or its peer has (`dropped`) |
| `table` | the rows of `player.item` |
| `logout`, `isPlay` | `m_map_logout`; `CLoginData::IsPlay` |
| `session`, `on`, `inBox`, `open` | the cores: which player is where, who has which item, what is in a safebox, who has opened his |
| `saved` | the newest value of each item, as its core knows it |
| `flushed`, `raced` | histories, see below |

A row is reduced to its owner, whether it lies in a safebox, and a version that
each save raises. Statements on different items commute, so a channel is a queue
per item; that it executes in order is what `SqlChannel` promises. Messages from
a core arrive in order and a player is on one core at a time, so the change of an
item, its save and the db's handler are one action. (A core sends changed items
in its next `ITEM_MANAGER::Update`, and at once, `FlushDelayedSave`, when one goes
to another owner.) The two SELECTs for a safebox are one.

`Login`, `ResultPlayerLoad` and `ResultItemLoad` have what the code has: the cached
path gives out the live items of the set and refuses a player who `IsPlay`; the
answers look at neither the session nor the values that are cached by then.
`RemovePeer` frees the sessions of a core and, unlike `Logout`, puts nobody into
`m_map_logout`. `HeartBeat` is `UpdatePlayerCache` and `UpdateLogoutPlayer`;
`LimitedHeartBeat` is one that `m_iCacheFlushCountLimit` cuts short anywhere.

Nothing orders the three channels. `raced` collects the items for which this has
shown: a SELECT found a row with a statement on it waiting, an item was saved
while its owner's items were being loaded, one channel wrote an older value after
the other a newer. The code does nothing about any of these, so the properties of
values are stated for the items outside `raced`. `flushed` holds the players whose
cache was deleted by QUERY_FLUSH_CACHE and not made again.

### LoginData

An authentication makes a `CLoginData` object; the db finds it by its key
(`byKey`) and by its account (`byLogin`: the maps by login and by account id,
which always agree). A client shows the key to a core, which sends LOGIN_BY_KEY;
the db reads the account's players and then enters the object in the logon table
(`logon`). LOGOUT takes the entry out, and so does RemovePeer for every entry made
on a connection that has closed; a core that connects again restores its own with
SETUP. The objects are freed by hand, by whichever of DeleteLoginData and
DeleteLogonAccount comes last, so they are cells of a heap and the maps hold
pointers.

There is one account here, with one player, and its keys may repeat. Other accounts
are what they do to a client. `CInputLogin` asks no question: a client may show one of
their keys at any time before it is in the game, while a request of its own is unanswered
and when it is bound already (`LoginByOtherKey`); it may then be bound to the other
account instead (`OtherLoginSuccess`) and get one of its characters (`OtherPlayerLoad`).
In the same way it may show this account's keys again, and select a character again
before the answer or with a character loaded. A connection has a handle (`peers`, `up`,
`link`), as in the code; what a core sends while it has none waits in `buffer`. The
core may notice a broken connection before the db does, which first reads what
there still is. An answer of MySQL comes back to a peer that may have gone
(`DropResult`). `Destroy` stands for every reason a client leaves. The model keeps
what reads like an oversight: LOGOUT names the account, not the session; SETUP
copies client keys that were never initialised, calls `SetPlay` on the object it
made even if the account had one, and leaks an object no map takes; a refused
authentication leaves no login data, so that LOGOUT then returns early and the
entry stays; LOGIN_SUCCESS overwrites the account a client is bound to, which nobody logs
out then; LOGIN_BY_KEY whose two SELECTs disagree answers nothing; PLAYER_LOAD
does not ask who is logged on.

`lost` and `odd` are histories: the clients whose entry went with a connection, and
whether an authentication was refused, a logout came from a client that had lost
its entry (`strayed`), the entry of such a client went to another (`taken`), or a bound
client went over to another account (`left`). The properties name the history they except.

### GuildSafebox

The db has the safebox: items in cells, the grid of the cells they cover, gold.
Each core has a mirror, loaded once and kept up to date by packets to the cores in
`m_set_ForwardPeer` (`watchers`). A core judges the requests of its clients by the
mirror, the db judges again. With ADD the core destroys its item without a word to
the item cache, the db erases its cached value and enters the cell among the
delayed saves (`unsaved`); the row still names the depositor until `FlushItems`
writes it. On the way out the row belongs to the guild until the save of the new
owner has come through his cache. `row`, `entry`, `due`, `cached` and `out` are what
this takes of the caches of `ItemCache`: their effect on rows, with logins and saves
in one step each. `login` is the number of a player's descriptor: an answer to a
descriptor that has gone finds nobody.

A broken connection loses the packets on their way (`LinkLoss`), takes the core out
of the watchers, and leaves its mirror as it is; if that was loaded, it is never
loaded, nor forwarded to, again. `late`, `gone` and `spilt`
are histories: items loaded from a row that was not up to date, items and gold lost
with a packet.

### Exchange and Trade

`Exchange` is a core with its players' inventories. A `CExchange` (`Side`) keeps
pointers to the offered items and the positions they had; the flag `m_bExchanging`
keeps other handlers away from the items. Not all ask it: what a quest takes or what
expires is destroyed, its pointer stays, and the next item may be created at the same
address. So an `Item` is an address, and `reborn` holds those an exchange still has
from before. `Cancel` clears a flag through such a pointer: undefined when the
object is gone, which the model takes for no effect, or for a write to the object
that is there now.

`Special` items and `Window` stand for the windows apart from the inventory (skill
books, upgrade items and so on) that have cells for items one cell high;
`GetEmptyInventoryNew` tries them before the inventory. The 4 x 6 display grid of the
exchange is reduced to its size. `Check` and `CheckSpace` are what `AcceptBoth` asks
of both sides; if one refuses, the exchange is cancelled (`AcceptInVain`, also for a
db that is not connected). `Done` is taken apart into the turns of its loops
(`Collect`, `MoveNext`, `LeaveBehind`, `PayOverFirst`, `PayOverSecond`); every other
action waits until it is over (`Quiet`), since the core has one thread.

`MoveItem`, `SwapItems` (items of one size) and `SwapUneven` are the ends of
`CHARACTER::MoveItem`. The cells of all windows are one array, and for a swap the code
compares the windows that the client claims: INVENTORY for both is accepted for any two
cells. A swap of different sizes empties the cells below the target one after the other
into those below the first cell (`Round`), numbering them with a `BYTE` (`ByteCells`: 256
in the code). Inside the inventory, and below that number, its checks see to it that all
fits. Beyond, an item may come to lie over another, which then has an owner and no cell
(`buried`), or on its lower cells: who has made such a swap is recorded (`torn`), and what
`wItemGrid` says of the free cells of his inventory from then on is left open (`Grids`).

`Loaded` are inventories a player may have when he logs in.

`Trade` is what two players may rely on: a deal they open, change, agree to and call
off, and one step, `Settle`, in which what both agreed to changes hands or stays with
its owner. Items may also be lost to both (`Lose`) or new. The mapping (`TradeHolds`, `TradePurse`, `TradeDeal`) shows the state in
which `Done` was called until `Done` is over.

The "faulty variants" at the head of the modules are slips a programmer could
make in the operator each comment names. No specification uses them; each
property is run once with one of them in place and must then fail, which shows
that the property depends on that line of the code.

## 3. The runs

| run | question | bounds | result |
|---|---|---|---|
| `async_sql` | Do two threads, retries, reconnects and shutdown keep the promises of the channel, and does everything that was promised eventually happen? | three statements, two retryable failures, semaphore maximum 2, failing connect, both ways to stop; `FairSpec` | all hold |
| `async_sql_retry_stuck` | Is a statement that failed retryably sent again? | two statements, one failure, `FairSpec` | no |
| `item_ids` | Are the books disjoint and in step, and is every duplicate due to something `OnClose` did not look at? | two cores, four ranges, two items, two closings, everything may go wrong | all hold |
| `item_ids_crash` | Are ids unique, at least when links end only with their process? | the same, links end with processes | no |
| `item_cache` | Is the newest value of an item always somewhere it will be found, and each item where it was saved last? | two players, two cores, one item with two saves, flush and logout time 1, safeboxes; symmetric; up to the first overtaking of channels | all hold |
| `item_cache_live` | Do the books agree, and is everything stored in the end, with overtakings, requested flushes and beats cut short? | one player, one core, else the same; `FairSpec` | all hold |
| `item_cache_copy` | Is no item on two cores when caches are flushed on request? | as `item_cache` with FLUSH_CACHE, without safeboxes | no |
| `login_data` | Is no freed object used, is an account on one client only, does its entry last as long as its client and no longer, and does a playing player keep his cache? | two cores, two authentications with keys that may repeat, two clients, two keys shown (one of them of another account), two selections, five of these requests in all (four with a fault before them), one lost connection, crash or restart of the db | all hold, but for the named histories |
| `login_two_sessions` | Is an account never on two clients? | the same with one authentication | no |
| `guild_safebox` | Do box, grid and mirrors agree, and is nothing in the safebox doubled or lost? | two cores, two members, an item of one cell and one of two, a page of three cells, one gold, six events | all hold, but for rows not written yet and lost packets |
| `guild_item_in_two_places` | Is what is in the safebox nowhere else? | one item, a page of two cells | no |
| `exchange` | Do inventories, exchanges and flags stay in order, and is every exchange one that both agreed to? | two players, items of one and two cells and one with its own window, two pages of two cells and two cells beyond them, a `BYTE` for four cells, two items to a side, three events | all hold, but for torn inventories |

What the properties say:

* `InOrderOnce`: the database executes statements in order and none twice.
* `OneAnswerEach`: each consumed ReturnQuery has one answer, in order.
* `NothingLostWhileRunning`: consumed, copied and queued statements together are
  all that were submitted, until the worker leaves its loop.
* `NoLostWakeup`: the worker never sleeps on a zero semaphore with a statement
  queued or the owner joining; this is delicate because the semaphore saturates
  and because the worker takes several statements for one token.
* `LossBoundedByRetries`: Quit abandons no more statements than attempts failed
  retryably.
* `ImplementsChannel`: `AsyncSQL` is a `SqlChannel`.
* `QuitReturns`, `DrainEnds`, `QueryIsTaken`, `QueryIsFinished`: the join, the
  wait of `main()`, and the way of a statement come to an end. `QueryIsFinished`
  excepts executions in which an attempt failed retryably, and must: see below.
* `BooksDisjoint`: no id is in two ranges of the pool and the peers.
* `InStep`: the core and its peer agree on both ranges but for the one message
  between them (unless the process outlived a connection).
* `OnlyOverlookedDuplicate`: an id is given out twice only if a closing returned
  its range while it was in use where `OnClose` does not look: in a queued
  statement, in the cache of a player not logged on through that peer, or with
  a process that is still alive.
* `CacheBooks`: the map of all cached items and the players' sets agree, which the
  code maintains in two structures with raw pointers between them.
* `NewestIsKept`: what was saved last is in a dirty entry, or in the newest
  statement waiting, or in the table, and a cached value is never an old one.
* `NoStaleRow`: what a load from the table would find is the newest value once the
  queues are empty. It relates two clocks of two players: the flush of an item in
  its new owner's cache and the deletion of its old owner's.
* `OneHolder`: a core has an item only if the item was last saved as being there, so
  it is not on two cores, with two players, or on the ground and in a row.
* `SavedIsStored`: every save reaches the table or is replaced by a newer one. An
  item in `raced` is excepted: of two channels the older may write last.
* `NoDangling`: no map and no entry points to a freed object. Two functions share the
  duty to free one, each only if the other has been called; a second authentication
  may come between them.
* `OneSession`, `HolderIsLoggedOn`: an account is bound to one client, and that client
  is logged on, over the connection its core has. They except a client whose entry
  went with a connection, and what such a client's logout does to its successor.
* `NoOrphanLogon`: an entry does not outlive its client, or nobody could log on again.
  It holds through every order of requests, answers, destroyed clients and closing
  connections, except after a refused authentication and when a bound client has gone
  over to another account: the entry of the first one then stays.
* `PlayingIsKept`: a player in the game is not among the logged out, so that
  `UpdateLogoutPlayer` does not take his cache away. It excepts what a client that had
  lost its entry, its successor, or one that has gone over to another account (perhaps with
  the player) does to him.
* `BoxBooks`: the items in the box do not overlap, the grid is what they cover, and a
  delayed save is of an item that is there; the code keeps three structures.
* `MirrorFollows`: a mirror with the packets on their way to it is the db's safebox. It
  would fail if a load and a change were sent in the wrong order.
* `ItemOnce`, `ItemKept`, `GoldKept`: nothing is doubled or lost between a client's
  core, the db and the other cores, and a player who logs in gets back what is his.
  An item that a packet was lost with is excepted from both: when the save of the player
  who took it out is lost, its row can still be the depositor's, who gets it again.
* `InventoryBooks`, `ExchangeBooks`: an item has one owner and one cell, always; items
  cover separate cells of their page and none is buried, but where an inventory is torn;
  exchanges come in pairs; an offered item is still its owner's or gone, and no item
  keeps its flag for nothing, but those left behind.
* `LeftOnlyByOrder`: CheckSpace tries the items in the order of the array, Done moves
  those of the inventory in the opposite one. An item for which no cell is left stays
  with its owner, flagged for ever, while the rest of the exchange goes through. This
  happens only where two items of different sizes are offered, or to a receiver whose
  inventory is torn.
* `ImplementsTrade`: `Exchange` is a `Trade`: no order of offers, agreements, moves,
  losses and gains makes an exchange of anything both did not agree to.

### Where the code and its own texts disagree

1. `async_sql_retry_stuck`. "AsyncSQL: retrying" (`libsql/AsyncSQL.cpp:409`): the
   semaphore is released for the retry, but the woken worker finds `m_queue_query`
   empty, `CopyQuery` returns -1 and it sleeps again, the statement still in its
   copy. It is sent only after somebody submits another. The wait of
   `db/src/Main.cpp:107-122` does not count it and the flush does not read the copy,
   so Quit drops it; `LossBoundedByRetries` says how many may go this way.
2. `item_ids_crash`. "Unique ID" (`game/src/item_manager.cpp:279`): after a crash, an
   id in the cache of a player who had logged out or moved, in a queued statement, or
   below the start of a range that was returned before, is not seen, and the range
   starts below it. With `LinkDrops` TRUE the same invariant fails for a simpler
   reason: when the link to a living core breaks, its ranges return to the pool while
   the core goes on creating items from them.
3. `item_cache_copy`. "Hotfix prevent item copy" (`game/src/questlua_pc.cpp:2301`):
   the player's cache is flushed, which also deletes it, and he is disconnected
   3 seconds later. Until then he plays on without a cache. An item he gives to a
   player who has one is dirty there and still his in the table; when he logs in
   again, his rows are read from the table and he is given it too.
4. `login_two_sessions`. "If another connection has logged in already, 'already
   connected' has to be sent" (in Korean, `db/src/ClientManagerLogin.cpp:448`). When
   the connection of a core breaks, RemovePeer takes its entries out
   (`ClientManager.cpp:2893`) while its clients play on. Until the core has sent
   SETUP the account logs on elsewhere; SETUP then finds the entry taken, logs it,
   and both clients stay.
5. `guild_item_in_two_places`. "dont send destroy packet to db (guild safebox will
   handle this itself)" (`game/src/guild_safebox.cpp:302`). It does so up to ten
   minutes later; until then the row names the depositor. If he logs out, his cache is
   deleted and he logs in again before that, he is given the item that lies in the
   safebox.

Five remarks on what the models show but no run states. A statement that succeeds
after a retry is delivered with the error number of the failed attempt, and consumers
test it first (`db/src/ClientManagerLogin.cpp:168`). A swap in the inventory asks only
the first of the items it displaces whether it is offered, so an offered item may
move; `Check` then refuses the exchange. An item that Done leaves behind keeps its
flag, and its owner can do nothing with it until he logs in again. A bound client that
shows another account's key (`game/src/input_login.cpp:162`) is bound to that one
(`input_db.cpp:175`, `desc.cpp:663`) and logs out of that one only: the first account's
entry stays, and nobody can log on to it until the db or the core's connection ends. A
swap of items of different sizes with cells of another window, which is accepted under a
claim of INVENTORY (`char_item.cpp:7889`, `10446`), or beyond cell 255, where the `BYTE` of
`char_item.cpp:7984` wraps, puts items over and on one another.

`Main.cpp:37` asks that `g_iLogoutSeconds` exceed both flush times. Of items it does:
`CItemCache` takes at most 5 minutes, a logout 6. The defaults for players' rows (12
and 13 minutes) do not comply, without effect on items.

### Bounds, and why they suffice

`AsyncSQL`: three statements are the fewest with which a batch of two meets a
newer one; two retries let a retried statement fail again and a batch shrink by
two; a semaphore maximum of 2 is below the number of releases (three statements,
two retries, Quit), so it saturates, which the 32 of the code would need 33
statements for. `async_sql_retry_stuck` needs two: one that fails and one that would
wake the worker again.

`ItemIDRange`: four ranges feed two cores two ranges each, so the pool runs empty;
the first range has three ids, so that a returned range can start in its middle
and still be long enough; `MinRemain` is 1. Two items suffice for a duplicate
(one creation under an id in use); two closings let a range be returned twice.
The cores are symmetric. The bounded counters stop everything in the end, hence
`CHECK_DEADLOCK FALSE`; `AsyncSQL` is checked for deadlock.

`ItemCache`: one item, because no statement, entry or row concerns two; two players
and two cores are what a change of owner and a move to another core take. Two
saves: one that makes the item dirty and one that moves it, or two that race.
`FlushAge` 1 is the least with which a dirty entry can be younger than the flush
time when its item is saved again, `LogoutAge` the least the assumption allows.
`MaxLoad` 2 is one load (two SELECTs) at a time. `item_cache` stops at the first
overtaking (`CONSTRAINT InOrder`): its properties of values say nothing of a raced
item. What the constraint cuts off, `item_cache_live` covers for one player. Players
and cores are symmetric. The saves run out, hence no check for deadlock.

`LoginData`: two cores are what two logins of an account take; two authentications are
what replaces login data under a session; two clients can meet; one fault is one of
a lost connection, a crash and a restart. Four objects hold what two authentications
and two SETUPs can make. Keys are symmetric. Clients show two keys (`MaxLogin`): each of
two clients one, or one client a second while the first is unanswered or it is bound
already; one of them may be another account's (`MaxOther`).
Two selections (`MaxLoad`) are two of one client or one of each. `MaxRequest` 5 lets all
but one of these happen, and all but two after a fault: enough for each history the
properties except, and for each property to fail with a slip in the code. The theorems
have no such bound.

`GuildSafebox`: two cores with a mirror each and a member on each; one item starts in the
safebox and one with a player, so that both ways cross. An item two cells high on a
page of three is the least with which a move can overlap its own old place and a second
item can stand in the way; `MaxNum` 4 leaves the array a cell beyond the page. Six
events take an item in and out with a logout between. For the one piece of gold both
members can ask at once, and only one can get it. `ItemsOrGold` does not follow states in
which items and gold are both on the move: they share the mirrors and the queues, but no
handler's condition looks at both. The theorems have no such bound. Cores and players are
symmetric.

`Exchange`: two players exchange; a third could only be refused, or hold another end of an
exchange, which the theorems cover. Two pages of one column and two cells let an item two
cells high and one of one cell stand in each other's way, so that `CheckSpace` and `Done`
can disagree; `MaxOffer` 2 fills. Two cells beyond the inventory are the fewest below
which a swap can find a second item; `ByteCells` 4 puts them at the numbers where the
`BYTE` wraps. One player may start with two items there (`Loaded`), for moving them there
first would take more events. `GoldMax` 2 with an earning of 2 passes it, one with a spending of 1
makes an offer bad. Three events are an exchange and two things beside it, or a
destruction and two exchanges at the address. Players are symmetric.

In these three the bounded counters stop everything in the end, hence
`CHECK_DEADLOCK FALSE`.

### Fairness

`FairSpec` of `AsyncSQL` asks for weak fairness of the worker's steps, as the
operating system schedules every runnable thread, and of `Drained \/ Quit`:
once `main()` drains, or a destructor quits, nothing else is done by that
thread. Nothing is asked of the owner's other steps: it may never submit, take or
stop. That attempts stop failing is the bound `MaxRetry`; a server that is gone
for good keeps the worker in its flush for ever, and Quit with it.

`FairSpec` of `ItemCache` asks for weak fairness of `HeartBeat` (the heart of
`libthecore` is a timer; the limit is 200 per beat and counted anew in each, so it
does not end every beat) and of the execution of waiting statements (each channel
has its own thread, and `AsyncSQL` checks that it gets to them). Nothing is asked of
players, cores and loads.

## 4. The proofs

All theorems hold for every value of the constants that satisfies the modules'
assumptions (`ConstantsAssumption`, `RangesAssumption`, `CacheAssumption`,
`LoginAssumption`, `GuildSafeboxAssumption`, `FiniteAssumption`,
`ExchangeAssumption`, `LoadedAssumption`): any number of
statements, retries and cores, any maximum of the semaphore, any cutting into disjoint
ranges long enough for `MinRemain`, which is what `Build` produces, any players, items,
clients, keys, faults, safeboxes and inventories. `FiniteAssumption` is that cores and
members of a guild are finitely many: their gold is summed up. `LoadedAssumption` is that
what a player logs in with lies in separate cells.

`ItemCache` assumes (`CacheAssumption`) that the flush time does not exceed the logout
time, as `Main.cpp:37` asks. Types and books do not need it, `NoStaleRow` and
`NewestIsKept` do: without the assumption and with a shorter logout time TLC finds them
violated.

`AsyncSQL_proofs`. `IInv` is the inductive invariant: the type; `EndInv` (only
Quit sets the end flag and only then the worker leaves); `SendingInv` (the
statement being sent is the head of the queue it will be popped from); `BatchInv`
(the copy outlasts the attempts left in the batch, by no more than the retries:
this is what makes `Head` of the copy safe and bounds the loss); `WakeInv` (nobody
but the worker removes the token that announces work); `CountInv`; `OrderInv` (the
queues hold consecutive numbers up to the newest); `ExecutedInv` (what was
executed is increasing and below what is still to be sent). Theorems:
`IInvHolds`, `TypeCorrect`, `ExecutesInOrderOnce`, `NeverSleepsOnWork`,
`LossIsBounded`.

In the same module `AnswersInv` adds to `IInv` what becomes of the statements that
left the queues: `FinishedInv` (while the worker runs they are the statements 1, 2, 3
and so on without a gap; in the flush, which drops the copy, they are still increasing
and older than all that waits) and `OneAnswerEach` itself. The refinement goes step by
step: a query submits, sending runs, a pop completes, PopResult takes, Quit closes, the end
of the loop abandons the copy; every other step under a mutex is a stutter. `IInv` says
that what is popped is what was sent and what the copy still holds precedes the queue.
Theorems: `AnsweredOnce`, `NothingIsLost`, `ImplementsSqlChannel`
(`Spec => ImplementsChannel`).

`ItemIDRange_proofs`. A range keeps its bounds all its life, so disjointness
reduces to different minima: `PoolInv` and `PeersInv`. `LinkInv` describes one
connection at every stage: a peer that is not there has nothing; a core that
waits for the answer to BOOT has sent one message or is about to receive one; a
core that runs agrees with its peer or has one request or one answer under way.
`CurrentInv` keeps the next id at or above the range's minimum, which the type
invariant needs when the spare takes over. `ClearInv` is about duplicates. An
id is clear when no item has it or its range was returned without a look at where it
is; the invariant says that all the pool, the peers and the cores can still give out is
clear, that an item which is still on its core has an id in no book but its own peer's (so
that no other peer's OnClose can miss it), and that a core which outlived its connection
has nothing but overlooked ids. What OnClose returns is clear because its start is above
the ids of the table and of the peer's caches, and every other place counts as
overlooked. Theorems: `IInvHolds`, `TypeCorrect`, `BooksAreDisjoint`, `CoresInStep`,
`ClearInvHolds`, `DuplicatesAreOverlooked`.

`ItemCache_proofs`. `CacheInv` is the type invariant, `CacheBooks` and `Addressed`: an
answer that a session waits for is addressed to the core the player is on. Types
need it: the answer to the player SELECT takes the session to play, which only a
session on a core may. `CacheBooks` needs the types, and both its parts at once:
that an item which enters a set has an owner with a cache comes from PutItemCache's
test for a new owner, that one which stays has one from the books before. The cache
operators have lemmas of their own (what a flush, a save, an erasure leaves of types
and books) and each action cites one. Theorems: `TypeCorrect`, `BooksAgree`, for any
players, items and cores, any order of the channels, and requested flushes.

`ItemCacheNewest_proofs` follows the values of each item that is not raced through cache,
queues and table. `NewestInv` is `CacheInv`, `SessionsKept` (a player on a core is not
logged out, and one who plays has a cache) and, per item: `ItemKept` (versions increase
in each queue, none waits twice, a dirty entry is newer than every row written or
waiting, and without one the newest row is what was saved last); `Behind` (while a
dirty value waits for its time, the player whom the newest row names keeps his cache: the
age of the entry is compared with the time since his logout, and the flush time is not
the longer one); `LoadsRead` and `BoxesRead` (what a SELECT under way has read, or will
read, is what was saved last); `HeldWhereSaved` (an item is on the core of the player it
was saved for). None of these is inductive alone: that a load finds the right rows needs
`Behind`, which needs the books and that the item is where it was saved. The hypothesis
of the theorems is `~FlushRequests`: with flushes on request `item_cache_copy` shows
the failure. They need no bound on overtakings: an item one channel overtook is
in `raced`, which the properties except. Theorems: `NewestInvHolds`, `NewestKept`,
`NothingStale`, `HeldOnce`.

`LoginData_proofs`. `IInv` is `TypeOK`, `NoDangling` and

* `LinkInv`: a connection is used by one core, once; a core without one has nothing to
  read and its bound clients have lost their entries; the entry's connection is one the
  db has; a client stays on the core it came to (`Placed`).
* `RequestInv`: a request of a client, wherever it is (kept back by a core without a
  connection, on the connection, in the SQL channel, or answered), belongs to the core the
  client is on. A client may have several under way, of one kind and of several.
* `SetupInv`: a client that a SETUP under way lists is on the core that sent it, and is
  bound still or its LOGOUT follows on the same connection, unless a client has left. That
  is why a SETUP that gives an entry gives it to somebody.
* `SessionInv`: on the connection with the entry there is one of three things, and one
  only: a bound client that holds the entry, an answer that will bind one, the LOGOUT of
  one. This carries `OneSession` and `HolderIsLoggedOn`: QUERY_LOGOUT compares only the
  connection, and would take the entry of another client of the core if there could be
  one.
* `OrphanInv`: the core whose connection has the entry has a client, an answer or a
  LOGOUT for it, and a LOGOUT finds login data. With `LinkInv` this gives `NoOrphanLogon`.
* `LoadInv`: only a client that is or was bound asks for its player.
* `PlayInv`: beside a bound client there is no other, no answer that binds one and no
  LOGOUT; and what it was told of its player, who is cached and not logged out, stays
  true while it plays, while the answer is on its way, and from the SELECT on.

Queues are described by what is in them (`Some`, `Once`), with lemmas for appending, taking
the head, joining and emptying, and each part has one lemma per action or group of
actions. `SessionInv` needs `"strayed" \notin odd`, `OrphanInv` that nothing was
`"refused"` or `"left"`, `PlayInv` that nothing was `"strayed"`, `"taken"` or `"left"`: the code breaks what the
properties say after these, and `login_two_sessions` shows one case. They are
reachable in the instance and excepted nowhere else. Theorems: `IInvHolds`,
`LoginTypesHold`, `NothingDangles`, `SessionIsUnique`, `HoldersAreLoggedOn`,
`LogonIsOwned`, `PlayersAreKept`.

`GuildSafebox_proofs`. `IInv` is `Typed` and `BoxBooks`. `Typed` is the type invariant
without `mirror` and `spilt`, whose types the parts below have. Three lemmas
say what adding, taking and moving an item do to box, grid and delayed saves
(`BooksAdd`, `BooksTake`, `BooksMove`); they need that an item fits on the page it goes
to, which the core does not ask of its mirror but the db does. Each packet cites one.

In the same module `ItemsInv` adds to `IInv` where each item is that is neither `late`
nor `gone`, and what the db knows of it:

* `SessionsInv`: a player on a core is logged on, one who is logged on has a cache and is
  not among the logged out, and what is to be saved of a player he has.
* `PacketsInv`: the packets with a player's items (ADD, SAVE, LOGOUT) are on one
  connection, that of his core; the db has him logged on while there are any, and LOGOUT
  is the last. So a save always meets his cache, and he does not log in before all have
  come: what he gets then is not older than what he had.
* `WhereInv`: an item is in one of three conditions. `Boxed`: in one cell, no player,
  cache or packet has it, and its row is the guild's or a delayed save will make it so.
  `Given`: in one GIVE packet and nowhere else. `OfPlayer`: its player has it, or one ADD
  of his has it, behind all its saves, or he is offline; only his packets carry it, only his
  entry is in the cache, and one of the delayed saves, packets, cache and row says that
  it is his.

ADD takes an item from `OfPlayer` to `Boxed` or, refused, to `Given`, TAKE from `Boxed` to
`Given`, GIVE to `OfPlayer`; the other steps stay in a condition. None of the parts is
inductive alone: that a login takes no item of somebody else's needs that a row which
is not its holder's is one that `RowIsLate` sees. Queues are compared by the packets of
one kind in them (`Quiet`), and by what comes after what (`NoneAfter`).
Theorems: `TypeCorrect`, `BoxBooksAgree`, `ItemInOnePlace`, `ItemIsKept`.

`MirrorFollows` and `GoldKept` fold over queues and sum over cores. The folds are opened
up once: `Leads(k, s, q, t)` says that the packets of `q`, one after the other, make `t`
of `s` (`Put` is one packet: `Apply` to a mirror, or the addition of its gold), and
`FoldMirror` and `FoldGold` that this is what `FoldLeft` computes. From there queues only
need `LeadsAppend`, `LeadsTail` and `LeadsConcat`. `SumChange` says what a sum becomes
when one summand changes. These lemmas rest on induction over numbers, in the form of
`Inductive`: a set that has 0 and each successor has all numbers (from the library's
well-foundedness of `<`).

* `MirrorInv`: the packets on their way make of a watcher's mirror what the db has; a core
  that is no watcher has no news on its way, and if a LOAD of its own is, its mirror is
  not loaded; no packet reaches beyond the cells. The second part is what makes the
  first inductive: LOADED fills only a mirror that is not loaded, so a core that becomes a
  watcher must not have one, and a core whose connection broke does not ask again. A
  second LOADED, for a core that is a watcher, has no items and changes only the gold.
* `GoldInv`: `GoldKept`, and `spilt` a number. `GoldMoved` is the one step that counts:
  gold moves between the safebox, one core's packets and one purse, and the rest of
  the sums stays. That GET_GOLD leaves a number needs `CanPay`.

Theorems: `MirrorsFollow`, `GoldIsKept`, `TypesHold`.

`Exchange_proofs`. `IInv` is `TypeOK`, `InventoryBooks`, `ExchangeBooks`, `Apart` (two
exchanges share no item, but for an address used again: what one side gives up cannot
take the other's flags) and `DoneBooks` (while Done runs: who gives, that he can still
pay, that what he has in hand is nobody else's, and that no item of a checked offer
is buried). One lemma per action says what it
keeps. Of a swap of different sizes three say why it keeps a whole inventory in order:
`RoundRow` (a round puts no item in two cells and brings in no new one, wherever it wraps),
`BlocksApart` (the two blocks of cells that change places do not meet) and
`SwapUnevenKeeps`. Theorems: `TypeCorrect`, `InventoryInOrder`, `ExchangeInOrder`.

`ExchangeTrade_proofs`. `DealBooks` says how far Done has come from what both agreed to:
`Agreed` (what that was, when Done was called), `InHand` (what Done has taken out and
not yet moved) and `Passed` (what has changed hands, and that nothing else has). Every
step keeps it along with `IInv`. The last step of Done is then `Settle`; the others of
Done are stutters, since the mapping still shows the state before; each request is the
action of `Trade` of its name or `CallOff`; a destruction, a new item, gold from
elsewhere is `Lose`, `Find`, `EarnOrSpend`. That gold is not clipped on the way needs
`GOLD_MAX` in `Check`. Theorem: `Implements`, that `Spec => ImplementsTrade`.

`RoomBooks` is what `LeftOnlyByOrder` needs besides, in two halves.

`Exchange_proofs` says what a check is worth. CheckSpace is a fold; `PutRun` opens it up
as a run of covered cells. `WindowChecked`: an offer it accepts has no more items for the
other window than that has free cells. `InventoryChecked`: if the rest of it is of one
size, there are as many `Rooms` for such items, cells none of which is in the way of
another. The cells an item could start at are in each other's way like intervals of one
length: taking the first that fits each time (`Earliest`) gives as many rooms as there
can be. `AsManyRooms` says so for any two sets of rooms, `NextRoom` and `NoRoomLeft` that
a cell found keeps to it and that none is found only when these many are taken. `Count`
counts the items of a sequence that are in a set, whatever their order.

`ExchangeTrade_proofs` follows the room through Done.

* `Checked`: what the check found, of the cells as they were when Done was called.
* `InTurn`: what the receiver keeps stays where it was (so what covered cells then and
  still does is no more than then); the deque has the items of the other window last;
  the second to give has all he offered, and the first has got nothing when he gives.
* `WindowRoom`: the items still to come for the other window are no more than its free
  cells. It needs no items of one size.
* `InventoryRoom`: when they are of one size, there are rooms for all items still to come
  beside those that have come. These are not at the cells CheckSpace found for them, since
  Done takes them in the opposite order and the first giver's own items have left his
  inventory meanwhile; `HasRoom` therefore only says that the cells taken are among
  those an `Earliest` set has, and that there are rooms enough left.

The last three say nothing of a receiver whose inventory is torn.

So `LeaveBehind` cannot happen for an item of the other window at all (`OnlyUneven`), nor
in an offer whose other items are of one size. Theorem: `LeftBehindOnlyByOrder`. That
different sizes do leave an item behind is what the run shows: the property asks for no
more, and the bounds let it happen.

Only model-checked: what asks for fairness
(`QuitReturns`, `DrainEnds`, `QueryIsTaken`, `QueryIsFinished` under `FairSpec` of `AsyncSQL`,
`SavedIsStored` under that of `ItemCache`): liveness is outside the prover's reach, as is
induction in the form of a schema, for any formula.

## 5. Not modelled, and why

* In the item cache: the caches of quests, affects, skills and pets (keyed by player
  only, so no change of owner), the player's own row (only that it was loaded), the
  auction's 1.5 seconds in which saves are ignored and the disabling of an entry,
  deletion of a character, several characters per account, stacks that merge. The
  deletion of an item that has had no owner on its core (one never taken out of the safebox
  it was loaded from): it is sent with player id 0, and then goes through `AsyncQuery` of
  SQL_PLAYER instead of the ordered connection of `direct` (`ClientManager.cpp:1738`,
  `DBManager.cpp:154,167`), with which it is not ordered.
* In the channel: the synchronous `DirectQuery` (one thread, no queue); the statistics
  counters, incremented by one thread and reset by the other without a lock
  (`AsyncSQL.cpp:428`); a statement run on the handle from another thread than the
  worker's, as `SetLocale` (`AsyncSQL.cpp:533`) and `LogManager::DirectQuery`
  (`game/src/log.cpp:577`) do; a MySQL server that stays away, in which the flush loop,
  which does not look at `m_bEnd`, never ends (`AsyncSQL.cpp:439`).
* In the id ranges: the range the db keeps for itself, a restart of the db process
  (`bSentBoot`, `desc_client.cpp:135`, keeps a core from asking again), destruction of
  items (it only frees an id), a spare range that could not be given and is asked for
  by nobody again (`item_manager_idrange.cpp:26`).
* In the logins: the authentication core's own tests, billing, CHANGE_NAME, creation
  and deletion of characters, `DeleteLoginKey` (no core sends it), several accounts in the
  db: what a SETUP with a key of another account does to that one's entry of the key map,
  or that two accounts draw one key; an answer for a load that was given up, which may leave an empty
  cache (`ClientManagerPlayer.cpp:900`).
* In the guild safeboxes: CREATE and SIZE, passwords, the log, the row of the gold
  (`FlushSafeboxes`), several guilds, the end of a guild, rights, the start-up race, a
  restart of the db; a login elsewhere while a core's connection is broken (`LinkLoss` is
  the break and the reconnection in one step and its players stay logged on, while
  `RemovePeer`, `ClientManager.cpp:2882`, takes their entries out until SETUP; that an
  account is on two cores then shows `login_two_sessions`, that its items may be is not
  in `ItemOnce`); `m_bItemLoaded`, which is never reset; that `AutoGiveItem` drops
  the item when the inventory is full; the overflow of a purse.
* In the exchanges: distance, block modes, GM rights, quests, safeboxes and shops that
  are open, stacks and their merging, equipment (and that a swap of different sizes may
  reach into its cells), the costumes' window, dragon souls, saves, `RemoveItem`
  (it returns at once). Which cells of a torn inventory `wItemGrid` says are free is left
  open.
* Pure input and output, parsing and loading: proto tables, boot packet, csv.
* Third-party and generated code: most of the repository's lines are generated packet
  code, in several copies, vendored libraries and data, so that the modelled part, the
  databases' and cores' own protocols, is a small share of them.
* Game rules over character data: mostly arithmetic in one thread.
* The rest is planned.

## 6. Plan

In this order, the most important behaviour first:

1. done: `SqlChannel`, `AsyncSQL`, with proofs, of the refinement too.
2. done: `ItemIDRange`, with proofs of all its invariants.
3. done: `ItemCache`, with proofs of all its invariants.
4. done: `LoginData`, with proofs of all its invariants.
5. done: `GuildSafebox`, with proofs of all its invariants; `Trade` and `Exchange`, with
   the proof that the one implements the other and of all invariants and `LeftOnlyByOrder`.
6. `EventQueue`, `Party`, `PvP`: callbacks and timers; the item grid as a pure
   algorithm against a reference definition.
7. `ItemCache`: what a player must be given at login (an orphaned load can leave a
   cache without items); a core's delayed saves as a step of their own.
8. Composition: the item caches of `GuildSafebox` as those of `ItemCache`, and the
   logout map of `LoginData` as the one both use.
