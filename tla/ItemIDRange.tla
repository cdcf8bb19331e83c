----------------------------- MODULE ItemIDRange -----------------------------
(***************************************************************************)
(* Who may create items under which ids: the pool of id ranges of the db   *)
(* process (db/ItemIDRangeManager.cpp), the two ranges its CPeer books for *)
(* every game core (db/Peer.cpp) and the two ranges the core itself creates *)
(* items from (game/item_manager_idrange.cpp).                             *)
(*                                                                         *)
(* A core asks for ranges once in its life, with BOOT, and for a new spare *)
(* range each time it starts to use the one it has.  When its connection   *)
(* closes, for whatever reason, OnClose puts both booked ranges back in    *)
(* front of the pool, starting above the ids it can see in use: those of   *)
(* the item table, and those of the cached items of players who were       *)
(* logged on through that peer.                                            *)
(*                                                                         *)
(* Where an item is decides who sees its id, so that is all that is said   *)
(* of items; destroying one only frees its id, and is left out.  GetRange's *)
(* collision check is left out: for_each_peer passes the functor by value, *)
(* so its verdict never reaches GetRange.                                  *)
(***************************************************************************)
EXTENDS Naturals, Sequences, FiniteSets, FiniteSetsExt

CONSTANTS
    Core,           \* the game cores
    Ranges,         \* what Build cuts the ids into: a sequence of <<min, max>>
    MinRemain,      \* cs_dwMinimumRemainCount
    MaxCreate,      \* bound: items created
    MaxClosings,    \* bound: connections that close
    LinkDrops,      \* BOOLEAN: a connection may break under a living core
    Unseen,         \* BOOLEAN: items may be where OnClose does not look
    NoCore          \* not a core

None == [min |-> 0, max |-> 0, usable |-> 0]

ASSUME RangesAssumption ==
    /\ NoCore \notin Core
    /\ MinRemain \in Nat \ {0}
    /\ MaxCreate \in Nat
    /\ MaxClosings \in Nat
    /\ {LinkDrops, Unseen} \subseteq BOOLEAN
    /\ Ranges \in Seq(Nat \X Nat)
    /\ \A i \in 1 .. Len(Ranges) :
          Ranges[i][1] > 0 /\ Ranges[i][1] + MinRemain <= Ranges[i][2]
    /\ \A i, j \in 1 .. Len(Ranges) : i < j => Ranges[i][2] < Ranges[j][1]

ID == UNION {Ranges[i][1] .. Ranges[i][2] : i \in 1 .. Len(Ranges)}

IDRange == {r \in [min : Nat, max : Nat, usable : Nat] :
            \E i \in 1 .. Len(Ranges) :
                /\ r.min = Ranges[i][1]
                /\ r.max = Ranges[i][2]
                /\ r.usable \in r.min .. r.max}

VARIABLES
    m_listData,         \* the pool
    connected,          \* the cores whose connection has a CPeer
    m_itemRange,        \* CPeer: the range booked for the core
    m_itemSpareRange,   \* CPeer: its spare range
    toDB,               \* what the core sent and the db has not read
    toCore,             \* what the db sent and the core has not read
    core,               \* the core's process
    m_dwCurrentID,      \* ITEM_MANAGER: the next id
    m_ItemIDRange,      \* ITEM_MANAGER: the range it is from
    m_ItemIDSpareRange, \* ITEM_MANAGER: the range after that
    place,              \* where the item with this id is
    created,            \* history: items created
    closings,           \* history: connections that closed
    dropped,            \* history: the processes that outlived a connection
    overlooked,         \* history: ids in use that OnClose did not look for
    duplicated          \* history: ids given to an item while in use

poolVars == <<m_listData, m_itemRange, m_itemSpareRange>>
itemVars == <<m_dwCurrentID, m_ItemIDRange, m_ItemIDSpareRange>>
histVars == <<created, closings, dropped, overlooked, duplicated>>
vars == <<poolVars, connected, toDB, toCore, core, itemVars, place, histVars>>

Place == [in : {"none", "core", "cache", "queue", "table"},
          at : Core \cup {NoCore}]
At(in, at) == [in |-> in, at |-> at]

InTable == {id \in ID : place[id].in = "table"}
CachedAt(c) == {id \in ID : place[id] = At("cache", c)}

MaxOr0(S) == IF S = {} THEN 0 ELSE Max(S)

-----------------------------------------------------------------------------
(***************************************************************************)
(* Faulty variants: what a slip in the code would make of the operator named *)
(* in each comment.  No specification uses them; the properties below are   *)
(* tested by putting one in its operator's place.                           *)
(***************************************************************************)

\* PushFront: AppendRange ignores that BuildRange refused the range.
PushAlways(r, list) == <<r>> \o list

\* AfterGetRange: GetRange forgets pop_front.
KeepList(list) == list

\* Returned: OnClose starts from the item table alone.
ReturnedOfTable(c, r, ok) == LET stored == MaxOr0(InTable \cap (r.min .. r.max))
    IN  IF stored + 1 + MinRemain <= r.max
          THEN [r EXCEPT !.usable = IF stored = 0 THEN r.min ELSE stored + 1]
          ELSE None

\* SendSpareItemIDRange: only the spare range is replaced.
SendSpareOnly(c) ==
    /\ c \in connected
    /\ toDB[c] # <<>> /\ Head(toDB[c]) = "REQ_SPARE_ITEM_ID_RANGE"
    /\ m_listData # <<>>
    /\ m_itemSpareRange' = [m_itemSpareRange EXCEPT ![c] = Head(m_listData)]
    /\ m_listData' = Tail(m_listData)
    /\ toCore' = [toCore EXCEPT ![c] =
                    Append(@, [range |-> None, spare |-> Head(m_listData)])]
    /\ toDB' = [toDB EXCEPT ![c] = Tail(@)]
    /\ UNCHANGED <<m_itemRange, connected, core, itemVars, place, histVars>>

-----------------------------------------------------------------------------
(* CItemIDRangeManager                                                     *)

\* BuildRange; ok says which of its two SELECTs are answered.
BuildRange(min, max, minUsable, ok) ==
    LET stored == IF ok[1] THEN MaxOr0(InTable \cap (min .. max)) ELSE 0
        start  == IF stored = 0 \/ (minUsable # 0 /\ minUsable > stored)
                    THEN IF minUsable # 0 THEN minUsable + 1 ELSE min
                    ELSE stored + 1
    IN  IF /\ start <= max
           /\ max - start >= MinRemain
           /\ ok[2]
           /\ InTable \cap (start .. max) = {}
          THEN [min |-> min, max |-> max, usable |-> start]
          ELSE None

\* AppendRange with bFront.
PushFront(r, list) == IF r = None THEN list ELSE <<r>> \o list

\* GetRange: the range it returns, and the list it leaves.
GetRange(list) == IF list = <<>> THEN None ELSE Head(list)
AfterGetRange(list) == IF list = <<>> THEN <<>> ELSE Tail(list)

-----------------------------------------------------------------------------
(* The core: its process and its connection                                *)

\* The process starts, connects (AddPeer) and, once in its life, sends BOOT.
Start(c) ==
    /\ core[c] = "off"
    /\ c \notin connected
    /\ core' = [core EXCEPT ![c] = "boot"]
    /\ connected' = connected \cup {c}
    /\ toDB' = [toDB EXCEPT ![c] = <<"BOOT">>]
    /\ UNCHANGED <<poolVars, toCore, itemVars, place, histVars>>

\* TryConnect under a living process: bSentBoot is static, no second BOOT.
Reconnect(c) ==
    /\ core[c] # "off"
    /\ c \notin connected
    /\ connected' = connected \cup {c}
    /\ UNCHANGED <<poolVars, toDB, toCore, core, itemVars, place, histVars>>

\* The process ends or dies; what it had not saved is gone.
Exit(c) ==
    /\ core[c] # "off"
    /\ core' = [core EXCEPT ![c] = "off"]
    /\ toCore' = [toCore EXCEPT ![c] = <<>>]
    /\ m_dwCurrentID' = [m_dwCurrentID EXCEPT ![c] = 0]
    /\ m_ItemIDRange' = [m_ItemIDRange EXCEPT ![c] = None]
    /\ m_ItemIDSpareRange' = [m_ItemIDSpareRange EXCEPT ![c] = None]
    /\ place' = [id \in ID |-> IF place[id] = At("core", c)
                                 THEN At("none", NoCore) ELSE place[id]]
    /\ dropped' = dropped \ {c}
    /\ UNCHANGED <<poolVars, connected, toDB, closings, overlooked, created,
                   duplicated>>

\* Boot: SetMaxItemID and SetMaxSpareItemID; a range is missing: shutdown.
RecvBoot(c) ==
    /\ core[c] = "boot"
    /\ toCore[c] # <<>>
    /\ LET p == Head(toCore[c]) IN
         /\ m_ItemIDRange' = [m_ItemIDRange EXCEPT ![c] = p.range]
         /\ m_dwCurrentID' = [m_dwCurrentID EXCEPT ![c] = p.range.usable]
         /\ m_ItemIDSpareRange' = [m_ItemIDSpareRange EXCEPT ![c] = p.spare]
         /\ core' = [core EXCEPT ![c] = IF None \in {p.range, p.spare}
                                          THEN "stop" ELSE "run"]
    /\ toCore' = [toCore EXCEPT ![c] = Tail(@)]
    /\ UNCHANGED <<poolVars, connected, toDB, place, histVars>>

RecvSpare(c) ==
    /\ core[c] = "run"
    /\ toCore[c] # <<>>
    /\ LET p == Head(toCore[c]) IN
         m_ItemIDSpareRange' = [m_ItemIDSpareRange EXCEPT ![c] =
                                  IF p.spare = None THEN @ ELSE p.spare]
    /\ toCore' = [toCore EXCEPT ![c] = Tail(@)]
    /\ UNCHANGED <<poolVars, connected, toDB, core, m_dwCurrentID,
                   m_ItemIDRange, place, histVars>>

-----------------------------------------------------------------------------
(* ITEM_MANAGER::GetNewID                                                  *)

\* CreateItem gives the id to a new item.
Create(c, id) ==
    /\ created < MaxCreate
    /\ created' = created + 1
    /\ place' = [place EXCEPT ![id] = At("core", c)]
    /\ duplicated' = IF place[id].in = "none" THEN duplicated
                                              ELSE duplicated \cup {id}

Exhausted(c) == m_dwCurrentID[c] >= m_ItemIDRange[c].max

NewID(c) ==
    /\ core[c] = "run"
    /\ ~Exhausted(c)
    /\ Create(c, m_dwCurrentID[c])
    /\ m_dwCurrentID' = [m_dwCurrentID EXCEPT ![c] = @ + 1]
    /\ UNCHANGED <<poolVars, connected, toDB, toCore, core, m_ItemIDRange,
                   m_ItemIDSpareRange, closings, dropped, overlooked>>

\* The spare range takes over and another is requested.
NewIDFromSpare(c) ==
    /\ core[c] = "run"
    /\ Exhausted(c)
    /\ m_ItemIDSpareRange[c] # None
    /\ toDB' = [toDB EXCEPT ![c] = Append(@, "REQ_SPARE_ITEM_ID_RANGE")]
    /\ m_ItemIDRange' = [m_ItemIDRange EXCEPT ![c] = m_ItemIDSpareRange[c]]
    /\ m_ItemIDSpareRange' = [m_ItemIDSpareRange EXCEPT ![c] = None]
    /\ Create(c, m_ItemIDSpareRange[c].usable)
    /\ m_dwCurrentID' =
         [m_dwCurrentID EXCEPT ![c] = m_ItemIDSpareRange[c].usable + 1]
    /\ UNCHANGED <<poolVars, connected, toCore, core, closings, dropped,
                   overlooked>>

\* "FATAL ERROR!!! no more item id": the core shuts down.
NoMoreID(c) ==
    /\ core[c] = "run"
    /\ Exhausted(c)
    /\ m_ItemIDSpareRange[c] = None
    /\ core' = [core EXCEPT ![c] = "stop"]
    /\ UNCHANGED <<poolVars, connected, toDB, toCore, itemVars, place,
                   histVars>>

-----------------------------------------------------------------------------
(* The db process and the core's CPeer                                     *)

\* QUERY_BOOT; SetItemIDRange and SetSpareItemIDRange ignore a missing range.
QueryBoot(c) ==
    /\ c \in connected
    /\ toDB[c] # <<>> /\ Head(toDB[c]) = "BOOT"
    /\ LET range == GetRange(m_listData)
           rest  == AfterGetRange(m_listData)
           spare == GetRange(rest)
       IN  /\ m_listData' = AfterGetRange(rest)
           /\ m_itemRange' =
                [m_itemRange EXCEPT ![c] = IF range = None THEN @ ELSE range]
           /\ m_itemSpareRange' = [m_itemSpareRange EXCEPT ![c] =
                                     IF spare = None THEN @ ELSE spare]
           /\ toCore' = [toCore EXCEPT ![c] =
                           IF core[c] = "off" THEN @
                           ELSE Append(@, [range |-> range, spare |-> spare])]
    /\ toDB' = [toDB EXCEPT ![c] = Tail(@)]
    /\ UNCHANGED <<connected, core, itemVars, place, histVars>>

\* The spare range becomes the range; a peer without one gets no other.
SendSpareItemIDRange(c) ==
    /\ c \in connected
    /\ toDB[c] # <<>> /\ Head(toDB[c]) = "REQ_SPARE_ITEM_ID_RANGE"
    /\ IF m_itemSpareRange[c] = None
         THEN UNCHANGED poolVars
         ELSE /\ m_itemRange' = [m_itemRange EXCEPT ![c] = m_itemSpareRange[c]]
              /\ m_itemSpareRange' =
                   [m_itemSpareRange EXCEPT ![c] = GetRange(m_listData)]
              /\ m_listData' = AfterGetRange(m_listData)
    /\ toCore' = [toCore EXCEPT ![c] =
                    IF core[c] = "off" THEN @
                    ELSE Append(@, [range |-> None,
                                    spare |-> m_itemSpareRange'[c]])]
    /\ toDB' = [toDB EXCEPT ![c] = Tail(@)]
    /\ UNCHANGED <<connected, core, itemVars, place, histVars>>

\* What OnClose puts back of a booked range.
Returned(c, r, ok) ==
    BuildRange(r.min, r.max, MaxOr0(CachedAt(c) \cap (r.min .. r.max)), ok)

\* The ids of a booked range that are or will be in use where OnClose does not
\* look: queued statements, caches of players who are not logged on through
\* this peer, and whatever a living core goes on to create.
Overlooked(c, r) ==
    {id \in ID \cap (r.min .. r.max) :
        \/ place[id].in = "queue"
        \/ place[id].in = "cache" /\ place[id].at # c
        \/ core[c] # "off"}

\* RemovePeer and ~CPeer: the process is gone, or only its connection is.
\* The players logged on through the peer no longer are.  The SELECTs for the
\* two ranges follow each other at once, and are answered or fail alike.
RemovePeer(c) ==
    /\ c \in connected
    /\ core[c] = "off" \/ LinkDrops
    /\ closings < MaxClosings
    /\ closings' = closings + 1
    /\ \E ok \in BOOLEAN \X BOOLEAN :
         m_listData' =
           PushFront(Returned(c, m_itemRange[c], ok),
             PushFront(Returned(c, m_itemSpareRange[c], ok), m_listData))
    /\ m_itemRange' = [m_itemRange EXCEPT ![c] = None]
    /\ m_itemSpareRange' = [m_itemSpareRange EXCEPT ![c] = None]
    /\ connected' = connected \ {c}
    /\ toDB' = [toDB EXCEPT ![c] = <<>>]
    /\ toCore' = [toCore EXCEPT ![c] = <<>>]
    /\ place' = [id \in ID |-> IF place[id] = At("cache", c)
                                 THEN At("cache", NoCore) ELSE place[id]]
    /\ dropped' = IF core[c] = "off" THEN dropped ELSE dropped \cup {c}
    /\ overlooked' = overlooked \cup Overlooked(c, m_itemRange[c])
                        \cup Overlooked(c, m_itemSpareRange[c])
    /\ UNCHANGED <<core, itemVars, created, duplicated>>

-----------------------------------------------------------------------------
(* Items: saved by their core into the cache of a player logged on there, or *)
(* queued for the item table (ReturnQuery); players log out and log on       *)
(* elsewhere with their cache; the cache is flushed; the queue is executed.  *)

Move(id, from, to) ==
    /\ place[id] = from
    /\ place' = [place EXCEPT ![id] = to]
    /\ UNCHANGED <<poolVars, connected, toDB, toCore, core, itemVars,
                   histVars>>

\* QUERY_ITEM_SAVE.
SaveItem(c, id) ==
    /\ core[c] \in {"run", "stop"} /\ c \in connected
    /\ \/ Move(id, At("core", c), At("cache", c))
       \/ Unseen /\ Move(id, At("core", c), At("queue", NoCore))

Logout(c, id) == Unseen /\ Move(id, At("cache", c), At("cache", NoCore))

Logon(c, id) ==
    c \in connected /\ Unseen /\ Move(id, At("cache", NoCore), At("cache", c))

\* FlushPlayerCache or UpdatePlayerCache, the statement executed at once or not.
FlushItem(id) ==
    \E at \in Core \cup {NoCore} :
       \/ Move(id, At("cache", at), At("table", NoCore))
       \/ Unseen /\ Move(id, At("cache", at), At("queue", NoCore))

Execute(id) == Move(id, At("queue", NoCore), At("table", NoCore))

-----------------------------------------------------------------------------

\* Build, for an item table without items.
Init ==
    /\ m_listData = [i \in 1 .. Len(Ranges) |->
                       [min |-> Ranges[i][1], max |-> Ranges[i][2],
                        usable |-> Ranges[i][1]]]
    /\ connected = {}
    /\ m_itemRange = [c \in Core |-> None]
    /\ m_itemSpareRange = [c \in Core |-> None]
    /\ toDB = [c \in Core |-> <<>>]
    /\ toCore = [c \in Core |-> <<>>]
    /\ core = [c \in Core |-> "off"]
    /\ m_dwCurrentID = [c \in Core |-> 0]
    /\ m_ItemIDRange = [c \in Core |-> None]
    /\ m_ItemIDSpareRange = [c \in Core |-> None]
    /\ place = [id \in ID |-> At("none", NoCore)]
    /\ created = 0
    /\ closings = 0
    /\ dropped = {}
    /\ overlooked = {}
    /\ duplicated = {}

CoreStep(c) ==
    \/ Start(c) \/ Reconnect(c) \/ Exit(c)
    \/ RecvBoot(c) \/ RecvSpare(c)
    \/ NewID(c) \/ NewIDFromSpare(c) \/ NoMoreID(c)

DBStep(c) == QueryBoot(c) \/ SendSpareItemIDRange(c) \/ RemovePeer(c)

ItemStep ==
    \E id \in ID :
       \/ \E c \in Core : SaveItem(c, id) \/ Logout(c, id) \/ Logon(c, id)
       \/ FlushItem(id)
       \/ Execute(id)

Next == (\E c \in Core : CoreStep(c) \/ DBStep(c)) \/ ItemStep

Spec == Init /\ [][Next]_vars

-----------------------------------------------------------------------------
(* What must hold                                                          *)

TypeOK ==
    /\ m_listData \in Seq(IDRange)
    /\ connected \subseteq Core
    /\ m_itemRange \in [Core -> IDRange \cup {None}]
    /\ m_itemSpareRange \in [Core -> IDRange \cup {None}]
    /\ toDB \in [Core -> Seq({"BOOT", "REQ_SPARE_ITEM_ID_RANGE"})]
    /\ toCore \in [Core -> Seq([range : IDRange \cup {None},
                                spare : IDRange \cup {None}])]
    /\ core \in [Core -> {"off", "boot", "run", "stop"}]
    /\ m_dwCurrentID \in [Core -> Nat]
    /\ m_ItemIDRange \in [Core -> IDRange \cup {None}]
    /\ m_ItemIDSpareRange \in [Core -> IDRange \cup {None}]
    /\ place \in [ID -> Place]
    /\ created \in 0 .. MaxCreate
    /\ closings \in 0 .. MaxClosings
    /\ dropped \subseteq Core
    /\ overlooked \subseteq ID
    /\ duplicated \subseteq ID

Overlap(r, s) == r.min <= s.max /\ s.min <= r.max

\* However cores boot, ask for spares, crash, lose their connections and come
\* back, the db never books an id twice: the ranges of the pool and those of
\* all peers are pairwise disjoint.
BooksDisjoint ==
    /\ \A i, j \in DOMAIN m_listData :
          i # j => ~Overlap(m_listData[i], m_listData[j])
    /\ \A i \in DOMAIN m_listData, c \in Core :
          \A r \in {m_itemRange[c], m_itemSpareRange[c]} \ {None} :
              ~Overlap(m_listData[i], r)
    /\ \A c, d \in Core :
          \A r \in {m_itemRange[c], m_itemSpareRange[c]} \ {None},
             s \in {m_itemRange[d], m_itemSpareRange[d]} \ {None} :
              Overlap(r, s) => r = s /\ c = d
    /\ \A c \in Core :
          m_itemRange[c] = m_itemSpareRange[c] => m_itemRange[c] = None

\* The core and its CPeer agree on the two ranges, but for the one message
\* between them; otherwise OnClose would return a range that is in use up, or
\* forget one.
InStep ==
    \A c \in connected \ dropped :
        core[c] = "run" =>
            \/ /\ toDB[c] = <<>> /\ toCore[c] = <<>>
               /\ m_ItemIDRange[c] = m_itemRange[c]
               /\ m_ItemIDSpareRange[c] = m_itemSpareRange[c]
            \/ /\ toDB[c] = <<"REQ_SPARE_ITEM_ID_RANGE">> /\ toCore[c] = <<>>
               /\ m_ItemIDRange[c] = m_itemSpareRange[c]
               /\ m_ItemIDSpareRange[c] = None
            \/ /\ toDB[c] = <<>> /\ Len(toCore[c]) = 1
               /\ m_ItemIDRange[c] = m_itemRange[c]
               /\ m_ItemIDSpareRange[c] = None
               /\ Head(toCore[c]).spare = m_itemSpareRange[c]

\* No id is given to an item while another has it, unless OnClose put its range
\* back without looking where it was in use.
OnlyOverlookedDuplicate == duplicated \subseteq overlooked
=============================================================================
