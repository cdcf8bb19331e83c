--------------------------- MODULE ItemCache_proofs ---------------------------
(***************************************************************************)
(* The types of ItemCache and the books of its caches, for any players,     *)
(* items and cores, and any bounds.                                        *)
(***************************************************************************)
EXTENDS ItemCache, TLAPS

\* CacheBooks, of any db.
Books(d) ==
    \A p \in Player :
        /\ \A i \in Item : i \in d.setItems[p] <=> d.entry[i].owner = p
        /\ p \notin d.players => d.setItems[p] = {}

\* A value a player's item is saved with, or loaded with.
OwnedRow == [owner : Player, box : BOOLEAN, ver : 0 .. MaxSave]

-----------------------------------------------------------------------------
(***************************************************************************)
(* The operators on caches keep types and books.                            *)
(***************************************************************************)

LEMMA ConstantTypes ==
    /\ FlushAge \in Nat /\ LogoutAge \in Nat /\ MaxSave \in Nat
    /\ Nobody \notin Player /\ Ground \notin Player /\ NoCore \notin Core
  BY CacheAssumption

LEMMA NoEntryType == NoEntry \in Entry /\ NoEntry.owner = Nobody
<1>1. 0 \in 0 .. MaxSave /\ 0 \in 0 .. FlushAge + 1
  BY ConstantTypes
<1> QED BY <1>1 DEF NoEntry, Entry

LEMMA ValueType == ASSUME NEW e \in Entry PROVE Value(e) \in Row
  BY DEF Entry, Value, RowOf, Row

LEMMA WriteType == ASSUME NEW row \in Row PROVE Write(row) \in Statement
  BY DEF Write, Statement

LEMMA CleanType == ASSUME NEW e \in Entry
                   PROVE  /\ [e EXCEPT !.need = FALSE, !.age = 0] \in Entry
                          /\ [e EXCEPT !.need = FALSE, !.age = 0].owner = e.owner
<1>1. 0 \in 0 .. FlushAge + 1
  BY ConstantTypes
<1> QED BY <1>1 DEF Entry

LEMMA FlushType ==
    ASSUME NEW d \in DB, NEW I \in SUBSET Item
    PROVE  /\ Flush(d, I) \in DB
           /\ Flush(d, I).players = d.players
           /\ Flush(d, I).setItems = d.setItems
           /\ \A i \in Item : Flush(d, I).entry[i].owner = d.entry[i].owner
<1> DEFINE dirty == {i \in I : d.entry[i].need}
           st == [i \in Item |-> IF i \in dirty
                    THEN Append(d.stuff[i], Write(Value(d.entry[i])))
                    ELSE d.stuff[i]]
           en == [i \in Item |-> IF i \in dirty
                    THEN [d.entry[i] EXCEPT !.need = FALSE, !.age = 0]
                    ELSE d.entry[i]]
<1>1. /\ d.entry \in [Item -> Entry]
      /\ d.stuff \in [Item -> Seq(Statement)]
  BY DEF DB
<1>2. st \in [Item -> Seq(Statement)]
  <2> SUFFICES ASSUME NEW i \in Item PROVE st[i] \in Seq(Statement)
    OBVIOUS
  <2>1. Write(Value(d.entry[i])) \in Statement
    BY <1>1, ValueType, WriteType
  <2> QED BY <1>1, <2>1
<1>3. en \in [Item -> Entry] /\ \A i \in Item : en[i].owner = d.entry[i].owner
  BY <1>1, CleanType
<1>4. Flush(d, I) = [d EXCEPT !.stuff = st, !.entry = en]
  BY DEF Flush
<1> HIDE DEF st, en
<1> QED BY <1>2, <1>3, <1>4 DEF DB

LEMMA FlushBooks ==
    ASSUME NEW d \in DB, Books(d), NEW I \in SUBSET Item
    PROVE  Books(Flush(d, I))
  BY FlushType DEF Books

LEMMA FlushPlayerCacheType ==
    ASSUME NEW d \in DB, Books(d), NEW P \in SUBSET Player
    PROVE  FlushPlayerCache(d, P) \in DB /\ Books(FlushPlayerCache(d, P))
<1> DEFINE gone == P \cap d.players
           I == UNION {d.setItems[p] : p \in gone}
           f == Flush(d, I)
           se == [p \in Player |-> IF p \in gone THEN {} ELSE d.setItems[p]]
           en == [i \in Item |-> IF i \in I THEN NoEntry ELSE f.entry[i]]
<1>1. d.players \in SUBSET Player /\ d.setItems \in [Player -> SUBSET Item]
  BY DEF DB
<1>2. I \in SUBSET Item
  BY <1>1
<1>3. /\ f \in DB
      /\ \A i \in Item : f.entry[i].owner = d.entry[i].owner
  BY <1>2, FlushType
<1>4. f.entry \in [Item -> Entry] /\ d.entry \in [Item -> Entry]
  BY <1>3 DEF DB
<1>5. FlushPlayerCache(d, P) = [f EXCEPT !.players = d.players \ gone,
                                         !.setItems = se, !.entry = en]
  BY DEF FlushPlayerCache
<1>6. se \in [Player -> SUBSET Item]
  BY <1>1
<1>7. en \in [Item -> Entry]
  BY <1>4, NoEntryType
<1>8. \A p \in Player :
         /\ \A i \in Item : i \in se[p] <=> en[i].owner = p
         /\ p \notin d.players \ gone => se[p] = {}
  <2> SUFFICES ASSUME NEW p \in Player
               PROVE  /\ \A i \in Item : i \in se[p] <=> en[i].owner = p
                      /\ p \notin d.players \ gone => se[p] = {}
    OBVIOUS
  <2>1. ASSUME NEW i \in Item PROVE i \in se[p] <=> en[i].owner = p
    <3>1. CASE i \in I
      <4>1. PICK q \in gone : i \in d.setItems[q]
        BY <3>1
      <4>2. d.entry[i].owner = q
        BY <4>1, <1>1 DEF Books
      <4>3. i \in d.setItems[p] => p = q
        BY <4>2 DEF Books
      <4>4. i \notin se[p]
        BY <4>1, <4>3
      <4> QED BY <3>1, <4>4, NoEntryType, ConstantTypes
    <3>2. CASE i \notin I
      <4>1. en[i].owner = d.entry[i].owner
        BY <3>2, <1>3
      <4>2. i \in se[p] <=> i \in d.setItems[p]
        BY <3>2
      <4> QED BY <4>1, <4>2 DEF Books
    <3> QED BY <3>1, <3>2
  <2>2. p \notin d.players \ gone => se[p] = {}
    BY DEF Books
  <2> QED BY <2>1, <2>2
<1> HIDE DEF f, se, en
<1>9. FlushPlayerCache(d, P) \in DB
  BY <1>1, <1>3, <1>5, <1>6, <1>7 DEF DB
<1>10. Books(FlushPlayerCache(d, P))
  BY <1>3, <1>5, <1>8 DEF Books, DB
<1> QED BY <1>9, <1>10

LEMMA LeaveType ==
    ASSUME NEW d \in DB, NEW I \in SUBSET Item
    PROVE  Leave(d, I) \in [Player -> SUBSET Item]
  BY DEF Leave, DB

LEMMA EraseItemCacheType ==
    ASSUME NEW d \in DB, Books(d), NEW I \in SUBSET Item
    PROVE  EraseItemCache(d, I) \in DB /\ Books(EraseItemCache(d, I))
<1> DEFINE en == [i \in Item |-> IF i \in I THEN NoEntry ELSE d.entry[i]]
<1>1. d.setItems \in [Player -> SUBSET Item] /\ d.entry \in [Item -> Entry]
  BY DEF DB
<1>2. en \in [Item -> Entry]
  BY <1>1, NoEntryType
<1>3. EraseItemCache(d, I) = [d EXCEPT !.setItems = Leave(d, I), !.entry = en]
  BY DEF EraseItemCache
<1>4. \A p \in Player :
         /\ \A i \in Item : i \in Leave(d, I)[p] <=> en[i].owner = p
         /\ p \notin d.players => Leave(d, I)[p] = {}
  <2> SUFFICES ASSUME NEW p \in Player
               PROVE  /\ \A i \in Item : i \in Leave(d, I)[p] <=> en[i].owner = p
                      /\ p \notin d.players => Leave(d, I)[p] = {}
    OBVIOUS
  <2>1. Leave(d, I)[p] = d.setItems[p] \ {i \in I : d.entry[i].owner = p}
    BY DEF Leave
  <2>2. /\ \A i \in Item : i \in d.setItems[p] <=> d.entry[i].owner = p
        /\ p \notin d.players => d.setItems[p] = {}
    BY DEF Books
  <2>3. ASSUME NEW i \in Item PROVE i \in Leave(d, I)[p] <=> en[i].owner = p
    <3>1. CASE i \in I
      BY <2>1, <2>2, <3>1, NoEntryType, ConstantTypes
    <3>2. CASE i \notin I
      BY <2>1, <2>2, <3>2
    <3> QED BY <3>1, <3>2
  <2> QED BY <2>1, <2>2, <2>3
<1> HIDE DEF en
<1>5. EraseItemCache(d, I) \in DB
  <2>1. Leave(d, I) \in [Player -> SUBSET Item]
    BY LeaveType
  <2> QED BY <1>2, <1>3, <2>1 DEF DB
<1>6. Books(EraseItemCache(d, I))
  BY <1>3, <1>4 DEF Books, DB
<1> QED BY <1>5, <1>6

LEMMA PutEntryType ==
    ASSUME NEW e \in Entry, NEW row \in OwnedRow, NEW skip \in BOOLEAN
    PROVE  PutEntry(e, row, skip) \in Entry /\ PutEntry(e, row, skip).owner = row.owner
<1> DEFINE need == e.need \/ ~skip
<1>1. need \in BOOLEAN
  OBVIOUS
<1>2. /\ row.owner \in Player \cup {Nobody} /\ row.ver \in 0 .. MaxSave
      /\ e.age \in 0 .. FlushAge + 1
  BY DEF OwnedRow, Entry
<1>3. PutEntry(e, row, skip) =
        [owner |-> row.owner, live |-> TRUE, ver |-> row.ver, need |-> need, age |-> e.age]
  BY DEF PutEntry
<1> HIDE DEF need
<1> QED BY <1>1, <1>2, <1>3 DEF Entry

\* The new owner's set gets the item before it is known whether he has a cache.
LEMMA PutItemCacheType ==
    ASSUME NEW d \in DB, Books(d), NEW I \in SUBSET Item,
           NEW row, \A i \in I : row[i] \in OwnedRow, NEW skip \in BOOLEAN
    PROVE  PutItemCache(d, I, row, skip) \in DB /\ Books(PutItemCache(d, I, row, skip))
<1> DEFINE isNew == {i \in I : d.entry[i].owner # row[i].owner}
           refused == {i \in isNew : row[i].owner \notin d.players}
           left == Leave(d, isNew)
           se == [p \in Player |-> left[p] \cup {i \in isNew \ refused : row[i].owner = p}]
           en == [i \in Item |->
                    CASE i \in refused -> NoEntry
                      [] i \in I \ refused -> PutEntry(d.entry[i], row[i], skip)
                      [] OTHER -> d.entry[i]]
           st == [i \in Item |-> IF i \in refused /\ ~skip
                    THEN Append(d.stuff[i], Write(row[i])) ELSE d.stuff[i]]
<1>1. /\ d.players \in SUBSET Player
      /\ d.setItems \in [Player -> SUBSET Item]
      /\ d.entry \in [Item -> Entry]
      /\ d.stuff \in [Item -> Seq(Statement)]
  BY DEF DB
<1>2. isNew \in SUBSET Item /\ refused \in SUBSET isNew /\ isNew \in SUBSET I
  OBVIOUS
<1>3. \A p \in Player : left[p] = d.setItems[p] \ {i \in isNew : d.entry[i].owner = p}
  BY DEF Leave
<1>4. se \in [Player -> SUBSET Item]
  BY <1>1, <1>2, <1>3
<1>5. \A i \in I : /\ PutEntry(d.entry[i], row[i], skip) \in Entry
                   /\ PutEntry(d.entry[i], row[i], skip).owner = row[i].owner
  BY <1>1, PutEntryType
<1>6. \A i \in Item :
         /\ i \in refused => en[i] = NoEntry
         /\ i \in I \ refused => en[i] = PutEntry(d.entry[i], row[i], skip)
         /\ i \notin I => en[i] = d.entry[i]
  BY <1>2
<1>7. en \in [Item -> Entry]
  <2> SUFFICES ASSUME NEW i \in Item PROVE en[i] \in Entry
    OBVIOUS
  <2> QED BY <1>1, <1>5, <1>6, NoEntryType
<1>8. st \in [Item -> Seq(Statement)]
  <2> SUFFICES ASSUME NEW i \in Item PROVE st[i] \in Seq(Statement)
    OBVIOUS
  <2>1. CASE i \in refused /\ ~skip
    <3>1. row[i] \in Row
      BY <2>1 DEF OwnedRow, Row
    <3> QED BY <2>1, <3>1, <1>1, WriteType
  <2>2. CASE ~(i \in refused /\ ~skip)
    BY <2>2, <1>1
  <2> QED BY <2>1, <2>2
<1>9. ASSUME NEW p \in Player, NEW i \in Item
      PROVE  i \in se[p] <=> en[i].owner = p
  <2> HIDE DEF en, left, isNew, refused
  <2>0. se[p] = (d.setItems[p] \ {j \in isNew : d.entry[j].owner = p})
                   \cup {j \in isNew \ refused : row[j].owner = p}
    BY <1>3
  <2> HIDE DEF se
  <2>1. i \in d.setItems[p] <=> d.entry[i].owner = p
    BY DEF Books
  <2>2. CASE i \in refused
    BY <2>0, <2>1, <2>2, <1>2, <1>6, NoEntryType, ConstantTypes
  <2>3. CASE i \in isNew \ refused
    BY <2>0, <2>1, <2>3, <1>2, <1>5, <1>6
  <2>4. CASE i \in I \ isNew
    <3>1. d.entry[i].owner = row[i].owner
      BY <2>4 DEF isNew
    <3> QED BY <3>1, <2>0, <2>1, <2>4, <1>2, <1>5, <1>6
  <2>5. CASE i \notin I
    BY <2>0, <2>1, <2>5, <1>2, <1>6
  <2> QED BY <2>2, <2>3, <2>4, <2>5
<1>10. ASSUME NEW p \in Player, p \notin d.players PROVE se[p] = {}
  <2>1. d.setItems[p] = {}
    BY <1>10 DEF Books
  <2>2. {j \in isNew \ refused : row[j].owner = p} = {}
    BY <1>10
  <2> QED BY <2>1, <2>2, <1>3
<1>11. PutItemCache(d, I, row, skip) =
          [d EXCEPT !.setItems = se, !.entry = en, !.stuff = st]
  BY DEF PutItemCache
<1> HIDE DEF se, en, st
<1>12. PutItemCache(d, I, row, skip) \in DB
  BY <1>4, <1>7, <1>8, <1>11 DEF DB
<1>13. Books(PutItemCache(d, I, row, skip))
  BY <1>9, <1>10, <1>11 DEF Books, DB
<1> QED BY <1>12, <1>13

LEMMA QueryItemSaveType ==
    ASSUME NEW d \in DB, Books(d), NEW i \in Item, NEW row \in OwnedRow
    PROVE  QueryItemSave(d, i, row) \in DB /\ Books(QueryItemSave(d, i, row))
<1>1. CASE row.box
  <2> DEFINE e == EraseItemCache(d, {i})
  <2>1. e \in DB /\ Books(e)
    BY EraseItemCacheType
  <2>2. QueryItemSave(d, i, row) =
           [e EXCEPT !.direct = [e.direct EXCEPT ![i] = Append(e.direct[i], Write(row))]]
    BY <1>1 DEF QueryItemSave
  <2>3. Write(row) \in Statement
    BY WriteType DEF OwnedRow, Row
  <2> HIDE DEF e
  <2>4. [e.direct EXCEPT ![i] = Append(e.direct[i], Write(row))] \in [Item -> Seq(Statement)]
    BY <2>1, <2>3 DEF DB
  <2> QED BY <2>1, <2>2, <2>4 DEF DB, Books
<1>2. CASE ~row.box
  <2>1. QueryItemSave(d, i, row) = PutItemCache(d, {i}, [j \in {i} |-> row], FALSE)
    BY <1>2 DEF QueryItemSave
  <2> QED BY <2>1, PutItemCacheType
<1> QED BY <1>1, <1>2

LEMMA QueryItemDestroyType ==
    ASSUME NEW d \in DB, Books(d), NEW i \in Item, NEW v \in 0 .. MaxSave
    PROVE  QueryItemDestroy(d, i, v) \in DB /\ Books(QueryItemDestroy(d, i, v))
<1> DEFINE delete == Write(RowOf(Nobody, FALSE, v))
           e == [d.entry[i] EXCEPT !.live = FALSE, !.ver = v, !.need = FALSE]
<1>1. delete \in Statement
  BY WriteType DEF RowOf, Row
<1>2. /\ d.entry \in [Item -> Entry]
      /\ d.stuff \in [Item -> Seq(Statement)]
      /\ d.direct \in [Item -> Seq(Statement)]
  BY DEF DB
<1> HIDE DEF delete
<1>3. CASE d.entry[i].owner # Nobody /\ d.entry[i].live
  <2>1. e \in Entry /\ e.owner = d.entry[i].owner
    BY <1>2 DEF Entry
  <2> DEFINE en == [d.entry EXCEPT ![i] = e]
             st == [d.stuff EXCEPT ![i] = Append(d.stuff[i], delete)]
  <2>2. QueryItemDestroy(d, i, v) = [d EXCEPT !.entry = en, !.stuff = st]
    BY <1>3 DEF QueryItemDestroy, delete
  <2> HIDE DEF e
  <2>3. /\ en \in [Item -> Entry]
        /\ \A j \in Item : en[j].owner = d.entry[j].owner
        /\ st \in [Item -> Seq(Statement)]
    BY <1>1, <1>2, <2>1
  <2> HIDE DEF en, st
  <2> DEFINE r == [d EXCEPT !.entry = en, !.stuff = st]
  <2>4. r \in DB
    BY <2>3 DEF DB
  <2>5. r.players = d.players /\ r.setItems = d.setItems /\ r.entry = en
    BY DEF DB
  <2> HIDE DEF r
  <2>6. Books(r)
    BY <2>3, <2>5 DEF Books
  <2> QED BY <2>2, <2>4, <2>6 DEF r
<1>4. CASE d.entry[i].owner = Nobody
  <2>1. QueryItemDestroy(d, i, v) =
          [d EXCEPT !.direct = [d.direct EXCEPT ![i] = Append(d.direct[i], delete)]]
    BY <1>4 DEF QueryItemDestroy, delete
  <2>2. [d.direct EXCEPT ![i] = Append(d.direct[i], delete)] \in [Item -> Seq(Statement)]
    BY <1>1, <1>2
  <2> QED BY <2>1, <2>2 DEF DB, Books
<1>5. CASE ~d.entry[i].live /\ d.entry[i].owner # Nobody
  BY <1>5 DEF QueryItemDestroy
<1> QED BY <1>3, <1>4, <1>5

LEMMA FlushDueType ==
    ASSUME NEW d \in DB, Books(d), NEW V \in SUBSET Player
    PROVE  FlushDue(d, V) \in DB /\ Books(FlushDue(d, V))
<1> DEFINE I == UNION {d.setItems[p] : p \in V}
           J == {i \in I : d.entry[i].need /\ d.entry[i].age > FlushAge}
<1>1. J \in SUBSET Item
  BY DEF DB
<1>2. FlushDue(d, V) = Flush(d, J)
  BY DEF FlushDue
<1> HIDE DEF J
<1> QED BY <1>1, <1>2, FlushType, FlushBooks

LEMMA OlderType ==
    ASSUME db \in DB, Books(db)
    PROVE  Older \in DB /\ Books(Older)
<1> DEFINE en == [i \in Item |-> IF Cached(i)
                    THEN [db.entry[i] EXCEPT !.age = Later(@, FlushAge + 1)]
                    ELSE db.entry[i]]
<1>1. db.entry \in [Item -> Entry]
  BY DEF DB
<1>2. \A i \in Item : en[i] \in Entry /\ en[i].owner = db.entry[i].owner
  <2> SUFFICES ASSUME NEW i \in Item
               PROVE  en[i] \in Entry /\ en[i].owner = db.entry[i].owner
    OBVIOUS
  <2>1. db.entry[i] \in Entry
    BY <1>1
  <2>2. Later(db.entry[i].age, FlushAge + 1) \in 0 .. FlushAge + 1
    BY <2>1, ConstantTypes DEF Later, Entry
  <2> QED BY <2>1, <2>2 DEF Entry
<1>3. Older = [db EXCEPT !.entry = en]
  BY DEF Older
<1>4. en \in [Item -> Entry]
  BY <1>2
<1> HIDE DEF en
<1>5. Older \in DB
  BY <1>3, <1>4 DEF DB
<1>6. Books(Older)
  BY <1>2, <1>3 DEF DB, Books
<1> QED BY <1>5, <1>6

-----------------------------------------------------------------------------
(***************************************************************************)
(* Types and books are inductive, together: that an item saved for an owner *)
(* who has a cache can be put there needs the books, that the owner of a row *)
(* a load found is a player needs the types, that an answer sets only a     *)
(* session that is on a core to play needs to know whom it goes to.         *)
(***************************************************************************)

\* An answer that goes to a session goes to the one that asked: its player is
\* still on the core the load came from.
Addressed ==
    \A k \in DOMAIN load :
        load[k].to = "session" => session[load[k].pid].core = load[k].peer

CacheInv == TypeOK /\ CacheBooks /\ Addressed

\* What a save leaves: the new value of the item, and its db.
LEMMA SendSaveType ==
    ASSUME TypeOK, CacheBooks, NEW i \in Item, NEW p \in Player, NEW box \in BOOLEAN,
           SendSave(i, RowOf(p, box, NextVer(i)))
    PROVE  /\ db' \in DB /\ Books(db')
           /\ saved' \in [Item -> Row]
           /\ raced' \in SUBSET Item
           /\ UNCHANGED <<load, table, logout, isPlay, session, flushed, down>>
<1> DEFINE row == RowOf(p, box, NextVer(i))
<1>1. NextVer(i) \in 0 .. MaxSave
  <2>1. saved[i] \in Row /\ saved[i].ver < MaxSave
    BY DEF TypeOK, SendSave, CanSave
  <2>2. saved[i].ver \in 0 .. MaxSave
    BY <2>1 DEF Row
  <2> QED BY <2>1, <2>2, ConstantTypes DEF NextVer
<1>2. row \in OwnedRow /\ row \in Row
  BY <1>1 DEF RowOf, OwnedRow, Row
<1> HIDE DEF row
<1>3. db' = QueryItemSave(db, i, row) /\ saved' = [saved EXCEPT ![i] = row]
  BY DEF SendSave, row
<1>4. db' \in DB /\ Books(db')
  <2>1. db \in DB /\ Books(db)
    BY DEF TypeOK, CacheBooks, Books
  <2> QED BY <1>2, <1>3, <2>1, QueryItemSaveType
<1>5. saved' \in [Item -> Row]
  BY <1>2, <1>3 DEF TypeOK
<1>6. raced' \in SUBSET Item
  BY DEF SendSave, RacesLoad, TypeOK
<1> QED BY <1>4, <1>5, <1>6 DEF SendSave

LEMMA PlaysOnCore ==
    ASSUME TypeOK, NEW p \in Player, session[p].phase # "off"
    PROVE  CoreOf(p) \in Core
  BY DEF TypeOK, Session, CoreOf

LEMMA InitInv == Init => CacheInv
<1> SUFFICES ASSUME Init PROVE CacheInv
  OBVIOUS
<1>1. 0 \in 0 .. MaxSave /\ NotOut \in 0 .. LogoutAge + 2
  BY ConstantTypes DEF NotOut
<1>2. db \in DB /\ CacheBooks
  BY NoEntryType, ConstantTypes DEF Init, DB, CacheBooks
<1>3. load \in Seq(Select)
  BY DEF Init
<1>4. /\ table \in [Item -> Row] /\ saved \in [Item -> Row]
      /\ logout \in [Player -> 0 .. LogoutAge + 2]
      /\ isPlay \subseteq Player
      /\ flushed \subseteq Player /\ raced \subseteq Item /\ down \in BOOLEAN
  BY <1>1 DEF Init
<1>5. /\ session \in [Player -> Session]
      /\ \A p \in Player : CoreOf(p) = NoCore <=> session[p].phase = "off"
      /\ open \subseteq {p \in Player : Playing(p)}
  BY DEF Init, Session, Off, CoreOf
<1>6. /\ on \in [Core -> [Item -> Player \cup {Ground, Nobody}]]
      /\ inBox \in [Core -> SUBSET Item]
  BY DEF Init
<1>7. Addressed
  BY DEF Init, Addressed
<1> QED BY <1>2, <1>3, <1>4, <1>5, <1>6, <1>7 DEF CacheInv, TypeOK

\* A step that leaves the caches alone, whatever it does to the queues.
LEMMA SameCaches ==
    ASSUME CacheBooks, db' \in DB, db'.players = db.players,
           db'.setItems = db.setItems, db'.entry = db.entry
    PROVE  CacheBooks'
  BY DEF CacheBooks

LEMMA SameLoads ==
    ASSUME Addressed, UNCHANGED <<load, session>>
    PROVE  Addressed'
  BY DEF Addressed

LEMMA TailIndex ==
    ASSUME NEW l \in Seq(Select), l # <<>>
    PROVE  \A k \in DOMAIN Tail(l) : k + 1 \in DOMAIN l /\ Tail(l)[k] = l[k + 1]
<1>1. /\ Tail(l) \in Seq(Select) /\ Len(Tail(l)) = Len(l) - 1
      /\ Len(l) \in Nat \ {0}
  OBVIOUS
<1>2. DOMAIN Tail(l) = 1 .. Len(Tail(l)) /\ DOMAIN l = 1 .. Len(l)
  BY <1>1
<1>3. ASSUME NEW k \in 1 .. Len(Tail(l)) PROVE k + 1 \in 1 .. Len(l) /\ Tail(l)[k] = l[k + 1]
  BY <1>1
<1> QED BY <1>2, <1>3

LEMMA GiveType ==
    ASSUME TypeOK, NEW c \in Core, NEW p \in Player, NEW I \in SUBSET Item, Give(c, p, I)
    PROVE  on' \in [Core -> [Item -> Player \cup {Ground, Nobody}]]
  BY DEF TypeOK, Give

LEMMA SelectOfType ==
    ASSUME NEW what \in {"player", "item"}, NEW p \in Player, NEW c \in Core
    PROVE  SelectOf(what, p, c) \in Select
<1>1. NoRow \in Row
  BY ConstantTypes DEF NoRow, RowOf, Row
<1> QED BY <1>1 DEF SelectOf, Select

\* Marking SELECTs keeps them SELECTs.
LEMMA RedirectType ==
    ASSUME NEW l \in Seq(Select), NEW M \in SUBSET (DOMAIN l),
           NEW to \in {"session", "nobody", "dropped"}
    PROVE  [k \in DOMAIN l |-> IF k \in M THEN [l[k] EXCEPT !.to = to] ELSE l[k]]
              \in Seq(Select)
<1> DEFINE r == [k \in DOMAIN l |-> IF k \in M THEN [l[k] EXCEPT !.to = to] ELSE l[k]]
<1>1. DOMAIN l = 1 .. Len(l) /\ Len(l) \in Nat
  OBVIOUS
<1>2. \A k \in 1 .. Len(l) : r[k] \in Select
  <2> SUFFICES ASSUME NEW k \in 1 .. Len(l) PROVE r[k] \in Select
    OBVIOUS
  <2>1. l[k] \in Select
    BY <1>1
  <2>2. r[k] = IF k \in M THEN [l[k] EXCEPT !.to = to] ELSE l[k]
    BY <1>1
  <2> HIDE DEF r
  <2> QED BY <2>1, <2>2 DEF Select
<1>3. r = [k \in 1 .. Len(l) |-> r[k]]
  BY <1>1
<1> HIDE DEF r
<1>4. r \in [1 .. Len(l) -> Select]
  BY <1>2, <1>3
<1>5. r \in Seq(Select)
  BY <1>1, <1>4
<1> QED BY <1>5 DEF r

LEMMA LoginInv ==
    ASSUME CacheInv, NEW p \in Player, NEW c \in Core, Login(p, c)
    PROVE  CacheInv'
<1> USE DEF CacheInv
<1>1. db' = db /\ db \in DB /\ CacheBooks'
  BY SameCaches DEF Login, TypeOK
<1>2. logout' \in [Player -> 0 .. LogoutAge + 2]
  BY ConstantTypes DEF Login, TypeOK, NotOut
<1>3. isPlay' \subseteq Player
  BY DEF Login, TypeOK
<1>4. /\ session' \in [Player -> Session]
      /\ \A q \in Player : session'[q].core = NoCore <=> session'[q].phase = "off"
      /\ \A q \in Player : Playing(q) => session'[q].phase = "play"
  <2>1. /\ session \in [Player -> Session] /\ session[p] = Off
        /\ \A q \in Player : session[q].core = NoCore <=> session[q].phase = "off"
    BY DEF Login, TypeOK, CoreOf
  <2>2. PICK phase \in {"wait", "play"} :
           session' = [session EXCEPT ![p] = [core |-> c, phase |-> phase]]
    BY DEF Login
  <2>3. [core |-> c, phase |-> phase] \in Session
    BY <2>2 DEF Session
  <2> QED BY <2>1, <2>2, <2>3, ConstantTypes DEF Off, Playing
<1>5. on' \in [Core -> [Item -> Player \cup {Ground, Nobody}]]
  <2>1. CASE UNCHANGED on
    BY <2>1 DEF TypeOK
  <2>2. CASE Give(c, p, {i \in db.setItems[p] : db.entry[i].live})
    <3>1. {i \in db.setItems[p] : db.entry[i].live} \in SUBSET Item
      BY DEF TypeOK, DB
    <3> QED BY <2>2, <3>1, GiveType
  <2> QED BY <2>1, <2>2 DEF Login
<1>6. load' \in Seq(Select)
  <2>1. SelectOf("player", p, c) \in Select /\ SelectOf("item", p, c) \in Select
    BY SelectOfType
  <2>2. <<SelectOf("player", p, c), SelectOf("item", p, c)>> \in Seq(Select)
    BY <2>1
  <2>3. load \in Seq(Select)
    BY DEF TypeOK
  <2>4. load' = load \/ load' = load \o <<SelectOf("player", p, c), SelectOf("item", p, c)>>
    BY DEF Login
  <2> QED BY <2>2, <2>3, <2>4
<1>7. UNCHANGED <<db, table, inBox, open, saved, flushed, raced, down>>
  BY DEF Login
<1>8. Addressed'
  <2>1. /\ session[p].core = NoCore /\ session'[p].core = c
        /\ \A q \in Player : q # p => session'[q] = session[q]
    BY DEF Login, TypeOK, Off
  <2>2. ASSUME NEW k \in DOMAIN load', load'[k].to = "session"
        PROVE  session'[load'[k].pid].core = load'[k].peer
    <3>1. load \in Seq(Select) /\ load' \in Seq(Select)
      BY <1>6 DEF TypeOK
    <3>2. CASE k \in DOMAIN load
      <4>1. load'[k] = load[k] /\ load[k] \in Select
        BY <3>1, <3>2, SelectOfType DEF Login
      <4>2. session[load[k].pid].core = load[k].peer
        BY <2>2, <3>2, <4>1 DEF Addressed
      <4>3. load[k].peer \in Core /\ load[k].pid \in Player
        BY <4>1 DEF Select
      <4>4. load[k].pid # p
        BY <2>1, <4>2, <4>3, ConstantTypes
      <4> QED BY <2>1, <4>1, <4>2, <4>3, <4>4
    <3>3. CASE k \notin DOMAIN load
      <4>1. load' = load \o <<SelectOf("player", p, c), SelectOf("item", p, c)>>
        BY <2>2, <3>3 DEF Login
      <4>2. load'[k] \in {SelectOf("player", p, c), SelectOf("item", p, c)}
        BY <3>1, <3>3, <4>1, <2>2
      <4>3. load'[k].pid = p /\ load'[k].peer = c
        BY <4>2 DEF SelectOf
      <4> QED BY <2>1, <4>3
    <3> QED BY <3>2, <3>3
  <2> QED BY <2>2 DEF Addressed
<1> QED BY <1>1, <1>2, <1>3, <1>4, <1>5, <1>6, <1>7, <1>8 DEF TypeOK, CoreOf, Playing

LEMMA RunSelectInv ==
    ASSUME CacheInv, NEW k \in DOMAIN load, RunSelect(k)
    PROVE  CacheInv'
<1> USE DEF CacheInv
<1> DEFINE rows == [i \in Item |-> IF i \in Finds(k) THEN table[i] ELSE NoRow]
           select == [load[k] EXCEPT !.run = TRUE, !.rows = rows]
<1>1. NoRow \in Row
  BY ConstantTypes DEF NoRow, RowOf, Row
<1>2. rows \in [Item -> Row]
  BY <1>1 DEF TypeOK
<1>3. load[k] \in Select /\ load \in Seq(Select)
  BY DEF TypeOK
<1> HIDE DEF rows
<1>4. /\ select \in Select
      /\ select.to = load[k].to /\ select.pid = load[k].pid /\ select.peer = load[k].peer
  BY <1>2, <1>3 DEF Select
<1>5. load' = [load EXCEPT ![k] = select]
  BY DEF RunSelect, rows
<1> HIDE DEF select
<1>6. load' \in Seq(Select)
  BY <1>3, <1>4, <1>5
<1>7. raced' \subseteq Item
  BY DEF RunSelect, TypeOK, Finds
<1>8. UNCHANGED <<db, table, logout, isPlay, session, on, inBox, open, saved, flushed, down>>
  BY DEF RunSelect, coreVars
<1>9. CacheBooks'
  BY <1>8, SameCaches DEF TypeOK
<1>10. Addressed'
  BY <1>3, <1>4, <1>5, <1>8 DEF Addressed
<1> QED BY <1>6, <1>7, <1>8, <1>9, <1>10 DEF TypeOK, CoreOf, Playing

LEMMA ResultPlayerLoadInv == CacheInv /\ ResultPlayerLoad => CacheInv'
<1> SUFFICES ASSUME CacheInv, ResultPlayerLoad PROVE CacheInv'
  OBVIOUS
<1> USE DEF CacheInv
<1> DEFINE s == Head(load)
<1>1. load \in Seq(Select) /\ load # <<>>
  BY DEF TypeOK, ResultPlayerLoad
<1>2. s \in Select /\ load' \in Seq(Select)
  BY <1>1 DEF ResultPlayerLoad
<1>3. s.pid \in Player
  BY <1>2 DEF Select
<1> HIDE DEF s
<1>4. isPlay' \subseteq Player /\ flushed' \subseteq Player
  BY <1>3 DEF ResultPlayerLoad, TypeOK, s
<1>5. db' \in DB /\ CacheBooks'
  <2>1. CASE db' = db
    BY <2>1, SameCaches DEF TypeOK
  <2>2. CASE db' = [db EXCEPT !.players = @ \cup {s.pid}]
    BY <2>2, <1>3 DEF TypeOK, DB, CacheBooks
  <2> QED BY <2>1, <2>2 DEF ResultPlayerLoad, s
<1>6. UNCHANGED <<table, logout, on, inBox, open, saved, raced, down>>
  BY DEF ResultPlayerLoad
<1>7. /\ session' \in [Player -> Session]
      /\ \A q \in Player : session'[q].core = NoCore <=> session'[q].phase = "off"
      /\ \A q \in Player : Playing(q) => session'[q].phase = "play"
      /\ \A q \in Player : session'[q].core = session[q].core
  <2>1. /\ session \in [Player -> Session]
        /\ \A q \in Player : session[q].core = NoCore <=> session[q].phase = "off"
    BY DEF TypeOK, CoreOf
  <2>2. CASE UNCHANGED session
    BY <2>1, <2>2 DEF Playing
  <2>3. CASE s.to = "session" /\ session' = [session EXCEPT ![s.pid].phase = "play"]
    <3>1. session[s.pid].core = s.peer
      BY <1>1, <2>3 DEF Addressed, s
    <3>2. s.peer \in Core
      BY <1>2 DEF Select
    <3>3. session[s.pid] \in Session /\ session[s.pid].core # NoCore
      BY <1>3, <2>1, <3>1, <3>2, ConstantTypes
    <3>4. /\ [session[s.pid] EXCEPT !.phase = "play"] \in Session
          /\ [session[s.pid] EXCEPT !.phase = "play"].core = session[s.pid].core
          /\ [session[s.pid] EXCEPT !.phase = "play"].phase = "play"
      BY <3>3 DEF Session
    <3>5. session' = [session EXCEPT ![s.pid] = [session[s.pid] EXCEPT !.phase = "play"]]
      BY <2>3
    <3> QED BY <1>3, <2>1, <3>3, <3>4, <3>5 DEF Playing
  <2> QED BY <2>2, <2>3 DEF ResultPlayerLoad, s
<1>8. Addressed'
  <2>1. \A k \in DOMAIN load' : k + 1 \in DOMAIN load /\ load'[k] = load[k + 1]
    BY <1>1, TailIndex DEF ResultPlayerLoad
  <2>2. \A k \in DOMAIN load : load[k].pid \in Player
    <3>1. \A k \in DOMAIN load : load[k] \in Select
      BY <1>1
    <3> QED BY <3>1 DEF Select
  <2> QED BY <1>7, <2>1, <2>2 DEF Addressed
<1> QED BY <1>2, <1>4, <1>5, <1>6, <1>7, <1>8 DEF TypeOK, CoreOf, Playing

LEMMA ResultItemLoadInv == CacheInv /\ ResultItemLoad => CacheInv'
<1> SUFFICES ASSUME CacheInv, ResultItemLoad PROVE CacheInv'
  OBVIOUS
<1> USE DEF CacheInv
<1> DEFINE s == Head(load)
           I == {i \in Item : s.rows[i].owner # Nobody}
<1>1. load \in Seq(Select) /\ load # <<>>
  BY DEF TypeOK, ResultItemLoad
<1>2. s \in Select /\ load' \in Seq(Select)
  BY <1>1 DEF ResultItemLoad
<1>3. s.pid \in Player /\ s.rows \in [Item -> Row]
  BY <1>2 DEF Select
<1>4. \A i \in I : s.rows[i] \in OwnedRow
  BY <1>3 DEF Row, OwnedRow
<1> HIDE DEF s
<1>5. db' \in DB /\ CacheBooks'
  <2>1. db \in DB /\ Books(db)
    BY DEF TypeOK, CacheBooks, Books
  <2>2. db' = db \/ db' = PutItemCache(db, I, s.rows, TRUE)
    BY DEF ResultItemLoad, s
  <2>3. I \in SUBSET Item
    OBVIOUS
  <2> HIDE DEF I
  <2>4. /\ PutItemCache(db, I, s.rows, TRUE) \in DB
        /\ Books(PutItemCache(db, I, s.rows, TRUE))
    BY <1>4, <2>1, <2>3, PutItemCacheType
  <2>5. db' \in DB /\ Books(db')
    BY <2>1, <2>2, <2>4
  <2> QED BY <2>5 DEF Books, CacheBooks
<1>6. on' \in [Core -> [Item -> Player \cup {Ground, Nobody}]]
  <2>1. CASE UNCHANGED on
    BY <2>1 DEF TypeOK
  <2>2. CASE Playing(s.pid) /\ Give(CoreOf(s.pid), s.pid, I)
    <3>1. CoreOf(s.pid) \in Core
      BY <1>3, <2>2, PlaysOnCore DEF Playing
    <3> QED BY <1>3, <2>2, <3>1, GiveType
  <2> QED BY <2>1, <2>2 DEF ResultItemLoad, s
<1>7. UNCHANGED <<table, logout, isPlay, session, inBox, open, saved, flushed, raced, down>>
  BY DEF ResultItemLoad
<1>8. Addressed'
  <2>1. \A k \in DOMAIN load' : k + 1 \in DOMAIN load /\ load'[k] = load[k + 1]
    BY <1>1, TailIndex DEF ResultItemLoad
  <2> QED BY <1>7, <2>1 DEF Addressed
<1> QED BY <1>2, <1>5, <1>6, <1>7, <1>8 DEF TypeOK, CoreOf, Playing

\* The players of P leave, and no answer goes to them any more.
LEMMA LeavesType ==
    ASSUME TypeOK, NEW P \in SUBSET Player, Leaves(P)
    PROVE  /\ session' \in [Player -> Session]
           /\ \A q \in Player : session'[q].core = NoCore <=> session'[q].phase = "off"
           /\ \A q \in Player \ P : session'[q] = session[q]
           /\ open' \subseteq {q \in Player : session'[q].phase = "play"}
           /\ isPlay' \subseteq Player
<1>1. /\ session \in [Player -> Session]
      /\ \A q \in Player : session[q].core = NoCore <=> session[q].phase = "off"
      /\ open \subseteq {q \in Player : session[q].phase = "play"}
  BY DEF TypeOK, CoreOf, Playing
<1>2. Off \in Session /\ Off.core = NoCore /\ Off.phase = "off"
  BY DEF Off, Session
<1>3. session' = [q \in Player |-> IF q \in P THEN Off ELSE session[q]]
  BY DEF Leaves
<1>4. open' = open \ P /\ isPlay' = isPlay \ P /\ isPlay \subseteq Player
  BY DEF Leaves, TypeOK
<1> QED BY <1>1, <1>2, <1>3, <1>4

LEMMA LogoutInv ==
    ASSUME CacheInv, NEW p \in Player, Logout(p)
    PROVE  CacheInv'
<1> USE DEF CacheInv
<1> DEFINE M == {k \in DOMAIN load : load[k].pid = p /\ load[k].to = "session"}
<1>1. Leaves({p}) /\ CoreOf(p) \in Core
  BY PlaysOnCore DEF Logout, TypeOK, Off, CoreOf, Session
<1>2. load \in Seq(Select)
  BY DEF TypeOK
<1>3. load' = [k \in DOMAIN load |->
                 IF k \in M THEN [load[k] EXCEPT !.to = "nobody"] ELSE load[k]]
  BY DEF Logout
<1>4. load' \in Seq(Select)
  BY <1>2, <1>3, RedirectType
<1>5. logout' \in [Player -> 0 .. LogoutAge + 2]
  BY ConstantTypes DEF Logout, TypeOK
<1>6. /\ on' \in [Core -> [Item -> Player \cup {Ground, Nobody}]]
      /\ inBox' \in [Core -> SUBSET Item]
  BY <1>1 DEF Logout, TypeOK
<1>7. UNCHANGED <<db, table, saved, flushed, raced, down>>
  BY DEF Logout
<1>8. CacheBooks'
  BY <1>7, SameCaches DEF TypeOK
<1>9. Addressed'
  <2> SUFFICES ASSUME NEW k \in DOMAIN load', load'[k].to = "session"
               PROVE  session'[load'[k].pid].core = load'[k].peer
    BY DEF Addressed
  <2>1. k \in DOMAIN load /\ load[k] \in Select
    BY <1>2, <1>3
  <2>2. k \notin M /\ load'[k] = load[k]
    BY <1>3, <2>1 DEF Select
  <2>3. load[k].pid \in Player \ {p}
    BY <2>1, <2>2 DEF Select
  <2> QED BY <1>1, <2>1, <2>2, <2>3, LeavesType DEF Addressed
<1> QED BY <1>1, <1>4, <1>5, <1>6, <1>7, <1>8, <1>9, LeavesType DEF TypeOK, CoreOf, Playing

LEMMA RemovePeerInv ==
    ASSUME CacheInv, NEW c \in Core, RemovePeer(c)
    PROVE  CacheInv'
<1> USE DEF CacheInv
<1> DEFINE M == {k \in DOMAIN load : load[k].peer = c}
           P == {p \in Player : CoreOf(p) = c}
<1>1. Leaves(P) /\ P \in SUBSET Player
  BY DEF RemovePeer
<1>2. load \in Seq(Select)
  BY DEF TypeOK
<1>3. load' = [k \in DOMAIN load |->
                 IF k \in M THEN [load[k] EXCEPT !.to = "dropped"] ELSE load[k]]
  BY DEF RemovePeer
<1>4. load' \in Seq(Select)
  BY <1>2, <1>3, RedirectType
<1>5. /\ on' \in [Core -> [Item -> Player \cup {Ground, Nobody}]]
      /\ inBox' \in [Core -> SUBSET Item]
  BY DEF RemovePeer, TypeOK
<1>6. UNCHANGED <<db, table, logout, saved, flushed, raced, down>>
  BY DEF RemovePeer
<1>7. CacheBooks'
  BY <1>6, SameCaches DEF TypeOK
<1>8. Addressed'
  <2> SUFFICES ASSUME NEW k \in DOMAIN load', load'[k].to = "session"
               PROVE  session'[load'[k].pid].core = load'[k].peer
    BY DEF Addressed
  <2>1. k \in DOMAIN load /\ load[k] \in Select
    BY <1>2, <1>3
  <2>2. k \notin M /\ load'[k] = load[k]
    BY <1>3, <2>1 DEF Select
  <2>3. load[k].pid \in Player /\ session[load[k].pid].core = load[k].peer
    BY <2>1, <2>2 DEF Select, Addressed
  <2>4. load[k].pid \in Player \ P
    BY <2>1, <2>2, <2>3 DEF CoreOf
  <2> HIDE DEF P
  <2> QED BY <1>1, <2>2, <2>3, <2>4, LeavesType
<1> HIDE DEF P
<1> QED BY <1>1, <1>4, <1>5, <1>6, <1>7, <1>8, LeavesType DEF TypeOK, CoreOf, Playing

-----------------------------------------------------------------------------

\* The steps of a core that end in a save.
LEMMA SaveStepInv ==
    ASSUME CacheInv, NEW i \in Item, NEW p \in Player, NEW box \in BOOLEAN,
           SendSave(i, RowOf(p, box, NextVer(i))),
           on' \in [Core -> [Item -> Player \cup {Ground, Nobody}]],
           inBox' \in [Core -> SUBSET Item],
           UNCHANGED open
    PROVE  CacheInv'
<1> USE DEF CacheInv
<1>1. /\ db' \in DB /\ Books(db')
      /\ saved' \in [Item -> Row]
      /\ raced' \in SUBSET Item
      /\ UNCHANGED <<load, table, logout, isPlay, session, flushed, down>>
  BY SendSaveType
<1>2. CacheBooks'
  BY <1>1 DEF Books, CacheBooks
<1>3. Addressed'
  BY <1>1, SameLoads
<1> QED BY <1>1, <1>2, <1>3 DEF TypeOK, CoreOf, Playing

LEMMA MoveToType ==
    ASSUME TypeOK, NEW c \in Core, NEW i \in Item,
           NEW who \in Player \cup {Ground, Nobody}, MoveTo(c, i, who)
    PROVE  on' \in [Core -> [Item -> Player \cup {Ground, Nobody}]]
  BY DEF TypeOK, MoveTo

LEMMA ItemStepInv ==
    ASSUME CacheInv, NEW p \in Player, NEW i \in Item,
           \/ Save(p, i) \/ PickUp(p, i) \/ Deposit(p, i)
           \/ \E q \in Player : Trade(p, q, i)
    PROVE  CacheInv'
<1>1. TypeOK
  BY DEF CacheInv
<1>2. /\ on \in [Core -> [Item -> Player \cup {Ground, Nobody}]]
      /\ inBox \in [Core -> SUBSET Item]
  BY <1>1 DEF TypeOK
<1>3. CoreOf(p) \in Core
  BY <1>1, PlaysOnCore DEF Save, PickUp, Deposit, Trade, Has, Playing
<1>4. CASE Save(p, i)
  <2>1. InBox(p, i) \in BOOLEAN
    BY DEF InBox
  <2> QED BY <1>2, <1>4, <2>1, SaveStepInv DEF Save
<1>5. CASE PickUp(p, i)
  <2>1. on' \in [Core -> [Item -> Player \cup {Ground, Nobody}]]
    BY <1>1, <1>3, <1>5, MoveToType DEF PickUp
  <2> QED BY <1>2, <1>5, <2>1, SaveStepInv DEF PickUp
<1>6. CASE Deposit(p, i)
  <2>1. inBox' \in [Core -> SUBSET Item]
    BY <1>2, <1>3, <1>6 DEF Deposit
  <2> QED BY <1>2, <1>6, <2>1, SaveStepInv DEF Deposit
<1>7. ASSUME NEW q \in Player, Trade(p, q, i) PROVE CacheInv'
  <2>1. on' \in [Core -> [Item -> Player \cup {Ground, Nobody}]]
    BY <1>1, <1>3, <1>7, MoveToType DEF Trade
  <2> QED BY <1>2, <1>7, <2>1, SaveStepInv DEF Trade
<1> QED BY <1>4, <1>5, <1>6, <1>7

LEMMA NextVerType ==
    ASSUME TypeOK, NEW i \in Item, CanSave(i)
    PROVE  NextVer(i) \in 0 .. MaxSave
<1>1. saved[i] \in Row /\ saved[i].ver < MaxSave
  BY DEF TypeOK, CanSave
<1>2. saved[i].ver \in 0 .. MaxSave
  BY <1>1 DEF Row
<1> QED BY <1>1, <1>2, ConstantTypes DEF NextVer

LEMMA DropInv ==
    ASSUME CacheInv, NEW p \in Player, NEW i \in Item, Drop(p, i)
    PROVE  CacheInv'
<1> USE DEF CacheInv
<1>1. NextVer(i) \in 0 .. MaxSave
  BY NextVerType DEF Drop
<1>2. CoreOf(p) \in Core
  BY PlaysOnCore DEF Drop, Has, Playing
<1>3. db \in DB /\ Books(db)
  BY DEF TypeOK, CacheBooks, Books
<1>4. db' \in DB /\ Books(db')
  BY <1>1, <1>3, QueryItemDestroyType DEF Drop
<1>5. CacheBooks'
  BY <1>4 DEF Books, CacheBooks
<1>6. saved' \in [Item -> Row]
  <2>1. RowOf(Nobody, FALSE, NextVer(i)) \in Row
    BY <1>1 DEF RowOf, Row
  <2> QED BY <2>1 DEF Drop, TypeOK
<1>7. raced' \subseteq Item
  BY DEF Drop, RacesLoad, TypeOK
<1>8. on' \in [Core -> [Item -> Player \cup {Ground, Nobody}]]
  BY <1>2, MoveToType DEF Drop
<1>9. inBox' \in [Core -> SUBSET Item]
  BY <1>2 DEF Drop, TypeOK
<1>10. UNCHANGED <<load, table, logout, isPlay, session, open, flushed, down>>
  BY DEF Drop
<1>11. Addressed'
  BY <1>10, SameLoads
<1> QED BY <1>4, <1>5, <1>6, <1>7, <1>8, <1>9, <1>10, <1>11 DEF TypeOK, CoreOf, Playing

LEMMA WithdrawInv ==
    ASSUME CacheInv, NEW p \in Player, NEW i \in Item, Withdraw(p, i)
    PROVE  CacheInv'
<1> USE DEF CacheInv
<1> DEFINE row == RowOf(p, FALSE, NextVer(i))
<1>1. NextVer(i) \in 0 .. MaxSave
  BY NextVerType DEF Withdraw
<1>2. CoreOf(p) \in Core
  BY PlaysOnCore DEF Withdraw, Has, Playing
<1>3. row \in OwnedRow /\ row \in Row
  BY <1>1 DEF RowOf, OwnedRow, Row
<1> HIDE DEF row
<1>4. db' = Flush(QueryItemSave(db, i, row), {i}) /\ saved' = [saved EXCEPT ![i] = row]
  BY DEF Withdraw, row
<1>5. db' \in DB /\ CacheBooks'
  <2>1. db \in DB /\ Books(db)
    BY DEF TypeOK, CacheBooks, Books
  <2>2. QueryItemSave(db, i, row) \in DB /\ Books(QueryItemSave(db, i, row))
    BY <1>3, <2>1, QueryItemSaveType
  <2>3. db' \in DB /\ Books(db')
    BY <1>4, <2>2, FlushType, FlushBooks
  <2> QED BY <2>3 DEF Books, CacheBooks
<1>6. saved' \in [Item -> Row] /\ raced' \subseteq Item
  BY <1>3, <1>4 DEF Withdraw, RacesLoad, TypeOK
<1>7. inBox' \in [Core -> SUBSET Item]
  BY <1>2 DEF Withdraw, TypeOK
<1>8. UNCHANGED <<load, table, logout, isPlay, session, on, open, flushed, down>>
  BY DEF Withdraw
<1>9. Addressed'
  BY <1>8, SameLoads
<1> QED BY <1>5, <1>6, <1>7, <1>8, <1>9 DEF TypeOK, CoreOf, Playing

LEMMA OpenBoxInv ==
    ASSUME CacheInv, NEW p \in Player, OpenBox(p)
    PROVE  CacheInv'
<1> USE DEF CacheInv
<1> DEFINE di == [i \in Item |-> Append(db.direct[i], SelectBox(p))]
<1>1. SelectBox(p) \in Statement
  BY ConstantTypes DEF SelectBox, Statement, NoRow, RowOf, Row
<1>2. di \in [Item -> Seq(Statement)]
  <2> SUFFICES ASSUME NEW i \in Item PROVE Append(db.direct[i], SelectBox(p)) \in Seq(Statement)
    OBVIOUS
  <2>1. db.direct[i] \in Seq(Statement)
    BY DEF TypeOK, DB
  <2> QED BY <1>1, <2>1
<1>3. db' = [db EXCEPT !.direct = di]
  BY DEF OpenBox
<1> HIDE DEF di
<1>4. db' \in DB /\ CacheBooks'
  BY <1>2, <1>3, SameCaches DEF TypeOK, DB
<1>5. UNCHANGED <<load, table, logout, isPlay, session, on, inBox, saved, flushed, raced, down>>
  BY DEF OpenBox
<1>6. open' \subseteq {q \in Player : Playing(q)}
  BY DEF OpenBox, TypeOK
<1>7. Addressed'
  BY <1>5, SameLoads
<1> QED BY <1>4, <1>5, <1>6, <1>7 DEF TypeOK, CoreOf, Playing

-----------------------------------------------------------------------------

\* The steps of the db that write caches back.
LEMMA WriteBackInv ==
    ASSUME CacheInv, db' \in DB, Books(db'),
           logout' \in [Player -> 0 .. LogoutAge + 2], flushed' \subseteq Player,
           UNCHANGED <<load, table, isPlay, coreVars, saved, raced, down>>
    PROVE  CacheInv'
<1> USE DEF CacheInv
<1>1. CacheBooks'
  BY DEF Books, CacheBooks
<1>2. Addressed'
  BY SameLoads DEF coreVars
<1> QED BY <1>1, <1>2 DEF TypeOK, CoreOf, Playing, coreVars

LEMMA FlushCacheInv ==
    ASSUME CacheInv, NEW p \in Player, FlushCache(p)
    PROVE  CacheInv'
<1>1. db \in DB /\ Books(db)
  BY DEF CacheInv, TypeOK, CacheBooks, Books
<1>2. db' \in DB /\ Books(db')
  BY <1>1, FlushPlayerCacheType DEF FlushCache
<1>3. logout' \in [Player -> 0 .. LogoutAge + 2] /\ flushed' \subseteq Player
  BY DEF FlushCache, CacheInv, TypeOK
<1> QED BY <1>2, <1>3, WriteBackInv DEF FlushCache

LEMMA SinceLogoutType ==
    ASSUME TypeOK
    PROVE  SinceLogout \in [Player -> 0 .. LogoutAge + 2]
<1> SUFFICES ASSUME NEW p \in Player
             PROVE  (IF logout[p] = NotOut THEN NotOut ELSE Later(logout[p], LogoutAge + 1))
                       \in 0 .. LogoutAge + 2
  BY DEF SinceLogout
<1>1. logout[p] \in 0 .. LogoutAge + 2
  BY DEF TypeOK
<1> QED BY <1>1, ConstantTypes DEF NotOut, Later

LEMMA UpdateType ==
    ASSUME CacheInv, NEW W \in SUBSET Player, Update(W)
    PROVE  db' \in DB /\ Books(db') /\ logout' \in [Player -> 0 .. LogoutAge + 2]
<1>1. Older \in DB /\ Books(Older)
  BY OlderType DEF CacheInv, TypeOK, CacheBooks, Books
<1>2. db.players \in SUBSET Player
  BY DEF CacheInv, TypeOK, DB
<1>3. FlushDue(Older, db.players) \in DB /\ Books(FlushDue(Older, db.players))
  BY <1>1, <1>2, FlushDueType
<1>4. db' \in DB /\ Books(db')
  BY <1>3, FlushPlayerCacheType DEF Update
<1>5. logout' \in [Player -> 0 .. LogoutAge + 2]
  BY SinceLogoutType, ConstantTypes DEF Update, NotOut, CacheInv
<1> QED BY <1>4, <1>5

LEMMA HeartBeatInv == CacheInv /\ (HeartBeat \/ LimitedHeartBeat) => CacheInv'
<1> SUFFICES ASSUME CacheInv, HeartBeat \/ LimitedHeartBeat PROVE CacheInv'
  OBVIOUS
<1>1. /\ UNCHANGED <<load, table, isPlay, coreVars, saved, flushed, raced, down>>
      /\ flushed \subseteq Player
  BY DEF HeartBeat, LimitedHeartBeat, CacheInv, TypeOK
<1>2. CASE \E W \in SUBSET Over : Update(W)
  <2>1. PICK W \in SUBSET Player : Update(W)
    BY <1>2 DEF Over
  <2> QED BY <1>1, <2>1, UpdateType, WriteBackInv
<1>3. ASSUME NEW V \in SUBSET db.players, db' = FlushDue(Older, V), logout' = SinceLogout
      PROVE  CacheInv'
  <2>1. Older \in DB /\ Books(Older)
    BY OlderType DEF CacheInv, TypeOK, CacheBooks, Books
  <2>2. V \in SUBSET Player
    BY DEF CacheInv, TypeOK, DB
  <2>3. db' \in DB /\ Books(db')
    BY <1>3, <2>1, <2>2, FlushDueType
  <2>4. logout' \in [Player -> 0 .. LogoutAge + 2]
    BY <1>3, SinceLogoutType DEF CacheInv
  <2> QED BY <1>1, <2>3, <2>4, WriteBackInv
<1> QED BY <1>2, <1>3 DEF HeartBeat, LimitedHeartBeat

LEMMA ShutdownInv == CacheInv /\ Shutdown => CacheInv'
<1> SUFFICES ASSUME CacheInv, Shutdown PROVE CacheInv'
  OBVIOUS
<1> USE DEF CacheInv
<1>1. db \in DB /\ Books(db) /\ db.players \in SUBSET Player
  BY DEF TypeOK, CacheBooks, Books, DB
<1>2. db' \in DB /\ Books(db')
  BY <1>1, FlushPlayerCacheType DEF Shutdown
<1>3. CacheBooks'
  BY <1>2 DEF Books, CacheBooks
<1>4. logout' \in [Player -> 0 .. LogoutAge + 2]
  BY ConstantTypes DEF Shutdown, NotOut
<1>5. load' = <<>> /\ Addressed'
  BY DEF Shutdown, Addressed
<1> QED BY <1>2, <1>3, <1>4, <1>5 DEF Shutdown, coreVars, TypeOK, CoreOf, Playing

LEMMA RunStuffInv ==
    ASSUME CacheInv, NEW i \in Item, RunStuff(i)
    PROVE  CacheInv'
<1> USE DEF CacheInv
<1>1. db.stuff \in [Item -> Seq(Statement)] /\ db.stuff[i] # <<>>
  BY DEF TypeOK, DB, RunStuff
<1>2. Head(db.stuff[i]) \in Statement /\ Tail(db.stuff[i]) \in Seq(Statement)
  BY <1>1
<1>3. db' = [db EXCEPT !.stuff = [db.stuff EXCEPT ![i] = Tail(db.stuff[i])]]
  BY DEF RunStuff
<1>4. [db.stuff EXCEPT ![i] = Tail(db.stuff[i])] \in [Item -> Seq(Statement)]
  BY <1>1, <1>2
<1>5. db' \in DB /\ CacheBooks'
  BY <1>3, <1>4, SameCaches DEF TypeOK, DB
<1>6. table' \in [Item -> Row]
  <2>1. Head(db.stuff[i]).row \in Row
    BY <1>2 DEF Statement
  <2> QED BY <2>1 DEF RunStuff, TypeOK
<1>7. raced' \subseteq Item
  BY DEF RunStuff, TypeOK
<1>8. UNCHANGED <<load, logout, isPlay, session, on, inBox, open, saved, flushed, down>>
  BY DEF RunStuff, coreVars
<1>9. Addressed'
  BY <1>8, SameLoads
<1> QED BY <1>5, <1>6, <1>7, <1>8, <1>9 DEF TypeOK, CoreOf, Playing

LEMMA RunDirectInv ==
    ASSUME CacheInv, NEW i \in Item, RunDirect(i)
    PROVE  CacheInv'
<1> USE DEF CacheInv
<1> DEFINE s == Head(db.direct[i])
<1>1. db.direct \in [Item -> Seq(Statement)] /\ db.direct[i] # <<>>
  BY DEF TypeOK, DB, RunDirect
<1>2. s \in Statement /\ Tail(db.direct[i]) \in Seq(Statement)
  BY <1>1
<1>3. db' = [db EXCEPT !.direct = [db.direct EXCEPT ![i] = Tail(db.direct[i])]]
  BY DEF RunDirect
<1>4. [db.direct EXCEPT ![i] = Tail(db.direct[i])] \in [Item -> Seq(Statement)]
  BY <1>1, <1>2
<1>5. db' \in DB /\ CacheBooks'
  BY <1>3, <1>4, SameCaches DEF TypeOK, DB
<1>6. s.row \in Row /\ s.asks \in Player \cup {Nobody}
  BY <1>2 DEF Statement
<1> HIDE DEF s
<1>7. table' \in [Item -> Row]
  BY <1>6 DEF RunDirect, TypeOK, s
<1>8. raced' \subseteq Item
  BY DEF RunDirect, TypeOK
<1>9. /\ on' \in [Core -> [Item -> Player \cup {Ground, Nobody}]]
      /\ inBox' \in [Core -> SUBSET Item]
  <2>1. CASE UNCHANGED <<on, inBox>>
    BY <2>1 DEF TypeOK
  <2>2. CASE /\ s.asks # Nobody /\ s.asks \in open
             /\ MoveTo(CoreOf(s.asks), i, s.asks)
             /\ inBox' = [inBox EXCEPT ![CoreOf(s.asks)] = @ \cup {i}]
    <3>1. s.asks \in Player /\ session[s.asks].phase # "off"
      BY <2>2 DEF TypeOK, Playing
    <3>2. CoreOf(s.asks) \in Core
      BY <3>1, PlaysOnCore
    <3> QED BY <2>2, <3>1, <3>2, MoveToType DEF TypeOK
  <2> QED BY <2>1, <2>2 DEF RunDirect, s
<1>10. UNCHANGED <<load, logout, isPlay, session, open, saved, flushed, down>>
  BY DEF RunDirect
<1>11. Addressed'
  BY <1>10, SameLoads
<1> QED BY <1>5, <1>7, <1>8, <1>9, <1>10, <1>11 DEF TypeOK, CoreOf, Playing

-----------------------------------------------------------------------------

LEMMA NextInv == CacheInv /\ [Next]_vars => CacheInv'
<1> SUFFICES ASSUME CacheInv, [Next]_vars PROVE CacheInv'
  OBVIOUS
<1>1. ASSUME NEW p \in Player, NEW c \in Core, Login(p, c) PROVE CacheInv'
  BY <1>1, LoginInv
<1>2. ASSUME NEW p \in Player, Logout(p) \/ OpenBox(p) \/ FlushCache(p) PROVE CacheInv'
  BY <1>2, LogoutInv, OpenBoxInv, FlushCacheInv
<1>3. ASSUME NEW p \in Player, NEW i \in Item,
             \/ Save(p, i) \/ PickUp(p, i) \/ Deposit(p, i)
             \/ \E q \in Player : Trade(p, q, i)
      PROVE  CacheInv'
  BY <1>3, ItemStepInv
<1>4. ASSUME NEW p \in Player, NEW i \in Item, Drop(p, i) \/ Withdraw(p, i) PROVE CacheInv'
  BY <1>4, DropInv, WithdrawInv
<1>5. ASSUME NEW c \in Core, RemovePeer(c) PROVE CacheInv'
  BY <1>5, RemovePeerInv
<1>6. ASSUME NEW k \in DOMAIN load, RunSelect(k) PROVE CacheInv'
  BY <1>6, RunSelectInv
<1>7. CASE ResultPlayerLoad \/ ResultItemLoad
  BY <1>7, ResultPlayerLoadInv, ResultItemLoadInv
<1>8. CASE HeartBeat \/ LimitedHeartBeat \/ Shutdown
  BY <1>8, HeartBeatInv, ShutdownInv
<1>9. ASSUME NEW i \in Item, RunStuff(i) \/ RunDirect(i) PROVE CacheInv'
  BY <1>9, RunStuffInv, RunDirectInv
<1>10. CASE UNCHANGED vars
  <2>1. CacheBooks'
    BY <1>10 DEF vars, CacheInv, CacheBooks
  <2>2. Addressed'
    BY <1>10 DEF vars, coreVars, CacheInv, Addressed
  <2>3. TypeOK'
    BY <1>10 DEF vars, coreVars, CacheInv, TypeOK, CoreOf, Playing
  <2> QED BY <2>1, <2>2, <2>3 DEF CacheInv
<1> QED
  BY <1>1, <1>2, <1>3, <1>4, <1>5, <1>6, <1>7, <1>8, <1>9, <1>10 DEF Next

\* Every variable keeps its type, and only a player who plays has his safebox open.
THEOREM TypeCorrect == Spec => []TypeOK
<1>1. CacheInv => TypeOK
  BY DEF CacheInv
<1> QED BY <1>1, InitInv, NextInv, PTL DEF Spec

\* The map of all items and the players' sets agree (PutItemCache, EraseItemCache,
\* FlushPlayerCache), whatever is saved, loaded, destroyed, flushed or lost, and in
\* whatever order the channels work.
THEOREM BooksAgree == Spec => []CacheBooks
<1>1. CacheInv => CacheBooks
  BY DEF CacheInv
<1> QED BY <1>1, InitInv, NextInv, PTL DEF Spec

=============================================================================
