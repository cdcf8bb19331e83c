------------------------ MODULE ItemCacheNewest_proofs ------------------------
(***************************************************************************)
(* Which value of an item is the newest, and who has it: NewestIsKept,      *)
(* NoStaleRow and OneHolder of ItemCache, for any players, items and cores, *)
(* any bounds and any interleaving of the channels, when no flush is        *)
(* requested from outside.                                                 *)
(***************************************************************************)
EXTENDS ItemCache_proofs, NaturalsInduction, WellFoundedInduction

\* The rows that a queue has still to write.
QueuedRows(q) == {q[k].row : k \in Writes(q)}

\* Each write is newer than those before it.
InOrderOf(q) == \A j, k \in Writes(q) : j < k => q[j].row.ver < q[k].row.ver

\* The rows of an item, with its queues st and di and its row t in the table.
RowsOf(st, di, t) == {t} \cup QueuedRows(st) \cup QueuedRows(di)

\* The stuff channel has only writes; no version is written twice, and none of
\* those waiting is older than the table.
Queued(st, di, t) ==
    /\ Writes(st) = DOMAIN st
    /\ InOrderOf(st) /\ InOrderOf(di)
    /\ \A r \in QueuedRows(st), o \in QueuedRows(di) : r.ver # o.ver
    /\ \A r \in QueuedRows(st) \cup QueuedRows(di) : t.ver < r.ver

\* A dirty entry is newer than every row, and without one the newest row is
\* what was saved last.
Newest(e, R, s) ==
    /\ e.owner # Nobody => Value(e) = s
    /\ IF e.need THEN e.owner # Nobody /\ e.live /\ \A r \in R : r.ver < s.ver
                 ELSE s \in R /\ \A r \in R : r.ver <= s.ver

Last(R, r) == r \in R /\ \A o \in R : o.ver <= r.ver

RowsNow(i) == RowsOf(db.stuff[i], db.direct[i], table[i])

ItemKept(i) ==
    /\ Queued(db.stuff[i], db.direct[i], table[i])
    /\ Newest(db.entry[i], RowsNow(i), saved[i])

\* The cache of p stays, or is evicted only after an entry that is age beats old
\* has been written.
Stays(p, age) ==
    /\ p \in db.players
    /\ logout[p] = NotOut \/ age > FlushAge \/ age >= logout[p]

\* While a newer value is dirty in the cache, the player who has the row as it
\* will be is there to find it.
Behind(i) ==
    db.entry[i].need =>
        \A r \in RowsNow(i) : Last(RowsNow(i), r) =>
            /\ ~r.box
            /\ r.owner \in Player => Stays(r.owner, db.entry[i].age)

\* What the item SELECTs have read is what was saved last, and so is what those
\* that have not run will read.
LoadsRead(i) ==
    \A k \in DOMAIN load : load[k].what = "item" =>
        IF load[k].run
          THEN load[k].rows[i].owner # Nobody =>
                  /\ load[k].rows[i] = saved[i]
                  /\ saved[i].owner = load[k].pid /\ ~saved[i].box
          ELSE db.entry[i].need =>
                  \A r \in RowsNow(i) : Last(RowsNow(i), r) => r.owner # load[k].pid

HeldWhereSaved(i) ==
    /\ \A c \in Core : on[c][i] # Nobody =>
          /\ saved[i].owner = (IF on[c][i] = Ground THEN Nobody ELSE on[c][i])
          /\ saved[i].box = (i \in inBox[c])
          /\ on[c][i] \in Player => Playing(on[c][i]) /\ CoreOf(on[c][i]) = c
    /\ \A c \in Core : i \in inBox[c] => on[c][i] \in open
    /\ \A b, c \in Core : on[b][i] # Nobody /\ on[c][i] # Nobody => b = c

\* While the SELECT of p's safebox, at k in q, has not run: what it finds there is
\* what was saved last, or is overwritten before.
BoxRead(st, q, t, s, k, p) ==
    \A r \in RowsOf(st, q, t) : r.owner = p /\ r.box =>
        \/ r = s
        \/ \E w \in QueuedRows(st) : r.ver < w.ver
        \/ \E j \in Writes(q) : j < k /\ r.ver < q[j].row.ver

BoxesRead(i) ==
    \A k \in DOMAIN db.direct[i] : db.direct[i][k].asks \in open =>
        LET p == db.direct[i][k].asks
        IN  /\ BoxRead(db.stuff[i], db.direct[i], table[i], saved[i], k, p)
            /\ ~(on[CoreOf(p)][i] = p /\ i \in inBox[CoreOf(p)])
            /\ \A j \in DOMAIN db.direct[i] : db.direct[i][j].asks = p => j = k

\* A player on a core is not logged out, and one who plays has a cache.
SessionsKept ==
    \A p \in Player :
        /\ session[p].phase # "off" => logout[p] = NotOut
        /\ Playing(p) /\ ~down => p \in db.players

ItemInv(i) == /\ ItemKept(i) /\ Behind(i) /\ LoadsRead(i)
              /\ HeldWhereSaved(i) /\ BoxesRead(i)

NewestInv == /\ CacheInv
             /\ SessionsKept
             /\ \A i \in Item \ raced : ItemInv(i)

-----------------------------------------------------------------------------
(***************************************************************************)
(* Queues and the rows in them.                                             *)
(***************************************************************************)

LEMMA StatementAt ==
    ASSUME NEW q \in Seq(Statement), NEW k \in DOMAIN q
    PROVE  q[k] \in Statement /\ q[k].row \in Row /\ k \in 1 .. Len(q)
<1>1. q[k] \in Statement /\ k \in 1 .. Len(q)
  OBVIOUS
<1> QED BY <1>1 DEF Statement

LEMMA RowVer == \A r \in Row : r.ver \in Nat /\ r.ver <= MaxSave
  BY ConstantTypes DEF Row

LEMMA QueuedRowsType ==
    ASSUME NEW q \in Seq(Statement) PROVE QueuedRows(q) \in SUBSET Row
  BY StatementAt DEF QueuedRows, Writes

LEMMA RowsOfType ==
    ASSUME NEW st \in Seq(Statement), NEW di \in Seq(Statement), NEW t \in Row
    PROVE  RowsOf(st, di, t) \in SUBSET Row
  BY QueuedRowsType DEF RowsOf

LEMMA AppendAt ==
    ASSUME NEW q \in Seq(Statement), NEW x \in Statement
    PROVE  /\ Append(q, x) \in Seq(Statement)
           /\ DOMAIN Append(q, x) = DOMAIN q \cup {Len(q) + 1}
           /\ \A k \in DOMAIN q : Append(q, x)[k] = q[k] /\ k < Len(q) + 1
           /\ Append(q, x)[Len(q) + 1] = x
           /\ Len(q) + 1 \notin DOMAIN q
  OBVIOUS

LEMMA AppendWrite ==
    ASSUME NEW q \in Seq(Statement), NEW row \in Row
    PROVE  LET a == Append(q, Write(row))
           IN  /\ a \in Seq(Statement)
               /\ Writes(a) = Writes(q) \cup {Len(q) + 1}
               /\ QueuedRows(a) = QueuedRows(q) \cup {row}
               /\ InOrderOf(q) /\ (\A r \in QueuedRows(q) : r.ver < row.ver)
                     => InOrderOf(a)
<1> DEFINE a == Append(q, Write(row))
           n == Len(q) + 1
<1>1. /\ Write(row) \in Statement /\ Write(row).row = row /\ Write(row).asks = Nobody
  BY WriteType DEF Write
<1>2. /\ a \in Seq(Statement) /\ DOMAIN a = DOMAIN q \cup {n}
      /\ \A k \in DOMAIN q : a[k] = q[k] /\ k < n
      /\ a[n] = Write(row) /\ n \notin DOMAIN q
  BY <1>1, AppendAt
<1>3. \A k \in DOMAIN q : k \in Nat
  OBVIOUS
<1>4. n \in Nat
  OBVIOUS
<1> HIDE DEF a, n
<1>5. Writes(a) = Writes(q) \cup {n}
  BY <1>1, <1>2 DEF Writes
<1>6. QueuedRows(a) = QueuedRows(q) \cup {row}
  BY <1>1, <1>2, <1>5 DEF QueuedRows, Writes
<1>7. ASSUME InOrderOf(q), \A r \in QueuedRows(q) : r.ver < row.ver
      PROVE  InOrderOf(a)
  <2> SUFFICES ASSUME NEW j \in Writes(a), NEW k \in Writes(a), j < k
               PROVE  a[j].row.ver < a[k].row.ver
    BY DEF InOrderOf
  <2>1. j \in Writes(q) /\ a[j] = q[j]
    BY <1>2, <1>3, <1>4, <1>5 DEF Writes
  <2>2. CASE k = n
    BY <1>1, <1>2, <1>7, <2>1, <2>2 DEF QueuedRows
  <2>3. CASE k # n
    BY <1>2, <1>5, <1>7, <2>1, <2>3 DEF InOrderOf, Writes
  <2> QED BY <2>2, <2>3
<1> QED BY <1>2, <1>5, <1>6, <1>7 DEF a, n

LEMMA SelectBoxType ==
    ASSUME NEW p \in Player
    PROVE  SelectBox(p) \in Statement /\ SelectBox(p).asks = p /\ p # Nobody
  BY ConstantTypes DEF SelectBox, Statement, NoRow, RowOf, Row

LEMMA AppendSelect ==
    ASSUME NEW q \in Seq(Statement), NEW p \in Player
    PROVE  LET a == Append(q, SelectBox(p))
           IN  /\ a \in Seq(Statement)
               /\ Writes(a) = Writes(q)
               /\ QueuedRows(a) = QueuedRows(q)
               /\ InOrderOf(q) => InOrderOf(a)
<1> DEFINE a == Append(q, SelectBox(p))
           n == Len(q) + 1
<1>1. /\ SelectBox(p) \in Statement /\ SelectBox(p).asks # Nobody
  BY SelectBoxType
<1>2. /\ a \in Seq(Statement) /\ DOMAIN a = DOMAIN q \cup {n}
      /\ \A k \in DOMAIN q : a[k] = q[k] /\ k < n
      /\ a[n] = SelectBox(p) /\ n \notin DOMAIN q
  BY <1>1, AppendAt
<1> HIDE DEF a, n
<1>3. Writes(a) = Writes(q)
  BY <1>1, <1>2 DEF Writes
<1>4. \A k \in Writes(q) : a[k] = q[k]
  BY <1>2 DEF Writes
<1>5. QueuedRows(a) = QueuedRows(q)
  BY <1>3, <1>4 DEF QueuedRows
<1>6. InOrderOf(q) => InOrderOf(a)
  BY <1>3, <1>4 DEF InOrderOf
<1> QED BY <1>2, <1>3, <1>5, <1>6 DEF a

LEMMA TailAt ==
    ASSUME NEW q \in Seq(Statement), q # <<>>
    PROVE  /\ Tail(q) \in Seq(Statement)
           /\ 1 \in DOMAIN q /\ Head(q) = q[1]
           /\ \A k \in DOMAIN Tail(q) : k \in Nat /\ k >= 1 /\ k + 1 \in DOMAIN q
                                            /\ Tail(q)[k] = q[k + 1]
           /\ \A k \in DOMAIN q : k \in Nat /\ k >= 1 /\ (k # 1 => k - 1 \in DOMAIN Tail(q))
<1>1. /\ Tail(q) \in Seq(Statement) /\ Len(Tail(q)) = Len(q) - 1
      /\ Len(q) \in Nat \ {0} /\ Head(q) = q[1]
  OBVIOUS
<1>2. DOMAIN Tail(q) = 1 .. Len(Tail(q)) /\ DOMAIN q = 1 .. Len(q)
  BY <1>1
<1>3. ASSUME NEW k \in 1 .. Len(Tail(q)) PROVE k + 1 \in 1 .. Len(q) /\ Tail(q)[k] = q[k + 1]
  BY <1>1
<1>4. 1 \in 1 .. Len(q)
  BY <1>1
<1>5. \A k \in 1 .. Len(q) : k # 1 => k - 1 \in 1 .. Len(Tail(q))
  BY <1>1
<1> QED BY <1>1, <1>2, <1>3, <1>4, <1>5

LEMMA TailWrites ==
    ASSUME NEW q \in Seq(Statement), q # <<>>
    PROVE  /\ \A k \in Writes(Tail(q)) : k + 1 \in Writes(q) /\ Tail(q)[k] = q[k + 1]
           /\ \A k \in Writes(q) : k # 1 => /\ k - 1 \in Writes(Tail(q))
                                            /\ Tail(q)[k - 1] = q[k]
           /\ Head(q).asks = Nobody <=> 1 \in Writes(q)
<1>1. \A k \in DOMAIN q : k # 1 => Tail(q)[k - 1] = q[k]
  <2> SUFFICES ASSUME NEW k \in DOMAIN q, k # 1 PROVE Tail(q)[k - 1] = q[k]
    OBVIOUS
  <2>1. k \in Nat /\ k - 1 \in DOMAIN Tail(q)
    BY TailAt
  <2>2. Tail(q)[k - 1] = q[(k - 1) + 1]
    BY <2>1, TailAt
  <2> QED BY <2>1, <2>2
<1>2. \A k \in Writes(Tail(q)) : k + 1 \in Writes(q) /\ Tail(q)[k] = q[k + 1]
  BY TailAt DEF Writes
<1>3. \A k \in Writes(q) : k # 1 => k - 1 \in Writes(Tail(q)) /\ Tail(q)[k - 1] = q[k]
  BY <1>1, TailAt DEF Writes
<1>4. Head(q).asks = Nobody <=> 1 \in Writes(q)
  BY TailAt DEF Writes
<1> QED BY <1>2, <1>3, <1>4

LEMMA TailRows ==
    ASSUME NEW q \in Seq(Statement), q # <<>>
    PROVE  /\ Head(q).asks = Nobody => QueuedRows(q) = QueuedRows(Tail(q)) \cup {Head(q).row}
           /\ Head(q).asks # Nobody => QueuedRows(q) = QueuedRows(Tail(q))
           /\ InOrderOf(q) => InOrderOf(Tail(q))
           /\ InOrderOf(q) /\ Head(q).asks = Nobody =>
                 \A r \in QueuedRows(Tail(q)) : Head(q).row.ver < r.ver
           /\ Writes(q) = DOMAIN q => Writes(Tail(q)) = DOMAIN Tail(q) /\ Head(q).asks = Nobody
<1> DEFINE t == Tail(q)
<1>1. /\ \A k \in Writes(t) : k + 1 \in Writes(q) /\ t[k] = q[k + 1]
      /\ \A k \in Writes(q) : k # 1 => k - 1 \in Writes(t) /\ t[k - 1] = q[k]
      /\ Head(q).asks = Nobody <=> 1 \in Writes(q)
      /\ Head(q) = q[1] /\ 1 \in DOMAIN q
      /\ \A k \in DOMAIN t : k \in Nat /\ k >= 1 /\ k + 1 \in DOMAIN q /\ t[k] = q[k + 1]
  BY TailWrites, TailAt
<1>2. \A k \in Writes(t) : k \in DOMAIN t
  BY DEF Writes
<1> HIDE DEF t
<1>3. QueuedRows(t) \subseteq QueuedRows(q)
  BY <1>1 DEF QueuedRows
<1>4. \A r \in QueuedRows(q) : r \in QueuedRows(t) \/ (1 \in Writes(q) /\ r = q[1].row)
  BY <1>1 DEF QueuedRows
<1>5. 1 \in Writes(q) => Head(q).row \in QueuedRows(q)
  BY <1>1 DEF QueuedRows
<1>6. InOrderOf(q) => InOrderOf(t)
  <2> SUFFICES ASSUME InOrderOf(q), NEW j \in Writes(t), NEW k \in Writes(t), j < k
               PROVE  t[j].row.ver < t[k].row.ver
    BY DEF InOrderOf
  <2>1. j \in Nat /\ k \in Nat
    BY <1>1, <1>2
  <2>2. j + 1 < k + 1
    BY <2>1
  <2> QED BY <1>1, <2>2 DEF InOrderOf
<1>7. ASSUME InOrderOf(q), 1 \in Writes(q), NEW r \in QueuedRows(t)
      PROVE  Head(q).row.ver < r.ver
  <2>1. PICK k \in Writes(t) : r = t[k].row
    BY DEF QueuedRows
  <2>2. k \in Nat /\ k >= 1
    BY <1>1, <1>2
  <2>3. 1 < k + 1
    BY <2>2
  <2> QED BY <1>1, <1>7, <2>1, <2>3 DEF InOrderOf
<1>8. Writes(q) = DOMAIN q => Writes(t) = DOMAIN t /\ 1 \in Writes(q)
  BY <1>1 DEF Writes
<1> QED BY <1>1, <1>3, <1>4, <1>5, <1>6, <1>7, <1>8 DEF t

LEMMA HasOlderRow ==
    ASSUME NEW q, NEW v
    PROVE  HasOlder(q, v) <=> \E r \in QueuedRows(q) : r.ver < v
  BY DEF HasOlder, QueuedRows

-----------------------------------------------------------------------------
(***************************************************************************)
(* The rows of one item: a statement is sent, and one is executed.          *)
(***************************************************************************)

\* Two rows of an item with the same version are the same.
LEMMA OneRowPerVersion ==
    ASSUME NEW st \in Seq(Statement), NEW di \in Seq(Statement), NEW t \in Row,
           Queued(st, di, t),
           NEW r \in RowsOf(st, di, t), NEW o \in RowsOf(st, di, t), r.ver = o.ver
    PROVE  r = o
<1>1. RowsOf(st, di, t) \in SUBSET Row
  BY RowsOfType
<1>2. r.ver \in Nat /\ o.ver \in Nat /\ t.ver \in Nat
  BY <1>1, RowVer
<1>3. ASSUME NEW q \in {st, di}, r \in QueuedRows(q), o \in QueuedRows(q)
      PROVE  r = o
  <2>1. PICK j \in Writes(q) : r = q[j].row
    BY <1>3 DEF QueuedRows
  <2>2. PICK k \in Writes(q) : o = q[k].row
    BY <1>3 DEF QueuedRows
  <2>3. j \in Nat /\ k \in Nat
    <3>1. q \in Seq(Statement)
      BY <1>3
    <3>2. DOMAIN q \subseteq Nat
      BY <3>1
    <3> QED BY <3>2 DEF Writes
  <2>4. InOrderOf(q)
    BY DEF Queued
  <2>5. ~(j < k) /\ ~(k < j)
    BY <1>2, <2>1, <2>2, <2>4 DEF InOrderOf
  <2>6. j = k
    BY <2>3, <2>5
  <2> QED BY <2>1, <2>2, <2>6
<1>4. \A a \in QueuedRows(st) \cup QueuedRows(di) : t.ver < a.ver
  BY DEF Queued
<1>5. \A a \in QueuedRows(st), b \in QueuedRows(di) : a.ver # b.ver
  BY DEF Queued
<1>6. CASE r = t \/ o = t
  BY <1>2, <1>4, <1>6 DEF RowsOf
<1>7. CASE r # t /\ o # t
  BY <1>3, <1>5, <1>7 DEF RowsOf
<1> QED BY <1>6, <1>7

\* What was saved last is the newest row when the entry is clean.
LEMMA LastIsSaved ==
    ASSUME NEW st \in Seq(Statement), NEW di \in Seq(Statement), NEW t \in Row,
           Queued(st, di, t), NEW s \in Row, NEW e, ~e.need,
           Newest(e, RowsOf(st, di, t), s),
           NEW r, Last(RowsOf(st, di, t), r)
    PROVE  r = s
<1> DEFINE R == RowsOf(st, di, t)
<1>1. R \in SUBSET Row
  BY RowsOfType
<1>2. r \in R /\ \A o \in R : o.ver <= r.ver
  BY DEF Last
<1>3. s \in R /\ \A o \in R : o.ver <= s.ver
  BY DEF Newest
<1>4. r.ver \in Nat /\ s.ver \in Nat
  BY <1>1, <1>2, RowVer
<1>5. r.ver = s.ver
  BY <1>2, <1>3, <1>4
<1> QED BY <1>2, <1>3, <1>5, OneRowPerVersion

LEMMA WriteToStuff ==
    ASSUME NEW st \in Seq(Statement), NEW di \in Seq(Statement), NEW t \in Row,
           Queued(st, di, t), NEW row \in Row,
           \A r \in RowsOf(st, di, t) : r.ver < row.ver
    PROVE  LET a == Append(st, Write(row))
           IN  Queued(a, di, t) /\ RowsOf(a, di, t) = RowsOf(st, di, t) \cup {row}
<1> DEFINE a == Append(st, Write(row))
<1>1. /\ Writes(a) = Writes(st) \cup {Len(st) + 1}
      /\ QueuedRows(a) = QueuedRows(st) \cup {row}
      /\ InOrderOf(st) /\ (\A r \in QueuedRows(st) : r.ver < row.ver) => InOrderOf(a)
  BY AppendWrite
<1>2. DOMAIN a = DOMAIN st \cup {Len(st) + 1}
  BY AppendAt, WriteType
<1> HIDE DEF a
<1>3. \A r \in {t} \cup QueuedRows(st) \cup QueuedRows(di) : r.ver < row.ver
  BY DEF RowsOf
<1>4. \A r \in QueuedRows(di) : r.ver \in Nat
  BY QueuedRowsType, RowVer
<1>5. row.ver \in Nat
  BY RowVer
<1>6. \A r \in QueuedRows(di) : row.ver # r.ver
  BY <1>3, <1>4, <1>5
<1>7. Queued(a, di, t)
  BY <1>1, <1>2, <1>3, <1>6 DEF Queued
<1>8. RowsOf(a, di, t) = RowsOf(st, di, t) \cup {row}
  BY <1>1 DEF RowsOf
<1> QED BY <1>7, <1>8 DEF a

LEMMA WriteToDirect ==
    ASSUME NEW st \in Seq(Statement), NEW di \in Seq(Statement), NEW t \in Row,
           Queued(st, di, t), NEW row \in Row,
           \A r \in RowsOf(st, di, t) : r.ver < row.ver
    PROVE  LET a == Append(di, Write(row))
           IN  Queued(st, a, t) /\ RowsOf(st, a, t) = RowsOf(st, di, t) \cup {row}
<1> DEFINE a == Append(di, Write(row))
<1>1. /\ QueuedRows(a) = QueuedRows(di) \cup {row}
      /\ InOrderOf(di) /\ (\A r \in QueuedRows(di) : r.ver < row.ver) => InOrderOf(a)
  BY AppendWrite
<1> HIDE DEF a
<1>3. \A r \in {t} \cup QueuedRows(st) \cup QueuedRows(di) : r.ver < row.ver
  BY DEF RowsOf
<1>4. \A r \in QueuedRows(st) : r.ver \in Nat
  BY QueuedRowsType, RowVer
<1>5. row.ver \in Nat
  BY RowVer
<1>6. \A r \in QueuedRows(st) : r.ver # row.ver
  BY <1>3, <1>4, <1>5
<1>7. Queued(st, a, t)
  BY <1>1, <1>3, <1>6 DEF Queued
<1>8. RowsOf(st, a, t) = RowsOf(st, di, t) \cup {row}
  BY <1>1 DEF RowsOf
<1> QED BY <1>7, <1>8 DEF a

\* The stuff channel executes its next write, none older waiting in the direct one.
LEMMA RunStuffRows ==
    ASSUME NEW st \in Seq(Statement), NEW di \in Seq(Statement), NEW t \in Row,
           Queued(st, di, t), st # <<>>, ~HasOlder(di, Head(st).row.ver)
    PROVE  LET w == Head(st).row
               R == RowsOf(st, di, t)
               R2 == RowsOf(Tail(st), di, w)
           IN  /\ Queued(Tail(st), di, w)
               /\ w \in R /\ R = R2 \cup {t}
               /\ t.ver < w.ver /\ \A r \in R2 : w.ver <= r.ver
<1> DEFINE w == Head(st).row
<1>1. /\ Head(st).asks = Nobody
      /\ QueuedRows(st) = QueuedRows(Tail(st)) \cup {w}
      /\ InOrderOf(Tail(st))
      /\ \A r \in QueuedRows(Tail(st)) : w.ver < r.ver
      /\ Writes(Tail(st)) = DOMAIN Tail(st)
  BY TailRows DEF Queued
<1>2. \A r \in QueuedRows(di) : ~(r.ver < w.ver)
  BY HasOlderRow
<1>3. QueuedRows(st) \in SUBSET Row /\ QueuedRows(di) \in SUBSET Row
  BY QueuedRowsType
<1> HIDE DEF w
<1>4. w \in Row /\ w.ver \in Nat
  BY <1>1, <1>3, RowVer
<1>5. \A r \in QueuedRows(di) : w.ver < r.ver
  <2> SUFFICES ASSUME NEW r \in QueuedRows(di) PROVE w.ver < r.ver
    OBVIOUS
  <2>1. w.ver # r.ver
    BY <1>1 DEF Queued
  <2>2. r.ver \in Nat
    BY <1>3, RowVer
  <2> QED BY <1>2, <1>4, <2>1, <2>2
<1>6. Queued(Tail(st), di, w)
  BY <1>1, <1>5 DEF Queued
<1>7. t.ver < w.ver
  BY <1>1 DEF Queued
<1>8. \A r \in RowsOf(Tail(st), di, w) : w.ver <= r.ver
  <2> SUFFICES ASSUME NEW r \in RowsOf(Tail(st), di, w) PROVE w.ver <= r.ver
    OBVIOUS
  <2>1. r = w \/ r \in QueuedRows(Tail(st)) \/ r \in QueuedRows(di)
    BY DEF RowsOf
  <2>2. r \in Row
    BY <1>1, <1>3, <1>4, <2>1
  <2>3. r.ver \in Nat
    BY <2>2, RowVer
  <2>4. r = w \/ w.ver < r.ver
    BY <1>1, <1>5, <2>1
  <2> QED BY <1>4, <2>3, <2>4
<1>9. w \in RowsOf(st, di, t) /\ RowsOf(st, di, t) = RowsOf(Tail(st), di, w) \cup {t}
  BY <1>1 DEF RowsOf
<1> QED BY <1>6, <1>7, <1>8, <1>9 DEF w

\* The direct channel executes a write, none older waiting in the stuff one.
LEMMA RunDirectRows ==
    ASSUME NEW st \in Seq(Statement), NEW di \in Seq(Statement), NEW t \in Row,
           Queued(st, di, t), di # <<>>, Head(di).asks = Nobody,
           ~HasOlder(st, Head(di).row.ver)
    PROVE  LET w == Head(di).row
               R == RowsOf(st, di, t)
               R2 == RowsOf(st, Tail(di), w)
           IN  /\ Queued(st, Tail(di), w)
               /\ w \in R /\ R = R2 \cup {t}
               /\ t.ver < w.ver /\ \A r \in R2 : w.ver <= r.ver
<1> DEFINE w == Head(di).row
<1>1. /\ QueuedRows(di) = QueuedRows(Tail(di)) \cup {w}
      /\ InOrderOf(Tail(di))
      /\ \A r \in QueuedRows(Tail(di)) : w.ver < r.ver
  BY TailRows DEF Queued
<1>2. \A r \in QueuedRows(st) : ~(r.ver < w.ver)
  BY HasOlderRow
<1>3. QueuedRows(st) \in SUBSET Row /\ QueuedRows(di) \in SUBSET Row
  BY QueuedRowsType
<1> HIDE DEF w
<1>4. w \in Row /\ w.ver \in Nat
  BY <1>1, <1>3, RowVer
<1>5. \A r \in QueuedRows(st) : w.ver < r.ver
  <2> SUFFICES ASSUME NEW r \in QueuedRows(st) PROVE w.ver < r.ver
    OBVIOUS
  <2>1. w.ver # r.ver
    BY <1>1 DEF Queued
  <2>2. r.ver \in Nat
    BY <1>3, RowVer
  <2> QED BY <1>2, <1>4, <2>1, <2>2
<1>6. Queued(st, Tail(di), w)
  BY <1>1, <1>5 DEF Queued
<1>7. t.ver < w.ver
  BY <1>1 DEF Queued
<1>8. \A r \in RowsOf(st, Tail(di), w) : w.ver <= r.ver
  <2> SUFFICES ASSUME NEW r \in RowsOf(st, Tail(di), w) PROVE w.ver <= r.ver
    OBVIOUS
  <2>1. r = w \/ r \in QueuedRows(st) \/ r \in QueuedRows(Tail(di))
    BY DEF RowsOf
  <2>2. r \in Row
    BY <1>1, <1>3, <1>4, <2>1
  <2>3. r.ver \in Nat
    BY <2>2, RowVer
  <2>4. r = w \/ w.ver < r.ver
    BY <1>1, <1>5, <2>1
  <2> QED BY <1>4, <2>3, <2>4
<1>9. w \in RowsOf(st, di, t) /\ RowsOf(st, di, t) = RowsOf(st, Tail(di), w) \cup {t}
  BY <1>1 DEF RowsOf
<1> QED BY <1>6, <1>7, <1>8, <1>9 DEF w

\* When only the oldest row is gone, the newest value and the last row stay.
LEMMA OldestGone ==
    ASSUME NEW R \in SUBSET Row, NEW R2 \in SUBSET Row, NEW t \in Row, NEW w \in R2,
           R = R2 \cup {t}, t.ver < w.ver, \A r \in R2 : w.ver <= r.ver,
           NEW s \in Row, NEW e, Newest(e, R, s)
    PROVE  /\ Newest(e, R2, s)
           /\ \A r : Last(R2, r) => Last(R, r)
<1>1. \A r \in R : r.ver \in Nat
  BY RowVer
<1>2. w.ver \in Nat /\ t.ver \in Nat /\ w \in R
  BY RowVer
<1>3. Newest(e, R2, s)
  <2>1. CASE e.need
    BY <2>1 DEF Newest
  <2>2. CASE ~e.need
    <3>1. s \in R /\ \A r \in R : r.ver <= s.ver
      BY <2>2 DEF Newest
    <3>2. s # t
      BY <1>2, <3>1
    <3> QED BY <2>2, <3>1, <3>2 DEF Newest
  <2> QED BY <2>1, <2>2
<1>4. ASSUME NEW r, Last(R2, r) PROVE Last(R, r)
  <2>1. r \in R /\ \A o \in R2 : o.ver <= r.ver
    BY <1>4 DEF Last
  <2>2. t.ver <= r.ver
    BY <1>1, <1>2, <2>1
  <2> QED BY <2>1, <2>2 DEF Last
<1> QED BY <1>3, <1>4

\* Among rows there is a newest.
LEMMA LastExists ==
    ASSUME NEW R \in SUBSET Row, R # {}
    PROVE  \E r \in R : Last(R, r)
<1> DEFINE S == {MaxSave - r.ver : r \in R}
<1>1. \A r \in R : r.ver \in Nat /\ r.ver <= MaxSave
  BY RowVer
<1>2. MaxSave \in Nat
  BY ConstantTypes
<1>3. S \subseteq Nat /\ S # {}
  BY <1>1, <1>2
<1>4. PICK m \in S : \A n \in S : <<n, m>> \notin OpToRel(<, Nat)
  <2> HIDE DEF S
  <2> QED BY <1>3, NatLessThanWellFounded, WFMin
<1>5. PICK r \in R : m = MaxSave - r.ver
  OBVIOUS
<1>6. \A o \in R : o.ver <= r.ver
  <2> SUFFICES ASSUME NEW o \in R PROVE o.ver <= r.ver
    OBVIOUS
  <2>1. MaxSave - o.ver \in S
    OBVIOUS
  <2>2. ~(MaxSave - o.ver < m)
    BY <1>3, <1>4, <2>1 DEF OpToRel
  <2> QED BY <1>1, <1>2, <1>5, <2>2
<1> QED BY <1>5, <1>6 DEF Last

-----------------------------------------------------------------------------
(***************************************************************************)
(* One item in a step that saves nothing: its entry is written back or       *)
(* forgotten, or nothing is done to it.                                      *)
(***************************************************************************)

LEMMA ItemTypes ==
    ASSUME TypeOK, NEW i \in Item
    PROVE  /\ db.entry[i] \in Entry
           /\ db.stuff[i] \in Seq(Statement) /\ db.direct[i] \in Seq(Statement)
           /\ table[i] \in Row /\ saved[i] \in Row
           /\ RowsNow(i) \in SUBSET Row
           /\ Value(db.entry[i]) \in Row
<1>1. /\ db.entry[i] \in Entry
      /\ db.stuff[i] \in Seq(Statement) /\ db.direct[i] \in Seq(Statement)
      /\ table[i] \in Row /\ saved[i] \in Row
  BY DEF TypeOK, DB
<1> QED BY <1>1, RowsOfType, ValueType DEF RowsNow

\* An entry is as dirty as it was; e and e2 are the entry before and after, st and
\* st2 the stuff queue, s what was saved last.
Same(e, e2, st, st2, s) ==
    /\ st2 = st
    /\ e2.need = e.need
    /\ e2.owner # Nobody => Value(e2) = s
    /\ e2.need => e2.owner = e.owner /\ e2.live = e.live

\* A dirty entry is written; it is then clean, or gone.
WrittenBack(e, e2, st, st2, s) ==
    /\ e.need /\ ~e2.need
    /\ st2 = Append(st, Write(s)) /\ ~s.box
    /\ e2.owner # Nobody => Value(e2) = s

Kept(e, e2, st, st2, s) == Same(e, e2, st, st2, s) \/ WrittenBack(e, e2, st, st2, s)

Upkeep(i) ==
    /\ db'.direct[i] = db.direct[i] /\ table'[i] = table[i] /\ saved'[i] = saved[i]
    /\ Kept(db.entry[i], db'.entry[i], db.stuff[i], db'.stuff[i], saved[i])

\* No value becomes dirty, and while one is, the row as it will be stays.
StaysBehind(i) ==
    db'.entry[i].need => /\ db.entry[i].need
                         /\ \A r : Last(RowsNow(i)', r) => Last(RowsNow(i), r)

LEMMA UpkeepKept ==
    ASSUME TypeOK, NEW i \in Item, ItemKept(i), Upkeep(i)
    PROVE  ItemKept(i)' /\ StaysBehind(i)
<1> DEFINE e == db.entry[i]
           e2 == db'.entry[i]
           st == db.stuff[i]
           st2 == db'.stuff[i]
           di == db.direct[i]
           t == table[i]
           s == saved[i]
<1>1. /\ e \in Entry /\ st \in Seq(Statement) /\ di \in Seq(Statement)
      /\ t \in Row /\ s \in Row /\ RowsNow(i) \in SUBSET Row /\ Value(e) \in Row
  BY ItemTypes
<1>2. db'.direct[i] = di /\ table'[i] = t /\ saved'[i] = s
  BY DEF Upkeep
<1>3. Queued(st, di, t) /\ Newest(e, RowsOf(st, di, t), s)
  BY DEF ItemKept, RowsNow
<1>4. RowsNow(i) = RowsOf(st, di, t) /\ RowsNow(i)' = RowsOf(st2, di, t)
  BY <1>2 DEF RowsNow
<1>5. (ItemKept(i))' <=> Queued(st2, di, t) /\ Newest(e2, RowsOf(st2, di, t), s)
  BY <1>2, <1>4 DEF ItemKept
<1>6. Same(e, e2, st, st2, s) \/ WrittenBack(e, e2, st, st2, s)
  BY DEF Upkeep, Kept
<1>7. StaysBehind(i) <=> (e2.need => /\ e.need
         /\ \A r : Last(RowsOf(st2, di, t), r) => Last(RowsOf(st, di, t), r))
  BY <1>4 DEF StaysBehind
<1> HIDE DEF e, e2, st, st2, di, t, s
<1>8. CASE Same(e, e2, st, st2, s)
  <2>1. Newest(e2, RowsOf(st, di, t), s)
    BY <1>3, <1>8 DEF Newest, Same
  <2> QED BY <1>3, <1>5, <1>7, <1>8, <2>1 DEF Same
<1>9. CASE WrittenBack(e, e2, st, st2, s)
  <2>1. /\ Value(e) = s /\ \A r \in RowsOf(st, di, t) : r.ver < s.ver
    BY <1>3, <1>9 DEF Newest, WrittenBack
  <2>2. Queued(st2, di, t) /\ RowsOf(st2, di, t) = RowsOf(st, di, t) \cup {s}
    BY <1>1, <1>3, <1>9, <2>1, WriteToStuff DEF WrittenBack
  <2>3. \A r \in RowsOf(st2, di, t) : r.ver <= s.ver
    <3>1. \A r \in RowsOf(st, di, t) : r.ver \in Nat
      BY <1>1, <1>4, RowVer
    <3>2. s.ver \in Nat
      BY <1>1, RowVer
    <3> QED BY <2>1, <2>2, <3>1, <3>2
  <2>4. Newest(e2, RowsOf(st2, di, t), s)
    BY <1>9, <2>1, <2>2, <2>3 DEF Newest, WrittenBack
  <2> QED BY <1>5, <1>7, <1>9, <2>2, <2>4 DEF WrittenBack
<1> QED BY <1>6, <1>8, <1>9

LEMMA UpkeepBoxRead ==
    ASSUME TypeOK, NEW i \in Item, Upkeep(i), NEW k, NEW p,
           BoxRead(db.stuff[i], db.direct[i], table[i], saved[i], k, p)
    PROVE  BoxRead(db'.stuff[i], db'.direct[i], table'[i], saved'[i], k, p)
<1> DEFINE st == db.stuff[i]
           st2 == db'.stuff[i]
           di == db.direct[i]
<1>1. st \in Seq(Statement) /\ saved[i] \in Row
  BY ItemTypes
<1>2. db'.direct[i] = di /\ table'[i] = table[i] /\ saved'[i] = saved[i]
  BY DEF Upkeep
<1> SUFFICES BoxRead(st2, di, table[i], saved[i], k, p)
  BY <1>2
<1>4. CASE st2 = st
  BY <1>4
<1>5. CASE st2 = Append(st, Write(saved[i])) /\ ~saved[i].box
  <2>1. QueuedRows(st2) = QueuedRows(st) \cup {saved[i]}
    BY <1>1, <1>5, AppendWrite
  <2> HIDE DEF st, st2, di
  <2> QED BY <1>5, <2>1 DEF BoxRead, RowsOf, st, di
<1> QED BY <1>4, <1>5 DEF Upkeep, Kept, Same, WrittenBack

LEMMA BehindKept ==
    ASSUME TypeOK, NEW i \in Item, Behind(i), StaysBehind(i),
           \A p \in Player : db'.entry[i].need /\ Stays(p, db.entry[i].age)
                                => Stays(p, db.entry[i].age)'
    PROVE  Behind(i)'
<1> SUFFICES ASSUME db'.entry[i].need, NEW r \in RowsNow(i)', Last(RowsNow(i)', r)
             PROVE  /\ ~r.box
                    /\ r.owner \in Player => Stays(r.owner, db.entry[i].age)'
  BY DEF Behind
<1>1. db.entry[i].need /\ Last(RowsNow(i), r)
  BY DEF StaysBehind
<1>2. r \in RowsNow(i)
  BY <1>1 DEF Last
<1> QED BY <1>1, <1>2 DEF Behind

\* The SELECTs waiting are some of those that waited.
FewerLoads ==
    \A k \in DOMAIN load' : \E j \in DOMAIN load :
        /\ load'[k].what = load[j].what /\ load'[k].pid = load[j].pid
        /\ load'[k].run = load[j].run /\ load'[k].rows = load[j].rows

LEMMA LoadsReadKept ==
    ASSUME NEW i \in Item, LoadsRead(i), StaysBehind(i), FewerLoads, saved'[i] = saved[i]
    PROVE  LoadsRead(i)'
<1> SUFFICES ASSUME NEW k \in DOMAIN load', load'[k].what = "item"
             PROVE  IF load'[k].run
                      THEN load'[k].rows[i].owner # Nobody =>
                              /\ load'[k].rows[i] = saved'[i]
                              /\ saved'[i].owner = load'[k].pid /\ ~saved'[i].box
                      ELSE db'.entry[i].need =>
                              \A r \in RowsNow(i)' : Last(RowsNow(i)', r) =>
                                    r.owner # load'[k].pid
  BY DEF LoadsRead
<1>1. PICK j \in DOMAIN load :
         /\ load'[k].what = load[j].what /\ load'[k].pid = load[j].pid
         /\ load'[k].run = load[j].run /\ load'[k].rows = load[j].rows
  BY DEF FewerLoads
<1>2. CASE load'[k].run
  BY <1>1, <1>2 DEF LoadsRead
<1>3. CASE ~load'[k].run
  <2> SUFFICES ASSUME db'.entry[i].need, NEW r \in RowsNow(i)', Last(RowsNow(i)', r)
               PROVE  r.owner # load'[k].pid
    BY <1>3
  <2>1. db.entry[i].need /\ Last(RowsNow(i), r)
    BY DEF StaysBehind
  <2>2. r \in RowsNow(i)
    BY <2>1 DEF Last
  <2> QED BY <1>1, <1>3, <2>1, <2>2 DEF LoadsRead
<1> QED BY <1>2, <1>3

\* Who has an item has it still, or nobody has.
LEMMA HeldKept ==
    ASSUME TypeOK, NEW i \in Item, HeldWhereSaved(i), saved'[i] = saved[i],
           \A c \in Core : /\ on'[c][i] \in {on[c][i], Nobody}
                           /\ i \in inBox'[c] <=> i \in inBox[c] /\ on'[c][i] # Nobody,
           \A c \in Core, p \in Player : on'[c][i] = p /\ Playing(p) =>
              /\ session'[p].phase = "play" /\ session'[p].core = CoreOf(p)
              /\ p \in open => p \in open'
    PROVE  HeldWhereSaved(i)'
<1>1. \A c \in Core : on'[c][i] # Nobody => on'[c][i] = on[c][i]
  OBVIOUS
<1>2. ASSUME NEW c \in Core, on'[c][i] # Nobody
      PROVE  /\ saved'[i].owner = (IF on'[c][i] = Ground THEN Nobody ELSE on'[c][i])
             /\ saved'[i].box = (i \in inBox'[c])
             /\ on'[c][i] \in Player => /\ session'[on'[c][i]].phase = "play"
                                        /\ session'[on'[c][i]].core = c
  <2>1. on'[c][i] = on[c][i] /\ (i \in inBox'[c] <=> i \in inBox[c])
    BY <1>1, <1>2
  <2>2. /\ saved[i].owner = (IF on[c][i] = Ground THEN Nobody ELSE on[c][i])
        /\ saved[i].box = (i \in inBox[c])
        /\ on[c][i] \in Player => Playing(on[c][i]) /\ CoreOf(on[c][i]) = c
    BY <1>2, <2>1 DEF HeldWhereSaved
  <2>3. saved'[i].box = (i \in inBox'[c])
    BY <2>1, <2>2
  <2>4. on'[c][i] \in Player => /\ session'[on'[c][i]].phase = "play"
                                /\ session'[on'[c][i]].core = CoreOf(on'[c][i])
    BY <2>1, <2>2
  <2> QED BY <2>1, <2>2, <2>3, <2>4
<1>3. ASSUME NEW c \in Core, i \in inBox'[c] PROVE on'[c][i] \in open'
  <2>1. on'[c][i] # Nobody /\ i \in inBox[c]
    BY <1>3
  <2>2. on'[c][i] = on[c][i] /\ on[c][i] \in open
    BY <1>1, <2>1 DEF HeldWhereSaved
  <2>3. open \subseteq {p \in Player : Playing(p)}
    BY DEF TypeOK
  <2> QED BY <2>2, <2>3
<1>4. ASSUME NEW b \in Core, NEW c \in Core, on'[b][i] # Nobody, on'[c][i] # Nobody
      PROVE  b = c
  BY <1>1, <1>4 DEF HeldWhereSaved
<1> QED BY <1>2, <1>3, <1>4 DEF HeldWhereSaved, Playing, CoreOf

\* The SELECTs of safeboxes stay, of those who still have theirs open.
LEMMA BoxesReadKept ==
    ASSUME TypeOK, NEW i \in Item, BoxesRead(i), Upkeep(i), open' \subseteq open,
           \A p \in open' :
              /\ session'[p].core = CoreOf(p)
              /\ on'[CoreOf(p)][i] = p /\ i \in inBox'[CoreOf(p)] =>
                    on[CoreOf(p)][i] = p /\ i \in inBox[CoreOf(p)]
    PROVE  BoxesRead(i)'
<1>1. db'.direct[i] = db.direct[i]
  BY DEF Upkeep
<1> SUFFICES ASSUME NEW k \in DOMAIN db.direct[i], NEW p, p = db.direct[i][k].asks, p \in open'
             PROVE  /\ BoxRead(db'.stuff[i], db'.direct[i], table'[i], saved'[i], k, p)
                    /\ ~(on'[session'[p].core][i] = p /\ i \in inBox'[session'[p].core])
                    /\ \A j \in DOMAIN db.direct[i] : db.direct[i][j].asks = p => j = k
  BY <1>1 DEF BoxesRead, CoreOf
<1>2. p \in open
  OBVIOUS
<1>3. /\ BoxRead(db.stuff[i], db.direct[i], table[i], saved[i], k, p)
      /\ ~(on[CoreOf(p)][i] = p /\ i \in inBox[CoreOf(p)])
      /\ \A j \in DOMAIN db.direct[i] : db.direct[i][j].asks = p => j = k
  BY <1>2 DEF BoxesRead
<1>4. BoxRead(db'.stuff[i], db'.direct[i], table'[i], saved'[i], k, p)
  BY <1>3, UpkeepBoxRead
<1>5. session'[p].core = CoreOf(p)
  OBVIOUS
<1> QED BY <1>3, <1>4, <1>5

LEMMA KeptTrans ==
    ASSUME NEW e, NEW e1, NEW e2, NEW st, NEW st1, NEW st2, NEW s,
           Kept(e, e1, st, st1, s), Kept(e1, e2, st1, st2, s)
    PROVE  Kept(e, e2, st, st2, s)
  BY DEF Kept, Same, WrittenBack

LEMMA SameItemUpkeep ==
    ASSUME NEW i \in Item, ItemKept(i), db'.entry[i] = db.entry[i],
           db'.stuff[i] = db.stuff[i], db'.direct[i] = db.direct[i],
           table'[i] = table[i], saved'[i] = saved[i]
    PROVE  Upkeep(i)
  BY DEF ItemKept, Newest, Upkeep, Kept, Same

LEMMA WaitingRows == \A i \in Item : RowsNow(i) = {table[i]} \cup Waiting(i)
  BY DEF RowsNow, RowsOf, QueuedRows, Waiting

\* Nobody is a player, and who has his safebox open plays.
LEMMA WhoTypes ==
    ASSUME TypeOK
    PROVE  /\ open \subseteq Player /\ \A p \in open : Playing(p)
           /\ \A p \in Player : Playing(p) => CoreOf(p) \in Core /\ session[p] # Off
           /\ Nobody \notin Player /\ Ground \notin Player /\ Nobody # Ground
<1>1. open \subseteq {p \in Player : Playing(p)}
  BY DEF TypeOK
<1>2. \A p \in Player : Playing(p) => session[p].phase = "play"
  BY DEF Playing
<1>3. Nobody \notin Player /\ Ground \notin Player /\ Nobody # Ground
  BY CacheAssumption
<1> QED BY <1>1, <1>2, <1>3, PlaysOnCore DEF Off

\* A player is given an item that was saved last as his, if nobody has it there.
LEMMA GiveHeld ==
    ASSUME TypeOK, NEW i \in Item, HeldWhereSaved(i), NEW c \in Core, NEW p \in Player,
           saved'[i] = saved[i], UNCHANGED <<inBox, open>>,
           \A b \in Core : \/ on'[b][i] = on[b][i]
                           \/ /\ b = c /\ on[c][i] = Nobody /\ on'[c][i] = p
                              /\ saved[i].owner = p /\ ~saved[i].box,
           session'[p].phase = "play" /\ session'[p].core = c,
           \A q \in Player : q # p => session'[q] = session[q],
           Playing(p) => CoreOf(p) = c
    PROVE  HeldWhereSaved(i)'
<1>1. CASE \A b \in Core : on'[b][i] = on[b][i]
  <2>1. \A b \in Core : /\ on'[b][i] \in {on[b][i], Nobody}
                        /\ i \in inBox'[b] <=> i \in inBox[b] /\ on'[b][i] # Nobody
    BY <1>1, WhoTypes DEF HeldWhereSaved
  <2>2. \A b \in Core, q \in Player : on'[b][i] = q /\ Playing(q) =>
           /\ session'[q].phase = "play" /\ session'[q].core = CoreOf(q)
           /\ q \in open => q \in open'
    BY DEF Playing, CoreOf
  <2> QED BY <2>1, <2>2, HeldKept
<1>2. CASE ~\A b \in Core : on'[b][i] = on[b][i]
  <2>1. /\ on[c][i] = Nobody /\ on'[c][i] = p /\ saved[i].owner = p /\ ~saved[i].box
        /\ \A b \in Core : b # c => on'[b][i] = on[b][i]
    BY <1>2
  <2>2. i \notin inBox[c]
    BY <2>1, WhoTypes DEF HeldWhereSaved
  <2>3. \A b \in Core : on[b][i] = Nobody
    <3> SUFFICES ASSUME NEW b \in Core, on[b][i] # Nobody PROVE FALSE
      OBVIOUS
    <3>1. on[b][i] = p
      BY <2>1, WhoTypes DEF HeldWhereSaved
    <3>2. Playing(p) /\ CoreOf(p) = b
      BY <3>1, WhoTypes DEF HeldWhereSaved
    <3> QED BY <2>1, <3>1, <3>2
  <2>4. \A b \in Core : b # c => on'[b][i] = Nobody /\ i \notin inBox[b]
    BY <2>1, <2>3, WhoTypes DEF HeldWhereSaved
  <2>5. /\ on'[c][i] = p /\ inBox' = inBox /\ saved'[i] = saved[i] /\ p # Ground
        /\ \A b \in Core : on'[b][i] # Nobody \/ i \in inBox'[b] => b = c
    BY <2>1, <2>2, <2>4, WhoTypes
  <2>6. \A b \in Core : on'[b][i] # Nobody =>
          /\ saved'[i].owner = (IF on'[b][i] = Ground THEN Nobody ELSE on'[b][i])
          /\ saved'[i].box = (i \in inBox'[b])
          /\ on'[b][i] \in Player => /\ session'[on'[b][i]].phase = "play"
                                     /\ session'[on'[b][i]].core = b
    <3>1. saved[i].box = FALSE
      BY <2>1, ItemTypes DEF Row
    <3>2. (i \in inBox'[c]) = FALSE
      BY <2>2, <2>5
    <3>3. saved'[i].owner = p /\ saved'[i].box = FALSE
      BY <2>1, <2>5, <3>1
    <3> SUFFICES ASSUME NEW b \in Core, on'[b][i] # Nobody
                 PROVE  /\ saved'[i].owner = (IF on'[b][i] = Ground THEN Nobody ELSE on'[b][i])
                        /\ saved'[i].box = (i \in inBox'[b])
                        /\ on'[b][i] \in Player => /\ session'[on'[b][i]].phase = "play"
                                                   /\ session'[on'[b][i]].core = b
      OBVIOUS
    <3>4. b = c
      BY <2>5
    <3> QED BY <2>5, <3>2, <3>3, <3>4
  <2>7. \A b \in Core : i \notin inBox'[b]
    BY <2>2, <2>5
  <2> QED BY <2>5, <2>6, <2>7 DEF HeldWhereSaved, Playing, CoreOf
<1> QED BY <1>1, <1>2

-----------------------------------------------------------------------------
(***************************************************************************)
(* Logging on and off.                                                     *)
(***************************************************************************)

LEMMA LoginNewest ==
    ASSUME NewestInv, NEW p \in Player, NEW c \in Core, Login(p, c)
    PROVE  SessionsKept' /\ \A i \in Item \ raced' : ItemInv(i)'
<1>0. TypeOK /\ CacheBooks /\ SessionsKept
  BY DEF NewestInv, CacheInv
<1>1. /\ UNCHANGED <<db, table, inBox, open, saved, raced, down>>
      /\ logout' = [logout EXCEPT ![p] = NotOut] /\ session[p] = Off /\ ~down
  BY DEF Login
<1>2. /\ session \in [Player -> Session] /\ logout \in [Player -> 0 .. LogoutAge + 2]
      /\ load \in Seq(Select)
  BY <1>0 DEF TypeOK
<1>3. \A q \in Player : q # p => session'[q] = session[q]
  BY <1>2 DEF Login
<1>4. \/ /\ p \in db.players /\ session'[p] = [core |-> c, phase |-> "play"]
         /\ Give(c, p, {i \in db.setItems[p] : db.entry[i].live}) /\ UNCHANGED load
      \/ session'[p] = [core |-> c, phase |-> "wait"] /\ UNCHANGED <<on, load>>
      \/ /\ session'[p] = [core |-> c, phase |-> "wait"] /\ UNCHANGED on
         /\ p \notin db.players
         /\ load' = load \o <<SelectOf("player", p, c), SelectOf("item", p, c)>>
  BY <1>2 DEF Login
<1>5. ~Playing(p) /\ p \notin open
  BY <1>0, <1>1, WhoTypes
<1>6. SessionsKept'
  <2> SUFFICES ASSUME NEW q \in Player
               PROVE  /\ session'[q].phase # "off" => logout'[q] = NotOut
                      /\ session'[q].phase = "play" /\ ~down => q \in db.players
    BY <1>1 DEF SessionsKept, Playing
  <2>1. CASE q = p
    BY <1>1, <1>2, <1>4, <2>1
  <2>2. CASE q # p
    BY <1>0, <1>1, <1>2, <1>3, <2>2 DEF SessionsKept, Playing
  <2> QED BY <2>1, <2>2
<1>7. ASSUME NEW i \in Item \ raced' PROVE ItemInv(i)'
  <2>0. ItemKept(i) /\ Behind(i) /\ LoadsRead(i) /\ HeldWhereSaved(i) /\ BoxesRead(i)
    BY <1>1, <1>7 DEF NewestInv, ItemInv
  <2>1. Upkeep(i)
    BY <1>1, <2>0, SameItemUpkeep
  <2>2. ItemKept(i)' /\ StaysBehind(i)
    BY <1>0, <2>0, <2>1, UpkeepKept
  <2>3. \A q \in Player : Stays(q, db.entry[i].age) => Stays(q, db.entry[i].age)'
    BY <1>1, <1>2 DEF Stays, NotOut
  <2>4. Behind(i)'
    BY <1>0, <2>0, <2>2, <2>3, BehindKept
  <2>5. LoadsRead(i)'
    <3>1. CASE load' = load
      <4>1. FewerLoads
        BY <3>1 DEF FewerLoads
      <4> QED BY <1>1, <2>0, <2>2, <4>1, LoadsReadKept
    <3>2. CASE /\ p \notin db.players
               /\ load' = load \o <<SelectOf("player", p, c), SelectOf("item", p, c)>>
      <4>1. ASSUME NEW k \in DOMAIN load', load'[k].what = "item"
            PROVE  \/ k \in DOMAIN load /\ load'[k] = load[k]
                   \/ load'[k] = SelectOf("item", p, c)
        <5>1. /\ SelectOf("player", p, c) \in Select /\ SelectOf("item", p, c) \in Select
              /\ SelectOf("player", p, c).what = "player"
          BY SelectOfType DEF SelectOf
        <5>2. CASE k \in DOMAIN load
          BY <1>2, <3>2, <5>1, <5>2
        <5>3. CASE k \notin DOMAIN load
          <6>1. load'[k] \in {SelectOf("player", p, c), SelectOf("item", p, c)}
            BY <1>2, <3>2, <5>1, <5>3, <4>1
          <6> QED BY <4>1, <5>1, <6>1
        <5> QED BY <5>2, <5>3
      <4>2. db.entry[i].need =>
               \A r \in RowsNow(i) : Last(RowsNow(i), r) => r.owner # p
        BY <2>0, <3>2 DEF Behind, Stays
      <4>3. ~SelectOf("item", p, c).run /\ SelectOf("item", p, c).pid = p
        BY DEF SelectOf
      <4>4. RowsNow(i)' = RowsNow(i)
        BY <1>1 DEF RowsNow
      <4> SUFFICES ASSUME NEW k \in DOMAIN load', load'[k].what = "item"
                   PROVE  IF load'[k].run
                            THEN load'[k].rows[i].owner # Nobody =>
                                    /\ load'[k].rows[i] = saved[i]
                                    /\ saved[i].owner = load'[k].pid /\ ~saved[i].box
                            ELSE db.entry[i].need =>
                                    \A r \in RowsNow(i) : Last(RowsNow(i), r) =>
                                       r.owner # load'[k].pid
        BY <1>1, <4>4 DEF LoadsRead
      <4>5. CASE k \in DOMAIN load /\ load'[k] = load[k]
        BY <2>0, <4>5 DEF LoadsRead
      <4>6. CASE load'[k] = SelectOf("item", p, c)
        BY <4>2, <4>3, <4>6
      <4> QED BY <4>1, <4>5, <4>6
    <3> QED BY <1>4, <3>1, <3>2
  <2>6. \A b \in Core, q \in Player : on'[b][i] = q /\ q # p => on[b][i] = q
    BY <1>0, <1>4 DEF Give, TypeOK
  <2>7. HeldWhereSaved(i)'
    <3>1. CASE on' = on
      <4>1. \A b \in Core : /\ on'[b][i] \in {on[b][i], Nobody}
                            /\ i \in inBox'[b] <=> i \in inBox[b] /\ on'[b][i] # Nobody
        BY <1>0, <1>1, <2>0, <3>1, WhoTypes DEF HeldWhereSaved
      <4>2. \A b \in Core, q \in Player : on'[b][i] = q /\ Playing(q) =>
               /\ session'[q].phase = "play" /\ session'[q].core = CoreOf(q)
               /\ q \in open => q \in open'
        BY <1>1, <1>3, <1>5 DEF Playing, CoreOf
      <4> QED BY <1>0, <1>1, <2>0, <4>1, <4>2, HeldKept
    <3>2. CASE /\ session'[p] = [core |-> c, phase |-> "play"]
               /\ Give(c, p, {j \in db.setItems[p] : db.entry[j].live})
      <4> DEFINE I == {j \in db.setItems[p] : db.entry[j].live}
      <4>1. i \in I => saved[i].owner = p /\ ~saved[i].box
        <5>1. i \in I => db.entry[i].owner = p /\ db.entry[i].live
          BY <1>0 DEF CacheBooks
        <5>2. i \in I => Value(db.entry[i]) = saved[i]
          BY <1>0, <2>0, <5>1, WhoTypes DEF ItemKept, Newest
        <5> QED BY <5>1, <5>2 DEF Value, RowOf
      <4> HIDE DEF I
      <4>2. \A b \in Core : \/ on'[b][i] = on[b][i]
                            \/ /\ b = c /\ on[c][i] = Nobody /\ on'[c][i] = p /\ i \in I
        BY <1>0, <3>2 DEF Give, TypeOK, I
      <4>3. session'[p].phase = "play" /\ session'[p].core = c
        BY <3>2
      <4> QED BY <1>0, <1>1, <1>3, <1>5, <2>0, <4>1, <4>2, <4>3, GiveHeld
    <3> QED BY <1>4, <3>1, <3>2
  <2>8. BoxesRead(i)'
    <3>1. \A q \in open' : /\ session'[q].core = CoreOf(q)
                           /\ on'[CoreOf(q)][i] = q => on[CoreOf(q)][i] = q
                           /\ i \in inBox'[CoreOf(q)] => i \in inBox[CoreOf(q)]
      BY <1>0, <1>1, <1>3, <1>5, <2>6, WhoTypes DEF CoreOf
    <3> QED BY <1>0, <1>1, <2>0, <2>1, <3>1, BoxesReadKept
  <2> QED BY <2>2, <2>4, <2>5, <2>7, <2>8 DEF ItemInv
<1> QED BY <1>6, <1>7

\* A step of a player load that leaves the caches, the sessions and the cores alone.
LEMMA RunSelectNewest ==
    ASSUME NewestInv, NEW k \in DOMAIN load, RunSelect(k)
    PROVE  SessionsKept' /\ \A i \in Item \ raced' : ItemInv(i)'
<1>0. TypeOK /\ SessionsKept
  BY DEF NewestInv, CacheInv
<1>1. UNCHANGED <<db, table, logout, session, on, inBox, open, saved, down>>
  BY DEF RunSelect, coreVars
<1>2. SessionsKept'
  BY <1>0, <1>1 DEF SessionsKept, Playing
<1>3. ASSUME NEW i \in Item \ raced' PROVE ItemInv(i)'
  <2>0. i \notin raced /\ ~(i \in Finds(k) /\ Waiting(i) # {})
    BY <1>3 DEF RunSelect
  <2>1. ItemKept(i) /\ Behind(i) /\ LoadsRead(i) /\ HeldWhereSaved(i) /\ BoxesRead(i)
    BY <2>0 DEF NewestInv, ItemInv
  <2>2. /\ ItemKept(i)' /\ HeldWhereSaved(i)' /\ BoxesRead(i)' /\ Behind(i)'
        /\ RowsNow(i)' = RowsNow(i)
    BY <1>1, <2>1 DEF ItemKept, HeldWhereSaved, BoxesRead, Behind, Stays, RowsNow, Playing, CoreOf
  <2>3. LoadsRead(i)'
    <3> DEFINE new == [load[k] EXCEPT !.run = TRUE,
                          !.rows = [j \in Item |-> IF j \in Finds(k) THEN table[j] ELSE NoRow]]
    <3>1. load' = [load EXCEPT ![k] = new]
      BY DEF RunSelect
    <3>2. load \in Seq(Select) /\ load[k] \in Select
      BY <1>0 DEF TypeOK
    <3>3. /\ new.what = load[k].what /\ new.pid = load[k].pid /\ new.run
          /\ new.rows = [j \in Item |-> IF j \in Finds(k) THEN table[j] ELSE NoRow]
      BY <3>2 DEF Select
    <3> HIDE DEF new
    <3>4. /\ DOMAIN load' = DOMAIN load /\ load'[k] = new
          /\ \A j \in DOMAIN load : j # k => load'[j] = load[j]
      BY <3>1, <3>2
    <3>5. ~load[k].run
      BY DEF RunSelect
    <3>6. i \in Finds(k) =>
             table[i] = saved[i] /\ table[i].owner = load[k].pid /\ ~table[i].box
      <4> SUFFICES ASSUME i \in Finds(k) 
                   PROVE  table[i] = saved[i] /\ table[i].owner = load[k].pid /\ ~table[i].box
        OBVIOUS
      <4>1. load[k].what = "item" /\ table[i].owner = load[k].pid /\ ~table[i].box
        BY DEF Finds
      <4>2. RowsNow(i) = {table[i]}
        BY <2>0, WaitingRows
      <4>3. table[i].ver \in Nat
        BY <1>0, ItemTypes, RowVer
      <4>4. Last(RowsNow(i), table[i])
        BY <4>2, <4>3 DEF Last
      <4>5. ~db.entry[i].need
        BY <2>1, <3>5, <4>1, <4>2, <4>4 DEF LoadsRead
      <4>6. saved[i] \in RowsNow(i)
        BY <2>1, <4>5 DEF ItemKept, Newest
      <4> QED BY <4>1, <4>2, <4>6
    <3>7. i \notin Finds(k) => new.rows[i].owner = Nobody
      BY <3>3 DEF NoRow, RowOf
    <3>8. i \in Finds(k) => new.rows[i] = table[i]
      BY <3>3
    <3> SUFFICES ASSUME NEW j \in DOMAIN load, load'[j].what = "item"
                 PROVE  IF load'[j].run
                          THEN load'[j].rows[i].owner # Nobody =>
                                  /\ load'[j].rows[i] = saved[i]
                                  /\ saved[i].owner = load'[j].pid /\ ~saved[i].box
                          ELSE db.entry[i].need =>
                                  \A r \in RowsNow(i) : Last(RowsNow(i), r) =>
                                     r.owner # load'[j].pid
      BY <1>1, <2>2, <3>4 DEF LoadsRead
    <3>9. CASE j = k
      BY <3>3, <3>4, <3>6, <3>7, <3>8, <3>9
    <3>10. CASE j # k
      BY <2>1, <3>4, <3>10 DEF LoadsRead
    <3> QED BY <3>9, <3>10
  <2> QED BY <2>2, <2>3 DEF ItemInv
<1> QED BY <1>2, <1>3

LEMMA TailLoads ==
    ASSUME TypeOK, load # <<>>, load' = Tail(load)
    PROVE  FewerLoads /\ Head(load) = load[1] /\ 1 \in DOMAIN load /\ Head(load) \in Select
<1>1. load \in Seq(Select)
  BY DEF TypeOK
<1>2. \A k \in DOMAIN load' : k + 1 \in DOMAIN load /\ load'[k] = load[k + 1]
  BY <1>1, TailIndex
<1>3. Head(load) = load[1] /\ 1 \in DOMAIN load /\ Head(load) \in Select
  BY <1>1
<1> QED BY <1>2, <1>3 DEF FewerLoads

LEMMA ResultPlayerLoadNewest ==
    ASSUME NewestInv, ResultPlayerLoad
    PROVE  SessionsKept' /\ \A i \in Item \ raced' : ItemInv(i)'
<1> DEFINE s == Head(load)
<1>0. TypeOK /\ SessionsKept /\ Addressed
  BY DEF NewestInv, CacheInv
<1>1. UNCHANGED <<table, logout, on, inBox, open, saved, raced, down>>
  BY DEF ResultPlayerLoad
<1>2. FewerLoads /\ s = load[1] /\ 1 \in DOMAIN load /\ s \in Select
  BY <1>0, TailLoads DEF ResultPlayerLoad
<1>3. /\ db'.entry = db.entry /\ db'.stuff = db.stuff /\ db'.direct = db.direct
      /\ db.players \subseteq db'.players
  BY <1>0 DEF ResultPlayerLoad, TypeOK, DB
<1>4. \/ session' = session
      \/ /\ s.to = "session" /\ s.pid \in db'.players
         /\ session' = [session EXCEPT ![s.pid].phase = "play"]
  BY <1>0 DEF ResultPlayerLoad, TypeOK, DB
<1>5. s.pid \in Player /\ s.peer \in Core
  BY <1>2 DEF Select
<1>6. /\ session \in [Player -> Session]
      /\ \A p \in Player : session[p].core = NoCore <=> session[p].phase = "off"
  BY <1>0 DEF TypeOK, CoreOf
<1>7. s.to = "session" => session[s.pid].phase # "off"
  BY <1>0, <1>2, <1>5, <1>6, ConstantTypes DEF Addressed
<1> HIDE DEF s
<1>8. \A p \in Player :
         /\ session'[p].core = CoreOf(p)
         /\ \/ session'[p].phase = session[p].phase
            \/ /\ session'[p].phase = "play" /\ session[p].phase # "off"
               /\ p \in db'.players
  <2>1. CASE session' = session
    BY <2>1 DEF CoreOf
  <2>2. CASE /\ s.to = "session" /\ s.pid \in db'.players
             /\ session' = [session EXCEPT ![s.pid].phase = "play"]
    <3>1. /\ session'[s.pid] = [session[s.pid] EXCEPT !.phase = "play"]
          /\ \A p \in Player : p # s.pid => session'[p] = session[p]
      BY <1>5, <1>6, <2>2
    <3>2. session[s.pid] \in Session
      BY <1>5, <1>6
    <3>3. session'[s.pid].core = session[s.pid].core /\ session'[s.pid].phase = "play"
      BY <3>1, <3>2 DEF Session
    <3> QED BY <1>7, <2>2, <3>1, <3>3 DEF CoreOf
  <2> QED BY <1>4, <2>1, <2>2
<1>9. SessionsKept'
  BY <1>0, <1>1, <1>3, <1>8 DEF SessionsKept, Playing
<1>10. ASSUME NEW i \in Item \ raced' PROVE ItemInv(i)'
  <2>0. ItemKept(i) /\ Behind(i) /\ LoadsRead(i) /\ HeldWhereSaved(i) /\ BoxesRead(i)
    BY <1>1, <1>10 DEF NewestInv, ItemInv
  <2>1. Upkeep(i)
    BY <1>1, <1>3, <2>0, SameItemUpkeep
  <2>2. ItemKept(i)' /\ StaysBehind(i)
    BY <1>0, <2>0, <2>1, UpkeepKept
  <2>3. \A q \in Player : Stays(q, db.entry[i].age) => Stays(q, db.entry[i].age)'
    BY <1>1, <1>3 DEF Stays, NotOut
  <2>4. Behind(i)'
    BY <1>0, <2>0, <2>2, <2>3, BehindKept
  <2>5. LoadsRead(i)'
    BY <1>1, <1>2, <2>0, <2>2, LoadsReadKept
  <2>6. HeldWhereSaved(i)'
    <3>1. \A b \in Core : /\ on'[b][i] \in {on[b][i], Nobody}
                          /\ i \in inBox'[b] <=> i \in inBox[b] /\ on'[b][i] # Nobody
      BY <1>0, <1>1, <2>0, WhoTypes DEF HeldWhereSaved
    <3>2. \A b \in Core, q \in Player : on'[b][i] = q /\ Playing(q) =>
             /\ session'[q].phase = "play" /\ session'[q].core = CoreOf(q)
             /\ q \in open => q \in open'
      BY <1>1, <1>8 DEF Playing
    <3> QED BY <1>0, <1>1, <2>0, <3>1, <3>2, HeldKept
  <2>7. BoxesRead(i)'
    <3>1. \A q \in open' : /\ session'[q].core = CoreOf(q)
                           /\ on'[CoreOf(q)][i] = q => on[CoreOf(q)][i] = q
                           /\ i \in inBox'[CoreOf(q)] => i \in inBox[CoreOf(q)]
      BY <1>0, <1>1, <1>8, WhoTypes
    <3> QED BY <1>0, <1>1, <2>0, <2>1, <3>1, BoxesReadKept
  <2> QED BY <2>2, <2>4, <2>5, <2>6, <2>7 DEF ItemInv
<1> QED BY <1>9, <1>10

LEMMA PutItemCacheSame ==
    ASSUME NEW d \in DB, NEW I, NEW row, NEW skip
    PROVE  /\ PutItemCache(d, I, row, skip).players = d.players
           /\ PutItemCache(d, I, row, skip).direct = d.direct
  BY DEF PutItemCache, DB

\* What a player load puts into the cache.
Loaded(d, I, row) == PutItemCache(d, I, row, TRUE)

LEMMA PutLoadedAt ==
    ASSUME NEW d \in DB, NEW I \in SUBSET Item, NEW row, NEW i \in Item,
           NEW f, f = Loaded(d, I, row)
    PROVE  /\ f.stuff[i] = d.stuff[i]
           /\ i \notin I => f.entry[i] = d.entry[i]
           /\ i \in I /\ row[i].owner \in d.players =>
                /\ f.entry[i].owner = row[i].owner /\ f.entry[i].live
                /\ f.entry[i].ver = row[i].ver /\ f.entry[i].age = d.entry[i].age
                /\ f.entry[i].need <=> d.entry[i].need
           /\ i \in I /\ row[i].owner \notin d.players /\ d.entry[i].owner # row[i].owner =>
                f.entry[i] = NoEntry
<1> DEFINE isNew == {j \in I : d.entry[j].owner # row[j].owner}
           refused == {j \in isNew : row[j].owner \notin d.players}
           left == Leave(d, isNew)
           se == [p \in Player |-> left[p] \cup {j \in isNew \ refused : row[j].owner = p}]
           put(j) == PutEntry(d.entry[j], row[j], TRUE)
           en == [j \in Item |-> CASE j \in refused -> NoEntry
                                  [] j \in I \ refused -> put(j)
                                  [] OTHER -> d.entry[j]]
           st == [j \in Item |-> IF j \in refused /\ ~TRUE
                    THEN Append(d.stuff[j], Write(row[j])) ELSE d.stuff[j]]
<1>1. f = [d EXCEPT !.setItems = se, !.entry = en, !.stuff = st]
  BY DEF PutItemCache, Loaded
<1>2. i \in refused <=> i \in I /\ d.entry[i].owner # row[i].owner /\ row[i].owner \notin d.players
  OBVIOUS
<1>3. /\ put(i).owner = row[i].owner /\ put(i).live /\ put(i).ver = row[i].ver
      /\ put(i).age = d.entry[i].age /\ (put(i).need <=> d.entry[i].need)
  BY DEF PutEntry
<1> HIDE DEF refused, put
<1>4. /\ i \in refused => en[i] = NoEntry
      /\ i \in I \ refused => en[i] = put(i)
      /\ i \notin I => i \notin refused
      /\ i \notin I => en[i] = d.entry[i]
      /\ st[i] = d.stuff[i]
  BY <1>2
<1> HIDE DEF se, en, st
<1>5. f.entry = en /\ f.stuff = st
  BY <1>1 DEF DB
<1> QED BY <1>2, <1>3, <1>4, <1>5

\* The value of a live entry with the owner and version of a row not in a box.
LEMMA ValueOfRow ==
    ASSUME NEW row \in Row, ~row.box, NEW e, e.live, e.owner = row.owner, e.ver = row.ver
    PROVE  Value(e) = row
<1>1. row = [owner |-> row.owner, box |-> FALSE, ver |-> row.ver]
  BY DEF Row
<1> QED BY <1>1 DEF Value, RowOf

LEMMA ResultItemLoadNewest ==
    ASSUME NewestInv, ResultItemLoad
    PROVE  SessionsKept' /\ \A i \in Item \ raced' : ItemInv(i)'
<1> DEFINE s == Head(load)
           I == {i \in Item : s.rows[i].owner # Nobody}
<1>0. TypeOK /\ CacheBooks /\ SessionsKept
  BY DEF NewestInv, CacheInv
<1>1. UNCHANGED <<table, logout, session, inBox, open, saved, raced, down>>
  BY DEF ResultItemLoad
<1>2. FewerLoads /\ s = load[1] /\ 1 \in DOMAIN load /\ s \in Select
  BY <1>0, TailLoads DEF ResultItemLoad
<1>3. s.pid \in Player
  BY <1>2 DEF Select
<1>4. s.what = "item" /\ s.run
  BY DEF ResultItemLoad
<1>5. db' = db \/ db' = Loaded(db, I, s.rows)
  BY DEF ResultItemLoad, Loaded
<1>6. on' = on \/ (Playing(s.pid) /\ Give(CoreOf(s.pid), s.pid, I))
  BY DEF ResultItemLoad
<1>7. I \in SUBSET Item
  OBVIOUS
<1>8. db'.players = db.players /\ db'.direct = db.direct
  <2>1. CASE db' = db
    BY <2>1
  <2>2. CASE db' = Loaded(db, I, s.rows)
    <3> HIDE DEF I, s
    <3>1. db \in DB
      BY <1>0 DEF TypeOK
    <3>2. /\ Loaded(db, I, s.rows).players = db.players
          /\ Loaded(db, I, s.rows).direct = db.direct
      BY <3>1, PutItemCacheSame DEF Loaded
    <3> QED BY <2>2, <3>2
  <2> QED BY <1>5, <2>1, <2>2
<1>9. SessionsKept'
  BY <1>0, <1>1, <1>8 DEF SessionsKept, Playing
<1>10. ASSUME NEW i \in Item \ raced' PROVE ItemInv(i)'
  <2>0. ItemKept(i) /\ Behind(i) /\ LoadsRead(i) /\ HeldWhereSaved(i) /\ BoxesRead(i)
    BY <1>1, <1>10 DEF NewestInv, ItemInv
  <2>t. /\ db.entry[i] \in Entry /\ saved[i] \in Row /\ db \in DB
        /\ Nobody \notin Player /\ Ground \notin Player /\ Nobody # Ground
    BY <1>0, ItemTypes, WhoTypes DEF TypeOK
  <2>e. db'.entry[i] \in Entry
    <3>1. CacheInv'
      BY ResultItemLoadInv DEF NewestInv
    <3> QED BY <3>1 DEF CacheInv, TypeOK, DB
  <2>1. i \in I => /\ s.rows[i] = saved[i] /\ saved[i].owner = s.pid /\ ~saved[i].box
    BY <1>2, <1>4, <2>0 DEF LoadsRead
  <2>2. /\ Kept(db.entry[i], db'.entry[i], db.stuff[i], db'.stuff[i], saved[i])
        /\ db'.entry[i].need => db'.entry[i].age = db.entry[i].age
    <3> DEFINE e == db.entry[i]
               e2 == db'.entry[i]
               put == Loaded(db, I, s.rows)
    <3>0. db' = put =>
             /\ db'.stuff[i] = db.stuff[i]
             /\ i \notin I => e2 = e
             /\ i \in I /\ s.rows[i].owner \in db.players =>
                  /\ e2.owner = s.rows[i].owner /\ e2.live
                  /\ e2.ver = s.rows[i].ver /\ e2.age = e.age /\ (e2.need <=> e.need)
             /\ i \in I /\ s.rows[i].owner \notin db.players /\ e.owner # s.rows[i].owner =>
                  e2 = NoEntry
      <4>1. db \in DB
        BY <2>t
      <4> HIDE DEF s, I
      <4> QED BY <1>7, <4>1, PutLoadedAt
    <3>1. CASE e2 = e /\ db'.stuff[i] = db.stuff[i]
      BY <2>0, <3>1 DEF ItemKept, Newest, Kept, Same
    <3>2. CASE db' = put /\ i \in I
      <4>0. e.need => e.owner = s.pid /\ e.live
        <5>1. e.need => e.owner # Nobody /\ e.live /\ Value(e) = saved[i]
          BY <2>0 DEF ItemKept, Newest
        <5> QED BY <2>1, <3>2, <5>1 DEF Value, RowOf
      <4>1. CASE s.pid \in db.players
        <5>2. /\ e2.owner = s.pid /\ e2.live /\ e2.ver = saved[i].ver
              /\ e2.age = e.age /\ (e2.need <=> e.need) /\ db'.stuff[i] = db.stuff[i]
          <6> HIDE DEF I, s, put, e, e2
          <6> QED BY <2>1, <3>0, <3>2, <4>1
        <5>5. e2.need = e.need
          <6>1. e.need \in BOOLEAN /\ e2.need \in BOOLEAN
            BY <2>t, <2>e DEF Entry
          <6> QED BY <5>2, <6>1
        <5>3. Value(e2) = saved[i]
          BY <2>1, <2>t, <3>2, <5>2, ValueOfRow
        <5>6. e.live \in BOOLEAN /\ e2.live \in BOOLEAN
          BY <2>t, <2>e DEF Entry
        <5>7. e2.need => e2.live = e.live
          BY <4>0, <5>2, <5>5, <5>6
        <5> HIDE DEF e, e2, s
        <5> QED BY <4>0, <5>2, <5>3, <5>5, <5>7 DEF Kept, Same, e, e2
      <4>2. CASE s.pid \notin db.players
        <5>1. e.owner # s.pid
          BY <1>0, <1>3, <4>2 DEF CacheBooks
        <5>2. e2 = NoEntry /\ db'.stuff[i] = db.stuff[i]
          <6> HIDE DEF I, s, put
          <6> QED BY <2>1, <3>0, <3>2, <4>2, <5>1
        <5>3. e.need = FALSE
          BY <2>t, <4>0, <5>1 DEF Entry
        <5>4. /\ NoEntry.need = FALSE /\ NoEntry.owner = Nobody
          BY DEF NoEntry
        <5>5. Same(e, e2, db.stuff[i], db'.stuff[i], saved[i])
          BY <5>2, <5>3, <5>4 DEF Same
        <5> QED BY <5>2, <5>4, <5>5 DEF Kept
      <4> QED BY <4>1, <4>2
    <3>3. CASE db' = put /\ i \notin I
      <4>1. e2 = e /\ db'.stuff[i] = db.stuff[i]
        <5> HIDE DEF I, s
        <5> QED BY <3>0, <3>3
      <4> QED BY <3>1, <4>1
    <3> QED BY <1>5, <3>1, <3>2, <3>3
  <2> HIDE DEF s, I
  <2>3. Upkeep(i)
    BY <1>1, <1>8, <2>2 DEF Upkeep
  <2>4. ItemKept(i)' /\ StaysBehind(i)
    BY <1>0, <2>0, <2>3, UpkeepKept
  <2>5. \A q \in Player : db'.entry[i].need /\ Stays(q, db.entry[i].age)
                            => Stays(q, db.entry[i].age)'
    BY <1>1, <1>8, <2>2 DEF Stays, NotOut
  <2>6. Behind(i)'
    BY <1>0, <2>0, <2>4, <2>5, BehindKept
  <2>7. LoadsRead(i)'
    BY <1>1, <1>2, <2>0, <2>4, LoadsReadKept
  <2>8. \A b \in Core :
           \/ on'[b][i] = on[b][i]
           \/ /\ Playing(s.pid) /\ b = CoreOf(s.pid)
              /\ on[b][i] = Nobody /\ on'[b][i] = s.pid /\ i \in I
    BY <1>0, <1>6 DEF Give, TypeOK
  <2>9. HeldWhereSaved(i)'
    <3>1. CASE \A b \in Core : on'[b][i] = on[b][i]
      <4>1. \A b \in Core : /\ on'[b][i] \in {on[b][i], Nobody}
                            /\ i \in inBox'[b] <=> i \in inBox[b] /\ on'[b][i] # Nobody
        BY <1>1, <2>0, <2>t, <3>1, <1>0, WhoTypes DEF HeldWhereSaved
      <4>2. \A b \in Core, q \in Player : on'[b][i] = q /\ Playing(q) =>
               /\ session'[q].phase = "play" /\ session'[q].core = CoreOf(q)
               /\ q \in open => q \in open'
        BY <1>1 DEF Playing, CoreOf
      <4> QED BY <1>0, <1>1, <2>0, <4>1, <4>2, HeldKept
    <3>2. CASE ~\A b \in Core : on'[b][i] = on[b][i]
      <4> DEFINE c == CoreOf(s.pid)
      <4>1. Playing(s.pid) /\ i \in I /\ c \in Core
        BY <1>0, <1>3, <2>8, <3>2, WhoTypes
      <4>2. session'[s.pid].phase = "play" /\ session'[s.pid].core = c
        BY <1>1, <4>1 DEF Playing, CoreOf
      <4> HIDE DEF c
      <4>3. \A b \in Core : \/ on'[b][i] = on[b][i]
                            \/ /\ b = c /\ on[c][i] = Nobody /\ on'[c][i] = s.pid
                               /\ saved[i].owner = s.pid /\ ~saved[i].box
        BY <2>1, <2>8 DEF c
      <4>4. Playing(s.pid) => CoreOf(s.pid) = c
        BY DEF c
      <4>5. /\ saved'[i] = saved[i] /\ UNCHANGED <<inBox, open>>
            /\ \A q \in Player : q # s.pid => session'[q] = session[q]
        BY <1>1
      <4> QED BY <1>0, <1>3, <2>0, <4>1, <4>2, <4>3, <4>4, <4>5, GiveHeld
    <3> QED BY <3>1, <3>2
  <2>10. BoxesRead(i)'
    <3>1. \A q \in open' : /\ session'[q].core = CoreOf(q)
                           /\ on'[CoreOf(q)][i] = q /\ i \in inBox'[CoreOf(q)] =>
                                /\ on[CoreOf(q)][i] = q
                                /\ i \in inBox[CoreOf(q)]
      <4> SUFFICES ASSUME NEW q \in open
                   PROVE  /\ session'[q].core = CoreOf(q)
                          /\ on'[CoreOf(q)][i] = q /\ i \in inBox[CoreOf(q)] =>
                                on[CoreOf(q)][i] = q
        BY <1>1
      <4>1. CoreOf(q) \in Core
        BY <1>0, WhoTypes
      <4>2. i \in inBox[CoreOf(q)] => on[CoreOf(q)][i] # Nobody
        BY <1>0, <2>0, <4>1, WhoTypes DEF HeldWhereSaved
      <4> QED BY <1>1, <2>8, <4>1, <4>2 DEF CoreOf
    <3> QED BY <1>0, <1>1, <2>0, <2>3, <3>1, BoxesReadKept
  <2> QED BY <2>4, <2>6, <2>7, <2>9, <2>10 DEF ItemInv
<1> QED BY <1>9, <1>10

\* A step that lets players go leaves an item as it is: P have left, nobody else.
LEMMA LeavesItem ==
    ASSUME TypeOK, NEW i \in Item, ItemInv(i), NEW P \in SUBSET Player, Leaves(P),
           UNCHANGED <<db, table, saved>>, FewerLoads,
           \A q \in Player : logout'[q] = logout[q] \/ logout'[q] = 0,
           \A c \in Core : /\ on'[c][i] \in {on[c][i], Nobody}
                           /\ i \in inBox'[c] <=> i \in inBox[c] /\ on'[c][i] # Nobody,
           \A c \in Core : on'[c][i] \notin P
    PROVE  ItemInv(i)'
<1>0. ItemKept(i) /\ Behind(i) /\ LoadsRead(i) /\ HeldWhereSaved(i) /\ BoxesRead(i)
  BY DEF ItemInv
<1>1. /\ open' = open \ P
      /\ \A q \in Player : q \notin P => session'[q] = session[q]
  BY DEF Leaves
<1>2. Upkeep(i)
  BY <1>0, SameItemUpkeep
<1>3. ItemKept(i)' /\ StaysBehind(i)
  BY <1>0, <1>2, UpkeepKept
<1>4. Behind(i)'
  <2>1. db.entry[i].age \in Nat
    BY ItemTypes, ConstantTypes DEF Entry
  <2>2. \A q \in Player : Stays(q, db.entry[i].age) => Stays(q, db.entry[i].age)'
    BY <2>1 DEF Stays, NotOut
  <2> QED BY <1>0, <1>3, <2>2, BehindKept
<1>5. LoadsRead(i)'
  BY <1>0, <1>3, LoadsReadKept
<1>6. HeldWhereSaved(i)'
  <2>1. \A c \in Core, q \in Player : on'[c][i] = q /\ Playing(q) =>
           /\ session'[q].phase = "play" /\ session'[q].core = CoreOf(q)
           /\ q \in open => q \in open'
    BY <1>1 DEF Playing, CoreOf
  <2> QED BY <1>0, <2>1, HeldKept
<1>7. BoxesRead(i)'
  <2>1. \A q \in open' : /\ session'[q].core = CoreOf(q)
                         /\ on'[CoreOf(q)][i] = q /\ i \in inBox'[CoreOf(q)] =>
                              on[CoreOf(q)][i] = q /\ i \in inBox[CoreOf(q)]
    <3> SUFFICES ASSUME NEW q \in open'
                 PROVE  /\ session'[q].core = CoreOf(q)
                        /\ on'[CoreOf(q)][i] = q /\ i \in inBox'[CoreOf(q)] =>
                             on[CoreOf(q)][i] = q /\ i \in inBox[CoreOf(q)]
      OBVIOUS
    <3>1. q \in open /\ q \notin P
      BY <1>1
    <3>2. q \in Player /\ CoreOf(q) \in Core /\ q # Nobody
      BY <3>1, WhoTypes
    <3>3. session'[q].core = CoreOf(q)
      BY <1>1, <3>1, <3>2 DEF CoreOf
    <3> QED BY <3>2, <3>3
  <2>2. open' \subseteq open
    BY <1>1
  <2> QED BY <1>0, <1>2, <2>1, <2>2, BoxesReadKept
<1> QED BY <1>3, <1>4, <1>5, <1>6, <1>7 DEF ItemInv

LEMMA RedirectedLoads ==
    ASSUME TypeOK, NEW M, NEW to,
           load' = [k \in DOMAIN load |-> IF k \in M THEN [load[k] EXCEPT !.to = to] ELSE load[k]]
    PROVE  FewerLoads
<1>1. \A k \in DOMAIN load : load[k] \in Select
  BY DEF TypeOK
<1>2. \A k \in DOMAIN load : /\ load'[k].what = load[k].what /\ load'[k].pid = load[k].pid
                             /\ load'[k].run = load[k].run /\ load'[k].rows = load[k].rows
  BY <1>1 DEF Select
<1>3. DOMAIN load' = DOMAIN load
  OBVIOUS
<1> QED BY <1>2, <1>3 DEF FewerLoads

LEMMA LogoutNewest ==
    ASSUME NewestInv, NEW p \in Player, Logout(p)
    PROVE  SessionsKept' /\ \A i \in Item \ raced' : ItemInv(i)'
<1> DEFINE c == CoreOf(p)
<1>0. TypeOK /\ SessionsKept
  BY DEF NewestInv, CacheInv
<1>1. /\ UNCHANGED <<db, table, saved, raced, down>> /\ Leaves({p})
      /\ logout' = [logout EXCEPT ![p] = 0]
      /\ on' = [on EXCEPT ![c] = [i \in Item |-> IF @[i] = p THEN Nobody ELSE @[i]]]
      /\ inBox' = [inBox EXCEPT ![c] = {i \in @ : on[c][i] # p}]
  BY DEF Logout
<1>2. /\ session' = [q \in Player |-> IF q \in {p} THEN Off ELSE session[q]]
      /\ session \in [Player -> Session] /\ logout \in [Player -> 0 .. LogoutAge + 2]
  BY <1>0, <1>1 DEF Leaves, TypeOK
<1>3. FewerLoads
  <2> DEFINE M == {k \in DOMAIN load : load[k].pid = p /\ load[k].to = "session"}
  <2>1. load' = [k \in DOMAIN load |->
                   IF k \in M THEN [load[k] EXCEPT !.to = "nobody"] ELSE load[k]]
    BY DEF Logout
  <2> HIDE DEF M
  <2> QED BY <1>0, <2>1, RedirectedLoads
<1>4. SessionsKept'
  BY <1>0, <1>1, <1>2 DEF SessionsKept, Playing, Off
<1>5. ASSUME NEW i \in Item \ raced' PROVE ItemInv(i)'
  <2>1. ItemInv(i)
    BY <1>1, <1>5 DEF NewestInv
  <2>2. HeldWhereSaved(i)
    BY <2>1 DEF ItemInv
  <2> HIDE DEF c
  <2>3. \A b \in Core : /\ b = c => on'[b][i] = IF on[b][i] = p THEN Nobody ELSE on[b][i]
                        /\ b # c => on'[b][i] = on[b][i]
                        /\ b = c => (i \in inBox'[b] <=> i \in inBox[b] /\ on[b][i] # p)
                        /\ b # c => inBox'[b] = inBox[b]
    BY <1>0, <1>1 DEF TypeOK
  <2>4. \A b \in Core : i \in inBox[b] => on[b][i] # Nobody
    BY <1>0, <2>2, WhoTypes DEF HeldWhereSaved
  <2>5. \A b \in Core : on[b][i] = p => b = c
    BY <2>2, <1>0, WhoTypes DEF HeldWhereSaved, c
  <2>6. \A b \in Core : /\ on'[b][i] \in {on[b][i], Nobody}
                        /\ i \in inBox'[b] <=> i \in inBox[b] /\ on'[b][i] # Nobody
    BY <2>3, <2>4
  <2>7. \A b \in Core : on'[b][i] \notin {p}
    BY <1>0, <2>3, <2>5, WhoTypes
  <2>8. \A q \in Player : logout'[q] = logout[q] \/ logout'[q] = 0
    BY <1>1, <1>2
  <2> QED BY <1>0, <1>1, <1>3, <2>1, <2>6, <2>7, <2>8, LeavesItem
<1> QED BY <1>4, <1>5

LEMMA RemovePeerNewest ==
    ASSUME NewestInv, NEW c \in Core, RemovePeer(c)
    PROVE  SessionsKept' /\ \A i \in Item \ raced' : ItemInv(i)'
<1> DEFINE P == {p \in Player : CoreOf(p) = c}
<1>0. TypeOK /\ SessionsKept
  BY DEF NewestInv, CacheInv
<1>1. /\ UNCHANGED <<db, table, saved, raced, down, logout>> /\ Leaves(P)
      /\ on' = [on EXCEPT ![c] = [i \in Item |-> Nobody]]
      /\ inBox' = [inBox EXCEPT ![c] = {}]
  BY DEF RemovePeer
<1>2. /\ session' = [q \in Player |-> IF q \in P THEN Off ELSE session[q]]
      /\ session \in [Player -> Session]
  BY <1>0, <1>1 DEF Leaves, TypeOK
<1>3. FewerLoads
  <2> DEFINE M == {k \in DOMAIN load : load[k].peer = c}
  <2>1. load' = [k \in DOMAIN load |->
                   IF k \in M THEN [load[k] EXCEPT !.to = "dropped"] ELSE load[k]]
    BY DEF RemovePeer
  <2> HIDE DEF M
  <2> QED BY <1>0, <2>1, RedirectedLoads
<1>4. SessionsKept'
  <2> SUFFICES ASSUME NEW q \in Player
               PROVE  /\ session'[q].phase # "off" => logout[q] = NotOut
                      /\ session'[q].phase = "play" /\ ~down => q \in db.players
    BY <1>1 DEF SessionsKept, Playing
  <2>1. session'[q] = Off \/ session'[q] = session[q]
    BY <1>2
  <2> QED BY <1>0, <2>1 DEF SessionsKept, Playing, Off
<1>5. ASSUME NEW i \in Item \ raced' PROVE ItemInv(i)'
  <2>1. ItemInv(i)
    BY <1>1, <1>5 DEF NewestInv
  <2>2. HeldWhereSaved(i)
    BY <2>1 DEF ItemInv
  <2>3. \A b \in Core : /\ b = c => on'[b][i] = Nobody /\ inBox'[b] = {}
                        /\ b # c => on'[b][i] = on[b][i] /\ inBox'[b] = inBox[b]
    BY <1>0, <1>1 DEF TypeOK
  <2>4. \A b \in Core : i \in inBox[b] => on[b][i] # Nobody
    BY <1>0, <2>2, WhoTypes DEF HeldWhereSaved
  <2>5. \A b \in Core : /\ on'[b][i] \in {on[b][i], Nobody}
                        /\ i \in inBox'[b] <=> i \in inBox[b] /\ on'[b][i] # Nobody
    BY <2>3, <2>4
  <2>6. \A b \in Core : on'[b][i] \notin P
    <3> SUFFICES ASSUME NEW b \in Core, on'[b][i] \in P PROVE FALSE
      OBVIOUS
    <3>1. on'[b][i] # Nobody
      BY <1>0, WhoTypes
    <3>2. b # c /\ on'[b][i] = on[b][i]
      BY <2>3, <3>1
    <3> QED BY <2>2, <3>1, <3>2 DEF HeldWhereSaved
  <2>7. P \in SUBSET Player
    OBVIOUS
  <2> HIDE DEF P
  <2> QED BY <1>0, <1>1, <1>3, <2>1, <2>5, <2>6, <2>7, LeavesItem
<1> QED BY <1>4, <1>5

-----------------------------------------------------------------------------
(***************************************************************************)
(* The beats of the heart and the end.                                      *)
(***************************************************************************)

\* Of d and d2, what becomes of the entry of i.
KeptIn(d, d2, i) ==
    /\ Kept(d.entry[i], d2.entry[i], d.stuff[i], d2.stuff[i], saved[i])
    /\ d2.direct[i] = d.direct[i]

\* The entry of i has the newest value, if there is one.
Holds(d, i) ==
    /\ d.entry[i].owner # Nobody => Value(d.entry[i]) = saved[i]
    /\ d.entry[i].need => d.entry[i].owner # Nobody

LEMMA KeptHolds ==
    ASSUME NEW d, NEW d2, NEW i, Holds(d, i), KeptIn(d, d2, i)
    PROVE  Holds(d2, i)
  BY DEF Holds, KeptIn, Kept, Same, WrittenBack

LEMMA KeptInTrans ==
    ASSUME NEW d, NEW d1, NEW d2, NEW i, KeptIn(d, d1, i), KeptIn(d1, d2, i)
    PROVE  KeptIn(d, d2, i)
  BY KeptTrans DEF KeptIn

LEMMA ValueNotInBox == \A e : ~Value(e).box
  BY DEF Value, RowOf

\* Flush writes the dirty entries of I and leaves the others.
LEMMA FlushAt ==
    ASSUME NEW d \in DB, NEW I \in SUBSET Item, NEW i \in Item, Holds(d, i)
    PROVE  /\ KeptIn(d, Flush(d, I), i)
           /\ i \in I => ~Flush(d, I).entry[i].need
           /\ i \notin I => Flush(d, I).entry[i] = d.entry[i]
           /\ ~d.entry[i].need => Flush(d, I).entry[i] = d.entry[i]
           /\ Flush(d, I).entry[i].owner = d.entry[i].owner
<1> DEFINE dirty == {j \in I : d.entry[j].need}
           st == [j \in Item |-> IF j \in dirty
                    THEN Append(d.stuff[j], Write(Value(d.entry[j])))
                    ELSE d.stuff[j]]
           en == [j \in Item |-> IF j \in dirty
                    THEN [d.entry[j] EXCEPT !.need = FALSE, !.age = 0]
                    ELSE d.entry[j]]
           e2 == [d.entry[i] EXCEPT !.need = FALSE, !.age = 0]
<1>1. Flush(d, I) = [d EXCEPT !.stuff = st, !.entry = en]
  BY DEF Flush
<1>2. d.entry[i] \in Entry
  BY DEF DB
<1>3. /\ ~e2.need /\ e2.owner = d.entry[i].owner /\ Value(e2) = Value(d.entry[i])
  BY <1>2 DEF Entry, Value
<1>4. i \in dirty <=> i \in I /\ d.entry[i].need
  OBVIOUS
<1> HIDE DEF dirty
<1>5. /\ i \in dirty => /\ en[i] = e2
                        /\ st[i] = Append(d.stuff[i], Write(Value(d.entry[i])))
      /\ i \notin dirty => en[i] = d.entry[i] /\ st[i] = d.stuff[i]
  OBVIOUS
<1> HIDE DEF st, en, e2
<1>6. /\ Flush(d, I).entry = en /\ Flush(d, I).stuff = st /\ Flush(d, I).direct = d.direct
  BY <1>1 DEF DB
<1> HIDE <1>1
<1>7. CASE i \in dirty
  <2>1. WrittenBack(d.entry[i], en[i], d.stuff[i], st[i], saved[i])
    BY <1>3, <1>4, <1>5, <1>7, ValueNotInBox DEF WrittenBack, Holds
  <2> QED BY <1>3, <1>4, <1>5, <1>6, <1>7, <2>1 DEF KeptIn, Kept
<1>8. CASE i \notin dirty
  <2>1. Same(d.entry[i], en[i], d.stuff[i], st[i], saved[i])
    BY <1>5, <1>8 DEF Same, Holds
  <2>2. KeptIn(d, Flush(d, I), i)
    BY <1>6, <2>1 DEF KeptIn, Kept
  <2> QED BY <1>4, <1>5, <1>6, <1>8, <2>2
<1> QED BY <1>7, <1>8

\* FlushPlayerCache writes the dirty entries of the players of P and forgets theirs.
LEMMA FlushPlayerCacheAt ==
    ASSUME NEW d \in DB, Books(d), NEW P \in SUBSET Player, NEW i \in Item, Holds(d, i)
    PROVE  /\ KeptIn(d, FlushPlayerCache(d, P), i)
           /\ FlushPlayerCache(d, P).players = d.players \ P
           /\ FlushPlayerCache(d, P).entry[i].need =>
                /\ FlushPlayerCache(d, P).entry[i] = d.entry[i]
                /\ d.entry[i].owner \notin P \cap d.players
<1> DEFINE gone == P \cap d.players
           I == UNION {d.setItems[p] : p \in gone}
           f == Flush(d, I)
           se == [p \in Player |-> IF p \in gone THEN {} ELSE d.setItems[p]]
           en == [j \in Item |-> IF j \in I THEN NoEntry ELSE f.entry[j]]
           g == FlushPlayerCache(d, P)
<1>1. d.players \in SUBSET Player /\ d.setItems \in [Player -> SUBSET Item]
  BY DEF DB
<1>2. I \in SUBSET Item
  BY <1>1
<1>3. f \in DB
  BY <1>2, FlushType
<1>4. g = [f EXCEPT !.players = d.players \ gone, !.setItems = se, !.entry = en]
  BY DEF FlushPlayerCache
<1>5. /\ KeptIn(d, f, i)
      /\ i \in I => ~f.entry[i].need
      /\ i \notin I => f.entry[i] = d.entry[i]
  BY <1>2, FlushAt
<1>6. d.entry[i].owner \in gone => i \in I
  BY <1>1 DEF Books
<1>7. d.players \ gone = d.players \ P
  OBVIOUS
<1>8. Holds(f, i)
  BY <1>5, KeptHolds
<1> HIDE DEF I
<1>9. en[i] = IF i \in I THEN NoEntry ELSE f.entry[i]
  OBVIOUS
<1>10. f.entry[i] \in Entry
  BY <1>3 DEF DB
<1> HIDE DEF f, se, en, g
<1>11. /\ g.players = d.players \ P /\ g.entry = en
       /\ g.stuff = f.stuff /\ g.direct = f.direct
  BY <1>3, <1>4, <1>7 DEF DB
<1>12. CASE i \in I
  <2>1. g.entry[i] = NoEntry
    BY <1>9, <1>11, <1>12
  <2>2. f.entry[i].need = FALSE
    BY <1>5, <1>10, <1>12 DEF Entry
  <2>3. NoEntry.need = FALSE /\ NoEntry.owner = Nobody
    BY DEF NoEntry
  <2>4. Same(f.entry[i], g.entry[i], f.stuff[i], g.stuff[i], saved[i])
    BY <1>11, <2>1, <2>2, <2>3 DEF Same
  <2>5. KeptIn(f, g, i)
    BY <1>11, <2>4 DEF KeptIn, Kept
  <2>6. KeptIn(d, g, i)
    BY <1>5, <2>5, KeptInTrans
  <2> QED BY <1>11, <2>1, <2>3, <2>6 DEF g
<1>13. CASE i \notin I
  <2>1. g.entry[i] = f.entry[i]
    BY <1>9, <1>11, <1>13
  <2>2. KeptIn(d, g, i)
    BY <1>5, <1>11, <2>1 DEF KeptIn
  <2> QED BY <1>5, <1>6, <1>11, <1>13, <2>1, <2>2 DEF g, gone
<1> QED BY <1>12, <1>13

LEMMA FlushDueAt ==
    ASSUME NEW d \in DB, Books(d), NEW V \in SUBSET Player, NEW i \in Item, Holds(d, i)
    PROVE  /\ KeptIn(d, FlushDue(d, V), i)
           /\ FlushDue(d, V).players = d.players
           /\ FlushDue(d, V).entry[i].need =>
                /\ FlushDue(d, V).entry[i] = d.entry[i]
                /\ d.entry[i].owner \in V => ~(d.entry[i].age > FlushAge)
<1> DEFINE I == UNION {d.setItems[p] : p \in V}
           J == {j \in I : d.entry[j].need /\ d.entry[j].age > FlushAge}
<1>1. J \in SUBSET Item
  BY DEF DB
<1>2. FlushDue(d, V) = Flush(d, J)
  BY DEF FlushDue
<1>3. d.entry[i].owner \in V => i \in I
  BY DEF Books
<1>4. i \in J <=> i \in I /\ d.entry[i].need /\ d.entry[i].age > FlushAge
  OBVIOUS
<1> HIDE DEF I, J
<1>5. /\ KeptIn(d, Flush(d, J), i)
      /\ i \in J => ~Flush(d, J).entry[i].need
      /\ i \notin J => Flush(d, J).entry[i] = d.entry[i]
      /\ Flush(d, J).players = d.players
  BY <1>1, FlushAt, FlushType
<1> QED BY <1>2, <1>3, <1>4, <1>5

LEMMA OlderAt ==
    ASSUME db \in DB, Books(db), NEW i \in Item, Holds(db, i)
    PROVE  /\ KeptIn(db, Older, i) /\ Older.players = db.players
           /\ Older.entry[i].owner = db.entry[i].owner
           /\ Older.entry[i].need =>
                Older.entry[i].age = Later(db.entry[i].age, FlushAge + 1)
<1> DEFINE en == [j \in Item |-> IF Cached(j)
                    THEN [db.entry[j] EXCEPT !.age = Later(@, FlushAge + 1)]
                    ELSE db.entry[j]]
           e == db.entry[i]
           e2 == [e EXCEPT !.age = Later(@, FlushAge + 1)]
<1>1. Older = [db EXCEPT !.entry = en]
  BY DEF Older
<1>2. e \in Entry
  BY DEF DB
<1>3. /\ e2.need = e.need /\ e2.owner = e.owner /\ e2.live = e.live /\ Value(e2) = Value(e)
      /\ e2.age = Later(e.age, FlushAge + 1)
  BY <1>2 DEF Entry, Value
<1>4. /\ Cached(i) => en[i] = e2
      /\ ~Cached(i) => en[i] = e /\ e.owner = Nobody
  BY DEF Cached
<1> HIDE DEF en, e2
<1>5. /\ Older.entry = en /\ Older.stuff = db.stuff /\ Older.direct = db.direct
      /\ Older.players = db.players
  BY <1>1 DEF DB
<1> HIDE <1>1
<1>6. Same(e, en[i], db.stuff[i], db.stuff[i], saved[i])
  BY <1>3, <1>4 DEF Same, Holds
<1>7. KeptIn(db, Older, i)
  BY <1>5, <1>6 DEF KeptIn, Kept
<1> QED BY <1>3, <1>4, <1>5, <1>7 DEF Holds

LEMMA CacheStepItem ==
    ASSUME TypeOK, NEW i \in Item, ItemInv(i), KeptIn(db, db', i),
           UNCHANGED <<table, coreVars, saved>>, FewerLoads,
           \A q \in Player : db'.entry[i].need /\ Stays(q, db.entry[i].age)
                                => Stays(q, db.entry[i].age)'
    PROVE  ItemInv(i)'
<1>0. ItemKept(i) /\ Behind(i) /\ LoadsRead(i) /\ HeldWhereSaved(i) /\ BoxesRead(i)
  BY DEF ItemInv
<1>1. UNCHANGED <<table, session, on, inBox, open, saved>>
  BY DEF coreVars
<1>2. Upkeep(i)
  BY <1>1 DEF Upkeep, KeptIn
<1>3. ItemKept(i)' /\ StaysBehind(i)
  BY <1>0, <1>2, UpkeepKept
<1>4. Behind(i)'
  BY <1>0, <1>3, BehindKept
<1>5. LoadsRead(i)'
  BY <1>0, <1>1, <1>3, LoadsReadKept
<1>6. HeldWhereSaved(i)'
  BY <1>0, <1>1 DEF HeldWhereSaved, Playing, CoreOf
<1>7. BoxesRead(i)'
  <2>1. \A q \in open' : /\ session'[q].core = CoreOf(q)
                         /\ on'[CoreOf(q)][i] = q /\ i \in inBox'[CoreOf(q)] =>
                              on[CoreOf(q)][i] = q /\ i \in inBox[CoreOf(q)]
    BY <1>1 DEF CoreOf
  <2> QED BY <1>0, <1>1, <1>2, <2>1, BoxesReadKept
<1> QED BY <1>3, <1>4, <1>5, <1>6, <1>7 DEF ItemInv

\* What every beat of the cache starts from.
LEMMA BeatFacts ==
    ASSUME NewestInv
    PROVE  /\ TypeOK /\ SessionsKept /\ db \in DB /\ Books(db)
           /\ Older \in DB /\ Books(Older)
           /\ logout \in [Player -> 0 .. LogoutAge + 2]
           /\ \A i \in Item \ raced : ItemInv(i) /\ Holds(db, i)
<1>1. TypeOK /\ CacheBooks /\ SessionsKept
  BY DEF NewestInv, CacheInv
<1>2. db \in DB /\ Books(db) /\ logout \in [Player -> 0 .. LogoutAge + 2]
  BY <1>1 DEF TypeOK, CacheBooks, Books
<1>3. \A i \in Item \ raced : ItemInv(i) /\ Holds(db, i)
  BY DEF NewestInv, ItemInv, ItemKept, Newest, Holds
<1> QED BY <1>1, <1>2, <1>3, OlderType

\* The time since a logout and the age of an entry grow together.
LEMMA BeatsTogether ==
    ASSUME NEW l \in 0 .. LogoutAge + 1, NEW a \in 0 .. FlushAge + 1,
           a > FlushAge \/ a >= l
    PROVE  /\ \/ Later(a, FlushAge + 1) > FlushAge
              \/ Later(a, FlushAge + 1) >= Later(l, LogoutAge + 1)
           /\ Later(l, LogoutAge + 1) = LogoutAge + 1 => Later(a, FlushAge + 1) > FlushAge
<1>1. FlushAge \in Nat /\ LogoutAge \in Nat /\ FlushAge <= LogoutAge
  BY CacheAssumption
<1> QED BY <1>1 DEF Later

\* The beat in which the players of W are evicted.
LEMMA UpdateNewest ==
    ASSUME NewestInv, NEW W \in SUBSET Over, Update(W),
           UNCHANGED <<load, table, isPlay, coreVars, saved, raced, down>>
    PROVE  SessionsKept' /\ \A i \in Item \ raced' : ItemInv(i)'
<1> DEFINE d0 == Older
           d1 == FlushDue(d0, db.players)
           d2 == FlushPlayerCache(d1, W)
<1>0. /\ TypeOK /\ SessionsKept /\ db \in DB /\ Books(db)
      /\ d0 \in DB /\ Books(d0) /\ logout \in [Player -> 0 .. LogoutAge + 2]
  BY BeatFacts
<1>1. /\ db' = d2
      /\ logout' = [p \in Player |-> IF p \in W THEN NotOut ELSE SinceLogout[p]]
  BY DEF Update
<1>2. W \in SUBSET Player /\ db.players \in SUBSET Player
  BY <1>0 DEF Over, DB
<1>3. d1 \in DB /\ Books(d1)
  BY <1>0, <1>2, FlushDueType
<1>4. UNCHANGED <<session, on, inBox, open>>
  BY DEF coreVars
<1>5. \A p \in Player :
         /\ logout[p] = NotOut => SinceLogout[p] = NotOut
         /\ logout[p] # NotOut => /\ SinceLogout[p] = Later(logout[p], LogoutAge + 1)
                                  /\ logout[p] \in 0 .. LogoutAge + 1
  <2> SUFFICES ASSUME NEW p \in Player
               PROVE  /\ logout[p] = NotOut => SinceLogout[p] = NotOut
                      /\ logout[p] # NotOut => /\ SinceLogout[p] = Later(logout[p], LogoutAge + 1)
                                               /\ logout[p] \in 0 .. LogoutAge + 1
    OBVIOUS
  <2>1. logout[p] \in 0 .. LogoutAge + 2
    BY <1>0
  <2>2. logout[p] # NotOut => logout[p] \in 0 .. LogoutAge + 1
    BY <2>1, ConstantTypes DEF NotOut
  <2> QED BY <2>2 DEF SinceLogout
<1>6. \A p \in W : logout[p] # NotOut /\ Later(logout[p], LogoutAge + 1) = LogoutAge + 1
  <2> SUFFICES ASSUME NEW p \in W
               PROVE  logout[p] # NotOut /\ Later(logout[p], LogoutAge + 1) = LogoutAge + 1
    OBVIOUS
  <2>1. p \in Player /\ SinceLogout[p] = LogoutAge + 1
    BY DEF Over
  <2>2. LogoutAge + 1 # NotOut
    BY ConstantTypes DEF NotOut
  <2> QED BY <1>5, <2>1, <2>2
<1>p. db'.players = db.players \ W
  <2>1. d0.players = db.players
    BY <1>0 DEF Older, DB
  <2>2. d1.players = d0.players
    <3> DEFINE I == UNION {d0.setItems[p] : p \in db.players}
               J == {i \in I : d0.entry[i].need /\ d0.entry[i].age > FlushAge}
    <3>1. J \in SUBSET Item
      BY <1>0, <1>2 DEF DB
    <3>2. d1 = Flush(d0, J)
      BY DEF FlushDue
    <3> HIDE DEF J, d0
    <3> QED BY <1>0, <3>1, <3>2, FlushType
  <2>3. d2.players = d1.players \ W
    <3> DEFINE I == UNION {d1.setItems[p] : p \in W \cap d1.players}
    <3>1. I \in SUBSET Item
      BY <1>3, <1>2 DEF DB
    <3>2. Flush(d1, I) \in DB
      BY <1>3, <3>1, FlushType
    <3> HIDE DEF d1
    <3>3. d2.players = d1.players \ (W \cap d1.players)
      BY <3>2 DEF FlushPlayerCache, DB
    <3> QED BY <3>3
  <2> QED BY <1>1, <2>1, <2>2, <2>3
<1> HIDE DEF d0, d1, d2
<1>7. SessionsKept'
  <2> SUFFICES ASSUME NEW p \in Player
               PROVE  /\ session[p].phase # "off" => logout'[p] = NotOut
                      /\ session[p].phase = "play" /\ ~down => p \in db'.players
    BY <1>4 DEF SessionsKept, Playing
  <2>1. session[p].phase # "off" => logout[p] = NotOut /\ p \notin W
    BY <1>0, <1>6 DEF SessionsKept
  <2> QED BY <1>0, <1>1, <1>5, <1>p, <2>1 DEF SessionsKept, Playing
<1>8. ASSUME NEW i \in Item \ raced' PROVE ItemInv(i)'
  <2>1. ItemInv(i) /\ Holds(db, i)
    BY <1>8, BeatFacts
  <2>2. /\ KeptIn(db, d0, i) /\ d0.entry[i].owner = db.entry[i].owner
        /\ d0.entry[i].need => d0.entry[i].age = Later(db.entry[i].age, FlushAge + 1)
    BY <1>0, <2>1, OlderAt DEF d0
  <2>3. Holds(d0, i)
    BY <2>1, <2>2, KeptHolds
  <2>4. /\ KeptIn(d0, d1, i)
        /\ d1.entry[i].need => /\ d1.entry[i] = d0.entry[i]
                               /\ d0.entry[i].owner \in db.players => ~(d0.entry[i].age > FlushAge)
    BY <1>0, <1>2, <2>3, FlushDueAt DEF d1
  <2>5. Holds(d1, i)
    BY <2>3, <2>4, KeptHolds
  <2>6. /\ KeptIn(d1, d2, i)
        /\ d2.entry[i].need => d2.entry[i] = d1.entry[i]
    BY <1>2, <1>3, <2>5, FlushPlayerCacheAt DEF d2
  <2>7. KeptIn(db, db', i)
    BY <1>1, <2>2, <2>4, <2>6, KeptInTrans
  <2>8. \A q \in Player : db'.entry[i].need /\ Stays(q, db.entry[i].age)
                                => Stays(q, db.entry[i].age)'
    <3> SUFFICES ASSUME NEW q \in Player, db'.entry[i].need, Stays(q, db.entry[i].age)
                 PROVE  /\ q \in db'.players
                        /\ \/ logout'[q] = NotOut
                           \/ db'.entry[i].age > FlushAge
                           \/ db'.entry[i].age >= logout'[q]
      BY DEF Stays, NotOut
    <3> DEFINE a == db.entry[i].age
    <3>1. /\ db'.entry[i] = d0.entry[i] /\ d0.entry[i].need
          /\ db'.entry[i].age = Later(a, FlushAge + 1)
          /\ db.entry[i].owner \in db.players => ~(Later(a, FlushAge + 1) > FlushAge)
      BY <1>1, <2>2, <2>4, <2>6
    <3>2. db.entry[i].owner \in db.players
      <4>1. db.entry[i].owner # Nobody
        BY <2>2, <2>3, <3>1 DEF Holds
      <4>2. db.entry[i].owner \in Player
        BY <1>0, <4>1, ItemTypes DEF Entry
      <4> QED BY <1>0, <4>2 DEF Books
    <3>3. a \in 0 .. FlushAge + 1
      BY <1>0, ItemTypes DEF Entry
    <3>4. q \in db.players /\ (logout[q] = NotOut \/ a > FlushAge \/ a >= logout[q])
      BY DEF Stays
    <3>5. logout[q] # NotOut =>
            /\ \/ Later(a, FlushAge + 1) > FlushAge
               \/ Later(a, FlushAge + 1) >= Later(logout[q], LogoutAge + 1)
            /\ Later(logout[q], LogoutAge + 1) = LogoutAge + 1 => Later(a, FlushAge + 1) > FlushAge
      BY <1>5, <3>3, <3>4, BeatsTogether
    <3>6. q \notin W
      BY <1>6, <3>1, <3>2, <3>5
    <3>7. logout'[q] = SinceLogout[q]
      BY <1>1, <3>6
    <3> HIDE DEF a
    <3> QED BY <1>5, <1>p, <3>1, <3>4, <3>5, <3>6, <3>7
  <2>9. FewerLoads
    BY DEF FewerLoads
  <2> QED BY <1>0, <2>1, <2>7, <2>8, <2>9, CacheStepItem
<1> QED BY <1>7, <1>8

LEMMA HeartBeatNewest ==
    ASSUME NewestInv, HeartBeat \/ LimitedHeartBeat
    PROVE  SessionsKept' /\ \A i \in Item \ raced' : ItemInv(i)'
<1>0. /\ TypeOK /\ SessionsKept /\ db \in DB /\ Books(db)
      /\ Older \in DB /\ Books(Older) /\ logout \in [Player -> 0 .. LogoutAge + 2]
  BY BeatFacts
<1>1. UNCHANGED <<load, table, isPlay, coreVars, saved, raced, down>>
  BY DEF HeartBeat, LimitedHeartBeat
<1>2. CASE \E W \in SUBSET Over : Update(W)
  BY <1>1, <1>2, UpdateNewest
<1>3. ASSUME NEW V \in SUBSET db.players, db' = FlushDue(Older, V), logout' = SinceLogout
      PROVE  SessionsKept' /\ \A i \in Item \ raced' : ItemInv(i)'
  <2>1. V \in SUBSET Player
    BY <1>0 DEF DB
  <2>2. UNCHANGED <<session, on, inBox, open>>
    BY <1>1 DEF coreVars
  <2>3. \A p \in Player :
           /\ logout[p] = NotOut => logout'[p] = NotOut
           /\ logout[p] # NotOut => /\ logout'[p] = Later(logout[p], LogoutAge + 1)
                                    /\ logout[p] \in 0 .. LogoutAge + 1
    <3> SUFFICES ASSUME NEW p \in Player
                 PROVE  /\ logout[p] = NotOut => logout'[p] = NotOut
                        /\ logout[p] # NotOut => /\ logout'[p] = Later(logout[p], LogoutAge + 1)
                                                 /\ logout[p] \in 0 .. LogoutAge + 1
      OBVIOUS
    <3>1. logout[p] \in 0 .. LogoutAge + 2
      BY <1>0
    <3>2. logout[p] # NotOut => logout[p] \in 0 .. LogoutAge + 1
      BY <3>1, ConstantTypes DEF NotOut
    <3> QED BY <1>3, <3>2 DEF SinceLogout
  <2>p. db'.players = db.players
    <3> DEFINE I == UNION {Older.setItems[p] : p \in V}
               J == {i \in I : Older.entry[i].need /\ Older.entry[i].age > FlushAge}
    <3>1. J \in SUBSET Item
      BY <1>0, <2>1 DEF DB
    <3>2. db' = Flush(Older, J)
      BY <1>3 DEF FlushDue
    <3>3. Older.players = db.players
      BY <1>0 DEF Older, DB
    <3> HIDE DEF J
    <3> QED BY <1>0, <3>1, <3>2, <3>3, FlushType
  <2>4. SessionsKept'
    BY <1>0, <1>1, <2>2, <2>3, <2>p DEF SessionsKept, Playing
  <2>5. ASSUME NEW i \in Item \ raced' PROVE ItemInv(i)'
    <3>1. ItemInv(i) /\ Holds(db, i)
      BY <1>1, <2>5, BeatFacts
    <3>2. /\ KeptIn(db, Older, i)
          /\ Older.entry[i].need => Older.entry[i].age = Later(db.entry[i].age, FlushAge + 1)
      BY <1>0, <3>1, OlderAt
    <3>3. Holds(Older, i)
      BY <3>1, <3>2, KeptHolds
    <3>4. /\ KeptIn(Older, db', i)
          /\ db'.entry[i].need => db'.entry[i] = Older.entry[i]
      BY <1>0, <1>3, <2>1, <3>3, FlushDueAt
    <3>5. KeptIn(db, db', i)
      BY <3>2, <3>4, KeptInTrans
    <3>6. \A q \in Player : db'.entry[i].need /\ Stays(q, db.entry[i].age)
                                => Stays(q, db.entry[i].age)'
      <4> SUFFICES ASSUME NEW q \in Player, db'.entry[i].need, Stays(q, db.entry[i].age)
                   PROVE  /\ q \in db'.players
                          /\ \/ logout'[q] = NotOut
                             \/ db'.entry[i].age > FlushAge
                             \/ db'.entry[i].age >= logout'[q]
        BY DEF Stays, NotOut
      <4> DEFINE a == db.entry[i].age
      <4>1. db'.entry[i].age = Later(a, FlushAge + 1)
        BY <3>2, <3>4
      <4>2. a \in 0 .. FlushAge + 1
        BY <1>0, ItemTypes DEF Entry
      <4>3. q \in db.players /\ (logout[q] = NotOut \/ a > FlushAge \/ a >= logout[q])
        BY DEF Stays
      <4>4. logout[q] # NotOut =>
              \/ Later(a, FlushAge + 1) > FlushAge
              \/ Later(a, FlushAge + 1) >= Later(logout[q], LogoutAge + 1)
        BY <2>3, <4>2, <4>3, BeatsTogether
      <4> HIDE DEF a
      <4> QED BY <2>3, <2>p, <4>1, <4>3, <4>4
    <3>7. FewerLoads
      BY <1>1 DEF FewerLoads
    <3> QED BY <1>0, <1>1, <3>1, <3>5, <3>6, <3>7, CacheStepItem
  <2> QED BY <2>4, <2>5
<1>4. \/ \E W \in SUBSET Over : Update(W)
      \/ (\E V \in SUBSET db.players : db' = FlushDue(Older, V)) /\ logout' = SinceLogout
  BY DEF HeartBeat, LimitedHeartBeat
<1> QED BY <1>2, <1>3, <1>4

LEMMA ShutdownNewest ==
    ASSUME NewestInv, Shutdown
    PROVE  SessionsKept' /\ \A i \in Item \ raced' : ItemInv(i)'
<1>0. TypeOK /\ SessionsKept /\ db \in DB /\ Books(db)
  BY BeatFacts
<1>1. /\ down' /\ db' = FlushPlayerCache(db, db.players) /\ load' = <<>>
      /\ logout' = [p \in Player |-> NotOut]
      /\ UNCHANGED <<table, coreVars, saved, raced>>
  BY DEF Shutdown
<1>2. SessionsKept'
  BY <1>1 DEF SessionsKept, NotOut
<1>3. ASSUME NEW i \in Item \ raced' PROVE ItemInv(i)'
  <2>1. ItemInv(i) /\ Holds(db, i)
    BY <1>1, <1>3, BeatFacts
  <2>2. db.players \in SUBSET Player
    BY <1>0 DEF DB
  <2>3. /\ KeptIn(db, db', i)
        /\ db'.entry[i].need => db'.entry[i] = db.entry[i] /\ db.entry[i].owner \notin db.players
    BY <1>0, <1>1, <2>1, <2>2, FlushPlayerCacheAt
  <2>4. ~db'.entry[i].need
    <3> SUFFICES ASSUME db'.entry[i].need PROVE FALSE
      OBVIOUS
    <3>1. db.entry[i].owner # Nobody
      BY <2>1, <2>3 DEF Holds
    <3>2. db.entry[i].owner \in Player
      BY <1>0, <3>1, ItemTypes DEF Entry
    <3> QED BY <1>0, <2>3, <3>2 DEF Books
  <2>5. FewerLoads
    BY <1>1 DEF FewerLoads
  <2> QED BY <1>0, <1>1, <2>1, <2>3, <2>4, <2>5, CacheStepItem
<1> QED BY <1>2, <1>3

-----------------------------------------------------------------------------
(***************************************************************************)
(* What a save does: to the item saved, and to the others.                  *)
(***************************************************************************)

OthersSame(d, d2, i) ==
    /\ d2.players = d.players
    /\ \A j \in Item \ {i} : /\ d2.entry[j] = d.entry[j]
                             /\ d2.stuff[j] = d.stuff[j] /\ d2.direct[j] = d.direct[j]

\* The row is in the cache, dirty.
Put(d, d2, i, row) ==
    /\ d2.entry[i].need /\ d2.entry[i].live /\ d2.entry[i].owner # Nobody
    /\ Value(d2.entry[i]) = row
    /\ d2.entry[i].age = d.entry[i].age
    /\ d2.stuff[i] = d.stuff[i] /\ d2.direct[i] = d.direct[i]

\* The row is on its way to the table.
Sent(d, d2, i, row) ==
    /\ ~d2.entry[i].need
    /\ d2.entry[i].owner # Nobody => Value(d2.entry[i]) = row
    /\ \/ d2.stuff[i] = Append(d.stuff[i], Write(row)) /\ d2.direct[i] = d.direct[i]
       \/ d2.direct[i] = Append(d.direct[i], Write(row)) /\ d2.stuff[i] = d.stuff[i]

LEMMA PutSavedAt ==
    ASSUME NEW d \in DB, NEW i \in Item, NEW row \in OwnedRow, row.owner \in d.players, ~row.box
    PROVE  /\ OthersSame(d, QueryItemSave(d, i, row), i)
           /\ Put(d, QueryItemSave(d, i, row), i, row)
           /\ QueryItemSave(d, i, row) \in DB
<1> DEFINE rows == [j \in {i} |-> row]
           I == {i}
           isNew == {j \in I : d.entry[j].owner # rows[j].owner}
           refused == {j \in isNew : rows[j].owner \notin d.players}
           left == Leave(d, isNew)
           se == [p \in Player |-> left[p] \cup {j \in isNew \ refused : rows[j].owner = p}]
           put(j) == PutEntry(d.entry[j], rows[j], FALSE)
           en == [j \in Item |-> CASE j \in refused -> NoEntry
                                  [] j \in I \ refused -> put(j)
                                  [] OTHER -> d.entry[j]]
           st == [j \in Item |-> IF j \in refused /\ ~FALSE
                    THEN Append(d.stuff[j], Write(rows[j])) ELSE d.stuff[j]]
           f == QueryItemSave(d, i, row)
<1>1. f = [d EXCEPT !.setItems = se, !.entry = en, !.stuff = st]
  BY DEF QueryItemSave, PutItemCache
<1>2. refused = {}
  OBVIOUS
<1>3. /\ put(i).owner = row.owner /\ put(i).live /\ put(i).ver = row.ver
      /\ put(i).age = d.entry[i].age /\ put(i).need
  BY DEF PutEntry
<1>4. /\ row \in Row /\ row.owner # Nobody /\ d.players \in SUBSET Player
      /\ d.setItems \in [Player -> SUBSET Item] /\ d.entry \in [Item -> Entry]
      /\ d.stuff \in [Item -> Seq(Statement)]
  BY ConstantTypes DEF OwnedRow, Row, DB
<1>5. Value(put(i)) = row
  <2> HIDE DEF put
  <2> QED BY <1>3, <1>4, ValueOfRow
<1>6. put(i) \in Entry
  <2>1. d.entry[i] \in Entry /\ rows[i] = row
    BY <1>4
  <2>2. PutEntry(d.entry[i], row, FALSE) \in Entry
    BY <2>1, PutEntryType
  <2> QED BY <2>1, <2>2
<1> HIDE DEF refused, put
<1>7. /\ en[i] = put(i)
      /\ \A j \in Item \ {i} : en[j] = d.entry[j]
      /\ \A j \in Item : st[j] = d.stuff[j]
  BY <1>2
<1>8. en \in [Item -> Entry] /\ st \in [Item -> Seq(Statement)]
  <2>1. \A j \in Item : en[j] \in Entry
    BY <1>4, <1>6, <1>7
  <2>2. en = [j \in Item |-> en[j]] /\ st = [j \in Item |-> st[j]]
    OBVIOUS
  <2> HIDE DEF en, st
  <2> QED BY <1>4, <1>7, <2>1, <2>2
<1>9. se \in [Player -> SUBSET Item]
  <2>1. \A p \in Player : left[p] \in SUBSET Item
    BY <1>4 DEF Leave
  <2> QED BY <2>1
<1> HIDE DEF se, en, st, f
<1>10. /\ f.entry = en /\ f.stuff = st /\ f.players = d.players /\ f.direct = d.direct
  BY <1>1 DEF DB
<1>11. f \in DB
  BY <1>1, <1>8, <1>9 DEF DB
<1>12. OthersSame(d, f, i)
  BY <1>7, <1>10 DEF OthersSame
<1>13. Put(d, f, i, row)
  BY <1>3, <1>4, <1>5, <1>7, <1>10 DEF Put
<1> QED BY <1>11, <1>12, <1>13 DEF f

LEMMA BoxSavedAt ==
    ASSUME NEW d \in DB, NEW i \in Item, NEW row, row.box
    PROVE  /\ OthersSame(d, QueryItemSave(d, i, row), i)
           /\ Sent(d, QueryItemSave(d, i, row), i, row)
<1> DEFINE en == [j \in Item |-> IF j \in {i} THEN NoEntry ELSE d.entry[j]]
           di == [d.direct EXCEPT ![i] = Append(d.direct[i], Write(row))]
           f == QueryItemSave(d, i, row)
           e == EraseItemCache(d, {i})
<1>1. e = [d EXCEPT !.setItems = Leave(d, {i}), !.entry = en]
  BY DEF EraseItemCache
<1>2. f = [e EXCEPT !.direct[i] = Append(@, Write(row))]
  BY DEF QueryItemSave
<1>3. en[i] = NoEntry /\ \A j \in Item \ {i} : en[j] = d.entry[j]
  OBVIOUS
<1>4. d.direct \in [Item -> Seq(Statement)]
  BY DEF DB
<1>5. di[i] = Append(d.direct[i], Write(row)) /\ \A j \in Item \ {i} : di[j] = d.direct[j]
  BY <1>4
<1> HIDE DEF en, f, e
<1>6. /\ e.entry = en /\ e.stuff = d.stuff /\ e.direct = d.direct /\ e.players = d.players
      /\ DOMAIN e = DOMAIN d
  BY <1>1 DEF DB
<1>7. f.entry = en /\ f.stuff = d.stuff /\ f.direct = di /\ f.players = d.players
  <2>1. e = [players |-> e.players, setItems |-> e.setItems, entry |-> e.entry,
             stuff |-> e.stuff, direct |-> e.direct]
    BY <1>1 DEF DB
  <2>2. f = [e EXCEPT !.direct = di]
    BY <1>2, <1>6
  <2> HIDE DEF di
  <2> QED BY <1>6, <2>1, <2>2
<1> HIDE DEF di
<1>8. ~NoEntry.need /\ NoEntry.owner = Nobody
  BY DEF NoEntry
<1>9. OthersSame(d, f, i)
  BY <1>3, <1>5, <1>7 DEF OthersSame
<1>10. Sent(d, f, i, row)
  BY <1>3, <1>5, <1>7, <1>8 DEF Sent
<1> QED BY <1>9, <1>10 DEF f

\* An item is destroyed; it is sent unless it was destroyed before.
LEMMA DestroyedAt ==
    ASSUME NEW d \in DB, NEW i \in Item, NEW v
    PROVE  /\ OthersSame(d, QueryItemDestroy(d, i, v), i)
           /\ /\ d.entry[i].owner # Nobody => d.entry[i].live
              /\ d.entry[i].need => d.entry[i].owner # Nobody
              => Sent(d, QueryItemDestroy(d, i, v), i, RowOf(Nobody, FALSE, v))
<1> DEFINE row == RowOf(Nobody, FALSE, v)
           e2 == [d.entry[i] EXCEPT !.live = FALSE, !.ver = v, !.need = FALSE]
           en == [d.entry EXCEPT ![i] = e2]
           st == [d.stuff EXCEPT ![i] = Append(d.stuff[i], Write(row))]
           di == [d.direct EXCEPT ![i] = Append(d.direct[i], Write(row))]
           f == QueryItemDestroy(d, i, v)
<1>1. /\ d.entry \in [Item -> Entry] /\ d.stuff \in [Item -> Seq(Statement)]
      /\ d.direct \in [Item -> Seq(Statement)] /\ d.entry[i] \in Entry
  BY DEF DB
<1>2. /\ ~e2.need /\ Value(e2) = row
  BY <1>1 DEF Entry, Value, RowOf
<1> HIDE DEF e2, row
<1>3. /\ en[i] = e2 /\ \A j \in Item \ {i} : en[j] = d.entry[j]
      /\ st[i] = Append(d.stuff[i], Write(row)) /\ \A j \in Item \ {i} : st[j] = d.stuff[j]
      /\ di[i] = Append(d.direct[i], Write(row)) /\ \A j \in Item \ {i} : di[j] = d.direct[j]
  BY <1>1
<1>4. CASE d.entry[i].owner = Nobody
  <2>1. f = [d EXCEPT !.direct = di]
    BY <1>4 DEF QueryItemDestroy, row
  <2> HIDE DEF en, st, di, f
  <2>2. /\ f.entry = d.entry /\ f.stuff = d.stuff /\ f.direct = di /\ f.players = d.players
    BY <2>1 DEF DB
  <2> QED BY <1>3, <1>4, <2>2 DEF OthersSame, Sent, f, row
<1>5. CASE d.entry[i].owner # Nobody /\ d.entry[i].live
  <2>1. f = [d EXCEPT !.entry = en, !.stuff = st]
    BY <1>5 DEF QueryItemDestroy, row, e2
  <2> HIDE DEF en, st, di, f
  <2>2. /\ f.entry = en /\ f.stuff = st /\ f.direct = d.direct /\ f.players = d.players
    BY <2>1 DEF DB
  <2> QED BY <1>2, <1>3, <2>2 DEF OthersSame, Sent, f, row
<1>6. CASE d.entry[i].owner # Nobody /\ ~d.entry[i].live
  <2>1. f = d
    BY <1>6 DEF QueryItemDestroy
  <2> HIDE DEF f
  <2> QED BY <1>6, <2>1 DEF OthersSame, f
<1> QED BY <1>4, <1>5, <1>6

\* A step that does nothing to j.
Untouched(j) ==
    /\ db'.entry[j] = db.entry[j] /\ db'.stuff[j] = db.stuff[j]
    /\ db'.direct[j] = db.direct[j] /\ db'.players = db.players
    /\ saved'[j] = saved[j] /\ table'[j] = table[j]
    /\ UNCHANGED <<load, logout, session, open>>
    /\ \A b \in Core : on'[b][j] = on[b][j] /\ (j \in inBox'[b] <=> j \in inBox[b])

LEMMA UntouchedItem ==
    ASSUME TypeOK, NEW j \in Item, Untouched(j), ItemInv(j)
    PROVE  ItemInv(j)'
<1>0. ItemKept(j) /\ Behind(j) /\ LoadsRead(j) /\ HeldWhereSaved(j) /\ BoxesRead(j)
  BY DEF ItemInv
<1>1. /\ db'.entry[j] = db.entry[j] /\ db'.stuff[j] = db.stuff[j]
      /\ db'.direct[j] = db.direct[j] /\ db'.players = db.players
      /\ saved'[j] = saved[j] /\ table'[j] = table[j]
      /\ UNCHANGED <<load, logout, session, open>>
      /\ \A b \in Core : on'[b][j] = on[b][j] /\ (j \in inBox'[b] <=> j \in inBox[b])
  BY DEF Untouched
<1>2. Upkeep(j)
  BY <1>0, <1>1, SameItemUpkeep
<1>3. ItemKept(j)' /\ StaysBehind(j)
  BY <1>0, <1>2, UpkeepKept
<1>4. Behind(j)'
  <2>1. \A p \in Player : Stays(p, db.entry[j].age) => Stays(p, db.entry[j].age)'
    BY <1>1 DEF Stays
  <2> QED BY <1>0, <1>3, <2>1, BehindKept
<1>5. LoadsRead(j)'
  <2>1. FewerLoads
    BY <1>1 DEF FewerLoads
  <2> QED BY <1>0, <1>1, <1>3, <2>1, LoadsReadKept
<1>6. HeldWhereSaved(j)'
  BY <1>0, <1>1 DEF HeldWhereSaved, Playing, CoreOf
<1>7. BoxesRead(j)'
  <2>1. \A q \in open : CoreOf(q) \in Core
    BY WhoTypes
  <2>2. \A q \in open' : /\ session'[q].core = CoreOf(q)
                         /\ on'[CoreOf(q)][j] = q /\ j \in inBox'[CoreOf(q)] =>
                              on[CoreOf(q)][j] = q /\ j \in inBox[CoreOf(q)]
    BY <1>1, <2>1 DEF CoreOf
  <2> QED BY <1>0, <1>1, <1>2, <2>2, BoxesReadKept
<1> QED BY <1>3, <1>4, <1>5, <1>6, <1>7 DEF ItemInv

\* A step that saves row as the newest value of i, which c has; y has it there then.
SaveStep(i, row, c, y) ==
    /\ ~down /\ row \in Row /\ row.ver = NextVer(i)
    /\ saved' = [saved EXCEPT ![i] = row]
    /\ OthersSame(db, db', i)
    /\ i \notin raced => \/ Put(db, db', i, row) /\ ~saved[i].box
                         \/ Sent(db, db', i, row)
    /\ RacesLoad(i)
    /\ UNCHANGED <<load, table, logout, session, open, down>>
    /\ on[c][i] # Nobody
    /\ \A b \in Core, j \in Item :
          /\ on'[b][j] = IF b = c /\ j = i THEN y ELSE on[b][j]
          /\ b # c \/ j # i => (j \in inBox'[b] <=> j \in inBox[b])
    /\ y # Nobody => row.owner = IF y = Ground THEN Nobody ELSE y
    /\ y \in Player => Playing(y) /\ CoreOf(y) = c
    /\ i \notin raced => /\ i \in inBox'[c] <=> row.box
                         /\ row.box => /\ y \in open
                                       /\ \/ i \in inBox[c] /\ y = on[c][i]
                                          \/ BoxLoaded(y)

LEMMA OtherItem ==
    ASSUME TypeOK, NEW i \in Item, NEW row, NEW c \in Core, NEW y, SaveStep(i, row, c, y),
           NEW j \in Item \ {i}, ItemInv(j)
    PROVE  ItemInv(j)'
<1>1. Untouched(j)
  BY DEF SaveStep, OthersSame, TypeOK, Untouched
<1> QED BY <1>1, UntouchedItem

\* What is known of the item saved, before and after.
LEMMA SavedFacts ==
    ASSUME TypeOK, NEW i \in Item, NEW row, NEW c \in Core, NEW y, SaveStep(i, row, c, y),
           i \notin raced', ItemInv(i)
    PROVE  /\ saved'[i] = row
           /\ \A r \in RowsNow(i) : r.ver < row.ver /\ r.ver <= saved[i].ver
           /\ ~db.entry[i].need => \A r : Last(RowsNow(i), r) => r = saved[i]
           /\ i \notin raced
           /\ \A k \in DOMAIN load : load[k].what = "item" => load[k].pid # saved[i].owner
           /\ ItemKept(i) /\ Behind(i) /\ LoadsRead(i) /\ HeldWhereSaved(i) /\ BoxesRead(i)
<1>0. ItemKept(i) /\ Behind(i) /\ LoadsRead(i) /\ HeldWhereSaved(i) /\ BoxesRead(i)
  BY DEF ItemInv
<1>1. /\ saved[i] \in Row /\ table[i] \in Row /\ RowsNow(i) \in SUBSET Row
      /\ db.stuff[i] \in Seq(Statement) /\ db.direct[i] \in Seq(Statement)
  BY ItemTypes
<1>2. saved'[i] = row /\ row.ver = saved[i].ver + 1
  BY DEF SaveStep, NextVer, TypeOK
<1>3. /\ Queued(db.stuff[i], db.direct[i], table[i])
      /\ Newest(db.entry[i], RowsOf(db.stuff[i], db.direct[i], table[i]), saved[i])
  BY <1>0 DEF ItemKept, RowsNow
<1>4. \A r \in RowsNow(i) : r.ver \in Nat
  BY <1>1, RowVer
<1>5. saved[i].ver \in Nat
  BY <1>1, RowVer
<1>6. \A r \in RowsNow(i) : r.ver <= saved[i].ver
  <2>1. CASE db.entry[i].need
    BY <1>3, <1>4, <1>5, <2>1 DEF Newest, RowsNow
  <2>2. CASE ~db.entry[i].need
    BY <1>3, <2>2 DEF Newest, RowsNow
  <2> QED BY <2>1, <2>2
<1>7. \A r \in RowsNow(i) : r.ver < row.ver
  BY <1>2, <1>4, <1>5, <1>6
<1>8. ASSUME ~db.entry[i].need, NEW r, Last(RowsNow(i), r) PROVE r = saved[i]
  BY <1>1, <1>3, <1>8, LastIsSaved DEF RowsNow
<1>9. i \notin raced /\ \A k \in DOMAIN load : load[k].what = "item" => load[k].pid # saved[i].owner
  BY DEF SaveStep, RacesLoad
<1> QED BY <1>0, <1>2, <1>6, <1>7, <1>8, <1>9

LEMMA SavedKept ==
    ASSUME TypeOK, NEW i \in Item, NEW row, NEW c \in Core, NEW y, SaveStep(i, row, c, y),
           i \notin raced', ItemInv(i)
    PROVE  ItemKept(i)'
<1> DEFINE st == db.stuff[i]
           di == db.direct[i]
           t == table[i]
           e2 == db'.entry[i]
           st2 == db'.stuff[i]
           di2 == db'.direct[i]
<1>1. /\ st \in Seq(Statement) /\ di \in Seq(Statement) /\ t \in Row /\ row \in Row
      /\ RowsNow(i) \in SUBSET Row
  BY ItemTypes DEF SaveStep
<1>2. /\ \A r \in RowsOf(st, di, t) : r.ver < row.ver
      /\ Queued(st, di, t) /\ RowsNow(i) = RowsOf(st, di, t)
  BY SavedFacts DEF ItemKept, RowsNow
<1>0. saved'[i] = row /\ i \notin raced
  BY SavedFacts
<1>3. saved'[i] = row /\ table'[i] = t /\ i \notin raced
  BY <1>0 DEF SaveStep
<1>4. ItemKept(i)' <=> Queued(st2, di2, t) /\ Newest(e2, RowsOf(st2, di2, t), row)
  BY <1>3 DEF ItemKept, RowsNow
<1>5. Put(db, db', i, row) \/ Sent(db, db', i, row)
  BY <1>3 DEF SaveStep
<1>6. CASE Put(db, db', i, row)
  <2>1. st2 = st /\ di2 = di
    BY <1>6 DEF Put
  <2>2. Newest(e2, RowsOf(st, di, t), row)
    BY <1>2, <1>6 DEF Newest, Put
  <2> HIDE DEF st, di, t, e2, st2, di2
  <2> QED BY <1>2, <1>4, <2>1, <2>2
<1>7. CASE Sent(db, db', i, row)
  <2>1. Queued(st2, di2, t) /\ RowsOf(st2, di2, t) = RowsOf(st, di, t) \cup {row}
    <3>1. CASE st2 = Append(st, Write(row)) /\ di2 = di
      <4> HIDE DEF st, di, t, e2, st2, di2
      <4> QED BY <1>1, <1>2, <3>1, WriteToStuff
    <3>2. CASE di2 = Append(di, Write(row)) /\ st2 = st
      <4> HIDE DEF st, di, t, e2, st2, di2
      <4> QED BY <1>1, <1>2, <3>2, WriteToDirect
    <3> QED BY <1>7, <3>1, <3>2 DEF Sent
  <2>2. \A r \in RowsOf(st, di, t) : r.ver \in Nat
    BY <1>1, <1>2, RowVer
  <2>3. row.ver \in Nat
    BY <1>1, RowVer
  <2>4. \A r \in RowsOf(st2, di2, t) : r.ver <= row.ver
    <3> HIDE DEF st, di, t, e2, st2, di2
    <3> QED BY <1>2, <2>1, <2>2, <2>3
  <2>5. ~e2.need /\ (e2.owner # Nobody => Value(e2) = row)
    BY <1>7 DEF Sent
  <2> HIDE DEF st, di, t, e2, st2, di2
  <2>6. Newest(e2, RowsOf(st2, di2, t), row)
    BY <2>1, <2>4, <2>5 DEF Newest
  <2> QED BY <1>4, <2>1, <2>6
<1> QED BY <1>5, <1>6, <1>7

\* The one who has the item, as it was saved.
LEMMA SavedBehind ==
    ASSUME TypeOK, SessionsKept, NEW i \in Item, NEW row, NEW c \in Core, NEW y,
           SaveStep(i, row, c, y), i \notin raced', ItemInv(i)
    PROVE  Behind(i)'
<1> SUFFICES ASSUME db'.entry[i].need, NEW r \in RowsNow(i)', Last(RowsNow(i)', r)
             PROVE  /\ ~r.box
                    /\ r.owner \in Player => Stays(r.owner, db.entry[i].age)'
  BY DEF Behind
<1>0. /\ i \notin raced /\ Behind(i) /\ HeldWhereSaved(i)
      /\ ~db.entry[i].need => \A o : Last(RowsNow(i), o) => o = saved[i]
  BY SavedFacts
<1>1. Put(db, db', i, row) /\ ~saved[i].box
  BY <1>0 DEF SaveStep, Sent
<1>2. /\ db'.entry[i].age = db.entry[i].age /\ db'.players = db.players /\ logout' = logout
      /\ RowsNow(i)' = RowsNow(i)
  BY <1>1 DEF SaveStep, OthersSame, Put, RowsNow
<1>3. r \in RowsNow(i) /\ Last(RowsNow(i), r)
  BY <1>2
<1>4. CASE db.entry[i].need
  <2>1. ~r.box /\ (r.owner \in Player => Stays(r.owner, db.entry[i].age))
    BY <1>0, <1>3, <1>4 DEF Behind
  <2> QED BY <1>2, <2>1 DEF Stays
<1>5. CASE ~db.entry[i].need
  <2>1. r = saved[i]
    BY <1>0, <1>3, <1>5
  <2>2. ASSUME r.owner \in Player PROVE Playing(r.owner)
    <3>1. on[c][i] # Nobody /\ HeldWhereSaved(i)
      BY <1>0 DEF SaveStep
    <3>2. r.owner = on[c][i]
      BY <2>1, <2>2, <3>1, WhoTypes DEF HeldWhereSaved
    <3> QED BY <2>2, <3>1, <3>2 DEF HeldWhereSaved
  <2>3. ASSUME r.owner \in Player PROVE r.owner \in db.players /\ logout[r.owner] = NotOut
    BY <2>2, <2>3 DEF SessionsKept, SaveStep, Playing
  <2> QED BY <1>1, <1>2, <2>1, <2>3 DEF Stays
<1> QED BY <1>4, <1>5

LEMMA SavedLoads ==
    ASSUME TypeOK, NEW i \in Item, NEW row, NEW c \in Core, NEW y,
           SaveStep(i, row, c, y), i \notin raced', ItemInv(i)
    PROVE  LoadsRead(i)'
<1>1. load' = load
  BY DEF SaveStep
<1> SUFFICES ASSUME NEW k \in DOMAIN load, load[k].what = "item"
             PROVE  IF load[k].run
                      THEN load[k].rows[i].owner # Nobody =>
                              /\ load[k].rows[i] = saved'[i]
                              /\ saved'[i].owner = load[k].pid /\ ~saved'[i].box
                      ELSE db'.entry[i].need =>
                              \A r \in RowsNow(i)' : Last(RowsNow(i)', r) =>
                                    r.owner # load[k].pid
  BY <1>1 DEF LoadsRead
<1>2. /\ load[k].pid # saved[i].owner /\ LoadsRead(i) /\ i \notin raced
      /\ ~db.entry[i].need => \A o : Last(RowsNow(i), o) => o = saved[i]
  BY SavedFacts
<1>3. CASE load[k].run
  BY <1>2, <1>3 DEF LoadsRead
<1>4. CASE ~load[k].run
  <2> SUFFICES ASSUME db'.entry[i].need, NEW r \in RowsNow(i)', Last(RowsNow(i)', r)
               PROVE  r.owner # load[k].pid
    BY <1>4
  <2>1. Put(db, db', i, row)
    BY <1>2 DEF SaveStep, Sent
  <2>2. RowsNow(i)' = RowsNow(i)
    BY <2>1 DEF SaveStep, Put, RowsNow
  <2>3. r \in RowsNow(i) /\ Last(RowsNow(i), r)
    BY <2>2
  <2>4. CASE db.entry[i].need
    BY <1>2, <1>4, <2>3, <2>4 DEF LoadsRead
  <2>5. CASE ~db.entry[i].need
    <3>1. r = saved[i]
      BY <1>2, <2>3, <2>5
    <3> QED BY <1>2, <3>1
  <2> QED BY <2>4, <2>5
<1> QED BY <1>3, <1>4

LEMMA SavedHeld ==
    ASSUME TypeOK, NEW i \in Item, NEW row, NEW c \in Core, NEW y,
           SaveStep(i, row, c, y), i \notin raced', ItemInv(i)
    PROVE  HeldWhereSaved(i)'
<1>0. saved'[i] = row /\ HeldWhereSaved(i) /\ i \notin raced
  BY SavedFacts
<1>1. /\ saved'[i] = row /\ on[c][i] # Nobody /\ UNCHANGED <<session, open>>
      /\ \A b \in Core : /\ on'[b][i] = IF b = c THEN y ELSE on[b][i]
                         /\ i \in inBox'[b] <=> IF b = c THEN row.box ELSE i \in inBox[b]
      /\ y # Nobody => row.owner = IF y = Ground THEN Nobody ELSE y
      /\ y \in Player => Playing(y) /\ CoreOf(y) = c
      /\ row.box => y \in open
      /\ row.box \in BOOLEAN
  BY <1>0 DEF SaveStep, Row
<1>2. HeldWhereSaved(i)
  BY <1>0
<1>3. \A b \in Core \ {c} : on[b][i] = Nobody /\ i \notin inBox[b]
  <2>1. \A b \in Core \ {c} : on[b][i] = Nobody
    BY <1>1, <1>2 DEF HeldWhereSaved
  <2> QED BY <1>2, <2>1, WhoTypes DEF HeldWhereSaved
<1>4. \A b \in Core : /\ on'[b][i] # Nobody => b = c /\ on'[b][i] = y
                      /\ i \in inBox'[b] => b = c
  BY <1>1, <1>3
<1>5. on'[c][i] = y /\ (i \in inBox'[c] <=> row.box)
  BY <1>1
<1>6. \A b \in Core : on'[b][i] # Nobody =>
         /\ saved'[i].owner = (IF on'[b][i] = Ground THEN Nobody ELSE on'[b][i])
         /\ saved'[i].box = (i \in inBox'[b])
         /\ on'[b][i] \in Player => /\ session'[on'[b][i]].phase = "play"
                                    /\ session'[on'[b][i]].core = b
  <2> SUFFICES ASSUME y # Nobody
               PROVE  /\ saved'[i].owner = (IF y = Ground THEN Nobody ELSE y)
                      /\ saved'[i].box = (i \in inBox'[c])
                      /\ y \in Player => session'[y].phase = "play" /\ session'[y].core = c
    BY <1>4
  <2>1. saved'[i].box = (i \in inBox'[c])
    BY <1>1, <1>5
  <2>2. saved'[i].owner = (IF y = Ground THEN Nobody ELSE y)
    BY <1>1
  <2>3. y \in Player => session'[y].phase = "play" /\ session'[y].core = c
    BY <1>1 DEF Playing, CoreOf
  <2> QED BY <2>1, <2>2, <2>3
<1>7. \A b \in Core : i \in inBox'[b] => on'[b][i] \in open'
  BY <1>1, <1>4, <1>5
<1>8. \A a, b \in Core : on'[a][i] # Nobody /\ on'[b][i] # Nobody => a = b
  BY <1>4
<1> QED BY <1>6, <1>7, <1>8 DEF HeldWhereSaved, Playing, CoreOf

\* A SELECT of a safebox waits: what it finds of the item is replaced before, or is
\* the new row.
LEMMA SavedBoxes ==
    ASSUME TypeOK, NEW i \in Item, NEW row, NEW c \in Core, NEW y,
           SaveStep(i, row, c, y), i \notin raced', ItemInv(i)
    PROVE  BoxesRead(i)'
<1> DEFINE st == db.stuff[i]
           di == db.direct[i]
           t == table[i]
           st2 == db'.stuff[i]
           di2 == db'.direct[i]
<1>0. saved'[i] = row /\ HeldWhereSaved(i) /\ BoxesRead(i) /\ i \notin raced
  BY SavedFacts
<1>1. /\ UNCHANGED <<table, session, open>> /\ row \in Row /\ on[c][i] # Nobody
      /\ \A b \in Core : /\ on'[b][i] = IF b = c THEN y ELSE on[b][i]
                         /\ i \in inBox'[b] <=> IF b = c THEN row.box ELSE i \in inBox[b]
      /\ row.box => y \in open /\ ((i \in inBox[c] /\ y = on[c][i]) \/ BoxLoaded(y))
      /\ Put(db, db', i, row) \/ Sent(db, db', i, row)
  BY <1>0 DEF SaveStep
<1>2. st \in Seq(Statement) /\ di \in Seq(Statement)
  BY ItemTypes
<1>3. /\ \A k \in DOMAIN di2 : di2[k].asks # Nobody => k \in DOMAIN di /\ di2[k] = di[k]
      /\ \A k \in DOMAIN di : k \in DOMAIN di2 /\ di2[k] = di[k]
      /\ Writes(di) \subseteq Writes(di2)
      /\ QueuedRows(st) \subseteq QueuedRows(st2)
      /\ RowsOf(st2, di2, t) \subseteq RowsOf(st, di, t) \cup {row}
  <2>1. CASE st2 = st /\ di2 = di
    BY <2>1
  <2>2. CASE st2 = Append(st, Write(row)) /\ di2 = di
    <3>1. QueuedRows(st2) = QueuedRows(st) \cup {row}
      BY <1>1, <1>2, <2>2, AppendWrite
    <3> HIDE DEF st, di, t, st2, di2
    <3> QED BY <2>2, <3>1 DEF RowsOf
  <2>3. CASE st2 = st /\ di2 = Append(di, Write(row))
    <3>1. QueuedRows(di2) = QueuedRows(di) \cup {row}
      BY <1>1, <1>2, <2>3, AppendWrite
    <3>2. /\ DOMAIN di2 = DOMAIN di \cup {Len(di) + 1} /\ di2[Len(di) + 1] = Write(row)
          /\ \A k \in DOMAIN di : di2[k] = di[k]
      <4> HIDE DEF st, di, t, st2, di2
      <4> QED BY <1>1, <1>2, <2>3, AppendAt, WriteType
    <3>3. Write(row).asks = Nobody
      BY DEF Write
    <3> HIDE DEF st, di, t, st2, di2
    <3> QED BY <2>3, <3>1, <3>2, <3>3 DEF RowsOf, Writes
  <2> QED BY <1>1, <2>1, <2>2, <2>3 DEF Put, Sent
<1> SUFFICES ASSUME NEW k \in DOMAIN di2, NEW q, q = di2[k].asks, q \in open
             PROVE  /\ BoxRead(st2, di2, t, row, k, q)
                    /\ ~(on'[CoreOf(q)][i] = q /\ i \in inBox'[CoreOf(q)])
                    /\ \A j \in DOMAIN di2 : di2[j].asks = q => j = k
  BY <1>0, <1>1 DEF BoxesRead, CoreOf
<1>4. q \in Player /\ q # Nobody /\ q # Ground /\ CoreOf(q) \in Core
  BY WhoTypes
<1>5. k \in DOMAIN di /\ di[k].asks = q
  BY <1>3, <1>4
<1>6. /\ BoxRead(st, di, t, saved[i], k, q)
      /\ ~(on[CoreOf(q)][i] = q /\ i \in inBox[CoreOf(q)])
      /\ \A j \in DOMAIN di : di[j].asks = q => j = k
  BY <1>0, <1>5 DEF BoxesRead
<1>7. BoxRead(st2, di2, t, row, k, q)
  <2> SUFFICES ASSUME NEW r \in RowsOf(st2, di2, t), r.owner = q, r.box, r # row
               PROVE  \/ \E w \in QueuedRows(st2) : r.ver < w.ver
                      \/ \E j \in Writes(di2) : j < k /\ r.ver < di2[j].row.ver
    BY DEF BoxRead
  <2>1. r \in RowsOf(st, di, t)
    BY <1>3
  <2>2. r # saved[i]
    <3> SUFFICES ASSUME r = saved[i] PROVE FALSE
      OBVIOUS
    <3>1. /\ saved[i].owner = (IF on[c][i] = Ground THEN Nobody ELSE on[c][i])
          /\ saved[i].box = (i \in inBox[c])
          /\ on[c][i] \in Player => CoreOf(on[c][i]) = c
      BY <1>0, <1>1 DEF HeldWhereSaved
    <3>2. on[c][i] = q /\ i \in inBox[c]
      BY <1>4, <3>1
    <3> QED BY <1>4, <1>6, <3>1, <3>2
  <2>3. \/ \E w \in QueuedRows(st) : r.ver < w.ver
        \/ \E j \in Writes(di) : j < k /\ r.ver < di[j].row.ver
    BY <1>6, <2>1, <2>2 DEF BoxRead
  <2>4. \A j \in Writes(di) : di2[j] = di[j]
    BY <1>3 DEF Writes
  <2> HIDE DEF st, di, t, st2, di2
  <2> QED BY <1>3, <2>3, <2>4
<1>8. ~(on'[CoreOf(q)][i] = q /\ i \in inBox'[CoreOf(q)])
  <2> SUFFICES ASSUME on'[CoreOf(q)][i] = q, i \in inBox'[CoreOf(q)] PROVE FALSE
    OBVIOUS
  <2>1. CoreOf(q) = c /\ y = q /\ row.box
    BY <1>1, <1>4, <1>6
  <2>2. ~BoxLoaded(q)
    BY <1>5 DEF BoxLoaded
  <2> QED BY <1>1, <1>6, <2>1, <2>2
<1>9. \A j \in DOMAIN di2 : di2[j].asks = q => j = k
  BY <1>3, <1>4, <1>6
<1> QED BY <1>7, <1>8, <1>9

LEMMA SavedNewest ==
    ASSUME NewestInv, NEW i \in Item, NEW row, NEW c \in Core, NEW y, SaveStep(i, row, c, y)
    PROVE  SessionsKept' /\ \A j \in Item \ raced' : ItemInv(j)'
<1>1. TypeOK /\ SessionsKept /\ \A j \in Item \ raced : ItemInv(j)
  BY DEF NewestInv, CacheInv
<1>2. SessionsKept'
  BY <1>1 DEF SessionsKept, SaveStep, OthersSame, Playing
<1>3. raced \subseteq raced'
  BY DEF SaveStep, RacesLoad
<1>4. ASSUME NEW j \in Item \ raced' PROVE ItemInv(j)'
  <2>1. ItemInv(j)
    BY <1>1, <1>3, <1>4
  <2>2. CASE j = i
    <3>1. ItemKept(i)' /\ Behind(i)' /\ LoadsRead(i)' /\ HeldWhereSaved(i)' /\ BoxesRead(i)'
      BY <1>1, <1>4, <2>1, <2>2, SavedKept, SavedBehind, SavedLoads, SavedHeld, SavedBoxes
    <3> QED BY <2>2, <3>1 DEF ItemInv
  <2>3. CASE j # i
    BY <1>1, <1>4, <2>1, <2>3, OtherItem
  <2> QED BY <2>2, <2>3
<1> QED BY <1>2, <1>4

-----------------------------------------------------------------------------
(***************************************************************************)
(* What the cores do with items.                                            *)
(***************************************************************************)

\* Who plays has a cache while the db runs.
LEMMA SaverCached ==
    ASSUME SessionsKept, NEW p \in Player, Playing(p), ~down
    PROVE  p \in db.players
  BY DEF SessionsKept

\* GDItemSavePacket: what the packet's handler does, for a row of a player who plays.
LEMMA SendSaveDoes ==
    ASSUME TypeOK, CacheBooks, NEW i \in Item, NEW p \in Player, NEW box \in BOOLEAN,
           NEW row, row = RowOf(p, box, NextVer(i)),
           SendSave(i, row), p \in db.players,
           i \notin raced => (saved[i].box => box)
    PROVE  /\ ~down /\ row \in Row /\ row.ver = NextVer(i) /\ row.owner = p /\ row.box = box
           /\ saved' = [saved EXCEPT ![i] = row]
           /\ OthersSame(db, db', i)
           /\ i \notin raced => \/ Put(db, db', i, row) /\ ~saved[i].box
                                \/ Sent(db, db', i, row)
           /\ RacesLoad(i)
           /\ UNCHANGED <<load, table, logout, session, down>>
<1>1. /\ saved' = [saved EXCEPT ![i] = row] /\ db' = QueryItemSave(db, i, row)
      /\ RacesLoad(i) /\ CanSave(i)
      /\ UNCHANGED <<load, table, logout, session, down>>
  BY DEF SendSave
<1>2. NextVer(i) \in 0 .. MaxSave
  BY <1>1, NextVerType
<1>3. /\ row \in OwnedRow /\ row.ver = NextVer(i) /\ row.owner = p /\ row.box = box
      /\ row \in Row
  BY <1>2 DEF RowOf, OwnedRow, Row
<1>4. db \in DB
  BY DEF TypeOK
<1>5. /\ OthersSame(db, db', i)
      /\ i \notin raced => \/ Put(db, db', i, row) /\ ~saved[i].box
                           \/ Sent(db, db', i, row)
  <2>1. CASE box
    BY <1>1, <1>3, <1>4, <2>1, BoxSavedAt
  <2>2. CASE ~box
    BY <1>1, <1>3, <1>4, <2>2, PutSavedAt
  <2> QED BY <2>1, <2>2
<1>6. ~down
  BY <1>1 DEF CanSave
<1> QED BY <1>1, <1>3, <1>5, <1>6

\* Where a player who plays has an item, and where it was saved last.
LEMMA HasFacts ==
    ASSUME NewestInv, NEW p \in Player, NEW i \in Item, Has(p, i)
    PROVE  /\ Playing(p) /\ CoreOf(p) \in Core /\ on[CoreOf(p)][i] = p
           /\ p # Nobody /\ p # Ground
           /\ i \notin raced => /\ saved[i].owner = p
                                /\ saved[i].box = InBox(p, i)
                                /\ InBox(p, i) => p \in open
<1>1. TypeOK /\ (i \notin raced => HeldWhereSaved(i))
  BY DEF NewestInv, CacheInv, ItemInv
<1>2. Playing(p) /\ CoreOf(p) \in Core /\ on[CoreOf(p)][i] = p /\ p # Nobody /\ p # Ground
  BY <1>1, WhoTypes DEF Has
<1>3. ASSUME i \notin raced
      PROVE  /\ saved[i].owner = p /\ saved[i].box = InBox(p, i)
             /\ InBox(p, i) => p \in open
  BY <1>1, <1>2, <1>3 DEF HeldWhereSaved, InBox
<1> QED BY <1>2, <1>3

LEMMA MoveToAt ==
    ASSUME TypeOK, NEW c \in Core, NEW i \in Item, NEW who, MoveTo(c, i, who)
    PROVE  \A b \in Core, j \in Item : on'[b][j] = IF b = c /\ j = i THEN who ELSE on[b][j]
<1>1. /\ on \in [Core -> [Item -> Player \cup {Ground, Nobody}]]
      /\ on' = [on EXCEPT ![c][i] = who]
  BY DEF TypeOK, MoveTo
<1>2. \A b \in Core : on[b] \in [Item -> Player \cup {Ground, Nobody}]
  BY <1>1
<1> QED BY <1>1, <1>2

LEMMA SaveNewest ==
    ASSUME NewestInv, NEW p \in Player, NEW i \in Item, Save(p, i)
    PROVE  SessionsKept' /\ \A j \in Item \ raced' : ItemInv(j)'
<1> DEFINE c == CoreOf(p)
           box == InBox(p, i)
           row == RowOf(p, box, NextVer(i))
<1>1. TypeOK /\ CacheBooks /\ SessionsKept
  BY DEF NewestInv, CacheInv
<1>2. Has(p, i) /\ SendSave(i, row) /\ UNCHANGED <<on, inBox, open>>
  BY DEF Save
<1>3. /\ Playing(p) /\ c \in Core /\ on[c][i] = p /\ p # Nobody /\ p # Ground
      /\ i \notin raced => saved[i].box = box /\ (box => p \in open)
  BY <1>2, HasFacts
<1>4. p \in db.players
  BY <1>1, <1>2, <1>3, SaverCached DEF SendSave, CanSave
<1>5. box \in BOOLEAN /\ (box <=> i \in inBox[c])
  BY DEF InBox
<1> HIDE DEF c, box, row
<1>6. i \notin raced => (saved[i].box => box)
  BY <1>3
<1>7. /\ ~down /\ row \in Row /\ row.ver = NextVer(i) /\ row.owner = p /\ row.box = box
      /\ saved' = [saved EXCEPT ![i] = row]
      /\ OthersSame(db, db', i)
      /\ i \notin raced => \/ Put(db, db', i, row) /\ ~saved[i].box
                           \/ Sent(db, db', i, row)
      /\ RacesLoad(i)
      /\ UNCHANGED <<load, table, logout, session, down>>
  BY <1>1, <1>2, <1>4, <1>5, <1>6, SendSaveDoes DEF row
<1>8. SaveStep(i, row, c, p)
  BY <1>2, <1>3, <1>5, <1>7 DEF SaveStep, c
<1> QED BY <1>3, <1>8, SavedNewest

LEMMA TradeNewest ==
    ASSUME NewestInv, NEW p \in Player, NEW q \in Player, NEW i \in Item, Trade(p, q, i)
    PROVE  SessionsKept' /\ \A j \in Item \ raced' : ItemInv(j)'
<1> DEFINE c == CoreOf(p)
           row == RowOf(q, FALSE, NextVer(i))
<1>1. TypeOK /\ CacheBooks /\ SessionsKept
  BY DEF NewestInv, CacheInv
<1>2. /\ Has(p, i) /\ ~InBox(p, i) /\ Playing(q) /\ CoreOf(q) = c
      /\ SendSave(i, row) /\ MoveTo(c, i, q) /\ UNCHANGED <<inBox, open>>
  BY DEF Trade
<1>3. /\ c \in Core /\ on[c][i] = p /\ p # Nobody
      /\ i \notin raced => saved[i].box = InBox(p, i)
  BY <1>2, HasFacts
<1>4. q \in db.players /\ q # Nobody /\ q # Ground
  BY <1>1, <1>2, SaverCached, WhoTypes DEF SendSave, CanSave
<1>5. i \notin inBox[c]
  BY <1>2 DEF InBox
<1> HIDE DEF c, row
<1>6. \A b \in Core, j \in Item : on'[b][j] = IF b = c /\ j = i THEN q ELSE on[b][j]
  BY <1>1, <1>2, <1>3, MoveToAt
<1>7. i \notin raced => ~saved[i].box
  BY <1>2, <1>3
<1>8. /\ ~down /\ row \in Row /\ row.ver = NextVer(i) /\ row.owner = q /\ ~row.box
      /\ saved' = [saved EXCEPT ![i] = row]
      /\ OthersSame(db, db', i)
      /\ i \notin raced => \/ Put(db, db', i, row) /\ ~saved[i].box
                           \/ Sent(db, db', i, row)
      /\ RacesLoad(i)
      /\ UNCHANGED <<load, table, logout, session, down>>
  BY <1>1, <1>2, <1>4, <1>7, SendSaveDoes DEF row
<1>9. SaveStep(i, row, c, q)
  BY <1>2, <1>3, <1>4, <1>5, <1>6, <1>8 DEF SaveStep
<1> QED BY <1>3, <1>9, SavedNewest

LEMMA PickUpNewest ==
    ASSUME NewestInv, NEW p \in Player, NEW i \in Item, PickUp(p, i)
    PROVE  SessionsKept' /\ \A j \in Item \ raced' : ItemInv(j)'
<1> DEFINE c == CoreOf(p)
           row == RowOf(p, FALSE, NextVer(i))
<1>1. TypeOK /\ CacheBooks /\ SessionsKept /\ (i \notin raced => HeldWhereSaved(i))
  BY DEF NewestInv, CacheInv, ItemInv
<1>2. /\ Playing(p) /\ on[c][i] = Ground
      /\ SendSave(i, row) /\ MoveTo(c, i, p) /\ UNCHANGED <<inBox, open>>
  BY DEF PickUp
<1>3. c \in Core /\ Ground # Nobody /\ Ground \notin Player /\ open \subseteq Player
  BY <1>1, <1>2, WhoTypes
<1>4. p \in db.players /\ p # Nobody /\ p # Ground
  BY <1>1, <1>2, SaverCached, WhoTypes DEF SendSave, CanSave
<1>5. CoreOf(p) = c
  OBVIOUS
<1> HIDE DEF c, row
<1>6. i \notin raced => i \notin inBox[c] /\ ~saved[i].box
  <2>1. i \notin raced => i \notin inBox[c] /\ saved[i].box = (i \in inBox[c])
    BY <1>1, <1>2, <1>3 DEF HeldWhereSaved
  <2> QED BY <2>1
<1>7. \A b \in Core, j \in Item : on'[b][j] = IF b = c /\ j = i THEN p ELSE on[b][j]
  BY <1>1, <1>2, <1>3, MoveToAt
<1>8. /\ ~down /\ row \in Row /\ row.ver = NextVer(i) /\ row.owner = p /\ ~row.box
      /\ saved' = [saved EXCEPT ![i] = row]
      /\ OthersSame(db, db', i)
      /\ i \notin raced => \/ Put(db, db', i, row) /\ ~saved[i].box
                           \/ Sent(db, db', i, row)
      /\ RacesLoad(i)
      /\ UNCHANGED <<load, table, logout, session, down>>
  BY <1>1, <1>2, <1>4, <1>6, SendSaveDoes DEF row
<1>9. SaveStep(i, row, c, p)
  BY <1>2, <1>3, <1>4, <1>5, <1>6, <1>7, <1>8 DEF SaveStep
<1> QED BY <1>3, <1>9, SavedNewest

LEMMA DepositNewest ==
    ASSUME NewestInv, NEW p \in Player, NEW i \in Item, Deposit(p, i)
    PROVE  SessionsKept' /\ \A j \in Item \ raced' : ItemInv(j)'
<1> DEFINE c == CoreOf(p)
           box == TRUE
           row == RowOf(p, box, NextVer(i))
<1>1. TypeOK /\ CacheBooks /\ SessionsKept
  BY DEF NewestInv, CacheInv
<1>2. /\ Has(p, i) /\ BoxLoaded(p) /\ SendSave(i, row)
      /\ inBox' = [inBox EXCEPT ![c] = @ \cup {i}] /\ UNCHANGED <<on, open>>
  BY DEF Deposit
<1>3. Playing(p) /\ c \in Core /\ on[c][i] = p /\ p # Nobody /\ p # Ground
  BY <1>2, HasFacts
<1>4. p \in db.players
  BY <1>1, <1>2, <1>3, SaverCached DEF SendSave, CanSave
<1>5. p \in open /\ box \in BOOLEAN /\ box /\ CoreOf(p) = c
  BY <1>2 DEF BoxLoaded
<1>6. inBox \in [Core -> SUBSET Item]
  BY <1>1 DEF TypeOK
<1> HIDE DEF c, box, row
<1>7. \A b \in Core, j \in Item : j \in inBox'[b] <=> (b = c /\ j = i) \/ j \in inBox[b]
  BY <1>2, <1>3, <1>6
<1>8. /\ ~down /\ row \in Row /\ row.ver = NextVer(i) /\ row.owner = p /\ row.box = box
      /\ saved' = [saved EXCEPT ![i] = row]
      /\ OthersSame(db, db', i)
      /\ i \notin raced => \/ Put(db, db', i, row) /\ ~saved[i].box
                           \/ Sent(db, db', i, row)
      /\ RacesLoad(i)
      /\ UNCHANGED <<load, table, logout, session, down>>
  BY <1>1, <1>2, <1>4, <1>5, SendSaveDoes DEF row
<1>9. SaveStep(i, row, c, p)
  BY <1>2, <1>3, <1>5, <1>7, <1>8 DEF SaveStep
<1> QED BY <1>3, <1>9, SavedNewest

LEMMA DropNewest ==
    ASSUME NewestInv, NEW p \in Player, NEW i \in Item, Drop(p, i)
    PROVE  SessionsKept' /\ \A j \in Item \ raced' : ItemInv(j)'
<1> DEFINE c == CoreOf(p)
           row == RowOf(Nobody, FALSE, NextVer(i))
<1>1. /\ TypeOK /\ db \in DB
      /\ i \notin raced => ItemKept(i)
  BY DEF NewestInv, CacheInv, ItemInv, TypeOK
<1>2. /\ Has(p, i) /\ CanSave(i) /\ saved' = [saved EXCEPT ![i] = row]
      /\ db' = QueryItemDestroy(db, i, NextVer(i)) /\ RacesLoad(i)
      /\ inBox' = [inBox EXCEPT ![c] = @ \ {i}]
      /\ UNCHANGED <<load, table, logout, session, open, down>>
  BY DEF Drop
<1>3. PICK y \in {Ground, Nobody} : MoveTo(c, i, y)
  BY DEF Drop
<1>4. /\ c \in Core /\ on[c][i] = p /\ p # Nobody /\ y \notin Player
      /\ Ground # Nobody
      /\ i \notin raced => saved[i].owner = p
  BY <1>1, <1>2, HasFacts, WhoTypes
<1>5. /\ row \in Row /\ row.ver = NextVer(i) /\ row.owner = Nobody /\ ~row.box /\ ~down
  BY <1>1, <1>2, NextVerType DEF RowOf, Row, CanSave
<1>6. inBox \in [Core -> SUBSET Item]
  BY <1>1 DEF TypeOK
<1>7. OthersSame(db, db', i)
  BY <1>1, <1>2, DestroyedAt
<1>8. ASSUME i \notin raced PROVE Sent(db, db', i, row)
  <2>1. Newest(db.entry[i], RowsNow(i), saved[i])
    BY <1>1, <1>8 DEF ItemKept
  <2>2. db.entry[i].need => db.entry[i].owner # Nobody
    BY <2>1 DEF Newest
  <2>3. db.entry[i].owner # Nobody => db.entry[i].live
    <3> SUFFICES ASSUME db.entry[i].owner # Nobody, ~db.entry[i].live PROVE FALSE
      OBVIOUS
    <3>1. Value(db.entry[i]) = saved[i]
      BY <2>1 DEF Newest
    <3>2. Value(db.entry[i]).owner = Nobody
      BY DEF Value, RowOf
    <3> QED BY <1>4, <1>8, <3>1, <3>2
  <2> QED BY <1>1, <1>2, <2>2, <2>3, DestroyedAt
<1> HIDE DEF c, row
<1>9. \A b \in Core, j \in Item : on'[b][j] = IF b = c /\ j = i THEN y ELSE on[b][j]
  BY <1>1, <1>3, <1>4, MoveToAt
<1>10. \A b \in Core, j \in Item : j \in inBox'[b] <=> ~(b = c /\ j = i) /\ j \in inBox[b]
  BY <1>2, <1>4, <1>6
<1>11. y # Nobody => row.owner = IF y = Ground THEN Nobody ELSE y
  BY <1>3, <1>5
<1>12. SaveStep(i, row, c, y)
  BY <1>2, <1>4, <1>5, <1>7, <1>8, <1>9, <1>10, <1>11 DEF SaveStep
<1> QED BY <1>4, <1>12, SavedNewest

\* cache<T>::Flush, of the item that was put into the cache just before.
LEMMA FlushPut ==
    ASSUME NEW d, NEW d1 \in DB, NEW i \in Item, NEW row,
           OthersSame(d, d1, i), Put(d, d1, i, row)
    PROVE  OthersSame(d, Flush(d1, {i}), i) /\ Sent(d, Flush(d1, {i}), i, row)
<1> DEFINE I == {i}
           f == Flush(d1, I)
           e == d1.entry[i]
           e2 == [e EXCEPT !.need = FALSE, !.age = 0]
           dirty == {j \in I : d1.entry[j].need}
           st == [j \in Item |-> IF j \in dirty
                    THEN Append(d1.stuff[j], Write(Value(d1.entry[j])))
                    ELSE d1.stuff[j]]
           en == [j \in Item |-> IF j \in dirty
                    THEN [d1.entry[j] EXCEPT !.need = FALSE, !.age = 0]
                    ELSE d1.entry[j]]
<1>1. f = [d1 EXCEPT !.stuff = st, !.entry = en]
  BY DEF Flush
<1>2. dirty = {i}
  BY DEF Put
<1>3. e \in Entry
  BY DEF DB
<1>4. ~e2.need /\ Value(e2) = Value(e)
  BY <1>3 DEF Entry, Value
<1> HIDE DEF dirty, e2
<1>5. /\ st[i] = Append(d1.stuff[i], Write(Value(e))) /\ en[i] = e2
      /\ \A j \in Item \ {i} : st[j] = d1.stuff[j] /\ en[j] = d1.entry[j]
  BY <1>2 DEF e2
<1> HIDE DEF st, en, f
<1>6. f.stuff = st /\ f.entry = en /\ f.direct = d1.direct /\ f.players = d1.players
  BY <1>1 DEF DB
<1> HIDE DEF e
<1>7. OthersSame(d, f, i)
  BY <1>5, <1>6 DEF OthersSame
<1>8. Sent(d, f, i, row)
  BY <1>4, <1>5, <1>6 DEF Sent, Put, e
<1> QED BY <1>7, <1>8 DEF f

LEMMA WithdrawNewest ==
    ASSUME NewestInv, NEW p \in Player, NEW i \in Item, Withdraw(p, i)
    PROVE  SessionsKept' /\ \A j \in Item \ raced' : ItemInv(j)'
<1> DEFINE c == CoreOf(p)
           row == RowOf(p, FALSE, NextVer(i))
           d1 == QueryItemSave(db, i, row)
<1>1. TypeOK /\ SessionsKept /\ db \in DB
  BY DEF NewestInv, CacheInv, TypeOK
<1>2. /\ Has(p, i) /\ CanSave(i) /\ saved' = [saved EXCEPT ![i] = row]
      /\ db' = Flush(d1, {i}) /\ RacesLoad(i)
      /\ inBox' = [inBox EXCEPT ![c] = @ \ {i}]
      /\ UNCHANGED <<load, table, logout, session, on, open, down>>
  BY DEF Withdraw
<1>3. Playing(p) /\ c \in Core /\ on[c][i] = p /\ p # Nobody /\ p # Ground
  BY <1>2, HasFacts
<1>4. p \in db.players /\ ~down
  BY <1>1, <1>2, <1>3, SaverCached DEF CanSave
<1>5. row \in OwnedRow /\ row \in Row /\ row.ver = NextVer(i) /\ row.owner = p /\ ~row.box
  BY <1>1, <1>2, NextVerType DEF RowOf, Row, OwnedRow
<1> HIDE DEF c, row
<1>6. OthersSame(db, d1, i) /\ Put(db, d1, i, row) /\ d1 \in DB
  BY <1>1, <1>4, <1>5, PutSavedAt
<1> HIDE DEF d1
<1>7. OthersSame(db, db', i) /\ Sent(db, db', i, row)
  BY <1>2, <1>6, FlushPut
<1>8. inBox \in [Core -> SUBSET Item]
  BY <1>1 DEF TypeOK
<1>9. \A b \in Core, j \in Item : j \in inBox'[b] <=> ~(b = c /\ j = i) /\ j \in inBox[b]
  BY <1>2, <1>3, <1>8
<1>10. SaveStep(i, row, c, p)
  BY <1>2, <1>3, <1>4, <1>5, <1>7, <1>9 DEF SaveStep, c
<1> QED BY <1>3, <1>10, SavedNewest

\* A row that is not what was saved last is replaced by a statement that waits, or is
\* not in a safebox.
LEMMA OldBoxRow ==
    ASSUME TypeOK, NEW i \in Item, ItemKept(i), Behind(i),
           NEW r \in RowsNow(i), r.box, r # saved[i]
    PROVE  \/ \E w \in QueuedRows(db.stuff[i]) : r.ver < w.ver
           \/ \E j \in Writes(db.direct[i]) : r.ver < db.direct[i][j].row.ver
<1> DEFINE st == db.stuff[i]
           di == db.direct[i]
<1>1. /\ saved[i] \in Row /\ table[i] \in Row /\ RowsNow(i) \in SUBSET Row
      /\ st \in Seq(Statement) /\ di \in Seq(Statement)
  BY ItemTypes
<1>2. Queued(st, di, table[i]) /\ Newest(db.entry[i], RowsOf(st, di, table[i]), saved[i])
  BY DEF ItemKept, RowsNow
<1>3. ~Last(RowsNow(i), r)
  <2> SUFFICES ASSUME Last(RowsNow(i), r) PROVE FALSE
    OBVIOUS
  <2>1. CASE db.entry[i].need
    BY <2>1 DEF Behind
  <2>2. CASE ~db.entry[i].need
    <3>1. Last(RowsOf(st, di, table[i]), r)
      BY DEF RowsNow
    <3> HIDE DEF st, di
    <3>2. r = saved[i]
      BY <1>1, <1>2, <2>2, <3>1, LastIsSaved
    <3> QED BY <3>2
  <2> QED BY <2>1, <2>2
<1>4. PICK o \in RowsNow(i) : ~(o.ver <= r.ver)
  BY <1>3 DEF Last
<1>5. o.ver \in Nat /\ r.ver \in Nat
  BY <1>1, RowVer
<1>6. r.ver < o.ver
  BY <1>4, <1>5
<1>7. o # table[i]
  <2> SUFFICES ASSUME o = table[i] PROVE FALSE
    OBVIOUS
  <2>1. r # table[i]
    BY <1>4, <1>5
  <2>2. r \in QueuedRows(st) \cup QueuedRows(di)
    BY <2>1 DEF RowsNow, RowsOf
  <2>3. o.ver < r.ver
    BY <1>2, <2>2 DEF Queued
  <2> QED BY <1>5, <1>6, <2>3
<1>8. o \in QueuedRows(st) \cup QueuedRows(di)
  BY <1>7 DEF RowsNow, RowsOf
<1> QED BY <1>6, <1>8 DEF QueuedRows

LEMMA OpenBoxNewest ==
    ASSUME NewestInv, NEW p \in Player, OpenBox(p)
    PROVE  SessionsKept' /\ \A j \in Item \ raced' : ItemInv(j)'
<1>1. TypeOK /\ SessionsKept /\ db \in DB
  BY DEF NewestInv, CacheInv, TypeOK
<1>2. /\ p \notin open /\ Playing(p) /\ open' = open \cup {p}
      /\ \A i \in Item : \A k \in DOMAIN db.direct[i] : db.direct[i][k].asks # p
      /\ db'.players = db.players /\ db'.entry = db.entry /\ db'.stuff = db.stuff
      /\ \A i \in Item : db'.direct[i] = Append(db.direct[i], SelectBox(p))
      /\ UNCHANGED <<load, table, logout, session, on, inBox, saved, raced, down>>
  BY <1>1 DEF OpenBox, DB
<1>3. SessionsKept'
  BY <1>1, <1>2 DEF SessionsKept, Playing
<1>4. ASSUME NEW i \in Item \ raced' PROVE ItemInv(i)'
  <2> DEFINE st == db.stuff[i]
             di == db.direct[i]
             di2 == db'.direct[i]
             t == table[i]
             n == Len(di) + 1
  <2>1. /\ ItemKept(i) /\ Behind(i) /\ LoadsRead(i) /\ HeldWhereSaved(i) /\ BoxesRead(i)
        /\ i \in Item
    BY <1>2, <1>4 DEF NewestInv, ItemInv
  <2>2. di \in Seq(Statement) /\ RowsNow(i) \in SUBSET Row
    BY <1>1, ItemTypes
  <2>3. /\ Writes(di2) = Writes(di) /\ QueuedRows(di2) = QueuedRows(di)
        /\ InOrderOf(di) => InOrderOf(di2)
        /\ DOMAIN di2 = DOMAIN di \cup {n}
        /\ \A k \in DOMAIN di : di2[k] = di[k] /\ k < n
        /\ di2[n].asks = p
    <3>1. di2 = Append(di, SelectBox(p))
      BY <1>2, <1>4
    <3>2. SelectBox(p) \in Statement /\ SelectBox(p).asks = p
      BY SelectBoxType
    <3> HIDE DEF di, di2
    <3>3. /\ DOMAIN di2 = DOMAIN di \cup {Len(di) + 1}
          /\ \A k \in DOMAIN di : di2[k] = di[k] /\ k < Len(di) + 1
          /\ di2[Len(di) + 1] = SelectBox(p)
      BY <2>2, <3>1, <3>2, AppendAt
    <3> QED BY <2>2, <3>1, <3>2, <3>3, AppendSelect
  <2>4. db'.entry[i] = db.entry[i] /\ db'.stuff[i] = st /\ saved'[i] = saved[i] /\ table'[i] = t
    BY <1>2
  <2> HIDE DEF st, di, di2, t, n
  <2>5. RowsNow(i)' = RowsNow(i)
    BY <2>3, <2>4 DEF RowsNow, RowsOf, st, di, di2, t
  <2>6. ItemKept(i)'
    <3>1. Queued(st, di2, t)
      BY <2>1, <2>3 DEF ItemKept, Queued, st, di, t
    <3> QED BY <2>1, <2>4, <2>5, <3>1 DEF ItemKept, di2
  <2>7. Behind(i)'
    BY <1>2, <2>1, <2>4, <2>5 DEF Behind, Stays
  <2>8. LoadsRead(i)'
    BY <1>2, <2>1, <2>4, <2>5 DEF LoadsRead
  <2>9. HeldWhereSaved(i)'
    BY <1>2, <2>1 DEF HeldWhereSaved, Playing, CoreOf
  <2>10. BoxesRead(i)'
    <3> SUFFICES ASSUME NEW k \in DOMAIN di2, NEW q, q = di2[k].asks, q \in open'
                 PROVE  /\ BoxRead(st, di2, t, saved[i], k, q)
                        /\ ~(on[CoreOf(q)][i] = q /\ i \in inBox[CoreOf(q)])
                        /\ \A j \in DOMAIN di2 : di2[j].asks = q => j = k
      BY <1>2, <2>4 DEF BoxesRead, CoreOf, di2
    <3>1. \A j \in DOMAIN di : di[j].asks # p
      BY <1>2, <2>1 DEF di
    <3>2. CASE k = n
      <4>1. q = p
        BY <2>3, <3>2
      <4>2. BoxRead(st, di2, t, saved[i], k, q)
        <5> SUFFICES ASSUME NEW r \in RowsOf(st, di2, t), r.box, r # saved[i]
                     PROVE  \/ \E w \in QueuedRows(st) : r.ver < w.ver
                            \/ \E j \in Writes(di2) : j < k /\ r.ver < di2[j].row.ver
          BY DEF BoxRead
        <5>1. r \in RowsNow(i)
          BY <2>3 DEF RowsNow, RowsOf, st, di, t
        <5>2. \/ \E w \in QueuedRows(st) : r.ver < w.ver
              \/ \E j \in Writes(di) : r.ver < di[j].row.ver
          BY <1>1, <2>1, <5>1, OldBoxRow DEF st, di
        <5>3. \A j \in Writes(di) : j \in DOMAIN di
          BY DEF Writes
        <5> QED BY <2>3, <3>2, <5>2, <5>3
      <4>3. ~(on[CoreOf(q)][i] = q /\ i \in inBox[CoreOf(q)])
        BY <1>1, <1>2, <2>1, <4>1, WhoTypes DEF HeldWhereSaved
      <4> QED BY <2>3, <3>1, <3>2, <4>1, <4>2, <4>3
    <3>3. CASE k # n
      <4>1. k \in DOMAIN di /\ di[k].asks = q /\ q # p /\ q \in open
        BY <1>2, <2>3, <3>1, <3>3
      <4>2. /\ BoxRead(st, di, t, saved[i], k, q)
            /\ ~(on[CoreOf(q)][i] = q /\ i \in inBox[CoreOf(q)])
            /\ \A j \in DOMAIN di : di[j].asks = q => j = k
        BY <2>1, <4>1 DEF BoxesRead, st, di, t
      <4>3. RowsOf(st, di2, t) = RowsOf(st, di, t)
        BY <2>3 DEF RowsOf
      <4>4. \A j \in Writes(di) : j \in DOMAIN di
        BY DEF Writes
      <4>5. BoxRead(st, di2, t, saved[i], k, q)
        BY <2>3, <4>2, <4>3, <4>4 DEF BoxRead
      <4> QED BY <2>3, <4>1, <4>2, <4>5
    <3> QED BY <3>2, <3>3
  <2> QED BY <2>6, <2>7, <2>8, <2>9, <2>10 DEF ItemInv
<1> QED BY <1>3, <1>4

-----------------------------------------------------------------------------
(***************************************************************************)
(* The channels execute a statement.                                        *)
(***************************************************************************)

\* A write of i is executed, and no older one waits.
LEMMA OldestWritten ==
    ASSUME TypeOK, NEW i \in Item, ItemInv(i), NEW w \in RowsNow(i)',
           RowsNow(i) = RowsNow(i)' \cup {table[i]}, table[i].ver < w.ver,
           \A r \in RowsNow(i)' : w.ver <= r.ver,
           Queued(db.stuff[i], db.direct[i], table[i])',
           db'.entry[i] = db.entry[i], db'.players = db.players,
           UNCHANGED <<load, logout, session, on, inBox, open, saved>>
    PROVE  ItemKept(i)' /\ Behind(i)' /\ LoadsRead(i)' /\ HeldWhereSaved(i)'
<1> DEFINE R == RowsNow(i)
           R2 == RowsNow(i)'
<1>1. ItemKept(i) /\ Behind(i) /\ LoadsRead(i) /\ HeldWhereSaved(i)
  BY DEF ItemInv
<1>2. R \in SUBSET Row /\ table[i] \in Row /\ saved[i] \in Row
  BY ItemTypes
<1>3. R2 \in SUBSET Row /\ Newest(db.entry[i], R, saved[i])
  BY <1>1, <1>2 DEF ItemKept
<1> HIDE DEF R, R2
<1>4. /\ Newest(db.entry[i], R2, saved[i])
      /\ \A r : Last(R2, r) => Last(R, r)
  <2>1. w \in R2 /\ R = R2 \cup {table[i]} /\ \A r \in R2 : w.ver <= r.ver
    BY DEF R, R2
  <2> QED BY <1>2, <1>3, <2>1, OldestGone
<1>5. ItemKept(i)'
  BY <1>4 DEF ItemKept, R2
<1>6. StaysBehind(i)
  BY <1>4 DEF StaysBehind, R, R2
<1>7. Behind(i)'
  <2>1. \A p \in Player : Stays(p, db.entry[i].age) => Stays(p, db.entry[i].age)'
    BY DEF Stays
  <2> QED BY <1>1, <1>6, <2>1, BehindKept
<1>8. LoadsRead(i)'
  <2>1. FewerLoads
    BY DEF FewerLoads
  <2> QED BY <1>1, <1>6, <2>1, LoadsReadKept
<1>9. HeldWhereSaved(i)'
  BY <1>1 DEF HeldWhereSaved, Playing, CoreOf
<1> QED BY <1>5, <1>7, <1>8, <1>9

LEMMA RunStuffNewest ==
    ASSUME NewestInv, NEW i \in Item, RunStuff(i)
    PROVE  SessionsKept' /\ \A j \in Item \ raced' : ItemInv(j)'
<1> DEFINE st == db.stuff[i]
           di == db.direct[i]
           t == table[i]
           w == Head(st).row
<1>1. TypeOK /\ SessionsKept /\ db \in DB
  BY DEF NewestInv, CacheInv, TypeOK
<1>2. /\ st # <<>> /\ table' = [table EXCEPT ![i] = w]
      /\ raced' = IF HasOlder(di, w.ver) THEN raced \cup {i} ELSE raced
      /\ db' = [db EXCEPT !.stuff[i] = Tail(@)]
      /\ UNCHANGED <<load, logout, session, on, inBox, open, saved, down>>
  BY DEF RunStuff, coreVars
<1>3. /\ db.stuff \in [Item -> Seq(Statement)] /\ table \in [Item -> Row]
      /\ db' = [db EXCEPT !.stuff = [db.stuff EXCEPT ![i] = Tail(st)]]
  BY <1>1, <1>2 DEF DB, TypeOK
<1>4. /\ db'.players = db.players /\ db'.entry = db.entry /\ db'.direct = db.direct
      /\ db'.stuff[i] = Tail(st)
      /\ \A j \in Item \ {i} : db'.stuff[j] = db.stuff[j] /\ table'[j] = table[j]
      /\ table'[i] = w
  <2> HIDE DEF w, st
  <2>1. /\ [db.stuff EXCEPT ![i] = Tail(st)][i] = Tail(st)
        /\ \A j \in Item \ {i} : [db.stuff EXCEPT ![i] = Tail(st)][j] = db.stuff[j]
        /\ \A j \in Item \ {i} : table'[j] = table[j]
        /\ table'[i] = w
    BY <1>2, <1>3
  <2> QED BY <1>1, <1>3, <2>1 DEF DB
<1> HIDE DEF st, di, t, w
<1>5. SessionsKept'
  BY <1>1, <1>2, <1>4 DEF SessionsKept, Playing
<1>6. ASSUME NEW j \in Item \ raced', j # i PROVE ItemInv(j)'
  <2>1. ItemInv(j)
    BY <1>2, <1>6 DEF NewestInv
  <2>2. Untouched(j)
    BY <1>2, <1>4, <1>6 DEF Untouched
  <2> QED BY <1>1, <2>1, <2>2, UntouchedItem
<1>7. ASSUME i \notin raced' PROVE ItemInv(i)'
  <2>1. ~HasOlder(di, w.ver) /\ ItemInv(i)
    BY <1>2, <1>7 DEF NewestInv
  <2>2. /\ st \in Seq(Statement) /\ di \in Seq(Statement) /\ t \in Row
        /\ RowsNow(i) \in SUBSET Row
    BY <1>1, ItemTypes DEF st, di, t
  <2>3. Queued(st, di, t) /\ BoxesRead(i)
    BY <2>1 DEF ItemInv, ItemKept, st, di, t
  <2>4. /\ Queued(Tail(st), di, w)
        /\ w \in RowsOf(st, di, t) /\ RowsOf(st, di, t) = RowsOf(Tail(st), di, w) \cup {t}
        /\ t.ver < w.ver /\ \A r \in RowsOf(Tail(st), di, w) : w.ver <= r.ver
    BY <1>2, <2>1, <2>2, <2>3, RunStuffRows DEF w
  <2>5. RowsNow(i) = RowsOf(st, di, t) /\ RowsNow(i)' = RowsOf(Tail(st), di, w)
    BY <1>4 DEF RowsNow, st, di, t
  <2>6. w \in RowsNow(i)' /\ Queued(db.stuff[i], db.direct[i], table[i])'
    BY <1>4, <2>4, <2>5 DEF RowsOf, di
  <2>7. ItemKept(i)' /\ Behind(i)' /\ LoadsRead(i)' /\ HeldWhereSaved(i)'
    BY <1>1, <1>2, <1>4, <2>1, <2>4, <2>5, <2>6, OldestWritten DEF t
  <2>8. BoxesRead(i)'
    <3>0. /\ db'.direct[i] = di /\ db'.stuff[i] = Tail(st) /\ table'[i] = w
          /\ UNCHANGED <<session, on, inBox, open, saved>>
      BY <1>2, <1>4 DEF di
    <3> SUFFICES ASSUME NEW k \in DOMAIN di, NEW q, q = di[k].asks, q \in open
                 PROVE  /\ BoxRead(Tail(st), di, w, saved[i], k, q)
                        /\ ~(on[CoreOf(q)][i] = q /\ i \in inBox[CoreOf(q)])
                        /\ \A j \in DOMAIN di : di[j].asks = q => j = k
      BY <3>0 DEF BoxesRead, CoreOf
    <3>1. /\ BoxRead(st, di, t, saved[i], k, q)
          /\ ~(on[CoreOf(q)][i] = q /\ i \in inBox[CoreOf(q)])
          /\ \A j \in DOMAIN di : di[j].asks = q => j = k
      BY <2>3 DEF BoxesRead, st, di, t
    <3>2. BoxRead(Tail(st), di, w, saved[i], k, q)
      <4> SUFFICES ASSUME NEW r \in RowsOf(Tail(st), di, w), r.owner = q, r.box,
                          NEW x \in QueuedRows(st), r.ver < x.ver
                   PROVE  \E v \in QueuedRows(Tail(st)) : r.ver < v.ver
        BY <2>4, <3>1 DEF BoxRead
      <4>1. QueuedRows(st) = QueuedRows(Tail(st)) \cup {w}
        BY <1>2, <2>2, <2>3, TailRows DEF Queued, w
      <4>2. r.ver \in Nat /\ w.ver \in Nat /\ w.ver <= r.ver
        BY <2>2, <2>4, <2>5, RowVer
      <4> QED BY <4>1, <4>2
    <3> QED BY <3>1, <3>2
  <2> QED BY <2>7, <2>8 DEF ItemInv
<1> QED BY <1>5, <1>6, <1>7

\* The SELECTs behind a statement of the direct channel, when that is executed.
LEMMA BoxReadTail ==
    ASSUME NEW st, NEW di \in Seq(Statement), di # <<>>, NEW t, NEW w, NEW s, NEW p,
           NEW k \in DOMAIN Tail(di), BoxRead(st, di, t, s, k + 1, p),
           RowsOf(st, Tail(di), w) \subseteq RowsOf(st, di, t),
           Head(di).asks = Nobody =>
              \A r \in RowsOf(st, Tail(di), w) : ~(r.ver < Head(di).row.ver)
    PROVE  BoxRead(st, Tail(di), w, s, k, p)
<1> DEFINE td == Tail(di)
<1>1. /\ \A j \in Writes(di) : j # 1 => j - 1 \in Writes(td) /\ td[j - 1] = di[j]
      /\ Head(di).asks = Nobody <=> 1 \in Writes(di)
      /\ Head(di) = di[1]
  BY TailWrites, TailAt
<1>2. /\ k \in Nat /\ \A j \in Writes(di) : j \in Nat
  BY TailAt DEF Writes
<1> SUFFICES ASSUME NEW r \in RowsOf(st, td, w), r.owner = p, r.box, r # s,
                    ~\E x \in QueuedRows(st) : r.ver < x.ver
             PROVE  \E j \in Writes(td) : j < k /\ r.ver < td[j].row.ver
  BY DEF BoxRead
<1>3. PICK j \in Writes(di) : j < k + 1 /\ r.ver < di[j].row.ver
  BY DEF BoxRead
<1>4. j # 1
  BY <1>1, <1>3
<1>5. j - 1 < k
  BY <1>2, <1>3
<1> HIDE DEF td
<1> QED BY <1>1, <1>3, <1>4, <1>5

\* The direct channel executes a write.
LEMMA WriteDirectNewest ==
    ASSUME TypeOK, NEW i \in Item, ItemInv(i), RunDirect(i), Head(db.direct[i]).asks = Nobody,
           ~HasOlder(db.stuff[i], Head(db.direct[i]).row.ver),
           table'[i] = Head(db.direct[i]).row, db'.direct[i] = Tail(db.direct[i]),
           db'.stuff[i] = db.stuff[i], db'.entry[i] = db.entry[i], db'.players = db.players,
           UNCHANGED <<load, logout, session, on, inBox, open, saved>>
    PROVE  ItemInv(i)'
<1> DEFINE st == db.stuff[i]
           di == db.direct[i]
           t == table[i]
           w == Head(di).row
<1>1. di # <<>>
  BY DEF RunDirect
<1>2. /\ st \in Seq(Statement) /\ di \in Seq(Statement) /\ t \in Row
      /\ RowsNow(i) \in SUBSET Row
  BY ItemTypes
<1>3. Queued(st, di, t) /\ BoxesRead(i)
  BY DEF ItemInv, ItemKept
<1> HIDE DEF st, di, t, w
<1>4. /\ Queued(st, Tail(di), w)
      /\ w \in RowsOf(st, di, t) /\ RowsOf(st, di, t) = RowsOf(st, Tail(di), w) \cup {t}
      /\ t.ver < w.ver /\ \A r \in RowsOf(st, Tail(di), w) : w.ver <= r.ver
  BY <1>1, <1>2, <1>3, RunDirectRows DEF w, st, di
<1>5. RowsNow(i) = RowsOf(st, di, t) /\ RowsNow(i)' = RowsOf(st, Tail(di), w)
  BY DEF RowsNow, st, di, t, w
<1>6. w \in RowsNow(i)' /\ Queued(db.stuff[i], db.direct[i], table[i])'
  BY <1>4, <1>5 DEF RowsOf, st, di, w
<1>7. ItemKept(i)' /\ Behind(i)' /\ LoadsRead(i)' /\ HeldWhereSaved(i)'
  BY <1>4, <1>5, <1>6, OldestWritten DEF t
<1>8. BoxesRead(i)'
  <2> DEFINE td == Tail(di)
  <2>1. /\ db'.direct[i] = td /\ db'.stuff[i] = st /\ table'[i] = w
        /\ saved'[i] = saved[i] /\ session' = session /\ on' = on /\ inBox' = inBox
        /\ open' = open
    BY DEF st, di, w
  <2> HIDE DEF td
  <2> SUFFICES ASSUME NEW k \in DOMAIN td, NEW q, q = td[k].asks, q \in open
               PROVE  /\ BoxRead(st, td, w, saved[i], k, q)
                      /\ ~(on[CoreOf(q)][i] = q /\ i \in inBox[CoreOf(q)])
                      /\ \A j \in DOMAIN td : td[j].asks = q => j = k
    BY <2>1 DEF BoxesRead, CoreOf
  <2>2. /\ k + 1 \in DOMAIN di /\ di[k + 1].asks = q
        /\ \A j \in DOMAIN td : j \in Nat /\ j + 1 \in DOMAIN di /\ td[j] = di[j + 1]
    BY <1>1, <1>2, TailAt DEF td
  <2>3. /\ BoxRead(st, di, t, saved[i], k + 1, q)
        /\ ~(on[CoreOf(q)][i] = q /\ i \in inBox[CoreOf(q)])
        /\ \A j \in DOMAIN di : di[j].asks = q => j = k + 1
    BY <1>3, <2>2 DEF BoxesRead, st, di, t
  <2>4. BoxRead(st, td, w, saved[i], k, q)
    <3>1. \A r \in RowsOf(st, td, w) : ~(r.ver < w.ver)
      <4>1. \A r \in RowsOf(st, td, w) : r.ver \in Nat /\ w.ver \in Nat
        BY <1>2, <1>4, <1>5, RowVer DEF td
      <4> QED BY <1>4, <4>1 DEF td
    <3> QED BY <1>1, <1>2, <1>4, <2>3, <3>1, BoxReadTail DEF w, td
  <2>5. \A j \in DOMAIN td : td[j].asks = q => j = k
    BY <2>2, <2>3
  <2> QED BY <2>3, <2>4, <2>5
<1> QED BY <1>7, <1>8 DEF ItemInv

\* It executes the SELECT of q's safebox, no write waiting in the stuff channel, and
\* the answer gives him the item, or does nothing.
LEMMA SelectDirectNewest ==
    ASSUME TypeOK, NEW i \in Item, ItemInv(i), db.direct[i] # <<>>,
           NEW q, q = Head(db.direct[i]).asks, q # Nobody, Writes(db.stuff[i]) = {},
           table'[i] = table[i], db'.direct[i] = Tail(db.direct[i]),
           db'.stuff[i] = db.stuff[i], db'.entry[i] = db.entry[i], db'.players = db.players,
           UNCHANGED <<load, logout, session, open, saved>>,
           \/ UNCHANGED <<on, inBox>>
           \/ /\ q \in open /\ table[i].owner = q /\ table[i].box
              /\ on[CoreOf(q)][i] = Nobody /\ MoveTo(CoreOf(q), i, q)
              /\ inBox' = [inBox EXCEPT ![CoreOf(q)] = @ \cup {i}]
    PROVE  ItemInv(i)'
<1> DEFINE st == db.stuff[i]
           di == db.direct[i]
           t == table[i]
           c == CoreOf(q)
           Given == /\ q \in open /\ table[i].owner = q /\ table[i].box
                    /\ on[c][i] = Nobody /\ MoveTo(c, i, q)
                    /\ inBox' = [inBox EXCEPT ![c] = @ \cup {i}]
<1>1. /\ st \in Seq(Statement) /\ di \in Seq(Statement) /\ t \in Row
      /\ RowsNow(i) \in SUBSET Row
  BY ItemTypes
<1>2. ItemKept(i) /\ Behind(i) /\ LoadsRead(i) /\ HeldWhereSaved(i) /\ BoxesRead(i)
  BY DEF ItemInv
<1>3. Queued(st, di, t) /\ QueuedRows(st) = {}
  BY <1>2 DEF ItemKept, QueuedRows
<1>4. /\ QueuedRows(di) = QueuedRows(Tail(di)) /\ (InOrderOf(di) => InOrderOf(Tail(di)))
  BY <1>1, TailRows
<1>5. RowsNow(i)' = RowsNow(i) /\ RowsOf(st, Tail(di), t) = RowsOf(st, di, t)
  BY <1>4 DEF RowsNow, RowsOf
<1>6. ItemKept(i)'
  <2>1. Queued(st, Tail(di), t)
    BY <1>3, <1>4 DEF Queued
  <2> QED BY <1>2, <1>5, <2>1 DEF ItemKept
<1>7. Behind(i)'
  BY <1>2, <1>5 DEF Behind, Stays
<1>8. LoadsRead(i)'
  BY <1>2, <1>5 DEF LoadsRead
<1>9. q \in open => /\ BoxRead(st, di, t, saved[i], 1, q)
                    /\ \A j \in DOMAIN di : di[j].asks = q => j = 1
  <2>1. 1 \in DOMAIN di /\ di[1].asks = q
    BY <1>1, TailAt
  <2> QED BY <1>2, <2>1 DEF BoxesRead
<1>10. Given => /\ t = saved[i] /\ q \in Player /\ c \in Core /\ q # Ground /\ Playing(q)
                /\ \A b \in Core : on[b][i] = Nobody /\ i \notin inBox[b]
  <2> SUFFICES ASSUME Given
               PROVE  /\ t = saved[i] /\ q \in Player /\ c \in Core /\ q # Ground /\ Playing(q)
                      /\ \A b \in Core : on[b][i] = Nobody /\ i \notin inBox[b]
    OBVIOUS
  <2>1. q \in Player /\ c \in Core /\ q # Ground /\ Playing(q)
    BY WhoTypes
  <2>2. t = saved[i]
    <3>1. t \in RowsOf(st, di, t)
      BY DEF RowsOf
    <3>2. ~\E j \in Writes(di) : j < 1
      <4>1. \A j \in Writes(di) : j \in Nat /\ j >= 1
        BY <1>1, TailAt DEF Writes
      <4> QED BY <4>1
    <3> QED BY <1>3, <1>9, <3>1, <3>2 DEF BoxRead
  <2>3. ASSUME NEW b \in Core PROVE on[b][i] = Nobody
    <3> SUFFICES ASSUME on[b][i] # Nobody PROVE FALSE
      OBVIOUS
    <3>1. /\ saved[i].owner = (IF on[b][i] = Ground THEN Nobody ELSE on[b][i])
          /\ on[b][i] \in Player => CoreOf(on[b][i]) = b
      BY <1>2 DEF HeldWhereSaved
    <3>2. on[b][i] = q
      BY <2>2, <3>1
    <3> QED BY <2>1, <3>1, <3>2
  <2>4. \A b \in Core : i \notin inBox[b]
    BY <1>2, <2>3, WhoTypes DEF HeldWhereSaved
  <2> QED BY <2>1, <2>2, <2>3, <2>4
<1>11. Given => \A b \in Core : /\ on'[b][i] = IF b = c THEN q ELSE on[b][i]
                                /\ i \in inBox'[b] <=> b = c \/ i \in inBox[b]
  <2> SUFFICES ASSUME Given
               PROVE  \A b \in Core : /\ on'[b][i] = IF b = c THEN q ELSE on[b][i]
                                      /\ i \in inBox'[b] <=> b = c \/ i \in inBox[b]
    OBVIOUS
  <2>1. c \in Core /\ MoveTo(c, i, q) /\ inBox' = [inBox EXCEPT ![c] = @ \cup {i}]
    BY <1>10
  <2>2. inBox \in [Core -> SUBSET Item]
    BY DEF TypeOK
  <2> HIDE DEF c, Given
  <2> QED BY <2>1, <2>2, MoveToAt
<1>12. UNCHANGED <<on, inBox>> \/ Given
  OBVIOUS
<1> HIDE DEF st, di, t, c
<1>13. HeldWhereSaved(i)'
  <2>1. CASE UNCHANGED <<on, inBox>>
    BY <1>2, <2>1 DEF HeldWhereSaved, Playing, CoreOf
  <2>2. CASE Given
    <3>1. /\ saved'[i].owner = q /\ saved'[i].box /\ q \in open' /\ q \in Player /\ c \in Core
          /\ saved'[i].box \in BOOLEAN /\ q # Ground
          /\ session'[q].phase = "play" /\ session'[q].core = c
      BY <1>1, <1>10, <2>2 DEF Row, t, c, Playing, CoreOf
    <3>2. \A b \in Core : /\ on'[b][i] # Nobody => b = c /\ on'[b][i] = q
                          /\ i \in inBox'[b] <=> b = c
      BY <1>10, <1>11, <2>2
    <3>3. on'[c][i] = q /\ i \in inBox'[c]
      BY <1>11, <2>2, <3>1
    <3>4. saved'[i].box = (i \in inBox'[c])
      BY <3>1, <3>3
    <3>5. \A b \in Core : on'[b][i] # Nobody =>
             /\ saved'[i].owner = (IF on'[b][i] = Ground THEN Nobody ELSE on'[b][i])
             /\ saved'[i].box = (i \in inBox'[b])
             /\ on'[b][i] \in Player => /\ session'[on'[b][i]].phase = "play"
                                        /\ session'[on'[b][i]].core = b
      BY <3>1, <3>2, <3>4
    <3>6. \A b \in Core : i \in inBox'[b] => on'[b][i] \in open'
      BY <3>1, <3>2, <3>3
    <3>7. \A a, b \in Core : on'[a][i] # Nobody /\ on'[b][i] # Nobody => a = b
      BY <3>2
    <3> QED BY <3>5, <3>6, <3>7 DEF HeldWhereSaved, Playing, CoreOf
  <2> QED BY <1>12, <2>1, <2>2
<1>14. BoxesRead(i)'
  <2> DEFINE td == Tail(di)
  <2>1. /\ db'.direct[i] = td /\ db'.stuff[i] = st /\ table'[i] = t
        /\ saved'[i] = saved[i] /\ session' = session /\ open' = open
    BY DEF st, di, t
  <2> HIDE DEF td
  <2> SUFFICES ASSUME NEW k \in DOMAIN td, NEW p, p = td[k].asks, p \in open
               PROVE  /\ BoxRead(st, td, t, saved[i], k, p)
                      /\ ~(on'[CoreOf(p)][i] = p /\ i \in inBox'[CoreOf(p)])
                      /\ \A j \in DOMAIN td : td[j].asks = p => j = k
    BY <2>1 DEF BoxesRead, CoreOf
  <2>2. /\ k + 1 \in DOMAIN di /\ di[k + 1].asks = p /\ k \in Nat /\ k >= 1
        /\ \A j \in DOMAIN td : j \in Nat /\ j + 1 \in DOMAIN di /\ td[j] = di[j + 1]
    BY <1>1, TailAt DEF di, td
  <2>3. /\ BoxRead(st, di, t, saved[i], k + 1, p)
        /\ ~(on[CoreOf(p)][i] = p /\ i \in inBox[CoreOf(p)])
        /\ \A j \in DOMAIN di : di[j].asks = p => j = k + 1
    BY <1>2, <2>2 DEF BoxesRead, st, di, t
  <2>4. BoxRead(st, td, t, saved[i], k, p)
    <3>1. RowsOf(st, td, t) \subseteq RowsOf(st, di, t) /\ di # <<>>
          /\ Head(di).asks # Nobody
      BY <1>5 DEF di, td
    <3> QED BY <1>1, <2>3, <3>1, BoxReadTail DEF td
  <2>5. ~(on'[CoreOf(p)][i] = p /\ i \in inBox'[CoreOf(p)])
    <3>1. CASE UNCHANGED <<on, inBox>>
      BY <2>3, <3>1
    <3>2. CASE Given
      <4>1. p # q
        <5>1. 1 \in DOMAIN di /\ di[1].asks = q
          BY <1>1, TailAt DEF di
        <5> QED BY <2>2, <2>3, <5>1
      <4>2. CoreOf(p) \in Core /\ p # Nobody
        BY WhoTypes
      <4> QED BY <1>10, <1>11, <3>2, <4>1, <4>2
    <3> QED BY <1>12, <3>1, <3>2
  <2>6. \A j \in DOMAIN td : td[j].asks = p => j = k
    BY <2>2, <2>3
  <2> QED BY <2>4, <2>5, <2>6
<1> QED BY <1>6, <1>7, <1>8, <1>13, <1>14 DEF ItemInv

LEMMA RunDirectNewest ==
    ASSUME NewestInv, NEW i \in Item, RunDirect(i)
    PROVE  SessionsKept' /\ \A j \in Item \ raced' : ItemInv(j)'
<1> DEFINE s == Head(db.direct[i])
           c == CoreOf(s.asks)
<1>1. TypeOK /\ SessionsKept /\ db \in DB /\ inBox \in [Core -> SUBSET Item]
  BY DEF NewestInv, CacheInv, TypeOK
<1>2. /\ db.direct[i] # <<>>
      /\ db' = [db EXCEPT !.direct[i] = Tail(@)]
      /\ UNCHANGED <<load, logout, session, open, saved, down>>
  BY DEF RunDirect
<1>3. \/ /\ s.asks = Nobody /\ table' = [table EXCEPT ![i] = s.row]
         /\ raced' = IF HasOlder(db.stuff[i], s.row.ver) THEN raced \cup {i} ELSE raced
         /\ UNCHANGED <<on, inBox>>
      \/ /\ s.asks # Nobody /\ table' = table
         /\ raced' = IF Writes(db.stuff[i]) # {} THEN raced \cup {i} ELSE raced
         /\ \/ UNCHANGED <<on, inBox>>
            \/ /\ s.asks \in open /\ table[i].owner = s.asks /\ table[i].box
               /\ on[c][i] = Nobody /\ MoveTo(c, i, s.asks)
               /\ inBox' = [inBox EXCEPT ![c] = @ \cup {i}]
  BY DEF RunDirect
<1>4. /\ db'.players = db.players /\ db'.entry = db.entry /\ db'.stuff = db.stuff
      /\ db'.direct[i] = Tail(db.direct[i])
      /\ \A j \in Item \ {i} : db'.direct[j] = db.direct[j]
  <2> DEFINE di == [db.direct EXCEPT ![i] = Tail(db.direct[i])]
  <2>1. db.direct \in [Item -> Seq(Statement)] /\ db' = [db EXCEPT !.direct = di]
    BY <1>1, <1>2 DEF DB
  <2>2. di[i] = Tail(db.direct[i]) /\ \A j \in Item \ {i} : di[j] = db.direct[j]
    BY <2>1
  <2> HIDE DEF di
  <2> QED BY <1>1, <2>1, <2>2 DEF DB
<1>5. table \in [Item -> Row]
  BY <1>1 DEF TypeOK
<1> HIDE DEF s, c
<1>6. SessionsKept'
  BY <1>1, <1>2, <1>4 DEF SessionsKept, Playing
<1>7. raced \subseteq raced' /\ \A j \in Item \ {i} : table'[j] = table[j]
  BY <1>3, <1>5
<1>8. ASSUME NEW j \in Item \ raced', j # i PROVE ItemInv(j)'
  <2>1. ItemInv(j)
    BY <1>7, <1>8 DEF NewestInv
  <2>2. \A b \in Core : on'[b][j] = on[b][j] /\ (j \in inBox'[b] <=> j \in inBox[b])
    <3>1. CASE UNCHANGED <<on, inBox>>
      BY <3>1
    <3>2. CASE /\ s.asks \in open /\ MoveTo(c, i, s.asks)
               /\ inBox' = [inBox EXCEPT ![c] = @ \cup {i}]
      <4>1. c \in Core
        BY <1>1, <3>2, WhoTypes DEF c
      <4>2. \A b \in Core : j \in inBox'[b] <=> j \in inBox[b]
        BY <1>1, <1>8, <3>2, <4>1
      <4>3. \A b \in Core : on'[b][j] = on[b][j]
        BY <1>1, <1>8, <3>2, <4>1, MoveToAt
      <4> QED BY <4>2, <4>3
    <3> QED BY <1>3, <3>1, <3>2
  <2>3. Untouched(j)
    BY <1>2, <1>4, <1>7, <1>8, <2>2 DEF Untouched
  <2> QED BY <1>1, <2>1, <2>3, UntouchedItem
<1>9. ASSUME i \notin raced' PROVE ItemInv(i)'
  <2>1. ItemInv(i)
    BY <1>7, <1>9 DEF NewestInv
  <2>2. /\ db'.direct[i] = Tail(db.direct[i]) /\ db'.stuff[i] = db.stuff[i]
        /\ db'.entry[i] = db.entry[i] /\ db'.players = db.players
    BY <1>4
  <2>3. CASE s.asks = Nobody
    <3>1. /\ ~HasOlder(db.stuff[i], s.row.ver) /\ table'[i] = s.row
          /\ UNCHANGED <<load, logout, session, on, inBox, open, saved>>
      BY <1>2, <1>3, <1>5, <1>9, <2>3
    <3> QED BY <1>1, <2>1, <2>2, <2>3, <3>1, WriteDirectNewest DEF s
  <2>4. CASE s.asks # Nobody
    <3> DEFINE q == s.asks
    <3>1. /\ Writes(db.stuff[i]) = {} /\ table'[i] = table[i]
          /\ UNCHANGED <<load, logout, session, open, saved>>
          /\ \/ UNCHANGED <<on, inBox>>
             \/ /\ q \in open /\ table[i].owner = q /\ table[i].box
                /\ on[CoreOf(q)][i] = Nobody /\ MoveTo(CoreOf(q), i, q)
                /\ inBox' = [inBox EXCEPT ![CoreOf(q)] = @ \cup {i}]
      BY <1>2, <1>3, <1>9, <2>4 DEF c
    <3>2. q = Head(db.direct[i]).asks /\ q # Nobody
      BY <2>4 DEF s
    <3> HIDE DEF q
    <3> QED BY <1>1, <1>2, <2>1, <2>2, <3>1, <3>2, SelectDirectNewest
  <2> QED BY <2>3, <2>4
<1> QED BY <1>6, <1>8, <1>9

-----------------------------------------------------------------------------
(***************************************************************************)
(* The theorems.                                                           *)
(***************************************************************************)

LEMMA InitNewest == Init => NewestInv
<1> SUFFICES ASSUME Init PROVE NewestInv
  OBVIOUS
<1>1. CacheInv
  BY InitInv
<1>2. SessionsKept
  BY DEF Init, SessionsKept, Playing, Off
<1>3. ASSUME NEW i \in Item PROVE ItemInv(i)
  <2>1. /\ table[i] \in Row /\ saved[i] = table[i] /\ load = <<>>
        /\ table[i].owner = Nobody => ~table[i].box
        /\ db.entry[i] = NoEntry /\ db.stuff[i] = <<>> /\ db.direct[i] = <<>>
        /\ \A c \in Core : i \notin inBox[c]
    BY DEF Init
  <2>2. PICK c \in Core : \A b \in Core :
           on[b][i] = IF b = c /\ table[i].owner = Nobody THEN Ground ELSE Nobody
    BY DEF Init
  <2>3. RowsNow(i) = {saved[i]}
    BY <2>1 DEF RowsNow, RowsOf, QueuedRows, Writes
  <2>4. saved[i].ver \in Nat /\ saved[i].box \in BOOLEAN
    BY <2>1, RowVer DEF Row
  <2>5. ~db.entry[i].need /\ db.entry[i].owner = Nobody
    BY <2>1 DEF NoEntry
  <2>6. ItemKept(i)
    <3>1. Queued(db.stuff[i], db.direct[i], table[i])
      BY <2>1 DEF Queued, InOrderOf, QueuedRows, Writes
    <3>2. Newest(db.entry[i], RowsNow(i), saved[i])
      BY <2>3, <2>4, <2>5 DEF Newest
    <3> QED BY <3>1, <3>2 DEF ItemKept
  <2>7. Behind(i) /\ LoadsRead(i) /\ BoxesRead(i)
    BY <2>1, <2>5 DEF Behind, LoadsRead, BoxesRead
  <2>8. HeldWhereSaved(i)
    <3>1. \A b \in Core : on[b][i] # Nobody =>
             b = c /\ on[b][i] = Ground /\ saved[i].owner = Nobody /\ ~saved[i].box
      BY <2>1, <2>2
    <3>2. Ground \notin Player
      BY CacheAssumption
    <3>3. \A b \in Core : on[b][i] # Nobody => saved[i].box = (i \in inBox[b])
      BY <2>1, <2>4, <3>1
    <3> QED BY <2>1, <3>1, <3>2, <3>3 DEF HeldWhereSaved
  <2> QED BY <2>6, <2>7, <2>8 DEF ItemInv
<1> QED BY <1>1, <1>2, <1>3 DEF NewestInv

LEMMA ItemStepNewest ==
    ASSUME NewestInv, NEW p \in Player, NEW i \in Item,
           \/ Save(p, i) \/ PickUp(p, i) \/ Drop(p, i) \/ Deposit(p, i) \/ Withdraw(p, i)
           \/ \E q \in Player : Trade(p, q, i)
    PROVE  SessionsKept' /\ \A j \in Item \ raced' : ItemInv(j)'
<1>1. CASE Save(p, i)
  BY <1>1, SaveNewest
<1>2. CASE PickUp(p, i)
  BY <1>2, PickUpNewest
<1>3. CASE Drop(p, i)
  BY <1>3, DropNewest
<1>4. CASE Deposit(p, i)
  BY <1>4, DepositNewest
<1>5. CASE Withdraw(p, i)
  BY <1>5, WithdrawNewest
<1>6. CASE \E q \in Player : Trade(p, q, i)
  BY <1>6, TradeNewest
<1> QED BY <1>1, <1>2, <1>3, <1>4, <1>5, <1>6

LEMMA NextNewest ==
    ASSUME ~FlushRequests, NewestInv, [Next]_vars
    PROVE  NewestInv'
<1> DEFINE Goal == SessionsKept' /\ \A j \in Item \ raced' : ItemInv(j)'
<1>1. CacheInv'
  BY NextInv DEF NewestInv
<1>2. ASSUME NEW p \in Player,
             \/ \E c \in Core : Login(p, c)
             \/ Logout(p) \/ OpenBox(p) \/ FlushCache(p)
      PROVE  Goal
  <2>1. ~FlushCache(p)
    BY DEF FlushCache
  <2>2. CASE \E c \in Core : Login(p, c)
    BY <2>2, LoginNewest
  <2>3. CASE Logout(p)
    BY <2>3, LogoutNewest
  <2>4. CASE OpenBox(p)
    BY <2>4, OpenBoxNewest
  <2> QED BY <1>2, <2>1, <2>2, <2>3, <2>4
<1>3. ASSUME NEW p \in Player, NEW i \in Item,
             \/ Save(p, i) \/ PickUp(p, i) \/ Drop(p, i) \/ Deposit(p, i) \/ Withdraw(p, i)
             \/ \E q \in Player : Trade(p, q, i)
      PROVE  Goal
  BY <1>3, ItemStepNewest
<1>4. ASSUME NEW c \in Core, RemovePeer(c) PROVE Goal
  BY <1>4, RemovePeerNewest
<1>5. ASSUME NEW k \in DOMAIN load, RunSelect(k) PROVE Goal
  BY <1>5, RunSelectNewest
<1>6. ASSUME ResultPlayerLoad \/ ResultItemLoad PROVE Goal
  <2>1. CASE ResultPlayerLoad
    BY <2>1, ResultPlayerLoadNewest
  <2>2. CASE ResultItemLoad
    BY <2>2, ResultItemLoadNewest
  <2> QED BY <1>6, <2>1, <2>2
<1>7. ASSUME HeartBeat \/ LimitedHeartBeat \/ Shutdown PROVE Goal
  <2>1. CASE HeartBeat \/ LimitedHeartBeat
    BY <2>1, HeartBeatNewest
  <2>2. CASE Shutdown
    BY <2>2, ShutdownNewest
  <2> QED BY <1>7, <2>1, <2>2
<1>8. ASSUME NEW i \in Item, RunStuff(i) \/ RunDirect(i) PROVE Goal
  BY <1>8, RunStuffNewest, RunDirectNewest
<1>9. ASSUME UNCHANGED vars PROVE Goal
  <2>1. /\ UNCHANGED <<db, load, table, logout, session, on, inBox, open, saved, raced, down>>
    BY <1>9 DEF vars, coreVars
  <2>2. SessionsKept'
    BY <2>1 DEF NewestInv, SessionsKept, Playing
  <2>3. ASSUME NEW j \in Item \ raced' PROVE ItemInv(j)'
    <3>1. ItemInv(j) /\ TypeOK
      BY <2>1, <2>3 DEF NewestInv, CacheInv
    <3>2. Untouched(j)
      BY <2>1 DEF Untouched
    <3> QED BY <3>1, <3>2, UntouchedItem
  <2> QED BY <2>2, <2>3
<1>10. Goal
  <2> HIDE DEF Goal
  <2> QED BY <1>2, <1>3, <1>4, <1>5, <1>6, <1>7, <1>8, <1>9 DEF Next
<1> QED BY <1>1, <1>10 DEF NewestInv

\* NewestInv holds in every state, when no flush is requested.
THEOREM NewestInvHolds == ~FlushRequests => (Spec => []NewestInv)
<1> SUFFICES ASSUME ~FlushRequests PROVE Spec => []NewestInv
  OBVIOUS
<1>1. Init => NewestInv
  BY InitNewest
<1>2. NewestInv /\ [Next]_vars => NewestInv'
  BY NextNewest
<1> QED BY <1>1, <1>2, PTL DEF Spec

\* The row as it will be is the newest of the rows.
LEMMA RowToBeIsLast ==
    ASSUME TypeOK, NEW i \in Item, ItemKept(i)
    PROVE  Last(RowsNow(i), RowToBe(i))
<1>1. RowsNow(i) = {table[i]} \cup Waiting(i) /\ RowsNow(i) \in SUBSET Row
  BY WaitingRows, ItemTypes
<1>2. \A r \in Waiting(i) : table[i].ver < r.ver
  BY DEF ItemKept, Queued, Waiting, QueuedRows
<1>3. \A r \in RowsNow(i) : r.ver \in Nat
  BY <1>1, RowVer
<1>4. CASE Waiting(i) = {}
  <2>1. RowToBe(i) = table[i] /\ RowsNow(i) = {table[i]}
    BY <1>1, <1>4 DEF RowToBe
  <2> QED BY <1>3, <2>1 DEF Last
<1>5. CASE Waiting(i) # {}
  <2>1. \E r \in Waiting(i) : \A o \in Waiting(i) : o.ver <= r.ver
    BY <1>1, <1>5, LastExists DEF Last
  <2>2. RowToBe(i) = CHOOSE r \in Waiting(i) : \A o \in Waiting(i) : o.ver <= r.ver
    BY <1>5 DEF RowToBe
  <2> DEFINE w == RowToBe(i)
  <2>3. w \in Waiting(i) /\ \A o \in Waiting(i) : o.ver <= w.ver
    BY <2>1, <2>2
  <2> HIDE DEF w
  <2>4. table[i].ver <= w.ver
    BY <1>1, <1>2, <1>3, <2>3
  <2> QED BY <1>1, <2>3, <2>4 DEF Last, w
<1> QED BY <1>4, <1>5

\* What the three properties need of one item.
LEMMA ItemNewest ==
    ASSUME NewestInv, NEW i \in Item \ raced
    PROVE  /\ Last(RowsNow(i), RowToBe(i)) /\ RowToBe(i) \in RowsNow(i)
           /\ ItemKept(i) /\ Behind(i) /\ HeldWhereSaved(i)
           /\ ~db.entry[i].need => RowToBe(i) = saved[i]
<1>1. TypeOK /\ ItemKept(i) /\ Behind(i) /\ HeldWhereSaved(i)
  BY DEF NewestInv, CacheInv, ItemInv
<1>2. Last(RowsNow(i), RowToBe(i))
  BY <1>1, RowToBeIsLast
<1>3. /\ db.stuff[i] \in Seq(Statement) /\ db.direct[i] \in Seq(Statement)
      /\ table[i] \in Row /\ saved[i] \in Row
  BY <1>1, ItemTypes
<1>4. ASSUME ~db.entry[i].need PROVE RowToBe(i) = saved[i]
  <2> DEFINE r == RowToBe(i)
  <2>1. /\ Queued(db.stuff[i], db.direct[i], table[i])
        /\ Newest(db.entry[i], RowsOf(db.stuff[i], db.direct[i], table[i]), saved[i])
        /\ Last(RowsOf(db.stuff[i], db.direct[i], table[i]), r)
    BY <1>1, <1>2 DEF ItemKept, RowsNow
  <2> HIDE DEF r
  <2>2. r = saved[i]
    BY <1>3, <1>4, <2>1, LastIsSaved
  <2> QED BY <2>2 DEF r
<1> QED BY <1>1, <1>2, <1>4 DEF Last

\* While no channel overtakes another, the newest value of an item is in the cache,
\* in a statement that waits or in the table (NewestIsKept): of Put, Flush,
\* FlushPlayerCache, UpdatePlayerCache and the direct saves, none loses it.
THEOREM NewestKept == ~FlushRequests => (Spec => []NewestIsKept)
<1> SUFFICES ASSUME ~FlushRequests PROVE Spec => []NewestIsKept
  OBVIOUS
<1>1. NewestInv => NewestIsKept
  <2> SUFFICES ASSUME NewestInv, NEW i \in Item \ raced
               PROVE  /\ Cached(i) => Value(db.entry[i]) = saved[i]
                      /\ db.entry[i].need \/ RowToBe(i) = saved[i]
    BY DEF NewestIsKept
  <2>1. ItemKept(i) /\ (~db.entry[i].need => RowToBe(i) = saved[i])
    BY ItemNewest
  <2> QED BY <2>1 DEF ItemKept, Newest, Cached
<1> QED BY <1>1, NewestInvHolds, PTL

\* When a player's cache has been evicted, or he never had one, what a load of his
\* items reads is what was saved last (NoStaleRow): no item that was his is dirty in
\* another's cache, because the logout time exceeds the flush time.
THEOREM NothingStale == ~FlushRequests => (Spec => []NoStaleRow)
<1> SUFFICES ASSUME ~FlushRequests PROVE Spec => []NoStaleRow
  OBVIOUS
<1>1. NewestInv => NoStaleRow
  <2> SUFFICES ASSUME NewestInv, NEW p \in Player \ db.players, NEW i \in Item \ raced,
                      p \in {RowToBe(i).owner, saved[i].owner}, db.entry[i].need
               PROVE  FALSE
    BY ItemNewest DEF NoStaleRow
  <2>1. /\ Last(RowsNow(i), RowToBe(i)) /\ RowToBe(i) \in RowsNow(i)
        /\ ItemKept(i) /\ Behind(i)
    BY ItemNewest
  <2>2. RowToBe(i).owner # p
    BY <2>1 DEF Behind, Stays
  <2>3. /\ db.entry[i].owner # Nobody /\ db.entry[i].live
        /\ Value(db.entry[i]) = saved[i]
    BY <2>1 DEF ItemKept, Newest
  <2>4. db.entry[i].owner = p
    BY <2>2, <2>3 DEF Value, RowOf
  <2>5. i \in db.setItems[p] /\ db.setItems[p] = {}
    BY <2>4 DEF NewestInv, CacheInv, CacheBooks
  <2> QED BY <2>5
<1> QED BY <1>1, NewestInvHolds, PTL

\* A core has an item only where it was saved last: no item is on two cores, with two
\* players, or on the ground and in a row (OneHolder).
THEOREM HeldOnce == ~FlushRequests => (Spec => []OneHolder)
<1> SUFFICES ASSUME ~FlushRequests PROVE Spec => []OneHolder
  OBVIOUS
<1>1. NewestInv => OneHolder
  <2> SUFFICES ASSUME NewestInv, NEW i \in Item \ raced, NEW c \in Core, on[c][i] # Nobody
               PROVE  /\ saved[i].owner = (IF on[c][i] = Ground THEN Nobody ELSE on[c][i])
                      /\ saved[i].box = (i \in inBox[c])
    BY DEF OneHolder
  <2>1. HeldWhereSaved(i)
    BY ItemNewest
  <2> QED BY <2>1 DEF HeldWhereSaved
<1> QED BY <1>1, NewestInvHolds, PTL

=============================================================================
