-------------------------- MODULE ItemIDRange_proofs --------------------------
(***************************************************************************)
(* Theorems about ItemIDRange, for every set of cores, every cutting of    *)
(* the ids into ranges and every bound.  A range keeps its min and max all *)
(* its life, so books are disjoint when their mins differ; and the core    *)
(* and its CPeer agree because at most one message is between them.        *)
(***************************************************************************)
EXTENDS ItemIDRange, WellFoundedInduction, TLAPS

Slot == IDRange \cup {None}

Mins(s) == {s[i].min : i \in 1 .. Len(s)}

Distinct(s) == \A i, j \in 1 .. Len(s) : i # j => s[i].min # s[j].min

\* A core that runs creates from a range it was given, at or above its min.
CurrentInv ==
    \A c \in Core : core[c] = "run" =>
        /\ m_ItemIDRange[c] \in IDRange
        /\ m_ItemIDRange[c].min <= m_dwCurrentID[c]

\* No two books have the same min.
PoolInv ==
    /\ Distinct(m_listData)
    /\ \A c \in Core :
          /\ m_itemRange[c] # None => m_itemRange[c].min \notin Mins(m_listData)
          /\ m_itemSpareRange[c] # None =>
                m_itemSpareRange[c].min \notin Mins(m_listData)

PeersInv ==
    /\ \A c, d \in Core : m_itemRange[c] # None /\ m_itemSpareRange[d] # None =>
          m_itemRange[c].min # m_itemSpareRange[d].min
    /\ \A c, d \in Core :
          c # d /\ m_itemRange[c] # None /\ m_itemRange[d] # None =>
              m_itemRange[c].min # m_itemRange[d].min
    /\ \A c, d \in Core :
          c # d /\ m_itemSpareRange[c] # None /\ m_itemSpareRange[d] # None =>
              m_itemSpareRange[c].min # m_itemSpareRange[d].min

\* A core that waits for the answer to BOOT.
Booting(c) ==
    \/ /\ toDB[c] = <<"BOOT">> /\ toCore[c] = <<>>
       /\ m_itemRange[c] = None /\ m_itemSpareRange[c] = None
    \/ /\ toDB[c] = <<>>
       /\ Len(toCore[c]) = 1
       /\ Head(toCore[c]).range = m_itemRange[c]
       /\ Head(toCore[c]).spare = m_itemSpareRange[c]

\* InStep of one core.
Agree(c) ==
    \/ /\ toDB[c] = <<>> /\ toCore[c] = <<>>
       /\ m_ItemIDRange[c] = m_itemRange[c]
       /\ m_ItemIDSpareRange[c] = m_itemSpareRange[c]
    \/ /\ toDB[c] = <<"REQ_SPARE_ITEM_ID_RANGE">> /\ toCore[c] = <<>>
       /\ m_ItemIDRange[c] = m_itemSpareRange[c]
       /\ m_ItemIDSpareRange[c] = None
    \/ /\ toDB[c] = <<>> /\ Len(toCore[c]) = 1
       /\ m_ItemIDRange[c] = m_itemRange[c]
       /\ m_ItemIDSpareRange[c] = None
       /\ Head(toCore[c]).spare = m_itemSpareRange[c]

\* A peer that is not there has nothing; only a core that outlived its
\* connection may be out of step with its peer.
Link(c) ==
    /\ c \notin connected => /\ m_itemRange[c] = None
                             /\ m_itemSpareRange[c] = None
                             /\ toCore[c] = <<>>
    /\ core[c] = "off" => toCore[c] = <<>> /\ c \notin dropped
    /\ core[c] # "off" /\ c \notin dropped => c \in connected
    /\ c \in connected \ dropped /\ core[c] = "boot" => Booting(c)
    /\ c \in connected \ dropped /\ core[c] = "run" => Agree(c)

LinkInv == \A c \in Core : Link(c)

IInv == TypeOK /\ CurrentInv /\ PoolInv /\ PeersInv /\ LinkInv

-----------------------------------------------------------------------------
(* Sequences, ranges and the pool                                          *)

LEMMA SeqFacts ==
    ASSUME NEW S, NEW s \in Seq(S)
    PROVE  /\ Len(s) \in Nat
           /\ s = <<>> <=> Len(s) = 0
           /\ \A i \in 1 .. Len(s) : s[i] \in S
           /\ DOMAIN s = 1 .. Len(s)
OBVIOUS

LEMMA AppendFacts ==
    ASSUME NEW S, NEW s \in Seq(S), NEW e \in S
    PROVE  /\ Append(s, e) \in Seq(S)
           /\ Len(Append(s, e)) = Len(s) + 1
           /\ Append(s, e)[Len(s) + 1] = e
           /\ Append(s, e) # <<>>
OBVIOUS

LEMMA AppendToEmpty ==
    ASSUME NEW S, NEW e \in S
    PROVE  /\ Append(<<>>, e) = <<e>>
           /\ Len(Append(<<>>, e)) = 1
           /\ Head(Append(<<>>, e)) = e
OBVIOUS

LEMMA TailFacts ==
    ASSUME NEW S, NEW s \in Seq(S), s # <<>>
    PROVE  /\ Tail(s) \in Seq(S)
           /\ Len(Tail(s)) = Len(s) - 1
           /\ \A i \in 1 .. Len(s) - 1 : Tail(s)[i] = s[i + 1]
           /\ Head(s) = s[1]
           /\ Head(s) \in S
OBVIOUS

LEMMA ConsFacts ==
    ASSUME NEW S, NEW s \in Seq(S), NEW e \in S
    PROVE  /\ <<e>> \o s \in Seq(S)
           /\ Len(<<e>> \o s) = Len(s) + 1
           /\ (<<e>> \o s)[1] = e
           /\ \A i \in 1 .. Len(s) : (<<e>> \o s)[i + 1] = s[i]
OBVIOUS

\* None is not a range: Build's ranges start at 1 or above.
LEMMA NoneFacts ==
    /\ None \notin IDRange
    /\ None \in Slot
    /\ None = [min |-> 0, max |-> 0, usable |-> 0]
    /\ \A r \in IDRange : r.min \in Nat /\ r.max \in Nat /\ r.usable \in Nat
                          /\ 0 < r.min /\ r.min <= r.usable /\ r.usable <= r.max
  <1>1. \A r \in IDRange : /\ r.min \in Nat /\ r.max \in Nat /\ r.usable \in Nat
                           /\ 0 < r.min /\ r.min <= r.usable /\ r.usable <= r.max
    BY RangesAssumption DEF IDRange
  <1>2. None \notin IDRange
    BY <1>1 DEF None
  <1> QED
    BY <1>1, <1>2 DEF Slot, None

\* The ids of a range are ids.
LEMMA RangeIDs ==
    ASSUME NEW r \in IDRange, NEW id \in r.min .. r.max
    PROVE  id \in ID
BY DEF IDRange, ID

\* Max finds the greatest id: SELECT MAX(id), and the loop of OnClose.
LEMMA MaxFacts ==
    ASSUME NEW b \in Nat, NEW S \in SUBSET (0 .. b), S # {}
    PROVE  Max(S) \in S /\ \A y \in S : y <= Max(S)
  <1> DEFINE T == {b - x : x \in S}
             R == {ss \in Nat \X Nat : ss[1] < ss[2]}
  <1>1. IsWellFoundedOn(R, Nat)
    BY NatLessThanWellFounded DEF OpToRel
  <1>2. T \subseteq Nat /\ T # {}
    <2>1. \A x \in S : b - x \in Nat
      OBVIOUS
    <2>2. T \subseteq Nat
      BY <2>1, Zenon
    <2>3. PICK x \in S : TRUE
      OBVIOUS
    <2>4. b - x \in T
      BY Zenon
    <2> QED
      BY <2>2, <2>4
  <1>3. PICK t \in T : \A u \in T : ~ (<<u, t>> \in R)
    <2> HIDE DEF T, R
    <2> QED BY <1>1, <1>2, WFMin
  <1>4. PICK x \in S : t = b - x
    BY <1>3
  <1>5. \A y \in S : x >= y
    <2> TAKE y \in S
    <2>1. b - y \in T /\ b - y \in Nat /\ t \in Nat
      BY <1>2, <1>3
    <2>2. ~ (b - y < t)
      BY <2>1, <1>3
    <2> QED
      BY <2>2, <1>4
  <1>6. Max(S) \in S /\ \A y \in S : Max(S) >= y
    BY <1>4, <1>5 DEF Max
  <1> QED
    BY <1>6

LEMMA MaxOr0Facts ==
    ASSUME NEW a \in Nat, NEW b \in Nat, NEW S \in SUBSET (a .. b)
    PROVE  /\ MaxOr0(S) \in Nat
           /\ MaxOr0(S) = 0 \/ MaxOr0(S) \in a .. b
           /\ \A y \in S : y <= MaxOr0(S)
  <1>1. CASE S = {}
    BY <1>1 DEF MaxOr0
  <1>2. CASE S # {}
    <2>1. S \in SUBSET (0 .. b)
      OBVIOUS
    <2>2. Max(S) \in S /\ \A y \in S : y <= Max(S)
      BY <1>2, <2>1, MaxFacts
    <2>3. Max(S) \in a .. b
      BY <2>2, Zenon
    <2>4. MaxOr0(S) = Max(S)
      BY <1>2 DEF MaxOr0
    <2>5. \A m \in a .. b : m \in Nat
      OBVIOUS
    <2> QED
      BY <2>2, <2>3, <2>4, <2>5
  <1> QED
    BY <1>1, <1>2

\* What OnClose puts back of a book is nothing, or the range that was booked
\* with another start, above every id of the item table and of the peer's caches.
LEMMA ReturnedFacts ==
    ASSUME NEW c, NEW r \in Slot, NEW ok
    PROVE  /\ Returned(c, r, ok) \in Slot
           /\ Returned(c, r, ok) # None =>
                 /\ r # None
                 /\ Returned(c, r, ok).min = r.min
                 /\ Returned(c, r, ok).max = r.max
                 /\ \A id \in Returned(c, r, ok).usable .. r.max :
                       id \notin InTable /\ id \notin CachedAt(c)
  <1> DEFINE u      == MaxOr0(CachedAt(c) \cap (r.min .. r.max))
             stored == IF ok[1] THEN MaxOr0(InTable \cap (r.min .. r.max)) ELSE 0
             start  == IF stored = 0 \/ (u # 0 /\ u > stored)
                         THEN IF u # 0 THEN u + 1 ELSE r.min
                         ELSE stored + 1
             new    == [min |-> r.min, max |-> r.max, usable |-> start]
  <1>1. r.min \in Nat /\ r.max \in Nat /\ r.min <= r.max
    BY NoneFacts DEF Slot
  <1>2. /\ u \in Nat /\ (u = 0 \/ u \in r.min .. r.max)
        /\ \A id \in CachedAt(c) \cap (r.min .. r.max) : id <= u
    <2> DEFINE S == CachedAt(c) \cap (r.min .. r.max)
    <2>1. S \in SUBSET (r.min .. r.max)
      OBVIOUS
    <2> HIDE DEF S
    <2>2. /\ MaxOr0(S) \in Nat /\ (MaxOr0(S) = 0 \/ MaxOr0(S) \in r.min .. r.max)
          /\ \A id \in S : id <= MaxOr0(S)
      BY <1>1, <2>1, MaxOr0Facts
    <2> QED
      BY <2>2 DEF S
  <1>3. stored \in Nat /\ (stored = 0 \/ stored \in r.min .. r.max)
    BY <1>1, MaxOr0Facts
  <1> HIDE DEF u, stored
  <1>4. start \in Nat /\ r.min <= start /\ (0 < r.min => u < start)
    BY <1>1, <1>2, <1>3
  <1> HIDE DEF start
  <1>5. \/ Returned(c, r, ok) = None
        \/ /\ Returned(c, r, ok) = new
           /\ start <= r.max
           /\ r.max - start >= MinRemain
           /\ InTable \cap (start .. r.max) = {}
    BY DEF Returned, BuildRange, u, stored, start
  <1>6. CASE Returned(c, r, ok) = None
    BY <1>6, NoneFacts
  <1>7. CASE /\ Returned(c, r, ok) = new
             /\ start <= r.max /\ r.max - start >= MinRemain
             /\ InTable \cap (start .. r.max) = {}
    <2>1. r # None
      BY <1>4, <1>7, RangesAssumption DEF None
    <2>2. r \in IDRange
      BY <2>1 DEF Slot
    <2>3. new \in IDRange
      BY <1>1, <1>4, <1>7, <2>2 DEF IDRange
    <2>4. \A id \in start .. r.max : id \notin InTable
      BY <1>7
    <2>5. \A id \in start .. r.max : id \notin CachedAt(c)
      BY <1>1, <1>2, <1>4, <2>2, NoneFacts
    <2>6. new.usable = start /\ new.min = r.min /\ new.max = r.max
      OBVIOUS
    <2> HIDE DEF new
    <2> QED
      BY <1>7, <2>1, <2>3, <2>4, <2>5, <2>6 DEF Slot
  <1> QED
    BY <1>5, <1>6, <1>7

\* GetRange takes one range from the pool, if there is one.
LEMMA GetRangeFacts ==
    ASSUME NEW s \in Seq(IDRange)
    PROVE  /\ GetRange(s) \in Slot
           /\ AfterGetRange(s) \in Seq(IDRange)
           /\ Mins(AfterGetRange(s)) \subseteq Mins(s)
           /\ GetRange(s) # None => GetRange(s).min \in Mins(s)
           /\ Distinct(s) => Distinct(AfterGetRange(s))
           /\ Distinct(s) /\ GetRange(s) # None =>
                 GetRange(s).min \notin Mins(AfterGetRange(s))
  <1>1. CASE s = <<>>
    BY <1>1, NoneFacts DEF GetRange, AfterGetRange
  <1>2. CASE s # <<>>
    <2> DEFINE t == Tail(s)
    <2>1. /\ GetRange(s) = s[1] /\ AfterGetRange(s) = t
          /\ s[1] \in IDRange /\ t \in Seq(IDRange)
      BY <1>2, TailFacts, SeqFacts DEF GetRange, AfterGetRange
    <2>2. /\ Len(s) \in Nat /\ Len(s) # 0 /\ Len(t) = Len(s) - 1
          /\ \A i \in 1 .. Len(t) : t[i] = s[i + 1] /\ i + 1 \in 1 .. Len(s)
                                    /\ i + 1 # 1 /\ i \in Nat
          /\ 1 \in 1 .. Len(s)
      BY <1>2, TailFacts, SeqFacts
    <2> HIDE DEF t
    <2>3. Mins(t) \subseteq Mins(s) /\ s[1].min \in Mins(s)
      BY <2>2 DEF Mins
    <2>4. Distinct(s) => s[1].min \notin Mins(t)
      BY <2>2 DEF Mins, Distinct
    <2>5. Distinct(s) => Distinct(t)
      <3> SUFFICES ASSUME Distinct(s),
                          NEW i \in 1 .. Len(t), NEW j \in 1 .. Len(t), i # j
                   PROVE  t[i].min # t[j].min
        BY DEF Distinct
      <3>1. i + 1 # j + 1
        BY <2>2
      <3> QED
        BY <2>2, <3>1 DEF Distinct
    <2> QED
      BY <2>1, <2>3, <2>4, <2>5 DEF Slot
  <1> QED
    BY <1>1, <1>2

\* AppendRange puts one range in front, if BuildRange accepted it.
LEMMA PushFrontFacts ==
    ASSUME NEW s \in Seq(IDRange), NEW r \in Slot
    PROVE  /\ PushFront(r, s) \in Seq(IDRange)
           /\ r = None => PushFront(r, s) = s
           /\ r # None => Mins(PushFront(r, s)) = Mins(s) \cup {r.min}
           /\ Distinct(s) /\ (r # None => r.min \notin Mins(s)) =>
                 Distinct(PushFront(r, s))
  <1>1. CASE r = None
    BY <1>1 DEF PushFront
  <1>2. CASE r # None
    <2> DEFINE t == <<r>> \o s
    <2>1. PushFront(r, s) = t /\ r \in IDRange
      BY <1>2 DEF PushFront, Slot
    <2>2. /\ t \in Seq(IDRange) /\ Len(t) = Len(s) + 1 /\ Len(s) \in Nat
          /\ t[1] = r
          /\ \A i \in 1 .. Len(s) : t[i + 1] = s[i]
      BY <2>1, ConsFacts, SeqFacts
    <2> HIDE DEF t
    <2>3. \A i \in 1 .. Len(t) : i = 1 \/ (i - 1 \in 1 .. Len(s) /\ t[i] = s[i - 1])
      <3> TAKE i \in 1 .. Len(t)
      <3>1. CASE i # 1
        <4>1. i - 1 \in 1 .. Len(s) /\ (i - 1) + 1 = i
          BY <2>2, <3>1
        <4> QED
          BY <2>2, <4>1
      <3> QED
        BY <3>1
    <2>4. \A i \in 1 .. Len(s) : i + 1 \in 1 .. Len(t) /\ 1 \in 1 .. Len(t)
      BY <2>2
    <2>5. Mins(t) = Mins(s) \cup {r.min}
      <3>1. \A i \in 1 .. Len(t) : t[i].min \in Mins(s) \cup {r.min}
        BY <2>2, <2>3 DEF Mins
      <3>2. \A i \in 1 .. Len(s) : s[i].min \in Mins(t)
        BY <2>2, <2>4 DEF Mins
      <3>3. 1 \in 1 .. Len(t)
        BY <2>2
      <3>4. r.min \in Mins(t)
        BY <2>2, <3>3 DEF Mins
      <3> QED
        BY <3>1, <3>2, <3>4 DEF Mins
    <2>6. ASSUME Distinct(s), r.min \notin Mins(s)
          PROVE  Distinct(t)
      <3> SUFFICES ASSUME NEW i \in 1 .. Len(t), NEW j \in 1 .. Len(t), i # j
                   PROVE  t[i].min # t[j].min
        BY DEF Distinct
      <3>1. CASE i = 1
        BY <2>2, <2>3, <2>6, <3>1 DEF Mins
      <3>2. CASE j = 1
        BY <2>2, <2>3, <2>6, <3>2 DEF Mins
      <3>3. CASE i # 1 /\ j # 1
        <4>1. i - 1 # j - 1
          OBVIOUS
        <4> QED
          BY <2>3, <2>6, <3>3, <4>1 DEF Distinct
      <3> QED
        BY <3>1, <3>2, <3>3
    <2> QED
      BY <1>2, <2>1, <2>2, <2>5, <2>6
  <1> QED
    BY <1>1, <1>2

-----------------------------------------------------------------------------
(* The first state, and the books                                          *)

\* Build's ranges are distinct and no core has one.
THEOREM InitIInv == Init => IInv
  <1> SUFFICES ASSUME Init PROVE IInv
    OBVIOUS
  <1> USE DEF Init
  <1> DEFINE range(i) == [min |-> Ranges[i][1], max |-> Ranges[i][2],
                          usable |-> Ranges[i][1]]
  <1>1. /\ Len(Ranges) \in Nat
        /\ \A i \in 1 .. Len(Ranges) : Ranges[i][1] \in Nat /\ Ranges[i][2] \in Nat
    BY RangesAssumption
  <1>2. \A i \in 1 .. Len(Ranges) : range(i) \in IDRange
    <2> SUFFICES ASSUME NEW i \in 1 .. Len(Ranges) PROVE range(i) \in IDRange
      OBVIOUS
    <2> HIDE DEF Init
    <2>1. /\ Ranges[i][1] \in Nat /\ Ranges[i][2] \in Nat
          /\ Ranges[i][1] <= Ranges[i][2]
      BY <1>1, RangesAssumption
    <2>2. \E k \in 1 .. Len(Ranges) :
             range(i).min = Ranges[k][1] /\ range(i).max = Ranges[k][2]
      OBVIOUS
    <2>3. range(i) \in [min : Nat, max : Nat, usable : Nat]
      BY <2>1
    <2>4. range(i).usable \in range(i).min .. range(i).max
      BY <2>1
    <2> HIDE DEF range
    <2> QED
      BY <2>2, <2>3, <2>4 DEF IDRange
  <1>3. m_listData \in Seq(IDRange)
    BY <1>1, <1>2
  <1>4. Len(m_listData) = Len(Ranges)
        /\ \A i \in 1 .. Len(Ranges) : m_listData[i] = range(i)
    BY <1>1
  <1>5. TypeOK
    BY <1>3, NoneFacts, RangesAssumption DEF TypeOK, Place, At
  <1>6. Distinct(m_listData)
    <2> HIDE DEF Init
    <2>1. \A i, j \in 1 .. Len(Ranges) : i < j => Ranges[i][1] # Ranges[j][1]
      <3> SUFFICES ASSUME NEW i \in 1 .. Len(Ranges),
                          NEW j \in 1 .. Len(Ranges), i < j
                   PROVE  Ranges[i][1] # Ranges[j][1]
        OBVIOUS
      <3>1. Ranges[i][1] + MinRemain <= Ranges[i][2] /\ MinRemain \in Nat
        BY RangesAssumption
      <3>2. Ranges[i][2] < Ranges[j][1]
        BY RangesAssumption
      <3>3. /\ Ranges[i][1] \in Nat /\ Ranges[i][2] \in Nat
            /\ Ranges[j][1] \in Nat
        BY <1>1
      <3> QED
        BY <3>1, <3>2, <3>3
    <2>2. \A i, j \in 1 .. Len(Ranges) : i # j => i < j \/ j < i
      BY <1>1
    <2>3. \A i : range(i).min = Ranges[i][1]
      OBVIOUS
    <2> HIDE DEF range
    <2>4. \A i \in 1 .. Len(Ranges) : m_listData[i].min = Ranges[i][1]
      BY <1>4, <2>3
    <2> QED
      BY <1>4, <2>1, <2>2, <2>4 DEF Distinct
  <1>7. PoolInv /\ PeersInv
    BY <1>6 DEF PoolInv, PeersInv
  <1>8. CurrentInv /\ LinkInv
    BY DEF CurrentInv, LinkInv, Link
  <1> QED
    BY <1>5, <1>7, <1>8 DEF IInv

\* Who leaves the pool and the peers alone keeps their invariants.
LEMMA BooksUnchanged ==
    ASSUME PoolInv, PeersInv, UNCHANGED poolVars
    PROVE  PoolInv' /\ PeersInv'
  <1>1. PoolInv'
    BY DEF PoolInv, poolVars, Distinct, Mins
  <1>2. PeersInv'
    BY DEF PeersInv, poolVars
  <1> QED
    BY <1>1, <1>2

\* The books of a peer after one of them was replaced are still apart from
\* those of every other peer: new ones come from the pool.
LEMMA QueryBootBooks ==
    ASSUME IInv, NEW c \in Core, QueryBoot(c)
    PROVE  PoolInv' /\ PeersInv'
  <1> DEFINE range == GetRange(m_listData)
             rest  == AfterGetRange(m_listData)
             spare == GetRange(rest)
  <1>1. /\ m_listData \in Seq(IDRange) /\ Distinct(m_listData)
        /\ m_itemRange \in [Core -> Slot] /\ m_itemSpareRange \in [Core -> Slot]
    BY DEF IInv, TypeOK, PoolInv, Slot
  <1>2. /\ m_listData' = AfterGetRange(rest)
        /\ m_itemRange' =
             [m_itemRange EXCEPT ![c] = IF range = None THEN @ ELSE range]
        /\ m_itemSpareRange' = [m_itemSpareRange EXCEPT ![c] =
                                  IF spare = None THEN @ ELSE spare]
    BY DEF QueryBoot
  <1>3. /\ rest \in Seq(IDRange) /\ Distinct(rest)
        /\ Mins(rest) \subseteq Mins(m_listData)
        /\ range # None => range.min \in Mins(m_listData) /\ range.min \notin Mins(rest)
    BY <1>1, GetRangeFacts
  <1> HIDE DEF range, rest
  <1>4. /\ Distinct(m_listData') /\ Mins(m_listData') \subseteq Mins(rest)
        /\ spare # None => spare.min \in Mins(rest) /\ spare.min \notin Mins(m_listData')
    BY <1>2, <1>3, GetRangeFacts
  <1> HIDE DEF spare
  <1>5. /\ \A d \in Core : d # c => /\ m_itemRange'[d] = m_itemRange[d]
                                    /\ m_itemSpareRange'[d] = m_itemSpareRange[d]
        /\ m_itemRange'[c] = IF range = None THEN m_itemRange[c] ELSE range
        /\ m_itemSpareRange'[c] = IF spare = None THEN m_itemSpareRange[c] ELSE spare
    BY <1>1, <1>2
  <1>6. \A d \in Core :
          /\ m_itemRange[d] # None => m_itemRange[d].min \notin Mins(m_listData)
          /\ m_itemSpareRange[d] # None =>
                m_itemSpareRange[d].min \notin Mins(m_listData)
    BY DEF IInv, PoolInv
  <1>7. PoolInv'
    <2> SUFFICES ASSUME NEW d \in Core
                 PROVE  /\ m_itemRange'[d] # None =>
                             m_itemRange'[d].min \notin Mins(m_listData')
                        /\ m_itemSpareRange'[d] # None =>
                             m_itemSpareRange'[d].min \notin Mins(m_listData')
      BY <1>4 DEF PoolInv, Mins, Distinct
    <2> QED
      BY <1>3, <1>4, <1>5, <1>6
  <1>8. PeersInv'
    <2> PeersInv
      BY DEF IInv
    <2> QED
      BY <1>3, <1>4, <1>5, <1>6 DEF PeersInv
  <1> QED
    BY <1>7, <1>8

\* The spare range moves up, and its place is filled from the pool.
LEMMA SendSpareBooks ==
    ASSUME IInv, NEW c \in Core, SendSpareItemIDRange(c)
    PROVE  PoolInv' /\ PeersInv'
  <1> DEFINE spare == GetRange(m_listData)
             rest  == AfterGetRange(m_listData)
  <1>1. /\ m_listData \in Seq(IDRange) /\ Distinct(m_listData)
        /\ m_itemRange \in [Core -> Slot] /\ m_itemSpareRange \in [Core -> Slot]
        /\ PoolInv /\ PeersInv
    BY DEF IInv, TypeOK, PoolInv, Slot
  <1>2. CASE m_itemSpareRange[c] = None
    <2>1. UNCHANGED poolVars
      BY <1>2 DEF SendSpareItemIDRange
    <2> QED
      BY <1>1, <2>1, BooksUnchanged
  <1>3. CASE m_itemSpareRange[c] # None
    <2>1. /\ m_listData' = rest
          /\ m_itemRange' = [m_itemRange EXCEPT ![c] = m_itemSpareRange[c]]
          /\ m_itemSpareRange' = [m_itemSpareRange EXCEPT ![c] = spare]
      BY <1>3 DEF SendSpareItemIDRange
    <2>2. /\ Distinct(rest) /\ Mins(rest) \subseteq Mins(m_listData)
          /\ spare # None => spare.min \in Mins(m_listData) /\ spare.min \notin Mins(rest)
      BY <1>1, GetRangeFacts
    <2> HIDE DEF spare, rest
    <2>3. /\ \A d \in Core : d # c => /\ m_itemRange'[d] = m_itemRange[d]
                                      /\ m_itemSpareRange'[d] = m_itemSpareRange[d]
          /\ m_itemRange'[c] = m_itemSpareRange[c]
          /\ m_itemSpareRange'[c] = spare
      BY <1>1, <2>1
    <2>4. \A d \in Core :
            /\ m_itemRange[d] # None => m_itemRange[d].min \notin Mins(m_listData)
            /\ m_itemSpareRange[d] # None =>
                  m_itemSpareRange[d].min \notin Mins(m_listData)
      BY <1>1 DEF PoolInv
    <2>5. PoolInv'
      <3> SUFFICES ASSUME NEW d \in Core
                   PROVE  /\ m_itemRange'[d] # None =>
                               m_itemRange'[d].min \notin Mins(rest)
                          /\ m_itemSpareRange'[d] # None =>
                               m_itemSpareRange'[d].min \notin Mins(rest)
        BY <2>1, <2>2 DEF PoolInv, Mins, Distinct
      <3> QED
        BY <1>3, <2>2, <2>3, <2>4
    <2>6. PeersInv'
      BY <1>1, <1>3, <2>2, <2>3, <2>4 DEF PeersInv
    <2> QED
      BY <2>5, <2>6
  <1> QED
    BY <1>2, <1>3

\* What OnClose puts back was booked, and is booked no more.
LEMMA RemovePeerBooks ==
    ASSUME IInv, NEW c \in Core, RemovePeer(c)
    PROVE  PoolInv' /\ PeersInv' /\ m_listData' \in Seq(IDRange)
  <1>1. /\ m_listData \in Seq(IDRange) /\ Distinct(m_listData)
        /\ m_itemRange \in [Core -> Slot] /\ m_itemSpareRange \in [Core -> Slot]
        /\ m_itemRange[c] \in Slot /\ m_itemSpareRange[c] \in Slot
        /\ PoolInv /\ PeersInv
    BY DEF IInv, TypeOK, PoolInv, Slot
  <1>2. PICK ok \in BOOLEAN \X BOOLEAN :
          m_listData' = PushFront(Returned(c, m_itemRange[c], ok),
                          PushFront(Returned(c, m_itemSpareRange[c], ok), m_listData))
    BY DEF RemovePeer
  <1> DEFINE r1 == Returned(c, m_itemRange[c], ok)
             r2 == Returned(c, m_itemSpareRange[c], ok)
             mid == PushFront(r2, m_listData)
  <1>3. /\ r1 \in Slot /\ r2 \in Slot
        /\ r1 # None => m_itemRange[c] # None /\ r1.min = m_itemRange[c].min
        /\ r2 # None => m_itemSpareRange[c] # None /\ r2.min = m_itemSpareRange[c].min
    <2>1. ASSUME NEW r \in Slot
          PROVE  /\ Returned(c, r, ok) \in Slot
                 /\ Returned(c, r, ok) # None =>
                       r # None /\ Returned(c, r, ok).min = r.min
      BY ReturnedFacts
    <2> QED
      BY <1>1, <2>1
  <1>4. /\ m_itemRange' = [m_itemRange EXCEPT ![c] = None]
        /\ m_itemSpareRange' = [m_itemSpareRange EXCEPT ![c] = None]
        /\ m_listData' = PushFront(r1, mid)
    BY <1>2 DEF RemovePeer
  <1> HIDE DEF r1, r2
  <1>5. \A d \in Core :
          /\ m_itemRange[d] # None => m_itemRange[d].min \notin Mins(m_listData)
          /\ m_itemSpareRange[d] # None =>
                m_itemSpareRange[d].min \notin Mins(m_listData)
    BY <1>1 DEF PoolInv
  <1>6. /\ mid \in Seq(IDRange) /\ Distinct(mid)
        /\ r2 = None => Mins(mid) = Mins(m_listData)
        /\ r2 # None => Mins(mid) = Mins(m_listData) \cup {r2.min}
    BY <1>1, <1>3, <1>5, PushFrontFacts
  <1> HIDE DEF mid
  <1>7. r1 # None => r1.min \notin Mins(mid)
    BY <1>1, <1>3, <1>5, <1>6 DEF PeersInv
  <1>8. /\ m_listData' \in Seq(IDRange) /\ Distinct(m_listData')
        /\ r1 = None => Mins(m_listData') = Mins(mid)
        /\ r1 # None => Mins(m_listData') = Mins(mid) \cup {r1.min}
    BY <1>3, <1>4, <1>6, <1>7, PushFrontFacts
  <1>9. /\ \A d \in Core : d # c => /\ m_itemRange'[d] = m_itemRange[d]
                                    /\ m_itemSpareRange'[d] = m_itemSpareRange[d]
        /\ m_itemRange'[c] = None
        /\ m_itemSpareRange'[c] = None
    BY <1>1, <1>4
  <1>10. PoolInv'
    <2> SUFFICES ASSUME NEW d \in Core, d # c
                 PROVE  /\ m_itemRange[d] # None =>
                             m_itemRange[d].min \notin Mins(m_listData')
                        /\ m_itemSpareRange[d] # None =>
                             m_itemSpareRange[d].min \notin Mins(m_listData')
      BY <1>8, <1>9 DEF PoolInv, Mins, Distinct
    <2>1. /\ m_itemRange[d] # None /\ r1 # None => m_itemRange[d].min # r1.min
          /\ m_itemRange[d] # None /\ r2 # None => m_itemRange[d].min # r2.min
          /\ m_itemSpareRange[d] # None /\ r1 # None => m_itemSpareRange[d].min # r1.min
          /\ m_itemSpareRange[d] # None /\ r2 # None => m_itemSpareRange[d].min # r2.min
      BY <1>1, <1>3 DEF PeersInv
    <2> QED
      BY <1>5, <1>6, <1>8, <2>1
  <1>11. PeersInv'
    BY <1>1, <1>9 DEF PeersInv
  <1> QED
    BY <1>8, <1>10, <1>11

LEMMA StepBooks == IInv /\ [Next]_vars => PoolInv' /\ PeersInv'
  <1> SUFFICES ASSUME IInv, [Next]_vars PROVE PoolInv' /\ PeersInv'
    OBVIOUS
  <1>1. ASSUME UNCHANGED poolVars PROVE PoolInv' /\ PeersInv'
    BY <1>1, BooksUnchanged DEF IInv
  <1>2. ASSUME NEW c \in Core, CoreStep(c) PROVE PoolInv' /\ PeersInv'
    BY <1>1, <1>2 DEF CoreStep, Start, Reconnect, Exit, RecvBoot, RecvSpare,
                      NewID, NewIDFromSpare, NoMoreID
  <1>3. ASSUME NEW c \in Core, DBStep(c) PROVE PoolInv' /\ PeersInv'
    BY <1>3, QueryBootBooks, SendSpareBooks, RemovePeerBooks DEF DBStep
  <1>4. CASE ItemStep
    BY <1>1, <1>4 DEF ItemStep, SaveItem, Logout, Logon, FlushItem, Execute, Move
  <1>5. CASE UNCHANGED vars
    BY <1>1, <1>5 DEF vars
  <1> QED
    BY <1>2, <1>3, <1>4, <1>5 DEF Next

-----------------------------------------------------------------------------
(* Types, and what a running core creates from                             *)

\* A new item's id is an id of the range it is taken from.
LEMMA CreateType ==
    ASSUME TypeOK, NEW c \in Core, NEW r \in IDRange, NEW id,
           id \in r.min .. r.max, Create(c, id)
    PROVE  /\ created' \in 0 .. MaxCreate
           /\ place' \in [ID -> Place]
           /\ duplicated' \subseteq ID
  <1>1. id \in ID
    BY RangeIDs
  <1>2. At("core", c) \in Place
    BY DEF At, Place
  <1>3. created' \in 0 .. MaxCreate
    BY RangesAssumption DEF TypeOK, Create
  <1>4. place' \in [ID -> Place]
    BY <1>2 DEF TypeOK, Create
  <1>5. duplicated' \subseteq ID
    BY <1>1 DEF TypeOK, Create
  <1> QED
    BY <1>3, <1>4, <1>5

\* Saving, logging on and off and flushing only move an item.
LEMMA ItemStepMoves ==
    ASSUME TypeOK, ItemStep
    PROVE  /\ place' \in [ID -> Place]
           /\ UNCHANGED <<poolVars, connected, toDB, toCore, core, itemVars,
                          histVars>>
  <1>1. ASSUME NEW id \in ID, NEW from, NEW to \in Place, Move(id, from, to)
        PROVE  /\ place' \in [ID -> Place]
               /\ UNCHANGED <<poolVars, connected, toDB, toCore, core, itemVars,
                              histVars>>
    <2>1. place' = [place EXCEPT ![id] = to]
      BY <1>1 DEF Move
    <2>2. place \in [ID -> Place]
      BY DEF TypeOK
    <2> QED
      BY <1>1, <2>1, <2>2 DEF Move
  <1>2. \A in \in {"none", "core", "cache", "queue", "table"},
           at \in Core \cup {NoCore} : At(in, at) \in Place
    BY DEF At, Place
  <1>3. PICK id \in ID :
           \/ \E c \in Core : SaveItem(c, id) \/ Logout(c, id) \/ Logon(c, id)
           \/ FlushItem(id)
           \/ Execute(id)
    BY DEF ItemStep
  <1>4. \E from, to \in Place : Move(id, from, to)
    BY <1>2, <1>3 DEF SaveItem, Logout, Logon, FlushItem, Execute
  <1> QED
    BY <1>1, <1>4

\* The types of what a core's step changes.
LEMMA CoreStepType ==
    ASSUME IInv, NEW c \in Core, CoreStep(c)
    PROVE  TypeOK'
  <1> USE DEF TypeOK, Slot
  <1>0. /\ TypeOK
        /\ m_ItemIDRange[c] \in Slot /\ m_ItemIDSpareRange[c] \in Slot
        /\ \A r \in IDRange : r.usable \in Nat /\ r.usable \in r.min .. r.max
    <2>1. TypeOK
      BY DEF IInv
    <2>2. m_ItemIDRange[c] \in Slot /\ m_ItemIDSpareRange[c] \in Slot
      BY <2>1
    <2> HIDE DEF TypeOK, Slot
    <2>3. \A r \in IDRange : r.usable \in Nat /\ r.usable \in r.min .. r.max
      BY NoneFacts
    <2> QED
      BY <2>1, <2>2, <2>3
  <1>1. CASE Start(c)
    <2>1. core' \in [Core -> {"off", "boot", "run", "stop"}]
      BY <1>0, <1>1 DEF Start
    <2>2. <<"BOOT">> \in Seq({"BOOT", "REQ_SPARE_ITEM_ID_RANGE"})
      OBVIOUS
    <2>3. toDB' \in [Core -> Seq({"BOOT", "REQ_SPARE_ITEM_ID_RANGE"})]
      BY <1>0, <1>1, <2>2 DEF Start
    <2>4. connected' \subseteq Core
      BY <1>0, <1>1 DEF Start
    <2> QED
      BY <1>0, <1>1, <2>1, <2>3, <2>4 DEF Start, poolVars, itemVars, histVars
  <1>2. CASE Reconnect(c)
    <2>1. connected' \subseteq Core
      BY <1>0, <1>2 DEF Reconnect
    <2> QED
      BY <1>0, <1>2, <2>1 DEF Reconnect, poolVars, itemVars, histVars
  <1>3. CASE Exit(c)
    <2>1. place' \in [ID -> Place]
      BY <1>0, <1>3 DEF Exit, At, Place
    <2>2. <<>> \in Seq([range : Slot, spare : Slot])
      OBVIOUS
    <2>3. toCore' \in [Core -> Seq([range : Slot, spare : Slot])]
      BY <1>0, <1>3, <2>2 DEF Exit
    <2>4. /\ core' \in [Core -> {"off", "boot", "run", "stop"}]
          /\ m_dwCurrentID' \in [Core -> Nat]
      BY <1>0, <1>3 DEF Exit
    <2>5. /\ m_ItemIDRange' \in [Core -> Slot]
          /\ m_ItemIDSpareRange' \in [Core -> Slot]
      BY <1>0, <1>3, NoneFacts DEF Exit
    <2>6. dropped' \subseteq Core
      BY <1>0, <1>3 DEF Exit
    <2> QED
      BY <1>0, <1>3, <2>1, <2>3, <2>4, <2>5, <2>6 DEF Exit, poolVars
  <1>4. CASE RecvBoot(c)
    <2>1. /\ toCore[c] \in Seq([range : Slot, spare : Slot]) /\ toCore[c] # <<>>
      BY <1>0, <1>4 DEF RecvBoot
    <2>2. /\ Head(toCore[c]) \in [range : Slot, spare : Slot]
          /\ Tail(toCore[c]) \in Seq([range : Slot, spare : Slot])
      BY <2>1, TailFacts
    <2>3. Head(toCore[c]).range \in Slot /\ Head(toCore[c]).spare \in Slot
      BY <2>2
    <2>4. Head(toCore[c]).range.usable \in Nat
      BY <1>0, <2>3, NoneFacts
    <2>5. toCore' \in [Core -> Seq([range : Slot, spare : Slot])]
      BY <1>0, <1>4, <2>2 DEF RecvBoot
    <2>6. core' \in [Core -> {"off", "boot", "run", "stop"}]
      BY <1>0, <1>4 DEF RecvBoot
    <2>7. /\ m_ItemIDRange' \in [Core -> Slot]
          /\ m_ItemIDSpareRange' \in [Core -> Slot]
          /\ m_dwCurrentID' \in [Core -> Nat]
      BY <1>0, <1>4, <2>3, <2>4 DEF RecvBoot
    <2> QED
      BY <1>0, <1>4, <2>5, <2>6, <2>7 DEF RecvBoot, poolVars, histVars
  <1>5. CASE RecvSpare(c)
    <2>1. /\ toCore[c] \in Seq([range : Slot, spare : Slot]) /\ toCore[c] # <<>>
      BY <1>0, <1>5 DEF RecvSpare
    <2>2. /\ Head(toCore[c]) \in [range : Slot, spare : Slot]
          /\ Tail(toCore[c]) \in Seq([range : Slot, spare : Slot])
      BY <2>1, TailFacts
    <2>3. Head(toCore[c]).spare \in Slot
      BY <2>2
    <2>4. toCore' \in [Core -> Seq([range : Slot, spare : Slot])]
      BY <1>0, <1>5, <2>2 DEF RecvSpare
    <2>5. m_ItemIDSpareRange' \in [Core -> Slot]
      BY <1>0, <1>5, <2>3 DEF RecvSpare
    <2> QED
      BY <1>0, <1>5, <2>4, <2>5 DEF RecvSpare, poolVars, histVars
  <1>6. CASE NewID(c)
    <2>1. /\ m_ItemIDRange[c] \in IDRange /\ m_dwCurrentID[c] \in Nat
          /\ m_ItemIDRange[c].min <= m_dwCurrentID[c]
      BY <1>0, <1>6 DEF NewID, IInv, CurrentInv
    <2>2. m_dwCurrentID[c] \in m_ItemIDRange[c].min .. m_ItemIDRange[c].max
      BY <1>6, <2>1, NoneFacts DEF NewID, Exhausted
    <2>3. /\ created' \in 0 .. MaxCreate
          /\ place' \in [ID -> Place]
          /\ duplicated' \subseteq ID
      BY <1>0, <1>6, <2>1, <2>2, CreateType DEF NewID
    <2>4. m_dwCurrentID' \in [Core -> Nat]
      BY <1>0, <1>6, <2>1 DEF NewID
    <2> QED
      BY <1>0, <1>6, <2>3, <2>4 DEF NewID, poolVars
  <1>7. CASE NewIDFromSpare(c)
    <2> DEFINE r == m_ItemIDSpareRange[c]
    <2>1. r \in IDRange
      BY <1>0, <1>7 DEF NewIDFromSpare
    <2>2. /\ created' \in 0 .. MaxCreate
          /\ place' \in [ID -> Place]
          /\ duplicated' \subseteq ID
      BY <1>0, <1>7, <2>1, CreateType DEF NewIDFromSpare
    <2>3. m_dwCurrentID' \in [Core -> Nat]
      BY <1>0, <1>7, <2>1 DEF NewIDFromSpare
    <2>4. /\ m_ItemIDRange' \in [Core -> Slot]
          /\ m_ItemIDSpareRange' \in [Core -> Slot]
      BY <1>0, <1>7, <2>1 DEF NewIDFromSpare
    <2>5. toDB' \in [Core -> Seq({"BOOT", "REQ_SPARE_ITEM_ID_RANGE"})]
      <3>1. toDB[c] \in Seq({"BOOT", "REQ_SPARE_ITEM_ID_RANGE"})
        BY <1>0
      <3>2. Append(toDB[c], "REQ_SPARE_ITEM_ID_RANGE")
              \in Seq({"BOOT", "REQ_SPARE_ITEM_ID_RANGE"})
        BY <3>1, AppendFacts
      <3> QED
        BY <1>0, <1>7, <3>2 DEF NewIDFromSpare
    <2> QED
      BY <1>0, <1>7, <2>2, <2>3, <2>4, <2>5 DEF NewIDFromSpare, poolVars
  <1>8. CASE NoMoreID(c)
    BY <1>0, <1>8 DEF NoMoreID, poolVars, itemVars, histVars
  <1> QED
    BY <1>1, <1>2, <1>3, <1>4, <1>5, <1>6, <1>7, <1>8 DEF CoreStep

\* The types of what the db's steps change.
LEMMA DBStepType ==
    ASSUME IInv, NEW c \in Core, DBStep(c)
    PROVE  TypeOK'
  <1> USE DEF TypeOK, Slot
  <1> DEFINE Request == {"BOOT", "REQ_SPARE_ITEM_ID_RANGE"}
             Reply   == [range : Slot, spare : Slot]
  <1>0. /\ TypeOK
        /\ m_listData \in Seq(IDRange)
        /\ m_itemRange \in [Core -> Slot] /\ m_itemSpareRange \in [Core -> Slot]
        /\ toDB[c] \in Seq(Request) /\ toCore[c] \in Seq(Reply)
    BY DEF IInv
  <1>1. ASSUME NEW msg \in Reply,
               toCore' = [toCore EXCEPT ![c] = IF core[c] = "off" THEN @
                                               ELSE Append(@, msg)]
        PROVE  toCore' \in [Core -> Seq(Reply)]
    <2>1. Append(toCore[c], msg) \in Seq(Reply)
      BY <1>0, AppendFacts
    <2> QED
      BY <1>0, <1>1, <2>1
  <1>2. ASSUME toDB[c] # <<>>, toDB' = [toDB EXCEPT ![c] = Tail(@)]
        PROVE  toDB' \in [Core -> Seq(Request)]
    <2>1. Tail(toDB[c]) \in Seq(Request)
      BY <1>0, <1>2, TailFacts
    <2> QED
      BY <1>0, <1>2, <2>1
  <1>3. CASE QueryBoot(c)
    <2> DEFINE range == GetRange(m_listData)
               rest  == AfterGetRange(m_listData)
               spare == GetRange(rest)
    <2>1. /\ range \in Slot /\ spare \in Slot /\ AfterGetRange(rest) \in Seq(IDRange)
      BY <1>0, GetRangeFacts
    <2>2. [range |-> range, spare |-> spare] \in Reply
      BY <2>1
    <2>3. /\ toCore' \in [Core -> Seq(Reply)]
          /\ toDB' \in [Core -> Seq(Request)]
      BY <1>1, <1>2, <1>3, <2>2 DEF QueryBoot
    <2> HIDE DEF range, rest
    <2>4. m_listData' = AfterGetRange(rest)
          /\ m_itemRange' =
               [m_itemRange EXCEPT ![c] = IF range = None THEN @ ELSE range]
          /\ m_itemSpareRange' = [m_itemSpareRange EXCEPT ![c] =
                                    IF spare = None THEN @ ELSE spare]
      BY <1>3 DEF QueryBoot, range, rest
    <2> HIDE DEF spare
    <2>5. /\ m_listData' \in Seq(IDRange)
          /\ m_itemRange' \in [Core -> Slot]
          /\ m_itemSpareRange' \in [Core -> Slot]
      BY <1>0, <2>1, <2>4
    <2>6. UNCHANGED <<connected, core, itemVars, place, histVars>>
      BY <1>3 DEF QueryBoot
    <2> QED
      BY <1>0, <2>3, <2>5, <2>6 DEF itemVars, histVars
  <1>4. CASE SendSpareItemIDRange(c)
    <2>1. /\ GetRange(m_listData) \in Slot
          /\ AfterGetRange(m_listData) \in Seq(IDRange)
      BY <1>0, GetRangeFacts
    <2>2. /\ m_listData' \in Seq(IDRange)
          /\ m_itemRange' \in [Core -> Slot]
          /\ m_itemSpareRange' \in [Core -> Slot]
      BY <1>0, <1>4, <2>1 DEF SendSpareItemIDRange, poolVars
    <2>3. [range |-> None, spare |-> m_itemSpareRange'[c]] \in Reply
      BY <2>2, NoneFacts
    <2>4. /\ toCore' \in [Core -> Seq(Reply)]
          /\ toDB' \in [Core -> Seq(Request)]
      BY <1>1, <1>2, <1>4, <2>3 DEF SendSpareItemIDRange
    <2>5. UNCHANGED <<connected, core, itemVars, place, histVars>>
      BY <1>4 DEF SendSpareItemIDRange
    <2> QED
      BY <1>0, <2>2, <2>4, <2>5 DEF itemVars, histVars
  <1>5. CASE RemovePeer(c)
    <2>1. m_listData' \in Seq(IDRange)
      BY <1>5, RemovePeerBooks
    <2>2. /\ m_itemRange' \in [Core -> Slot]
          /\ m_itemSpareRange' \in [Core -> Slot]
      BY <1>0, <1>5, NoneFacts DEF RemovePeer
    <2>3. <<>> \in Seq(Request) /\ <<>> \in Seq(Reply)
      OBVIOUS
    <2>4. toDB' \in [Core -> Seq(Request)] /\ toCore' \in [Core -> Seq(Reply)]
      BY <1>0, <1>5, <2>3 DEF RemovePeer
    <2>5. place' \in [ID -> Place]
      BY <1>0, <1>5 DEF RemovePeer, At, Place
    <2>6. connected' \subseteq Core /\ dropped' \subseteq Core
      BY <1>0, <1>5 DEF RemovePeer
    <2>7. closings' \in 0 .. MaxClosings
      BY <1>0, <1>5, RangesAssumption DEF RemovePeer
    <2>8. overlooked' \subseteq ID
      BY <1>0, <1>5 DEF RemovePeer, Overlooked
    <2>9. UNCHANGED <<core, itemVars, created, duplicated>>
      BY <1>5 DEF RemovePeer
    <2> QED
      BY <1>0, <2>1, <2>2, <2>4, <2>5, <2>6, <2>7, <2>8, <2>9 DEF itemVars
  <1> QED
    BY <1>3, <1>4, <1>5 DEF DBStep

LEMMA StepTypeOK == IInv /\ [Next]_vars => TypeOK'
  <1> SUFFICES ASSUME IInv, [Next]_vars PROVE TypeOK'
    OBVIOUS
  <1>1. TypeOK
    BY DEF IInv
  <1>2. CASE ItemStep
    BY <1>1, <1>2, ItemStepMoves DEF TypeOK, poolVars, itemVars, histVars
  <1>3. CASE UNCHANGED vars
    BY <1>1, <1>3 DEF TypeOK, vars, poolVars, itemVars, histVars
  <1> QED
    BY <1>2, <1>3, CoreStepType, DBStepType DEF Next

LEMMA StepCurrentInv == IInv /\ [Next]_vars => CurrentInv'
  <1> SUFFICES ASSUME IInv, [Next]_vars PROVE CurrentInv'
    OBVIOUS
  <1>0. TypeOK /\ CurrentInv
    BY DEF IInv
  <1>1. ASSUME UNCHANGED <<core, itemVars>> PROVE CurrentInv'
    BY <1>0, <1>1 DEF CurrentInv, itemVars
  <1>2. ASSUME NEW c \in Core, CoreStep(c) PROVE CurrentInv'
    <2>0. /\ m_dwCurrentID[c] \in Nat /\ m_ItemIDRange[c] \in Slot
          /\ m_ItemIDSpareRange[c] \in Slot
      BY <1>0 DEF TypeOK, Slot
    <2>1. CASE Start(c)
      BY <1>0, <2>1 DEF Start, CurrentInv, itemVars, TypeOK
    <2>2. CASE Reconnect(c)
      BY <1>1, <2>2 DEF Reconnect
    <2>3. CASE Exit(c)
      BY <1>0, <2>3 DEF Exit, CurrentInv, TypeOK
    <2>4. CASE RecvBoot(c)
      <3> DEFINE p == Head(toCore[c])
      <3>1. p.range \in Slot
        <4>1. toCore[c] \in Seq([range : Slot, spare : Slot]) /\ toCore[c] # <<>>
          BY <1>0, <2>4 DEF TypeOK, Slot, RecvBoot
        <4>2. p \in [range : Slot, spare : Slot]
          BY <4>1, TailFacts
        <4> QED
          BY <4>2
      <3>2. /\ m_ItemIDRange' = [m_ItemIDRange EXCEPT ![c] = p.range]
            /\ m_dwCurrentID' = [m_dwCurrentID EXCEPT ![c] = p.range.usable]
            /\ core' = [core EXCEPT ![c] = IF None \in {p.range, p.spare}
                                             THEN "stop" ELSE "run"]
        BY <2>4 DEF RecvBoot
      <3> HIDE DEF p
      <3>3. p.range # None => p.range \in IDRange /\ p.range.min <= p.range.usable
        BY <3>1, NoneFacts DEF Slot
      <3> QED
        BY <1>0, <3>2, <3>3 DEF CurrentInv, TypeOK
    <2>5. CASE RecvSpare(c)
      BY <1>0, <2>5 DEF RecvSpare, CurrentInv
    <2>6. CASE NewID(c)
      <3>1. /\ m_dwCurrentID' = [m_dwCurrentID EXCEPT ![c] = @ + 1]
            /\ UNCHANGED <<core, m_ItemIDRange>>
        BY <2>6 DEF NewID
      <3>2. \A r \in IDRange : r.min <= m_dwCurrentID[c] => r.min <= m_dwCurrentID[c] + 1
        BY <2>0, NoneFacts
      <3> QED
        BY <1>0, <3>1, <3>2 DEF CurrentInv, TypeOK
    <2>7. CASE NewIDFromSpare(c)
      <3> DEFINE r == m_ItemIDSpareRange[c]
      <3>1. /\ m_ItemIDRange' = [m_ItemIDRange EXCEPT ![c] = r]
            /\ m_dwCurrentID' = [m_dwCurrentID EXCEPT ![c] = r.usable + 1]
            /\ UNCHANGED core
            /\ r # None
        BY <2>7 DEF NewIDFromSpare
      <3>2. r \in IDRange /\ r.min <= r.usable + 1
        BY <2>0, <3>1, NoneFacts DEF Slot
      <3> HIDE DEF r
      <3> QED
        BY <1>0, <3>1, <3>2 DEF CurrentInv, TypeOK
    <2>8. CASE NoMoreID(c)
      BY <1>0, <2>8 DEF NoMoreID, CurrentInv, itemVars, TypeOK
    <2> QED
      BY <1>2, <2>1, <2>2, <2>3, <2>4, <2>5, <2>6, <2>7, <2>8 DEF CoreStep
  <1>3. ASSUME NEW c \in Core, DBStep(c) PROVE CurrentInv'
    BY <1>1, <1>3 DEF DBStep, QueryBoot, SendSpareItemIDRange, RemovePeer
  <1>4. CASE ItemStep
    BY <1>0, <1>1, <1>4, ItemStepMoves
  <1>5. CASE UNCHANGED vars
    BY <1>1, <1>5 DEF vars
  <1> QED
    BY <1>2, <1>3, <1>4, <1>5 DEF Next

-----------------------------------------------------------------------------
(* The core and its peer                                                   *)

\* A step of one core, or of its peer, leaves the others in step.
LEMMA LinkFrame ==
    ASSUME NEW d \in Core, Link(d),
           d \in connected' <=> d \in connected,
           d \in dropped' <=> d \in dropped,
           core'[d] = core[d], toDB'[d] = toDB[d], toCore'[d] = toCore[d],
           m_itemRange'[d] = m_itemRange[d],
           m_itemSpareRange'[d] = m_itemSpareRange[d],
           m_ItemIDRange'[d] = m_ItemIDRange[d],
           m_ItemIDSpareRange'[d] = m_ItemIDSpareRange[d]
    PROVE  Link(d)'
BY DEF Link, Booting, Agree

LEMMA OthersStay ==
    ASSUME TypeOK, NEW c \in Core, NEW d \in Core, d # c, Link(d),
           CoreStep(c) \/ DBStep(c)
    PROVE  Link(d)'
  <1> USE DEF TypeOK
  <1>1. CASE Start(c)
    BY <1>1, LinkFrame DEF Start, poolVars, itemVars, histVars
  <1>2. CASE Reconnect(c)
    BY <1>2, LinkFrame DEF Reconnect, poolVars, itemVars, histVars
  <1>3. CASE Exit(c)
    BY <1>3, LinkFrame DEF Exit, poolVars
  <1>4. CASE RecvBoot(c)
    BY <1>4, LinkFrame DEF RecvBoot, poolVars, histVars
  <1>5. CASE RecvSpare(c)
    BY <1>5, LinkFrame DEF RecvSpare, poolVars, histVars
  <1>6. CASE NewID(c)
    BY <1>6, LinkFrame DEF NewID, poolVars
  <1>7. CASE NewIDFromSpare(c)
    BY <1>7, LinkFrame DEF NewIDFromSpare, poolVars
  <1>8. CASE NoMoreID(c)
    BY <1>8, LinkFrame DEF NoMoreID, poolVars, itemVars, histVars
  <1>9. CASE QueryBoot(c)
    BY <1>9, LinkFrame DEF QueryBoot, itemVars, histVars
  <1>10. CASE SendSpareItemIDRange(c)
    BY <1>10, LinkFrame DEF SendSpareItemIDRange, poolVars, itemVars, histVars
  <1>11. CASE RemovePeer(c)
    BY <1>11, LinkFrame DEF RemovePeer, itemVars
  <1> QED
    BY <1>1, <1>2, <1>3, <1>4, <1>5, <1>6, <1>7, <1>8, <1>9, <1>10, <1>11
       DEF CoreStep, DBStep

\* A message read from a queue of one leaves it empty.
LEMMA LastMessage ==
    ASSUME NEW S, NEW s \in Seq(S), Len(s) = 1
    PROVE  s # <<>> /\ Tail(s) = <<>>
  <1>1. s # <<>>
    BY SeqFacts
  <1>2. Tail(s) \in Seq(S) /\ Len(Tail(s)) = 0
    BY <1>1, TailFacts
  <1> QED
    BY <1>1, <1>2, SeqFacts

LEMMA CoreStepLink ==
    ASSUME IInv, NEW c \in Core, CoreStep(c)
    PROVE  Link(c)'
  <1> DEFINE Reply == [range : Slot, spare : Slot]
  <1>0. /\ TypeOK /\ Link(c)
        /\ connected \subseteq Core /\ dropped \subseteq Core
        /\ core \in [Core -> {"off", "boot", "run", "stop"}]
        /\ toCore \in [Core -> Seq(Reply)] /\ toCore[c] \in Seq(Reply)
        /\ DOMAIN toDB = Core
        /\ m_ItemIDRange \in [Core -> Slot] /\ m_ItemIDSpareRange \in [Core -> Slot]
    BY DEF IInv, LinkInv, TypeOK, Slot
  <1>1. CASE Start(c)
    <2>1. /\ c \in connected' /\ core'[c] = "boot" /\ toDB'[c] = <<"BOOT">>
          /\ toCore'[c] = <<>> /\ c \notin dropped'
          /\ m_itemRange'[c] = None /\ m_itemSpareRange'[c] = None
      BY <1>0, <1>1 DEF Start, Link, poolVars, histVars
    <2> QED
      BY <2>1 DEF Link, Booting
  <1>2. CASE Reconnect(c)
    <2>1. c \in dropped /\ dropped' = dropped /\ core' = core /\ c \in connected'
      BY <1>0, <1>2 DEF Reconnect, Link, histVars
    <2> QED
      BY <1>2, <2>1 DEF Reconnect, Link
  <1>3. CASE Exit(c)
    <2>1. /\ core'[c] = "off" /\ toCore'[c] = <<>> /\ c \notin dropped'
          /\ UNCHANGED <<poolVars, connected>>
      BY <1>0, <1>3 DEF Exit
    <2> QED
      BY <1>0, <2>1 DEF Link, poolVars
  <1>4. CASE RecvBoot(c)
    <2> DEFINE q == Head(toCore[c])
    <2>1. /\ core[c] = "boot" /\ toCore[c] # <<>>
          /\ core'[c] \in {"run", "stop"}
          /\ m_ItemIDRange'[c] = q.range /\ m_ItemIDSpareRange'[c] = q.spare
          /\ toCore'[c] = Tail(toCore[c])
          /\ UNCHANGED <<toDB, connected, dropped, m_itemRange, m_itemSpareRange>>
      BY <1>0, <1>4 DEF RecvBoot, poolVars, histVars
    <2>2. CASE c \in connected \ dropped
      <3>1. /\ toDB[c] = <<>> /\ Len(toCore[c]) = 1
            /\ q.range = m_itemRange[c] /\ q.spare = m_itemSpareRange[c]
        BY <1>0, <2>1, <2>2 DEF Link, Booting
      <3>2. Tail(toCore[c]) = <<>>
        BY <1>0, <3>1, LastMessage
      <3> QED
        BY <2>1, <2>2, <3>1, <3>2 DEF Link, Agree
    <2>3. CASE c \notin connected \ dropped
      BY <1>0, <2>1, <2>3 DEF Link
    <2> QED
      BY <2>2, <2>3
  <1>5. CASE RecvSpare(c)
    <2> DEFINE q == Head(toCore[c])
    <2>1. /\ core[c] = "run" /\ toCore[c] # <<>> /\ UNCHANGED core
          /\ m_ItemIDSpareRange'[c] = IF q.spare = None THEN m_ItemIDSpareRange[c]
                                                        ELSE q.spare
          /\ toCore'[c] = Tail(toCore[c])
          /\ UNCHANGED <<toDB, connected, dropped, m_itemRange, m_itemSpareRange,
                         m_ItemIDRange>>
      BY <1>0, <1>5 DEF RecvSpare, poolVars, histVars
    <2>2. CASE c \in connected \ dropped
      <3>1. /\ toDB[c] = <<>> /\ Len(toCore[c]) = 1
            /\ m_ItemIDRange[c] = m_itemRange[c]
            /\ m_ItemIDSpareRange[c] = None /\ q.spare = m_itemSpareRange[c]
        BY <1>0, <2>1, <2>2 DEF Link, Agree
      <3>2. Tail(toCore[c]) = <<>>
        BY <1>0, <3>1, LastMessage
      <3> QED
        BY <2>1, <2>2, <3>1, <3>2 DEF Link, Agree
    <2>3. CASE c \notin connected \ dropped
      BY <1>0, <2>1, <2>3 DEF Link
    <2> QED
      BY <2>2, <2>3
  <1>6. CASE NewID(c)
    BY <1>0, <1>6, LinkFrame DEF NewID, poolVars
  <1>7. CASE NewIDFromSpare(c)
    <2>1. /\ core[c] = "run" /\ UNCHANGED core
          /\ m_ItemIDSpareRange[c] # None
          /\ toDB'[c] = Append(toDB[c], "REQ_SPARE_ITEM_ID_RANGE")
          /\ m_ItemIDRange'[c] = m_ItemIDSpareRange[c]
          /\ m_ItemIDSpareRange'[c] = None
          /\ UNCHANGED <<toCore, connected, dropped, m_itemRange, m_itemSpareRange>>
      BY <1>0, <1>7 DEF NewIDFromSpare, poolVars
    <2>2. CASE c \in connected \ dropped
      <3>1. /\ toDB[c] = <<>> /\ toCore[c] = <<>>
            /\ m_ItemIDSpareRange[c] = m_itemSpareRange[c]
        BY <1>0, <2>1, <2>2 DEF Link, Agree
      <3>2. toDB'[c] = <<"REQ_SPARE_ITEM_ID_RANGE">>
        BY <2>1, <3>1, AppendToEmpty
      <3> QED
        BY <2>1, <2>2, <3>1, <3>2 DEF Link, Agree
    <2>3. CASE c \notin connected \ dropped
      BY <1>0, <2>1, <2>3 DEF Link
    <2> QED
      BY <2>2, <2>3
  <1>8. CASE NoMoreID(c)
    <2>1. core'[c] = "stop" /\ core[c] = "run"
          /\ UNCHANGED <<poolVars, connected, dropped, toCore>>
      BY <1>0, <1>8 DEF NoMoreID, histVars
    <2> QED
      BY <1>0, <2>1 DEF Link, poolVars
  <1> QED
    BY <1>1, <1>2, <1>3, <1>4, <1>5, <1>6, <1>7, <1>8 DEF CoreStep

LEMMA DBStepLink ==
    ASSUME IInv, NEW c \in Core, DBStep(c)
    PROVE  Link(c)'
  <1>0. /\ TypeOK /\ Link(c) /\ c \in Core
        /\ connected \subseteq Core /\ dropped \subseteq Core
        /\ DOMAIN toDB = Core /\ DOMAIN toCore = Core
        /\ m_listData \in Seq(IDRange)
        /\ m_itemRange \in [Core -> Slot] /\ m_itemSpareRange \in [Core -> Slot]
        /\ toDB[c] \in Seq({"BOOT", "REQ_SPARE_ITEM_ID_RANGE"})
    BY DEF IInv, LinkInv, TypeOK, Slot
  <1>1. CASE QueryBoot(c)
    <2> DEFINE range == GetRange(m_listData)
               spare == GetRange(AfterGetRange(m_listData))
    <2>1. range \in Slot /\ spare \in Slot
      BY <1>0, GetRangeFacts
    <2>2. /\ c \in connected /\ toDB[c] # <<>> /\ Head(toDB[c]) = "BOOT"
          /\ toDB'[c] = Tail(toDB[c])
          /\ toCore'[c] = IF core[c] = "off" THEN toCore[c]
                 ELSE Append(toCore[c], [range |-> range, spare |-> spare])
          /\ m_itemRange'[c] = IF range = None THEN m_itemRange[c] ELSE range
          /\ m_itemSpareRange'[c] = IF spare = None THEN m_itemSpareRange[c] ELSE spare
          /\ UNCHANGED <<connected, core, dropped, m_ItemIDRange, m_ItemIDSpareRange>>
      BY <1>0, <1>1 DEF QueryBoot, itemVars, histVars
    <2> HIDE DEF range, spare
    <2>3. CASE c \in connected \ dropped /\ core[c] = "boot"
      <3>1. /\ toDB[c] = <<"BOOT">> /\ toCore[c] = <<>>
            /\ m_itemRange[c] = None /\ m_itemSpareRange[c] = None
        BY <1>0, <2>2, <2>3 DEF Link, Booting
      <3>2. /\ m_itemRange'[c] = range /\ m_itemSpareRange'[c] = spare
            /\ toCore'[c] = Append(<<>>, [range |-> range, spare |-> spare])
        BY <2>2, <2>3, <3>1
      <3>3. Len(toCore'[c]) = 1
            /\ Head(toCore'[c]).range = range
            /\ Head(toCore'[c]).spare = spare
        BY <3>2, AppendToEmpty
      <3>4. toDB'[c] = <<>>
        BY <1>0, <2>2, <3>1, LastMessage
      <3>5. Booting(c)'
        BY <3>2, <3>3, <3>4 DEF Booting
      <3>6. c \in connected' /\ core'[c] = "boot"
        BY <2>2, <2>3
      <3> QED
        BY <3>5, <3>6 DEF Link
    <2>4. ~ (c \in connected \ dropped /\ core[c] = "run")
      BY <1>0, <2>2 DEF Link, Agree
    <2>5. CASE ~ (c \in connected \ dropped /\ core[c] = "boot")
      BY <1>0, <2>2, <2>4, <2>5 DEF Link
    <2> QED
      BY <2>3, <2>5
  <1>2. CASE SendSpareItemIDRange(c)
    <2>1. /\ c \in connected /\ toDB[c] # <<>>
          /\ Head(toDB[c]) = "REQ_SPARE_ITEM_ID_RANGE"
          /\ toDB'[c] = Tail(toDB[c])
          /\ toCore'[c] = IF core[c] = "off" THEN toCore[c]
                 ELSE Append(toCore[c],
                             [range |-> None, spare |-> m_itemSpareRange'[c]])
          /\ UNCHANGED <<connected, core, dropped, m_ItemIDRange, m_ItemIDSpareRange>>
      BY <1>0, <1>2 DEF SendSpareItemIDRange, itemVars, histVars
    <2>2. m_itemSpareRange[c] # None => m_itemRange'[c] = m_itemSpareRange[c]
      BY <1>0, <1>2 DEF SendSpareItemIDRange
    <2>3. m_itemSpareRange'[c] \in Slot
      BY <1>0, <1>2, GetRangeFacts DEF SendSpareItemIDRange, poolVars
    <2>4. CASE c \in connected \ dropped /\ core[c] = "run"
      <3>1. /\ toDB[c] = <<"REQ_SPARE_ITEM_ID_RANGE">> /\ toCore[c] = <<>>
            /\ m_ItemIDRange[c] = m_itemSpareRange[c]
            /\ m_ItemIDSpareRange[c] = None
        BY <1>0, <2>1, <2>4 DEF Link, Agree
      <3>2. m_itemSpareRange[c] # None
        BY <2>4, <3>1, NoneFacts DEF IInv, CurrentInv
      <3>3. /\ toCore'[c] =
                 Append(<<>>, [range |-> None, spare |-> m_itemSpareRange'[c]])
            /\ m_itemRange'[c] = m_ItemIDRange[c]
        BY <2>1, <2>2, <2>4, <3>1, <3>2
      <3>4. Len(toCore'[c]) = 1 /\ Head(toCore'[c]).spare = m_itemSpareRange'[c]
        BY <3>3, AppendToEmpty
      <3>5. toDB'[c] = <<>>
        BY <1>0, <2>1, <3>1, LastMessage
      <3> QED
        BY <2>1, <2>4, <3>1, <3>3, <3>4, <3>5 DEF Link, Agree
    <2>5. ~ (c \in connected \ dropped /\ core[c] = "boot")
      BY <1>0, <2>1 DEF Link, Booting
    <2>6. CASE ~ (c \in connected \ dropped /\ core[c] = "run")
      BY <1>0, <2>1, <2>5, <2>6 DEF Link
    <2> QED
      BY <2>4, <2>6
  <1>3. CASE RemovePeer(c)
    <2>1. /\ c \notin connected' /\ toCore'[c] = <<>> /\ core' = core
          /\ m_itemRange'[c] = None /\ m_itemSpareRange'[c] = None
      BY <1>0, <1>3 DEF RemovePeer, itemVars
    <2>2. c \in dropped' <=> core[c] # "off"
      BY <1>0, <1>3 DEF RemovePeer, Link
    <2> QED
      BY <2>1, <2>2 DEF Link
  <1> QED
    BY <1>1, <1>2, <1>3 DEF DBStep

LEMMA StepLinkInv == IInv /\ [Next]_vars => LinkInv'
  <1> SUFFICES ASSUME IInv, [Next]_vars, NEW d \in Core PROVE Link(d)'
    BY DEF LinkInv
  <1>0. TypeOK /\ Link(d)
    BY DEF IInv, LinkInv
  <1>1. ASSUME NEW c \in Core, CoreStep(c) \/ DBStep(c) PROVE Link(d)'
    BY <1>0, <1>1, CoreStepLink, DBStepLink, OthersStay
  <1>2. CASE ItemStep
    BY <1>0, <1>2, ItemStepMoves, LinkFrame DEF poolVars, itemVars, histVars
  <1>3. CASE UNCHANGED vars
    BY <1>0, <1>3, LinkFrame DEF vars, poolVars, itemVars, histVars
  <1> QED
    BY <1>1, <1>2, <1>3 DEF Next

-----------------------------------------------------------------------------
(* The theorems                                                            *)

\* The inductive invariant holds of every behaviour.
THEOREM IInvHolds == Spec => []IInv
  <1>1. IInv /\ [Next]_vars => IInv'
    BY StepTypeOK, StepCurrentInv, StepBooks, StepLinkInv DEF IInv
  <1> QED
    BY InitIInv, <1>1, PTL DEF Spec

\* Every variable keeps its type: above all, the pool and the books hold only
\* ranges Build made, and only ids of those are given out.
THEOREM TypeCorrect == Spec => []TypeOK
  <1>1. IInv => TypeOK
    BY DEF IInv
  <1> QED
    BY IInvHolds, <1>1, PTL

\* Two ranges that share an id are the same range.
LEMMA OverlapIsSameMin ==
    ASSUME NEW r \in IDRange, NEW s \in IDRange, Overlap(r, s)
    PROVE  r.min = s.min
  <1>1. PICK i \in 1 .. Len(Ranges) : r.min = Ranges[i][1] /\ r.max = Ranges[i][2]
    BY DEF IDRange
  <1>2. PICK j \in 1 .. Len(Ranges) : s.min = Ranges[j][1] /\ s.max = Ranges[j][2]
    BY DEF IDRange
  <1>3. Len(Ranges) \in Nat
    BY RangesAssumption
  <1>4. i < j => r.max < s.min
    BY <1>1, <1>2, RangesAssumption
  <1>5. j < i => s.max < r.min
    BY <1>1, <1>2, RangesAssumption
  <1>6. r.min \in Nat /\ r.max \in Nat /\ s.min \in Nat /\ s.max \in Nat
    BY NoneFacts
  <1>7. i = j
    BY <1>3, <1>4, <1>5, <1>6 DEF Overlap
  <1> QED
    BY <1>1, <1>2, <1>7

\* The db never books an id twice, with any number of cores and whatever
\* closes when.
THEOREM BooksAreDisjoint == Spec => []BooksDisjoint
  <1>1. IInv => BooksDisjoint
    <2> SUFFICES ASSUME IInv PROVE BooksDisjoint
      OBVIOUS
    <2>1. /\ m_listData \in Seq(IDRange)
          /\ \A c \in Core : m_itemRange[c] \in Slot /\ m_itemSpareRange[c] \in Slot
          /\ PoolInv /\ PeersInv
      BY DEF IInv, TypeOK, Slot
    <2>2. /\ DOMAIN m_listData = 1 .. Len(m_listData)
          /\ \A i \in DOMAIN m_listData : m_listData[i] \in IDRange
      BY <2>1, SeqFacts
    <2>3. \A i, j \in DOMAIN m_listData :
             i # j => ~Overlap(m_listData[i], m_listData[j])
      BY <2>1, <2>2, OverlapIsSameMin DEF PoolInv, Distinct
    <2>4. \A i \in DOMAIN m_listData : m_listData[i].min \in Mins(m_listData)
      BY <2>2 DEF Mins
    <2>5. ASSUME NEW c \in Core,
                 NEW r \in {m_itemRange[c], m_itemSpareRange[c]} \ {None}
          PROVE  r \in IDRange /\ r.min \notin Mins(m_listData)
      BY <2>1 DEF Slot, PoolInv
    <2>6. \A i \in DOMAIN m_listData, c \in Core :
             \A r \in {m_itemRange[c], m_itemSpareRange[c]} \ {None} :
                 ~Overlap(m_listData[i], r)
      BY <2>2, <2>4, <2>5, OverlapIsSameMin
    <2>7. ASSUME NEW c \in Core, NEW d \in Core,
                 NEW r \in {m_itemRange[c], m_itemSpareRange[c]} \ {None},
                 NEW s \in {m_itemRange[d], m_itemSpareRange[d]} \ {None},
                 Overlap(r, s)
          PROVE  r = s /\ c = d
      <3>1. r.min = s.min
        BY <2>5, <2>7, OverlapIsSameMin
      <3> QED
        BY <2>1, <3>1 DEF PeersInv
    <2>8. \A c \in Core : m_itemRange[c] = m_itemSpareRange[c] => m_itemRange[c] = None
      BY <2>1 DEF PeersInv
    <2> QED
      BY <2>3, <2>6, <2>7, <2>8 DEF BooksDisjoint
  <1> QED
    BY IInvHolds, <1>1, PTL

\* A core that never lost its connection and its CPeer agree on its two ranges,
\* so that what OnClose puts back is what the core was creating from.
THEOREM CoresInStep == Spec => []InStep
  <1>1. IInv => InStep
    <2> SUFFICES ASSUME IInv, NEW c \in connected \ dropped, core[c] = "run"
                 PROVE  Agree(c)
      BY DEF InStep, Agree
    <2>1. Link(c)
      BY DEF IInv, TypeOK, LinkInv
    <2> QED
      BY <2>1 DEF Link
  <1> QED
    BY IInvHolds, <1>1, PTL


-----------------------------------------------------------------------------
(* Duplicates                                                              *)
(*                                                                         *)
(* An id is clear when no item has it, or when OnClose has returned its    *)
(* range without looking where it is used.  Everything the pool, the peers *)
(* and the cores can still give out is clear.                              *)

\* No item has the id, or OnClose has returned its range without looking there.
Clear(id) == place[id].in # "none" => id \in overlooked

Pool(s) == {s[i] : i \in 1 .. Len(s)}

\* The ids of a range (None has none), and those that are left in it.
Ids(r)   == ID \cap (r.min .. r.max)
Ahead(r) == ID \cap (r.usable .. r.max)

\* Items are on cores that live, and there only under ids that are in no book
\* but, perhaps, their core's.
OnCoreInv ==
    \A id \in ID : place[id].in = "core" =>
        /\ place[id].at \in Core
        /\ core[place[id].at] # "off"
        /\ id \notin overlooked =>
              /\ \A r \in Pool(m_listData) : id \notin Ids(r)
              /\ \A c \in Core \ {place[id].at} :
                    id \notin Ids(m_itemRange[c]) \cup Ids(m_itemSpareRange[c])

\* What the pool will give out is clear.
PoolClear == \A r \in Pool(m_listData) : \A id \in Ahead(r) : Clear(id)

\* So is what a core was given and has not begun.
BookClear(c) ==
    c \in connected \ dropped =>
        /\ core[c] = "boot" => \A id \in Ahead(m_itemRange[c]) : Clear(id)
        /\ core[c] \in {"boot", "run"} /\ toDB[c] # <<"REQ_SPARE_ITEM_ID_RANGE">> =>
              \A id \in Ahead(m_itemSpareRange[c]) : Clear(id)

\* So is what is left of the range it creates from.
CurrentClear(c) ==
    core[c] = "run" =>
        \A id \in ID \cap (m_dwCurrentID[c] .. m_ItemIDRange[c].max) : Clear(id)

\* A core that outlived its connection is given nothing more, and everything it
\* has was overlooked.
DroppedInv(c) ==
    c \in dropped =>
        /\ m_itemRange[c] = None /\ m_itemSpareRange[c] = None
        /\ core[c] = "boot" => toDB[c] = <<>> /\ toCore[c] = <<>>
        /\ \A k \in 1 .. Len(toDB[c]) : toDB[c][k] # "BOOT"
        /\ \A k \in 1 .. Len(toCore[c]) : toCore[c][k].spare = None
        /\ core[c] = "run" =>
              Ids(m_ItemIDRange[c]) \cup Ids(m_ItemIDSpareRange[c]) \subseteq overlooked

ClearInv ==
    /\ OnCoreInv
    /\ PoolClear
    /\ \A c \in Core : BookClear(c) /\ CurrentClear(c) /\ DroppedInv(c)
    /\ OnlyOverlookedDuplicate

\* The two invariants are inductive together.
FullInv == IInv /\ ClearInv

\* The ids of a book are the ids of its bounds; None has none.
LEMMA IdsFacts ==
    ASSUME NEW r \in Slot
    PROVE  /\ Ahead(r) \subseteq Ids(r)
           /\ Ids(r) # {} => r # None
           /\ r = None => Ids(r) = {}
  <1>1. \A id \in ID : id \in Nat /\ 0 < id
    BY RangesAssumption DEF ID
  <1>2. r.min \in Nat /\ r.max \in Nat /\ r.usable \in Nat /\ r.min <= r.usable
    BY NoneFacts DEF Slot
  <1>3. r = None => r.min = 0 /\ r.max = 0
    BY NoneFacts
  <1> QED
    BY <1>1, <1>2, <1>3 DEF Ids, Ahead

\* Two ranges that share an id have the same min.
LEMMA SharedID ==
    ASSUME NEW r \in Slot, NEW s \in Slot, NEW id \in Ids(r), id \in Ids(s)
    PROVE  r # None /\ s # None /\ r.min = s.min
  <1>1. r # None /\ s # None
    BY IdsFacts
  <1>2. r \in IDRange /\ s \in IDRange
    BY <1>1 DEF Slot
  <1>3. Overlap(r, s)
    <2>1. /\ r.min \in Nat /\ r.max \in Nat /\ s.min \in Nat /\ s.max \in Nat
      BY <1>2, NoneFacts
    <2> QED
      BY <2>1 DEF Overlap, Ids
  <1> QED
    BY <1>1, <1>2, <1>3, OverlapIsSameMin

\* An id of a peer's book is in no other.
LEMMA BooksApart ==
    ASSUME IInv, NEW c \in Core, NEW id
    PROVE  /\ id \in Ids(m_itemRange[c]) \cup Ids(m_itemSpareRange[c]) =>
                 /\ \A r \in Pool(m_listData) : id \notin Ids(r)
                 /\ \A d \in Core \ {c} :
                       id \notin Ids(m_itemRange[d]) \cup Ids(m_itemSpareRange[d])
           /\ id \in Ids(m_itemRange[c]) => id \notin Ids(m_itemSpareRange[c])
  <1>1. /\ \A d \in Core : m_itemRange[d] \in Slot /\ m_itemSpareRange[d] \in Slot
        /\ m_listData \in Seq(IDRange)
        /\ PoolInv /\ PeersInv
    BY DEF IInv, TypeOK, Slot
  <1>2. \A r \in Pool(m_listData) : r \in Slot /\ r.min \in Mins(m_listData)
    BY <1>1, SeqFacts DEF Pool, Mins, Slot
  <1>3. ASSUME id \in Ids(m_itemRange[c]) \cup Ids(m_itemSpareRange[c]),
               NEW r \in Pool(m_listData), id \in Ids(r)
        PROVE  FALSE
    BY <1>1, <1>2, <1>3, SharedID DEF PoolInv
  <1>4. ASSUME id \in Ids(m_itemRange[c]) \cup Ids(m_itemSpareRange[c]),
               NEW d \in Core \ {c},
               id \in Ids(m_itemRange[d]) \cup Ids(m_itemSpareRange[d])
        PROVE  FALSE
    BY <1>1, <1>4, SharedID DEF PeersInv
  <1>5. ASSUME id \in Ids(m_itemRange[c]), id \in Ids(m_itemSpareRange[c])
        PROVE  FALSE
    BY <1>1, <1>5, SharedID DEF PeersInv
  <1> QED
    BY <1>3, <1>4, <1>5

\* A core that runs has nothing but what its peer has booked, or what was
\* overlooked when its connection broke.
LEMMA CoreHasBooks ==
    ASSUME IInv, NEW c \in Core, DroppedInv(c), core[c] = "run",
           NEW id \in Ids(m_ItemIDRange[c]) \cup Ids(m_ItemIDSpareRange[c])
    PROVE  \/ id \in overlooked
           \/ c \notin dropped
              /\ id \in Ids(m_itemRange[c]) \cup Ids(m_itemSpareRange[c])
  <1>1. CASE c \in dropped
    BY <1>1 DEF DroppedInv
  <1>2. CASE c \notin dropped
    <2>1. Link(c)
      BY DEF IInv, LinkInv
    <2>2. Agree(c)
      BY <1>2, <2>1 DEF Link
    <2>3. Ids(None) = {}
      BY IdsFacts, NoneFacts
    <2> QED
      BY <1>2, <2>2, <2>3 DEF Agree
  <1> QED
    BY <1>1, <1>2

\* GetRange takes a range of the pool, and leaves the others.
LEMMA GetRangePool ==
    ASSUME NEW s \in Seq(IDRange)
    PROVE  /\ GetRange(s) # None => GetRange(s) \in Pool(s)
           /\ Pool(AfterGetRange(s)) \subseteq Pool(s)
  <1>1. CASE s = <<>>
    BY <1>1 DEF GetRange, AfterGetRange
  <1>2. CASE s # <<>>
    <2>1. /\ GetRange(s) = s[1] /\ AfterGetRange(s) = Tail(s)
      BY <1>2, TailFacts DEF GetRange, AfterGetRange
    <2>2. /\ Len(s) \in Nat /\ Len(s) # 0 /\ Len(Tail(s)) = Len(s) - 1
          /\ \A i \in 1 .. Len(s) - 1 : Tail(s)[i] = s[i + 1]
      BY <1>2, TailFacts, SeqFacts
    <2>3. 1 \in 1 .. Len(s) /\ \A i \in 1 .. Len(s) - 1 : i + 1 \in 1 .. Len(s)
      BY <2>2
    <2> QED
      BY <2>1, <2>2, <2>3 DEF Pool
  <1> QED
    BY <1>1, <1>2

\* AppendRange adds at most the one.
LEMMA PushFrontPool ==
    ASSUME NEW s \in Seq(IDRange), NEW r \in Slot
    PROVE  Pool(PushFront(r, s)) \subseteq Pool(s) \cup ({r} \ {None})
  <1>1. CASE r = None
    BY <1>1 DEF PushFront
  <1>2. CASE r # None
    <2> DEFINE t == <<r>> \o s
    <2>1. PushFront(r, s) = t /\ r \in IDRange
      BY <1>2 DEF PushFront, Slot
    <2>2. /\ Len(t) = Len(s) + 1 /\ Len(s) \in Nat
          /\ t[1] = r
          /\ \A i \in 1 .. Len(s) : t[i + 1] = s[i]
      BY <2>1, ConsFacts, SeqFacts
    <2> HIDE DEF t
    <2>3. ASSUME NEW i \in 1 .. Len(t)
          PROVE  t[i] = r \/ t[i] \in Pool(s)
      <3>1. CASE i = 1
        BY <2>2, <3>1
      <3>2. CASE i # 1
        <4>1. i - 1 \in 1 .. Len(s) /\ (i - 1) + 1 = i
          BY <2>2, <3>2
        <4>2. t[i] = s[i - 1]
          BY <2>2, <4>1
        <4> QED
          BY <4>1, <4>2 DEF Pool
      <3> QED
        BY <3>1, <3>2
    <2>4. Pool(t) \subseteq Pool(s) \cup {r}
      BY <2>3 DEF Pool
    <2> QED
      BY <1>2, <2>1, <2>4
  <1> QED
    BY <1>1, <1>2


\* What a core may yet be given, or give.
CanGive(c) ==
    Ahead(m_itemRange[c]) \cup Ahead(m_itemSpareRange[c])
    \cup {id \in ID : core[c] = "run"
                      /\ id \in m_dwCurrentID[c] .. m_ItemIDRange[c].max}

LEMMA InitClear == Init => ClearInv
  <1> SUFFICES ASSUME Init PROVE ClearInv
    OBVIOUS
  <1>1. \A id \in ID : place[id].in = "none"
    BY DEF Init, At
  <1>2. /\ \A c \in Core : core[c] = "off"
        /\ dropped = {} /\ duplicated = {}
    BY DEF Init
  <1>3. OnCoreInv
    BY <1>1 DEF OnCoreInv
  <1>4. PoolClear
    BY <1>1 DEF PoolClear, Clear, Ahead
  <1>5. \A c \in Core : BookClear(c) /\ CurrentClear(c) /\ DroppedInv(c)
    BY <1>2 DEF BookClear, CurrentClear, DroppedInv
  <1> QED
    BY <1>2, <1>3, <1>4, <1>5 DEF ClearInv, OnlyOverlookedDuplicate

\* A core whose state does not change keeps its part of the invariant, if what
\* it may give stays clear.
LEMMA CoreClearFrame ==
    ASSUME NEW d \in Core, BookClear(d), CurrentClear(d), DroppedInv(d),
           \A id \in CanGive(d) : Clear(id) => Clear(id)',
           overlooked \subseteq overlooked',
           d \in connected' <=> d \in connected,
           d \in dropped' <=> d \in dropped,
           core'[d] = core[d], toDB'[d] = toDB[d], toCore'[d] = toCore[d],
           m_itemRange'[d] = m_itemRange[d],
           m_itemSpareRange'[d] = m_itemSpareRange[d],
           m_dwCurrentID'[d] = m_dwCurrentID[d],
           m_ItemIDRange'[d] = m_ItemIDRange[d],
           m_ItemIDSpareRange'[d] = m_ItemIDSpareRange[d]
    PROVE  BookClear(d)' /\ CurrentClear(d)' /\ DroppedInv(d)'
  <1>1. BookClear(d)'
    BY DEF BookClear, CanGive, Ahead
  <1>2. CurrentClear(d)'
    BY DEF CurrentClear, CanGive
  <1>3. DroppedInv(d)'
    BY DEF DroppedInv, Ids
  <1> QED
    BY <1>1, <1>2, <1>3

\* A step that moves no item and no book, and ends no core.
LEMMA QuietStep ==
    ASSUME TypeOK, ClearInv, UNCHANGED <<place, overlooked, duplicated, poolVars>>,
           \A d \in Core : core[d] # "off" => core'[d] # "off"
    PROVE  /\ OnCoreInv' /\ PoolClear' /\ OnlyOverlookedDuplicate'
           /\ \A id \in ID : Clear(id) => Clear(id)'
           /\ overlooked \subseteq overlooked'
  <1>1. OnCoreInv'
    BY DEF ClearInv, OnCoreInv, poolVars, Pool, Ids
  <1>2. PoolClear'
    BY DEF ClearInv, PoolClear, poolVars, Pool, Ahead, Clear
  <1>3. OnlyOverlookedDuplicate'
    BY DEF ClearInv, OnlyOverlookedDuplicate
  <1>4. \A id \in ID : Clear(id) => Clear(id)'
    BY DEF Clear
  <1> QED
    BY <1>1, <1>2, <1>3, <1>4

\* All but c keep their part.
Others(c) ==
    \A d \in Core \ {c} :
        /\ d \in connected' <=> d \in connected
        /\ d \in dropped' <=> d \in dropped
        /\ core'[d] = core[d] /\ toDB'[d] = toDB[d] /\ toCore'[d] = toCore[d]
        /\ m_itemRange'[d] = m_itemRange[d]
        /\ m_itemSpareRange'[d] = m_itemSpareRange[d]
        /\ m_dwCurrentID'[d] = m_dwCurrentID[d]
        /\ m_ItemIDRange'[d] = m_ItemIDRange[d]
        /\ m_ItemIDSpareRange'[d] = m_ItemIDSpareRange[d]

LEMMA StepOthers ==
    ASSUME TypeOK, NEW c \in Core, CoreStep(c) \/ DBStep(c)
    PROVE  Others(c)
  <1> USE DEF TypeOK, Others
  <1>1. CASE Start(c)
    BY <1>1 DEF Start, poolVars, itemVars, histVars
  <1>2. CASE Reconnect(c)
    BY <1>2 DEF Reconnect, poolVars, itemVars, histVars
  <1>3. CASE Exit(c)
    BY <1>3 DEF Exit, poolVars
  <1>4. CASE RecvBoot(c)
    BY <1>4 DEF RecvBoot, poolVars, histVars
  <1>5. CASE RecvSpare(c)
    BY <1>5 DEF RecvSpare, poolVars, histVars
  <1>6. CASE NewID(c)
    BY <1>6 DEF NewID, poolVars
  <1>7. CASE NewIDFromSpare(c)
    BY <1>7 DEF NewIDFromSpare, poolVars
  <1>8. CASE NoMoreID(c)
    BY <1>8 DEF NoMoreID, poolVars, itemVars, histVars
  <1>9. CASE QueryBoot(c)
    BY <1>9 DEF QueryBoot, itemVars, histVars
  <1>10. CASE SendSpareItemIDRange(c)
    BY <1>10 DEF SendSpareItemIDRange, poolVars, itemVars, histVars
  <1>11. CASE RemovePeer(c)
    BY <1>11 DEF RemovePeer, itemVars
  <1> QED
    BY <1>1, <1>2, <1>3, <1>4, <1>5, <1>6, <1>7, <1>8, <1>9, <1>10, <1>11
       DEF CoreStep, DBStep

\* What has to be shown of a step of one core or its peer.
LEMMA OneCoreStep ==
    ASSUME TypeOK, ClearInv, NEW c \in Core, Others(c),
           OnCoreInv', PoolClear', OnlyOverlookedDuplicate',
           overlooked \subseteq overlooked',
           \A d \in Core \ {c} : \A id \in CanGive(d) : Clear(id) => Clear(id)',
           BookClear(c)', CurrentClear(c)', DroppedInv(c)'
    PROVE  ClearInv'
  <1>1. ASSUME NEW d \in Core, d # c
        PROVE  BookClear(d)' /\ CurrentClear(d)' /\ DroppedInv(d)'
    <2>1. BookClear(d) /\ CurrentClear(d) /\ DroppedInv(d)
      BY DEF ClearInv
    <2> QED
      BY <1>1, <2>1, CoreClearFrame DEF Others
  <1> QED
    BY <1>1 DEF ClearInv

LEMMA GiveIDs == ASSUME NEW c PROVE CanGive(c) \subseteq ID
BY DEF CanGive, Ahead


\* Boot, spare, connection and shutdown: no id moves.
LEMMA QuietCoreStep ==
    ASSUME FullInv, NEW c \in Core,
           Start(c) \/ Reconnect(c) \/ RecvBoot(c) \/ RecvSpare(c) \/ NoMoreID(c)
    PROVE  ClearInv'
  <1>0. /\ TypeOK /\ ClearInv /\ Link(c)
        /\ core \in [Core -> {"off", "boot", "run", "stop"}]
        /\ BookClear(c) /\ CurrentClear(c) /\ DroppedInv(c)
    BY DEF FullInv, IInv, LinkInv, TypeOK, ClearInv
  <1>1. UNCHANGED <<place, overlooked, duplicated, dropped, poolVars>>
    BY DEF Start, Reconnect, RecvBoot, RecvSpare, NoMoreID, histVars
  <1>2. \A d \in Core : core[d] # "off" => core'[d] # "off"
    BY <1>0 DEF Start, Reconnect, RecvBoot, RecvSpare, NoMoreID
  <1>3. /\ OnCoreInv' /\ PoolClear' /\ OnlyOverlookedDuplicate'
        /\ \A id \in ID : Clear(id) => Clear(id)'
        /\ overlooked \subseteq overlooked'
    BY <1>0, <1>1, <1>2, QuietStep
  <1>4. UNCHANGED <<m_itemRange, m_itemSpareRange>>
    BY <1>1 DEF poolVars
  <1>5. Ahead(None) = {}
    BY IdsFacts, NoneFacts
  <1>6. BookClear(c)' /\ CurrentClear(c)' /\ DroppedInv(c)'
    <2>1. CASE Start(c)
      <3>1. /\ core[c] = "off" /\ c \notin connected /\ core'[c] = "boot"
        BY <1>0, <2>1 DEF Start
      <3>2. /\ m_itemRange'[c] = None /\ m_itemSpareRange'[c] = None
            /\ c \notin dropped'
        BY <1>0, <1>1, <1>4, <3>1 DEF Link
      <3> QED
        BY <1>5, <3>1, <3>2 DEF BookClear, CurrentClear, DroppedInv
    <2>2. CASE Reconnect(c)
      <3>1. c \in dropped'
        BY <1>0, <1>1, <2>2 DEF Reconnect, Link
      <3>2. UNCHANGED <<core, toDB, toCore, m_dwCurrentID, m_ItemIDRange,
                        m_ItemIDSpareRange>>
        BY <2>2 DEF Reconnect, itemVars
      <3>3. BookClear(c)'
        BY <3>1 DEF BookClear
      <3>4. CurrentClear(c)'
        BY <1>0, <1>3, <3>2 DEF CurrentClear
      <3>5. DroppedInv(c)'
        BY <1>0, <1>1, <1>4, <3>2 DEF DroppedInv, Ids
      <3> QED
        BY <3>3, <3>4, <3>5
    <2>3. CASE RecvBoot(c)
      <3> DEFINE q == Head(toCore[c])
      <3>1. /\ core[c] = "boot" /\ toCore[c] # <<>>
            /\ core'[c] \in {"run", "stop"}
            /\ m_dwCurrentID'[c] = q.range.usable
            /\ m_ItemIDRange'[c] = q.range
            /\ UNCHANGED <<toDB, connected>>
        BY <1>0, <2>3 DEF RecvBoot, TypeOK
      <3>2. c \notin dropped
        BY <1>0, <3>1 DEF DroppedInv
      <3>3. c \in connected /\ Booting(c)
        BY <1>0, <3>1, <3>2 DEF Link
      <3>4. toDB[c] = <<>> /\ q.range = m_itemRange[c]
        BY <3>1, <3>3 DEF Booting
      <3> HIDE DEF q
      <3>5. /\ \A id \in Ahead(m_itemRange[c]) : Clear(id)'
            /\ \A id \in Ahead(m_itemSpareRange[c]) : Clear(id)'
        BY <1>0, <1>3, <3>1, <3>2, <3>3, <3>4 DEF BookClear, Ahead
      <3>6. BookClear(c)'
        BY <1>4, <3>5 DEF BookClear, Ahead
      <3>7. CurrentClear(c)'
        BY <3>1, <3>4, <3>5 DEF CurrentClear, Ahead
      <3>8. DroppedInv(c)'
        BY <1>1, <3>2 DEF DroppedInv
      <3> QED
        BY <3>6, <3>7, <3>8
    <2>4. CASE RecvSpare(c)
      <3> DEFINE q == Head(toCore[c])
      <3>1. /\ core[c] = "run" /\ toCore[c] # <<>> /\ UNCHANGED core
            /\ m_ItemIDSpareRange'[c] = IF q.spare = None
                                          THEN m_ItemIDSpareRange[c] ELSE q.spare
            /\ toCore'[c] = Tail(toCore[c])
            /\ UNCHANGED <<toDB, connected, m_dwCurrentID, m_ItemIDRange>>
        BY <1>0, <2>4 DEF RecvSpare, TypeOK
      <3>2. BookClear(c)'
        BY <1>0, <1>1, <1>3, <1>4, <3>1 DEF BookClear, Ahead
      <3>3. CurrentClear(c)'
        BY <1>0, <1>3, <3>1 DEF CurrentClear
      <3>4. DroppedInv(c)'
        <4> SUFFICES ASSUME c \in dropped PROVE DroppedInv(c)'
          BY <1>1 DEF DroppedInv
        <4>1. toCore[c] \in Seq([range : Slot, spare : Slot])
          BY <1>0 DEF TypeOK, Slot
        <4>2. /\ Len(toCore[c]) \in Nat /\ Len(toCore[c]) # 0
              /\ Len(Tail(toCore[c])) = Len(toCore[c]) - 1
              /\ \A k \in 1 .. Len(toCore[c]) - 1 : Tail(toCore[c])[k] = toCore[c][k + 1]
              /\ q = toCore[c][1]
          BY <3>1, <4>1, TailFacts, SeqFacts
        <4>3. \A k \in 1 .. Len(toCore[c]) : toCore[c][k].spare = None
          BY <1>0 DEF DroppedInv
        <4>4. 1 \in 1 .. Len(toCore[c])
              /\ \A k \in 1 .. Len(toCore[c]) - 1 : k + 1 \in 1 .. Len(toCore[c])
          BY <4>2
        <4>5. q.spare = None
          BY <4>2, <4>3, <4>4
        <4>6. \A k \in 1 .. Len(toCore'[c]) : toCore'[c][k].spare = None
          BY <3>1, <4>2, <4>3, <4>4
        <4>7. m_ItemIDSpareRange'[c] = m_ItemIDSpareRange[c]
          BY <3>1, <4>5
        <4>8. core'[c] # "boot"
          BY <3>1
        <4> HIDE DEF q
        <4> QED
          BY <1>0, <1>1, <1>4, <3>1, <4>6, <4>7, <4>8 DEF DroppedInv, Ids
      <3> QED
        BY <3>2, <3>3, <3>4
    <2>5. CASE NoMoreID(c)
      <3>1. core'[c] = "stop" /\ UNCHANGED <<toDB, toCore>>
        BY <1>0, <2>5 DEF NoMoreID
      <3> QED
        BY <1>0, <1>1, <1>4, <3>1 DEF BookClear, CurrentClear, DroppedInv
    <2> QED
      BY <2>1, <2>2, <2>3, <2>4, <2>5
  <1>7. Others(c)
    BY <1>0, StepOthers DEF CoreStep
  <1> QED
    BY <1>0, <1>3, <1>6, <1>7, OneCoreStep, GiveIDs

\* The process ends: what it had not saved is gone.
LEMMA ExitClear ==
    ASSUME FullInv, NEW c \in Core, Exit(c)
    PROVE  ClearInv'
  <1>0. /\ TypeOK /\ ClearInv
        /\ place \in [ID -> Place]
        /\ core \in [Core -> {"off", "boot", "run", "stop"}]
    BY DEF FullInv, IInv, TypeOK
  <1>1. /\ core' = [core EXCEPT ![c] = "off"] /\ c \notin dropped'
        /\ place' = [id \in ID |-> IF place[id] = At("core", c)
                                     THEN At("none", NoCore) ELSE place[id]]
        /\ UNCHANGED <<poolVars, overlooked, duplicated>>
    BY DEF Exit
  <1>2. \A id \in ID : place'[id].in # "none" => place'[id] = place[id]
    BY <1>1 DEF At
  <1>3. \A id \in ID : Clear(id) => Clear(id)'
    BY <1>1, <1>2 DEF Clear
  <1>4. OnCoreInv'
    <2> SUFFICES ASSUME NEW id \in ID, place'[id].in = "core"
                 PROVE  /\ place'[id].at \in Core
                        /\ core'[place'[id].at] # "off"
                        /\ id \notin overlooked' =>
                             /\ \A r \in Pool(m_listData') : id \notin Ids(r)
                             /\ \A d \in Core \ {place'[id].at} :
                                  id \notin Ids(m_itemRange'[d]) \cup Ids(m_itemSpareRange'[d])
      BY DEF OnCoreInv, Pool, Ids
    <2>1. place'[id] = place[id] /\ place[id] # At("core", c)
      BY <1>1, <1>2 DEF At
    <2>2. place[id].at # c
      BY <1>0, <2>1 DEF Place, At
    <2>3. place[id].at \in Core /\ core[place[id].at] # "off"
      BY <1>0, <2>1 DEF ClearInv, OnCoreInv
    <2>4. core'[place[id].at] # "off"
      BY <1>0, <1>1, <2>2, <2>3
    <2>5. id \notin overlooked =>
             /\ \A r \in Pool(m_listData) : id \notin Ids(r)
             /\ \A d \in Core \ {place[id].at} :
                  id \notin Ids(m_itemRange[d]) \cup Ids(m_itemSpareRange[d])
      BY <1>0, <2>1 DEF ClearInv, OnCoreInv
    <2> QED
      BY <1>1, <2>1, <2>3, <2>4, <2>5 DEF poolVars
  <1>5. PoolClear'
    BY <1>0, <1>1, <1>3 DEF ClearInv, PoolClear, poolVars, Pool, Ahead
  <1>6. OnlyOverlookedDuplicate'
    BY <1>0, <1>1 DEF ClearInv, OnlyOverlookedDuplicate
  <1>7. core'[c] = "off"
    BY <1>0, <1>1
  <1>8. BookClear(c)' /\ CurrentClear(c)' /\ DroppedInv(c)'
    BY <1>1, <1>7 DEF BookClear, CurrentClear, DroppedInv
  <1>9. Others(c) /\ overlooked \subseteq overlooked'
    BY <1>0, <1>1, StepOthers DEF CoreStep
  <1> QED
    BY <1>0, <1>3, <1>4, <1>5, <1>6, <1>8, <1>9, OneCoreStep, GiveIDs


\* A core's next id may be given by no other, unless it was overlooked.
LEMMA GivenByOne ==
    ASSUME FullInv, NEW c \in Core, NEW d \in Core \ {c}, core[c] = "run",
           NEW x \in Ids(m_ItemIDRange[c]) \cup Ids(m_ItemIDSpareRange[c]),
           x \in CanGive(d)
    PROVE  x \in overlooked
  <1>0. /\ IInv /\ DroppedInv(c) /\ DroppedInv(d)
        /\ \A e \in Core : m_itemRange[e] \in Slot /\ m_itemSpareRange[e] \in Slot
    BY DEF FullInv, ClearInv, IInv, TypeOK, Slot
  <1>1. SUFFICES ASSUME x \notin overlooked PROVE FALSE
    OBVIOUS
  <1>2. x \in Ids(m_itemRange[c]) \cup Ids(m_itemSpareRange[c])
    BY <1>0, <1>1, CoreHasBooks
  <1>3. x \notin Ids(m_itemRange[d]) \cup Ids(m_itemSpareRange[d])
    BY <1>0, <1>2, BooksApart
  <1>4. x \notin Ahead(m_itemRange[d]) /\ x \notin Ahead(m_itemSpareRange[d])
    BY <1>0, <1>3, IdsFacts
  <1>5. /\ core[d] = "run" /\ x \in ID
        /\ x \in m_dwCurrentID[d] .. m_ItemIDRange[d].max
    BY <1>4 DEF CanGive
  <1>6. x \in Ids(m_ItemIDRange[d])
    <2>1. /\ m_ItemIDRange[d] \in IDRange
          /\ m_ItemIDRange[d].min <= m_dwCurrentID[d]
          /\ m_dwCurrentID[d] \in Nat
      BY <1>0, <1>5 DEF IInv, CurrentInv, TypeOK
    <2>2. m_ItemIDRange[d].min \in Nat /\ m_ItemIDRange[d].max \in Nat
      BY <2>1, NoneFacts
    <2> QED
      BY <1>5, <2>1, <2>2 DEF Ids
  <1> QED
    BY <1>0, <1>1, <1>3, <1>5, <1>6, CoreHasBooks

\* A new item takes one id, which nobody else can give.
LEMMA CreateClear ==
    ASSUME FullInv, NEW c \in Core, core[c] = "run",
           NEW x \in Ids(m_ItemIDRange[c]) \cup Ids(m_ItemIDSpareRange[c]),
           Clear(x), Create(c, x), UNCHANGED <<poolVars, core, overlooked>>
    PROVE  /\ OnCoreInv' /\ PoolClear' /\ OnlyOverlookedDuplicate'
           /\ \A id \in ID : id # x /\ Clear(id) => Clear(id)'
           /\ \A d \in Core \ {c} : \A id \in CanGive(d) : Clear(id) => Clear(id)'
  <1>0. /\ IInv /\ ClearInv /\ TypeOK /\ DroppedInv(c)
        /\ place \in [ID -> Place] /\ x \in ID
        /\ m_listData \in Seq(IDRange)
    BY DEF FullInv, IInv, TypeOK, ClearInv, Ids
  <1>1. /\ place' = [place EXCEPT ![x] = At("core", c)]
        /\ duplicated' = IF place[x].in = "none" THEN duplicated
                                                 ELSE duplicated \cup {x}
    BY DEF Create
  <1>2. /\ place'[x] = At("core", c)
        /\ \A id \in ID : id # x => place'[id] = place[id]
    BY <1>0, <1>1
  <1>3. x \in overlooked \/ x \in Ids(m_itemRange[c]) \cup Ids(m_itemSpareRange[c])
    BY <1>0, CoreHasBooks
  <1>4. x \in overlooked \/ \A r \in Pool(m_listData) : x \notin Ids(r)
    BY <1>0, <1>3, BooksApart
  <1>5. \A d \in Core \ {c} :
           x \in overlooked
           \/ x \notin Ids(m_itemRange[d]) \cup Ids(m_itemSpareRange[d])
    BY <1>0, <1>3, BooksApart
  <1>6. \A id \in ID : id # x /\ Clear(id) => Clear(id)'
    BY <1>2 DEF Clear
  <1>7. x \in overlooked => Clear(x)'
    BY DEF Clear
  <1>8. OnCoreInv'
    <2> SUFFICES ASSUME NEW id \in ID, place'[id].in = "core"
                 PROVE  /\ place'[id].at \in Core
                        /\ core[place'[id].at] # "off"
                        /\ id \notin overlooked =>
                             /\ \A r \in Pool(m_listData) : id \notin Ids(r)
                             /\ \A d \in Core \ {place'[id].at} :
                                  id \notin Ids(m_itemRange[d]) \cup Ids(m_itemSpareRange[d])
      BY DEF OnCoreInv, Pool, Ids, poolVars
    <2>1. CASE id = x
      <3>1. place'[id].at = c
        BY <1>2, <2>1 DEF At
      <3> QED
        BY <1>4, <1>5, <2>1, <3>1
    <2>2. CASE id # x
      <3>1. place'[id] = place[id]
        BY <1>2, <2>2
      <3> QED
        BY <1>0, <3>1 DEF ClearInv, OnCoreInv
    <2> QED
      BY <2>1, <2>2
  <1>9. PoolClear'
    <2> SUFFICES ASSUME NEW r \in Pool(m_listData), NEW id \in Ahead(r)
                 PROVE  Clear(id)'
      BY DEF PoolClear, Pool, Ahead, poolVars
    <2>1. Clear(id) /\ id \in ID
      BY <1>0 DEF ClearInv, PoolClear, Ahead
    <2>2. r \in Slot
      BY <1>0, SeqFacts DEF Pool, Slot
    <2>3. id \in Ids(r)
      BY <2>2, IdsFacts
    <2>4. id = x => x \in overlooked
      BY <1>4, <2>3
    <2> QED
      BY <1>6, <1>7, <2>1, <2>4
  <1>10. OnlyOverlookedDuplicate'
    BY <1>0, <1>1 DEF ClearInv, OnlyOverlookedDuplicate, Clear
  <1>11. ASSUME NEW d \in Core \ {c}, NEW id \in CanGive(d), Clear(id)
         PROVE  Clear(id)'
    <2>1. id \in ID
      BY GiveIDs
    <2>2. id = x => x \in overlooked
      BY <1>11, GivenByOne
    <2> QED
      BY <1>6, <1>7, <1>11, <2>1, <2>2
  <1> QED
    BY <1>6, <1>8, <1>9, <1>10, <1>11

\* The next id of the range is clear, and so are those after it.
LEMMA NewIDClear ==
    ASSUME FullInv, NEW c \in Core, NewID(c)
    PROVE  ClearInv'
  <1> DEFINE x == m_dwCurrentID[c]
  <1>0. /\ TypeOK /\ ClearInv /\ Link(c) /\ IInv
        /\ BookClear(c) /\ CurrentClear(c) /\ DroppedInv(c)
        /\ \A d \in Core : m_itemRange[d] \in Slot /\ m_itemSpareRange[d] \in Slot
    BY DEF FullInv, IInv, LinkInv, ClearInv, TypeOK, Slot
  <1>1. /\ core[c] = "run" /\ Create(c, x) /\ ~Exhausted(c)
        /\ m_dwCurrentID'[c] = x + 1
        /\ UNCHANGED <<poolVars, connected, toDB, toCore, core, m_ItemIDRange,
                       m_ItemIDSpareRange, dropped, overlooked>>
    BY <1>0 DEF NewID, TypeOK
  <1>2. /\ m_ItemIDRange[c] \in IDRange /\ m_ItemIDRange[c].min <= x
        /\ x \in Nat /\ m_ItemIDRange[c].min \in Nat /\ m_ItemIDRange[c].max \in Nat
        /\ x < m_ItemIDRange[c].max
    <2>1. m_ItemIDRange[c] \in IDRange /\ m_ItemIDRange[c].min <= x /\ x \in Nat
      BY <1>0, <1>1 DEF IInv, CurrentInv, TypeOK
    <2>2. m_ItemIDRange[c].min \in Nat /\ m_ItemIDRange[c].max \in Nat
      BY <2>1, NoneFacts
    <2> QED
      BY <1>1, <2>1, <2>2 DEF Exhausted
  <1> HIDE DEF x
  <1>3. x \in Ids(m_ItemIDRange[c])
    <2>1. x \in m_ItemIDRange[c].min .. m_ItemIDRange[c].max
      BY <1>2
    <2> QED
      BY <1>2, <2>1, RangeIDs DEF Ids
  <1>4. Clear(x)
    <2>1. x \in ID \cap (m_dwCurrentID[c] .. m_ItemIDRange[c].max)
      BY <1>2, <1>3 DEF Ids, x
    <2> QED
      BY <1>0, <1>1, <2>1 DEF CurrentClear
  <1>5. /\ OnCoreInv' /\ PoolClear' /\ OnlyOverlookedDuplicate'
        /\ \A id \in ID : id # x /\ Clear(id) => Clear(id)'
        /\ \A d \in Core \ {c} : \A id \in CanGive(d) : Clear(id) => Clear(id)'
    BY <1>1, <1>3, <1>4, CreateClear
  <1>6. UNCHANGED <<m_itemRange, m_itemSpareRange>>
    BY <1>1 DEF poolVars
  <1>7. BookClear(c)'
    <2> SUFFICES ASSUME c \in connected \ dropped,
                        toDB[c] # <<"REQ_SPARE_ITEM_ID_RANGE">>,
                        NEW id \in Ahead(m_itemSpareRange[c])
                 PROVE  Clear(id)'
      BY <1>1, <1>6 DEF BookClear, Ahead
    <2>1. Clear(id) /\ id \in ID
      BY <1>0, <1>1 DEF BookClear, Ahead
    <2>2. m_ItemIDRange[c] = m_itemRange[c]
      BY <1>0, <1>1 DEF Link, Agree
    <2>3. x \notin Ids(m_itemSpareRange[c])
      BY <1>0, <1>3, <2>2, BooksApart
    <2>4. id # x
      BY <1>0, <2>3, IdsFacts
    <2> QED
      BY <1>5, <2>1, <2>4
  <1>8. CurrentClear(c)'
    <2> SUFFICES ASSUME NEW id \in ID, id \in x + 1 .. m_ItemIDRange[c].max
                 PROVE  Clear(id)'
      BY <1>1 DEF CurrentClear
    <2>1. id \in x .. m_ItemIDRange[c].max /\ id # x
      BY <1>2
    <2>2. Clear(id)
      BY <1>0, <1>1, <2>1 DEF CurrentClear, x
    <2> QED
      BY <1>5, <2>1, <2>2
  <1>9. DroppedInv(c)'
    BY <1>0, <1>1, <1>6 DEF DroppedInv, Ids
  <1>10. Others(c) /\ overlooked \subseteq overlooked'
    BY <1>0, <1>1, StepOthers DEF CoreStep
  <1> QED
    BY <1>0, <1>5, <1>7, <1>8, <1>9, <1>10, OneCoreStep

\* The first id of the spare range is clear, and so are those after it.
LEMMA NewIDFromSpareClear ==
    ASSUME FullInv, NEW c \in Core, NewIDFromSpare(c)
    PROVE  ClearInv'
  <1> DEFINE r == m_ItemIDSpareRange[c]
             x == r.usable
  <1>0. /\ TypeOK /\ ClearInv /\ Link(c) /\ IInv
        /\ BookClear(c) /\ CurrentClear(c) /\ DroppedInv(c)
        /\ \A d \in Core : m_itemRange[d] \in Slot /\ m_itemSpareRange[d] \in Slot
        /\ toDB[c] \in Seq({"BOOT", "REQ_SPARE_ITEM_ID_RANGE"})
    BY DEF FullInv, IInv, LinkInv, ClearInv, TypeOK, Slot
  <1>1. /\ core[c] = "run" /\ Create(c, x) /\ r # None
        /\ m_dwCurrentID'[c] = x + 1 /\ m_ItemIDRange'[c] = r
        /\ m_ItemIDSpareRange'[c] = None
        /\ toDB'[c] = Append(toDB[c], "REQ_SPARE_ITEM_ID_RANGE")
        /\ UNCHANGED <<poolVars, connected, toCore, core, dropped, overlooked>>
    BY <1>0 DEF NewIDFromSpare, TypeOK
  <1>2. /\ r \in IDRange /\ x \in Nat /\ r.min \in Nat /\ r.max \in Nat
        /\ r.min <= x /\ x <= r.max
    <2>1. r \in IDRange
      BY <1>0, <1>1 DEF TypeOK
    <2> QED
      BY <2>1, NoneFacts
  <1>3. x \in Ahead(r) /\ x \in Ids(r)
    <2>1. x \in r.min .. r.max /\ x \in r.usable .. r.max
      BY <1>2
    <2> QED
      BY <1>2, <2>1, RangeIDs DEF Ids, Ahead
  <1>4. \A id \in Ahead(r) : Clear(id)
    <2>1. CASE c \in dropped
      <3>1. Ids(r) \subseteq overlooked
        BY <1>0, <1>1, <2>1 DEF DroppedInv
      <3>2. Ahead(r) \subseteq Ids(r)
        BY <1>2, IdsFacts DEF Slot
      <3> QED
        BY <3>1, <3>2 DEF Clear
    <2>2. CASE c \notin dropped
      <3>1. c \in connected /\ toDB[c] = <<>> /\ r = m_itemSpareRange[c]
        BY <1>0, <1>1, <2>2 DEF Link, Agree
      <3> QED
        BY <1>0, <1>1, <2>2, <3>1 DEF BookClear
    <2> QED
      BY <2>1, <2>2
  <1> HIDE DEF x
  <1>5. /\ OnCoreInv' /\ PoolClear' /\ OnlyOverlookedDuplicate'
        /\ \A id \in ID : id # x /\ Clear(id) => Clear(id)'
        /\ \A d \in Core \ {c} : \A id \in CanGive(d) : Clear(id) => Clear(id)'
    BY <1>1, <1>3, <1>4, CreateClear
  <1>6. UNCHANGED <<m_itemRange, m_itemSpareRange>>
    BY <1>1 DEF poolVars
  <1>7. BookClear(c)'
    <2> SUFFICES ASSUME c \notin dropped PROVE BookClear(c)'
      BY <1>1 DEF BookClear
    <2>1. toDB[c] = <<>>
      BY <1>0, <1>1 DEF Link, Agree
    <2>2. toDB'[c] = <<"REQ_SPARE_ITEM_ID_RANGE">>
      BY <1>1, <2>1, AppendToEmpty
    <2> QED
      BY <1>1, <2>2 DEF BookClear
  <1>8. CurrentClear(c)'
    <2> SUFFICES ASSUME NEW id \in ID, id \in x + 1 .. r.max
                 PROVE  Clear(id)'
      BY <1>1 DEF CurrentClear
    <2>1. id \in x .. r.max /\ id # x
      BY <1>2
    <2>2. Clear(id)
      BY <1>4, <2>1 DEF Ahead, x
    <2> QED
      BY <1>5, <2>1, <2>2
  <1>9. DroppedInv(c)'
    <2> SUFFICES ASSUME c \in dropped PROVE DroppedInv(c)'
      BY <1>1 DEF DroppedInv
    <2>1. Ids(None) = {}
      BY IdsFacts, NoneFacts
    <2>2. Ids(m_ItemIDRange'[c]) \cup Ids(m_ItemIDSpareRange'[c]) \subseteq overlooked'
      BY <1>0, <1>1, <2>1 DEF DroppedInv
    <2>3. \A k \in 1 .. Len(toDB'[c]) : toDB'[c][k] # "BOOT"
      <3>1. /\ Len(toDB'[c]) = Len(toDB[c]) + 1 /\ Len(toDB[c]) \in Nat
            /\ \A k \in 1 .. Len(toDB[c]) : toDB'[c][k] = toDB[c][k]
            /\ toDB'[c][Len(toDB[c]) + 1] = "REQ_SPARE_ITEM_ID_RANGE"
        BY <1>0, <1>1
      <3> QED
        BY <1>0, <3>1 DEF DroppedInv
    <2>4. \A k \in 1 .. Len(toCore'[c]) : toCore'[c][k].spare = None
      BY <1>0, <1>1 DEF DroppedInv
    <2>5. core'[c] # "boot" /\ m_itemRange'[c] = None /\ m_itemSpareRange'[c] = None
      BY <1>0, <1>1, <1>6 DEF DroppedInv
    <2> QED
      BY <2>2, <2>3, <2>4, <2>5 DEF DroppedInv, Ids
  <1>10. Others(c) /\ overlooked \subseteq overlooked'
    BY <1>0, <1>1, StepOthers DEF CoreStep
  <1> QED
    BY <1>0, <1>5, <1>7, <1>8, <1>9, <1>10, OneCoreStep


\* A peer's books change for ranges of the pool, or for each other.
LEMMA BooksMove ==
    ASSUME TypeOK, ClearInv, NEW c \in Core, Others(c),
           UNCHANGED <<place, overlooked, duplicated, core>>,
           Pool(m_listData') \subseteq Pool(m_listData),
           m_itemRange'[c] \in
             Pool(m_listData) \cup {m_itemRange[c], m_itemSpareRange[c], None},
           m_itemSpareRange'[c] \in
             Pool(m_listData) \cup {m_itemRange[c], m_itemSpareRange[c], None}
    PROVE  /\ OnCoreInv' /\ PoolClear' /\ OnlyOverlookedDuplicate'
           /\ overlooked \subseteq overlooked'
           /\ \A id \in ID : Clear(id) => Clear(id)'
  <1>1. OnCoreInv'
    <2> SUFFICES ASSUME NEW id \in ID, place[id].in = "core"
                 PROVE  /\ place[id].at \in Core
                        /\ core[place[id].at] # "off"
                        /\ id \notin overlooked =>
                             /\ \A r \in Pool(m_listData') : id \notin Ids(r)
                             /\ \A d \in Core \ {place[id].at} :
                                  id \notin Ids(m_itemRange'[d]) \cup Ids(m_itemSpareRange'[d])
      BY DEF OnCoreInv, Pool, Ids
    <2>1. /\ place[id].at \in Core
          /\ core[place[id].at] # "off"
          /\ id \notin overlooked =>
                /\ \A r \in Pool(m_listData) : id \notin Ids(r)
                /\ \A d \in Core \ {place[id].at} :
                      id \notin Ids(m_itemRange[d]) \cup Ids(m_itemSpareRange[d])
      BY DEF ClearInv, OnCoreInv
    <2>2. id \notin Ids(None)
      BY IdsFacts, NoneFacts
    <2>3. ASSUME id \notin overlooked, NEW d \in Core \ {place[id].at}
          PROVE  id \notin Ids(m_itemRange'[d]) \cup Ids(m_itemSpareRange'[d])
      <3>1. CASE d = c
        BY <2>1, <2>2, <2>3, <3>1
      <3>2. CASE d # c
        BY <2>1, <2>3, <3>2 DEF Others
      <3> QED
        BY <3>1, <3>2
    <2> QED
      BY <2>1, <2>3
  <1>2. PoolClear'
    BY DEF ClearInv, PoolClear, Pool, Ahead, Clear
  <1>3. OnlyOverlookedDuplicate'
    BY DEF ClearInv, OnlyOverlookedDuplicate
  <1>4. \A id \in ID : Clear(id) => Clear(id)'
    BY DEF Clear
  <1> QED
    BY <1>1, <1>2, <1>3, <1>4

\* What the db sends with BOOT is clear, as it was in the pool.
LEMMA QueryBootClear ==
    ASSUME FullInv, NEW c \in Core, QueryBoot(c)
    PROVE  ClearInv'
  <1> DEFINE range == GetRange(m_listData)
             rest  == AfterGetRange(m_listData)
             spare == GetRange(rest)
  <1>0. /\ TypeOK /\ ClearInv /\ Link(c)
        /\ BookClear(c) /\ CurrentClear(c) /\ DroppedInv(c)
        /\ m_listData \in Seq(IDRange)
        /\ toDB[c] \in Seq({"BOOT", "REQ_SPARE_ITEM_ID_RANGE"})
        /\ m_itemRange \in [Core -> Slot] /\ m_itemSpareRange \in [Core -> Slot]
    BY DEF FullInv, IInv, LinkInv, ClearInv, TypeOK, Slot
  <1>1. /\ m_listData' = AfterGetRange(rest)
        /\ m_itemRange'[c] = IF range = None THEN m_itemRange[c] ELSE range
        /\ m_itemSpareRange'[c] = IF spare = None THEN m_itemSpareRange[c] ELSE spare
        /\ toDB[c] # <<>> /\ Head(toDB[c]) = "BOOT" /\ c \in connected
        /\ UNCHANGED <<connected, core, place, overlooked, duplicated, dropped,
                       m_dwCurrentID, m_ItemIDRange>>
    BY <1>0 DEF QueryBoot, itemVars, histVars
  <1>2. /\ rest \in Seq(IDRange) /\ Pool(rest) \subseteq Pool(m_listData)
        /\ range # None => range \in Pool(m_listData)
    BY <1>0, GetRangeFacts, GetRangePool
  <1> HIDE DEF range, rest
  <1>3. /\ Pool(m_listData') \subseteq Pool(m_listData)
        /\ spare # None => spare \in Pool(m_listData)
    BY <1>1, <1>2, GetRangePool
  <1> HIDE DEF spare
  <1>4. Others(c)
    BY <1>0, StepOthers DEF DBStep
  <1>5. /\ OnCoreInv' /\ PoolClear' /\ OnlyOverlookedDuplicate'
        /\ overlooked \subseteq overlooked'
        /\ \A id \in ID : Clear(id) => Clear(id)'
    <2>1. /\ m_itemRange'[c] \in
               Pool(m_listData) \cup {m_itemRange[c], m_itemSpareRange[c], None}
          /\ m_itemSpareRange'[c] \in
               Pool(m_listData) \cup {m_itemRange[c], m_itemSpareRange[c], None}
      BY <1>1, <1>2, <1>3
    <2> QED
      BY <1>0, <1>1, <1>3, <1>4, <2>1, BooksMove
  <1>6. c \notin dropped
    <2>1. 1 \in 1 .. Len(toDB[c]) /\ toDB[c][1] = "BOOT"
      BY <1>0, <1>1
    <2> QED
      BY <1>0, <2>1 DEF DroppedInv
  <1>7. core[c] # "run"
    BY <1>0, <1>1, <1>6 DEF Link, Agree
  <1>8. core[c] = "boot" => m_itemRange[c] = None /\ m_itemSpareRange[c] = None
    BY <1>0, <1>1, <1>6 DEF Link, Booting
  <1>9. \A r \in Pool(m_listData) \cup {None} : \A id \in Ahead(r) : Clear(id)
    <2>1. Ahead(None) = {}
      BY IdsFacts, NoneFacts
    <2> QED
      BY <1>0, <2>1 DEF ClearInv, PoolClear
  <1>10. BookClear(c)'
    <2> SUFFICES ASSUME core[c] = "boot" PROVE BookClear(c)'
      BY <1>1, <1>7 DEF BookClear
    <2>1. /\ m_itemRange'[c] \in Pool(m_listData) \cup {None}
          /\ m_itemSpareRange'[c] \in Pool(m_listData) \cup {None}
      BY <1>1, <1>2, <1>3, <1>8
    <2> QED
      BY <1>5, <1>9, <2>1 DEF BookClear, Ahead
  <1>11. CurrentClear(c)'
    BY <1>1, <1>7 DEF CurrentClear
  <1>12. DroppedInv(c)'
    BY <1>1, <1>6 DEF DroppedInv
  <1> QED
    BY <1>0, <1>4, <1>5, <1>10, <1>11, <1>12, OneCoreStep, GiveIDs

\* So is a new spare range; and a core that outlived its connection gets none.
LEMMA SendSpareClear ==
    ASSUME FullInv, NEW c \in Core, SendSpareItemIDRange(c)
    PROVE  ClearInv'
  <1> DEFINE spare == GetRange(m_listData)
             rest  == AfterGetRange(m_listData)
  <1>0. /\ TypeOK /\ ClearInv /\ Link(c) /\ IInv
        /\ BookClear(c) /\ CurrentClear(c) /\ DroppedInv(c)
        /\ m_listData \in Seq(IDRange)
        /\ toDB[c] \in Seq({"BOOT", "REQ_SPARE_ITEM_ID_RANGE"})
        /\ toCore[c] \in Seq([range : Slot, spare : Slot])
        /\ m_itemRange \in [Core -> Slot] /\ m_itemSpareRange \in [Core -> Slot]
    BY DEF FullInv, IInv, LinkInv, ClearInv, TypeOK, Slot
  <1>1. /\ c \in connected /\ toDB[c] # <<>>
        /\ Head(toDB[c]) = "REQ_SPARE_ITEM_ID_RANGE"
        /\ toDB'[c] = Tail(toDB[c])
        /\ toCore'[c] = IF core[c] = "off" THEN toCore[c]
               ELSE Append(toCore[c], [range |-> None, spare |-> m_itemSpareRange'[c]])
        /\ UNCHANGED <<connected, core, place, overlooked, duplicated, dropped,
                       m_dwCurrentID, m_ItemIDRange, m_ItemIDSpareRange>>
    BY <1>0 DEF SendSpareItemIDRange, itemVars, histVars, TypeOK
  <1>2. m_itemSpareRange[c] = None => UNCHANGED poolVars
    BY DEF SendSpareItemIDRange
  <1>3. m_itemSpareRange[c] # None =>
           /\ m_itemRange'[c] = m_itemSpareRange[c]
           /\ m_itemSpareRange'[c] = spare
           /\ m_listData' = rest
    BY <1>0 DEF SendSpareItemIDRange
  <1>4. /\ Pool(rest) \subseteq Pool(m_listData)
        /\ spare # None => spare \in Pool(m_listData)
    BY <1>0, GetRangePool
  <1> HIDE DEF spare, rest
  <1>5. Others(c)
    BY <1>0, StepOthers DEF DBStep
  <1>6. /\ OnCoreInv' /\ PoolClear' /\ OnlyOverlookedDuplicate'
        /\ overlooked \subseteq overlooked'
        /\ \A id \in ID : Clear(id) => Clear(id)'
    <2>1. /\ Pool(m_listData') \subseteq Pool(m_listData)
          /\ m_itemRange'[c] \in
               Pool(m_listData) \cup {m_itemRange[c], m_itemSpareRange[c], None}
          /\ m_itemSpareRange'[c] \in
               Pool(m_listData) \cup {m_itemRange[c], m_itemSpareRange[c], None}
      BY <1>2, <1>3, <1>4 DEF poolVars
    <2> QED
      BY <1>0, <1>1, <1>5, <2>1, BooksMove
  <1>7. BookClear(c)'
    <2> SUFFICES ASSUME c \notin dropped, core[c] \in {"boot", "run"}
                 PROVE  BookClear(c)'
      BY <1>1 DEF BookClear
    <2>1. core[c] = "run"
      BY <1>0, <1>1 DEF Link, Booting
    <2>2. m_itemSpareRange[c] # None
      <3>1. m_ItemIDRange[c] = m_itemSpareRange[c]
        BY <1>0, <1>1, <2>1 DEF Link, Agree
      <3> QED
        BY <1>0, <2>1, <3>1, NoneFacts DEF IInv, CurrentInv
    <2>3. m_itemSpareRange'[c] \in Pool(m_listData) \cup {None}
      BY <1>3, <1>4, <2>2
    <2>4. Ahead(None) = {}
      BY IdsFacts, NoneFacts
    <2>5. \A id \in Ahead(m_itemSpareRange'[c]) : Clear(id)
      BY <1>0, <2>3, <2>4 DEF ClearInv, PoolClear
    <2> QED
      BY <1>1, <1>6, <2>1, <2>5 DEF BookClear, Ahead
  <1>8. CurrentClear(c)'
    BY <1>0, <1>1, <1>6 DEF CurrentClear
  <1>9. DroppedInv(c)'
    <2> SUFFICES ASSUME c \in dropped PROVE DroppedInv(c)'
      BY <1>1 DEF DroppedInv
    <2>1. /\ m_itemRange'[c] = None /\ m_itemSpareRange'[c] = None
      BY <1>0, <1>2 DEF DroppedInv, poolVars
    <2>2. core[c] # "boot"
      BY <1>0, <1>1 DEF DroppedInv
    <2>3. \A k \in 1 .. Len(toDB'[c]) : toDB'[c][k] # "BOOT"
      <3>1. /\ Len(toDB[c]) \in Nat
            /\ Len(toDB'[c]) = Len(toDB[c]) - 1
            /\ \A k \in 1 .. Len(toDB[c]) - 1 : toDB'[c][k] = toDB[c][k + 1]
        BY <1>0, <1>1, TailFacts, SeqFacts
      <3>2. \A k \in 1 .. Len(toDB[c]) - 1 : k + 1 \in 1 .. Len(toDB[c])
        BY <3>1
      <3> QED
        BY <1>0, <3>1, <3>2 DEF DroppedInv
    <2>4. \A k \in 1 .. Len(toCore'[c]) : toCore'[c][k].spare = None
      <3> DEFINE e == [range |-> None, spare |-> None]
      <3>1. CASE core[c] = "off"
        BY <1>0, <1>1, <3>1 DEF DroppedInv
      <3>2. CASE core[c] # "off"
        <4>1. toCore'[c] = Append(toCore[c], e)
          BY <1>1, <2>1, <3>2
        <4>2. e \in [range : Slot, spare : Slot] /\ e.spare = None
          BY NoneFacts
        <4> HIDE DEF e
        <4>3. /\ Len(toCore'[c]) = Len(toCore[c]) + 1 /\ Len(toCore[c]) \in Nat
              /\ \A k \in 1 .. Len(toCore[c]) : toCore'[c][k] = toCore[c][k]
              /\ toCore'[c][Len(toCore[c]) + 1] = e
          BY <1>0, <4>1, <4>2
        <4>4. \A k \in 1 .. Len(toCore[c]) : toCore[c][k].spare = None
          BY <1>0 DEF DroppedInv
        <4>5. ASSUME NEW k \in 1 .. Len(toCore'[c])
              PROVE  toCore'[c][k].spare = None
          <5>1. CASE k \in 1 .. Len(toCore[c])
            BY <4>3, <4>4, <5>1
          <5>2. CASE k \notin 1 .. Len(toCore[c])
            <6>1. k = Len(toCore[c]) + 1
              BY <4>3, <5>2
            <6> QED
              BY <4>2, <4>3, <6>1
          <5> QED
            BY <5>1, <5>2
        <4> QED
          BY <4>5
      <3> QED
        BY <3>1, <3>2
    <2> QED
      BY <1>0, <1>1, <2>1, <2>2, <2>3, <2>4 DEF DroppedInv, Ids
  <1> QED
    BY <1>0, <1>5, <1>6, <1>7, <1>8, <1>9, OneCoreStep, GiveIDs


\* What OnClose puts back starts above every id it can see in use; the others
\* are overlooked.
LEMMA ReturnedClear ==
    ASSUME FullInv, NEW c \in Core, RemovePeer(c), NEW ok \in BOOLEAN \X BOOLEAN,
           NEW r \in {m_itemRange[c], m_itemSpareRange[c]},
           Returned(c, r, ok) # None
    PROVE  /\ Ids(Returned(c, r, ok)) = Ids(r)
           /\ \A id \in Ids(r) : place[id].in = "core" => id \in overlooked'
           /\ \A id \in Ahead(Returned(c, r, ok)) : Clear(id)'
  <1> DEFINE s == Returned(c, r, ok)
  <1>0. /\ r \in Slot /\ ClearInv /\ place \in [ID -> Place]
    BY DEF FullInv, IInv, TypeOK, Slot
  <1>1. /\ s \in Slot /\ r # None /\ s.min = r.min /\ s.max = r.max
        /\ \A id \in s.usable .. r.max : id \notin InTable /\ id \notin CachedAt(c)
    <2>1. r \in Slot
      BY <1>0
    <2>2. /\ Returned(c, r, ok) \in Slot
          /\ Returned(c, r, ok) # None =>
                 /\ r # None
                 /\ Returned(c, r, ok).min = r.min
                 /\ Returned(c, r, ok).max = r.max
                 /\ \A id \in Returned(c, r, ok).usable .. r.max :
                       id \notin InTable /\ id \notin CachedAt(c)
      BY <2>1, ReturnedFacts
    <2> QED
      BY <2>2
  <1> HIDE DEF s
  <1>2. Ids(s) = Ids(r)
    BY <1>1 DEF Ids
  <1>3. Overlooked(c, r) \subseteq overlooked' /\ overlooked \subseteq overlooked'
    BY DEF RemovePeer
  <1>4. \A id \in Ids(r) : place[id].in = "core" => id \in overlooked'
    <2> SUFFICES ASSUME NEW id \in Ids(r), place[id].in = "core"
                 PROVE  id \in overlooked'
      OBVIOUS
    <2>1. id \in ID
      BY DEF Ids
    <2>2. CASE place[id].at = c
      <3>1. core[c] # "off"
        BY <1>0, <2>1, <2>2 DEF ClearInv, OnCoreInv
      <3> QED
        BY <1>3, <3>1 DEF Overlooked, Ids
    <2>3. CASE place[id].at # c
      <3>1. id \in overlooked
        BY <1>0, <2>1, <2>3 DEF ClearInv, OnCoreInv
      <3> QED
        BY <1>3, <3>1
    <2> QED
      BY <2>2, <2>3
  <1>5. \A id \in Ahead(s) : Clear(id)'
    <2> SUFFICES ASSUME NEW id \in Ahead(s), place'[id].in # "none"
                 PROVE  id \in overlooked'
      BY DEF Clear
    <2>1. id \in ID /\ id \in Ids(r) /\ id \in s.usable .. r.max
      BY <1>1, <1>2, IdsFacts DEF Ahead
    <2>2. place'[id].in = place[id].in
      BY <2>1 DEF RemovePeer, At
    <2>3. place[id].in # "table"
      BY <1>1, <2>1 DEF InTable
    <2>4. place[id] # At("cache", c)
      BY <1>1, <2>1 DEF CachedAt
    <2>5. place[id] \in Place
      BY <1>0, <2>1
    <2>6. \/ place[id].in = "core" \/ place[id].in = "queue"
          \/ place[id].in = "cache" /\ place[id].at # c
      BY <2>2, <2>3, <2>4, <2>5 DEF Place, At
    <2>7. CASE place[id].in = "queue" \/ (place[id].in = "cache" /\ place[id].at # c)
      BY <1>3, <2>1, <2>7 DEF Overlooked, Ids
    <2> QED
      BY <1>4, <2>1, <2>6, <2>7
  <1> QED
    BY <1>2, <1>4, <1>5 DEF s

\* The peer goes: its books are back in the pool, or nowhere.
LEMMA RemovePeerClear ==
    ASSUME FullInv, NEW c \in Core, RemovePeer(c)
    PROVE  ClearInv'
  <1>0. /\ TypeOK /\ ClearInv /\ Link(c) /\ IInv
        /\ BookClear(c) /\ CurrentClear(c) /\ DroppedInv(c)
        /\ m_listData \in Seq(IDRange)
        /\ m_itemRange \in [Core -> Slot] /\ m_itemSpareRange \in [Core -> Slot]
        /\ place \in [ID -> Place]
    BY DEF FullInv, IInv, LinkInv, ClearInv, TypeOK, Slot
  <1>1. PICK ok \in BOOLEAN \X BOOLEAN :
          m_listData' = PushFront(Returned(c, m_itemRange[c], ok),
                          PushFront(Returned(c, m_itemSpareRange[c], ok), m_listData))
    BY DEF RemovePeer
  <1> DEFINE r1 == Returned(c, m_itemRange[c], ok)
             r2 == Returned(c, m_itemSpareRange[c], ok)
             mid == PushFront(r2, m_listData)
  <1>2. r1 \in Slot /\ r2 \in Slot
    <2>1. m_itemRange[c] \in Slot /\ m_itemSpareRange[c] \in Slot
      BY <1>0
    <2>2. \A r \in Slot : Returned(c, r, ok) \in Slot
      BY ReturnedFacts
    <2> QED
      BY <2>1, <2>2
  <1>3. /\ mid \in Seq(IDRange)
        /\ Pool(mid) \subseteq Pool(m_listData) \cup ({r2} \ {None})
    BY <1>0, <1>2, PushFrontFacts, PushFrontPool
  <1>4. Pool(m_listData') \subseteq Pool(mid) \cup ({r1} \ {None})
    <2>1. m_listData' = PushFront(r1, mid)
      BY <1>1
    <2> HIDE DEF r1, mid
    <2> QED
      BY <1>2, <1>3, <2>1, PushFrontPool
  <1>5. /\ r1 # None =>
             /\ Ids(r1) = Ids(m_itemRange[c])
             /\ \A id \in Ids(m_itemRange[c]) : place[id].in = "core" => id \in overlooked'
             /\ \A id \in Ahead(r1) : Clear(id)'
        /\ r2 # None =>
             /\ Ids(r2) = Ids(m_itemSpareRange[c])
             /\ \A id \in Ids(m_itemSpareRange[c]) :
                   place[id].in = "core" => id \in overlooked'
             /\ \A id \in Ahead(r2) : Clear(id)'
    BY ReturnedClear
  <1> HIDE DEF r1, r2, mid
  <1>6. /\ m_itemRange'[c] = None /\ m_itemSpareRange'[c] = None
        /\ toDB'[c] = <<>> /\ toCore'[c] = <<>>
        /\ c \notin connected'
        /\ dropped' = IF core[c] = "off" THEN dropped ELSE dropped \cup {c}
        /\ overlooked' = overlooked \cup Overlooked(c, m_itemRange[c])
                           \cup Overlooked(c, m_itemSpareRange[c])
        /\ UNCHANGED <<core, duplicated, m_dwCurrentID, m_ItemIDRange,
                       m_ItemIDSpareRange>>
    BY <1>0 DEF RemovePeer, itemVars, TypeOK
  <1>7. \A id \in ID :
           /\ place'[id].in = place[id].in
           /\ place[id].in = "core" => place'[id] = place[id]
    BY <1>0 DEF RemovePeer, At
  <1>8. Others(c)
    BY <1>0, StepOthers DEF DBStep
  <1>9. overlooked \subseteq overlooked'
    BY <1>6
  <1>10. \A id \in ID : Clear(id) => Clear(id)'
    BY <1>7, <1>9 DEF Clear
  <1>11. OnCoreInv'
    <2> SUFFICES ASSUME NEW id \in ID, place'[id].in = "core"
                 PROVE  /\ place'[id].at \in Core
                        /\ core'[place'[id].at] # "off"
                        /\ id \notin overlooked' =>
                             /\ \A r \in Pool(m_listData') : id \notin Ids(r)
                             /\ \A d \in Core \ {place'[id].at} :
                                  id \notin Ids(m_itemRange'[d]) \cup Ids(m_itemSpareRange'[d])
      BY DEF OnCoreInv, Pool, Ids
    <2>1. place[id].in = "core" /\ place'[id] = place[id]
      BY <1>7
    <2>2. /\ place[id].at \in Core
          /\ core[place[id].at] # "off"
          /\ id \notin overlooked =>
                /\ \A r \in Pool(m_listData) : id \notin Ids(r)
                /\ \A d \in Core \ {place[id].at} :
                      id \notin Ids(m_itemRange[d]) \cup Ids(m_itemSpareRange[d])
      BY <1>0, <2>1 DEF ClearInv, OnCoreInv
    <2>3. ASSUME id \notin overlooked', NEW r \in Pool(m_listData')
          PROVE  id \notin Ids(r)
      <3>1. r \in Pool(m_listData) \/ (r = r1 /\ r1 # None) \/ (r = r2 /\ r2 # None)
        BY <1>3, <1>4
      <3> QED
        BY <1>5, <1>9, <2>1, <2>2, <2>3, <3>1
    <2>4. ASSUME id \notin overlooked', NEW d \in Core \ {place[id].at}
          PROVE  id \notin Ids(m_itemRange'[d]) \cup Ids(m_itemSpareRange'[d])
      <3>1. CASE d = c
        <4>1. Ids(None) = {}
          BY IdsFacts, NoneFacts
        <4> QED
          BY <1>6, <3>1, <4>1
      <3>2. CASE d # c
        BY <1>8, <1>9, <2>2, <2>4, <3>2 DEF Others
      <3> QED
        BY <3>1, <3>2
    <2> QED
      BY <1>6, <2>1, <2>2, <2>3, <2>4
  <1>12. PoolClear'
    <2> SUFFICES ASSUME NEW r \in Pool(m_listData'), NEW id \in Ahead(r)
                 PROVE  Clear(id)'
      BY DEF PoolClear, Pool, Ahead
    <2>1. r \in Pool(m_listData) \/ (r = r1 /\ r1 # None) \/ (r = r2 /\ r2 # None)
      BY <1>3, <1>4
    <2>2. CASE r \in Pool(m_listData)
      BY <1>0, <1>10, <2>2 DEF ClearInv, PoolClear, Ahead
    <2> QED
      BY <1>5, <2>1, <2>2
  <1>13. OnlyOverlookedDuplicate'
    BY <1>0, <1>6 DEF ClearInv, OnlyOverlookedDuplicate
  <1>14. BookClear(c)'
    BY <1>6 DEF BookClear
  <1>15. CurrentClear(c)'
    BY <1>0, <1>6, <1>10 DEF CurrentClear
  <1>16. DroppedInv(c)'
    <2>1. ASSUME core[c] = "run", NEW id \in Ids(m_ItemIDRange[c]) \cup Ids(m_ItemIDSpareRange[c])
          PROVE  id \in overlooked'
      <3>1. \/ id \in overlooked
            \/ id \in Ids(m_itemRange[c]) \cup Ids(m_itemSpareRange[c])
        BY <1>0, <2>1, CoreHasBooks
      <3>2. CASE id \in Ids(m_itemRange[c]) \cup Ids(m_itemSpareRange[c])
        BY <1>6, <2>1, <3>2 DEF Overlooked, Ids
      <3> QED
        BY <1>9, <3>1, <3>2
    <2>2. core[c] = "run" =>
             Ids(m_ItemIDRange'[c]) \cup Ids(m_ItemIDSpareRange'[c]) \subseteq overlooked'
      BY <1>6, <2>1
    <2>3. /\ \A k \in 1 .. Len(toDB'[c]) : toDB'[c][k] # "BOOT"
          /\ \A k \in 1 .. Len(toCore'[c]) : toCore'[c][k].spare = None
      BY <1>6
    <2> QED
      BY <1>6, <2>2, <2>3 DEF DroppedInv, Ids
  <1> QED
    BY <1>0, <1>8, <1>9, <1>10, <1>11, <1>12, <1>13, <1>14, <1>15, <1>16,
       OneCoreStep, GiveIDs

\* Items that move leave a core, but come to none, and keep their ids in use.
LEMMA ItemStepClear ==
    ASSUME FullInv, ItemStep
    PROVE  ClearInv'
  <1>0. TypeOK /\ ClearInv
    BY DEF FullInv, IInv
  <1>1. UNCHANGED <<poolVars, connected, toDB, toCore, core, itemVars, histVars>>
    BY <1>0, ItemStepMoves
  <1>2. ASSUME NEW x \in ID, NEW from, NEW to, Move(x, from, to),
               from.in # "none", to.in # "core"
        PROVE  \A id \in ID : /\ place'[id].in = "core" => place'[id] = place[id]
                              /\ place'[id].in # "none" => place[id].in # "none"
    <2>1. place' = [place EXCEPT ![x] = to] /\ place[x] = from
      BY <1>2 DEF Move
    <2>2. \A id \in ID : place'[id] = IF id = x THEN to ELSE place[id]
      BY <1>0, <2>1 DEF TypeOK
    <2> QED
      BY <1>2, <2>1, <2>2
  <1>3. \E x \in ID : \E from, to \in Place :
           Move(x, from, to) /\ from.in # "none" /\ to.in # "core"
    <2>1. PICK x \in ID :
             \/ \E c \in Core : SaveItem(c, x) \/ Logout(c, x) \/ Logon(c, x)
             \/ FlushItem(x)
             \/ Execute(x)
      BY DEF ItemStep
    <2>2. \A in \in {"none", "core", "cache", "queue", "table"},
             at \in Core \cup {NoCore} :
               At(in, at) \in Place /\ At(in, at).in = in
      BY DEF At, Place
    <2>3. CASE \E c \in Core : SaveItem(c, x) \/ Logout(c, x) \/ Logon(c, x)
      BY <2>2, <2>3 DEF SaveItem, Logout, Logon
    <2>4. CASE FlushItem(x)
      BY <2>2, <2>4 DEF FlushItem
    <2>5. CASE Execute(x)
      BY <2>2, <2>5 DEF Execute
    <2> QED
      BY <2>1, <2>3, <2>4, <2>5
  <1>4. \A id \in ID : /\ place'[id].in = "core" => place'[id] = place[id]
                       /\ place'[id].in # "none" => place[id].in # "none"
    BY <1>2, <1>3
  <1>5. UNCHANGED <<m_listData, m_itemRange, m_itemSpareRange, connected, toDB,
                    toCore, core, m_dwCurrentID, m_ItemIDRange,
                    m_ItemIDSpareRange, dropped, overlooked, duplicated>>
    BY <1>1 DEF poolVars, itemVars, histVars
  <1>6. \A id \in ID : Clear(id) => Clear(id)'
    BY <1>4, <1>5 DEF Clear
  <1>7. OnCoreInv'
    <2> SUFFICES ASSUME NEW id \in ID, place'[id].in = "core"
                 PROVE  /\ place'[id].at \in Core
                        /\ core[place'[id].at] # "off"
                        /\ id \notin overlooked =>
                             /\ \A r \in Pool(m_listData) : id \notin Ids(r)
                             /\ \A d \in Core \ {place'[id].at} :
                                  id \notin Ids(m_itemRange[d]) \cup Ids(m_itemSpareRange[d])
      BY <1>5 DEF OnCoreInv, Pool, Ids
    <2>1. place'[id] = place[id]
      BY <1>4
    <2> QED
      BY <1>0, <2>1 DEF ClearInv, OnCoreInv
  <1>8. PoolClear'
    BY <1>0, <1>5, <1>6 DEF ClearInv, PoolClear, Pool, Ahead
  <1>9. OnlyOverlookedDuplicate'
    BY <1>0, <1>5 DEF ClearInv, OnlyOverlookedDuplicate
  <1>10. \A d \in Core : BookClear(d)' /\ CurrentClear(d)' /\ DroppedInv(d)'
    <2> SUFFICES ASSUME NEW d \in Core
                 PROVE  BookClear(d)' /\ CurrentClear(d)' /\ DroppedInv(d)'
      OBVIOUS
    <2>1. BookClear(d) /\ CurrentClear(d) /\ DroppedInv(d)
      BY <1>0 DEF ClearInv
    <2>2. \A id \in CanGive(d) : Clear(id) => Clear(id)'
      BY <1>6, GiveIDs
    <2> QED
      BY <1>5, <2>1, <2>2, CoreClearFrame
  <1> QED
    BY <1>7, <1>8, <1>9, <1>10 DEF ClearInv

\* Every step keeps ClearInv.
LEMMA StepClear == FullInv /\ [Next]_vars => ClearInv'
  <1> SUFFICES ASSUME FullInv, [Next]_vars PROVE ClearInv'
    OBVIOUS
  <1>1. ASSUME NEW c \in Core, CoreStep(c) PROVE ClearInv'
    BY <1>1, QuietCoreStep, ExitClear, NewIDClear, NewIDFromSpareClear DEF CoreStep
  <1>2. ASSUME NEW c \in Core, DBStep(c) PROVE ClearInv'
    BY <1>2, QueryBootClear, SendSpareClear, RemovePeerClear DEF DBStep
  <1>3. CASE ItemStep
    BY <1>3, ItemStepClear
  <1>4. CASE UNCHANGED vars
    BY <1>4 DEF vars, poolVars, itemVars, histVars, FullInv, ClearInv, OnCoreInv,
       PoolClear, BookClear, CurrentClear, DroppedInv, OnlyOverlookedDuplicate,
       Clear, Pool, Ids, Ahead
  <1> QED
    BY <1>1, <1>2, <1>3, <1>4 DEF Next

\* Every id the pool, a peer or a core can still give out is free, or was
\* overlooked when its range was returned.
THEOREM ClearInvHolds == Spec => []ClearInv
  <1>1. Init => FullInv
    BY InitIInv, InitClear DEF FullInv
  <1>2. FullInv /\ [Next]_vars => FullInv'
    BY StepTypeOK, StepCurrentInv, StepBooks, StepLinkInv, StepClear
       DEF FullInv, IInv
  <1>3. FullInv => ClearInv
    BY DEF FullInv
  <1> QED
    BY <1>1, <1>2, <1>3, PTL DEF Spec

\* An id is given twice only if OnClose returned its range without looking
\* where it was in use, however cores boot, exhaust their ranges, crash, lose
\* their connections and come back.
THEOREM DuplicatesAreOverlooked == Spec => []OnlyOverlookedDuplicate
  <1>1. ClearInv => OnlyOverlookedDuplicate
    BY DEF ClearInv
  <1> QED
    BY ClearInvHolds, <1>1, PTL

=============================================================================
