---------------------------- MODULE SnapshotProofs --------------------------
(***************************************************************************)
(* What Snapshot promises, for any interfaces, clients, neighbour entries  *)
(* and datagrams.                                                          *)
(***************************************************************************)
EXTENDS Snapshot, ListFacts

-----------------------------------------------------------------------------
(* Parsing: the blocks that a tool printed are read back, in any order.    *)

LEMMA LineParts ==
    \A key, value : Line(key, value).key = key /\ Line(key, value).value = value
BY DEF Line

\* A field that follows the header of its block is that field's.
LEMMA FieldNext ==
    ASSUME NEW out, NEW n \in Nat, Len(out) = 2 * n, NEW k \in 1 .. n,
           NEW key, key \notin Headers, out[2 * k].key = key, NEW default,
           \A j \in 1 .. n : out[2 * j - 1].key \in Headers
    PROVE  Field(out, 2 * k - 1, key, default) = out[2 * k].value
<1> DEFINE h == 2 * k - 1
           mine == {x \in h + 1 .. Len(out) :
                       /\ out[x].key = key
                       /\ \A l \in h + 1 .. x : out[l].key \notin Headers}
<1>1. 2 * k \in mine
  OBVIOUS
<1>2. ASSUME NEW x \in mine PROVE x = 2 * k
  <2>1. SUFFICES ASSUME x > 2 * k PROVE FALSE
    OBVIOUS
  <2>2. k + 1 \in 1 .. n /\ 2 * (k + 1) - 1 \in h + 1 .. x
    BY <2>1
  <2> QED
    BY <2>2
<1>3. mine = {2 * k}
  BY <1>1, <1>2
<1>4. Max({2 * k}) = 2 * k
  BY DEF Max
<1> QED
  BY <1>3, <1>4 DEF Field

\* A header that follows at once leaves nothing in the block.
LEMMA FieldMissing ==
    ASSUME NEW out, NEW n \in Nat, Len(out) = n,
           NEW h \in 1 .. n, NEW key, NEW default,
           h + 1 \in 1 .. n => out[h + 1].key \in Headers
    PROVE  Field(out, h, key, default) = default
<1> DEFINE mine == {k \in h + 1 .. Len(out) :
                       /\ out[k].key = key
                       /\ \A l \in h + 1 .. k : out[l].key \notin Headers}
<1>1. mine = {}
  <2> SUFFICES ASSUME NEW k \in mine PROVE FALSE
    OBVIOUS
  <2>1. h + 1 \in h + 1 .. k /\ h + 1 \in 1 .. n
    OBVIOUS
  <2> QED
    BY <2>1
<1> QED
  BY <1>1 DEF Field

\* parse_interfaces and is_ap find the access points, wherever iw put them.
LEMMA DevParsed ==
    ASSUME mode \in [Ifaces -> Modes], NEW out \in DevOutputs
    PROVE  AccessPoints(out) = {i \in Ifaces : mode[i] = "AP"}
<1> DEFINE Present == {j \in Ifaces : mode[j] # "gone"}
           Block(i) == <<Line("Interface", i), Line("type", mode[i])>>
           P2P == <<Line("Unnamed", "P2P"), Line("type", "P2P-device")>>
           named == {Block(i) : i \in Present}
           blocks == named \cup {P2P}
<1>1. IsFiniteSet(blocks)
  <2> DEFINE f == [i \in Present |-> Block(i)]
  <2>1. f \in Surjection(Present, named)
    BY DEF Surjection
  <2>2. IsFiniteSet(Present)
    BY SnapshotAssumption, FS_Subset
  <2> HIDE DEF f, Present, named, P2P
  <2>3. IsFiniteSet(named)
    BY <2>1, <2>2, FS_Surjection
  <2> QED
    BY <2>3, FS_AddElement
<1>2. PICK s \in SetToSeqs(blocks) : out = FlattenSeq(s)
  BY DEF DevOutputs
<1> DEFINE lines == {b[1] : b \in blocks} \cup {b[2] : b \in blocks}
           n == Len(s)
<1>3. blocks \subseteq Seq(lines) /\ \A b \in blocks : Len(b) = 2
  <2> SUFFICES ASSUME NEW b \in blocks PROVE b \in Seq(lines) /\ Len(b) = 2
    OBVIOUS
  <2>1. b = <<b[1], b[2]>>
    OBVIOUS
  <2>2. b[1] \in lines /\ b[2] \in lines
    OBVIOUS
  <2> HIDE DEF lines, blocks
  <2>3. ASSUME NEW x \in lines, NEW y \in lines
        PROVE  <<x, y>> \in Seq(lines) /\ Len(<<x, y>>) = 2
    OBVIOUS
  <2>4. <<b[1], b[2]>> \in Seq(lines) /\ Len(<<b[1], b[2]>>) = 2
    BY <2>2, <2>3
  <2> QED
    BY <2>1, <2>4, Zenon
<1>4. /\ s \in Seq(blocks)
      /\ \A b \in blocks : \E k \in 1 .. n : s[k] = b
  <2> HIDE DEF blocks
  <2> QED
    BY <1>1, SeqsCover
<1>5. n \in Nat /\ \A k \in 1 .. n : s[k] \in blocks
  BY <1>4
<1>6. /\ Len(out) = 2 * n /\ DOMAIN out = 1 .. 2 * n
      /\ \A k \in 1 .. n : out[2 * k - 1] = s[k][1] /\ out[2 * k] = s[k][2]
      /\ \A m \in 1 .. 2 * n : /\ Half(m) \in 1 .. n
                               /\ m \in {2 * Half(m) - 1, 2 * Half(m)}
  <2> HIDE DEF blocks, lines
  <2>1. s \in Seq(Seq(lines)) /\ \A k \in DOMAIN s : Len(s[k]) = 2
    BY <1>3, <1>4, <1>5
  <2>2. out \in Seq(lines)
    BY <1>2, <2>1, PairsLines
  <2> QED
    BY <1>2, <2>1, <2>2, PairsLines
<1>7. ASSUME NEW k \in 1 .. n
      PROVE  /\ out[2 * k - 1].key \in Headers
             /\ out[2 * k].key = "type"
             /\ out[2 * k - 1].key = "Interface" =>
                   \E i \in Present : s[k] = Block(i)
  <2>1. CASE s[k] = P2P
    <3>1. out[2 * k - 1].key = "Unnamed" /\ out[2 * k].key = "type"
      BY <1>6, <2>1, LineParts
    <3> QED
      BY <3>1 DEF Headers
  <2>2. CASE \E i \in Present : s[k] = Block(i)
    <3>1. out[2 * k - 1].key = "Interface" /\ out[2 * k].key = "type"
      BY <1>6, <2>2, LineParts
    <3> QED
      BY <2>2, <3>1 DEF Headers
  <2> QED
    BY <1>5, <2>1, <2>2
<1>8. ASSUME NEW k \in 1 .. n
      PROVE  Field(out, 2 * k - 1, "type", "") = out[2 * k].value
  <2>1. "type" \notin Headers
    BY DEF Headers
  <2>2. n \in Nat /\ Len(out) = 2 * n
    BY <1>5, <1>6
  <2>3. out[2 * k].key = "type" /\ \A j \in 1 .. n : out[2 * j - 1].key \in Headers
    BY <1>7
  <2> HIDE DEF n, blocks
  <2> QED
    BY <2>1, <2>2, <2>3, FieldNext, ZenonT(30)
<1>9. ASSUME NEW i \in Ifaces, mode[i] = "AP" PROVE i \in AccessPoints(out)
  <2>1. Block(i) \in blocks
    BY <1>9
  <2>2. PICK k \in 1 .. n : s[k] = Block(i)
    BY <1>4, <2>1
  <2>3. /\ 2 * k - 1 \in DOMAIN out
        /\ out[2 * k - 1].key = "Interface" /\ out[2 * k - 1].value = i
        /\ out[2 * k].value = "AP"
    BY <1>5, <1>6, <1>9, <2>2, LineParts
  <2> HIDE DEF n
  <2>4. Field(out, 2 * k - 1, "type", "") = "AP"
    BY <1>8, <2>3
  <2> QED
    BY <2>3, <2>4 DEF AccessPoints
<1>10. ASSUME NEW i \in AccessPoints(out) PROVE i \in Ifaces /\ mode[i] = "AP"
  <2>1. PICK h \in DOMAIN out : /\ out[h].value = i /\ out[h].key = "Interface"
                                /\ Field(out, h, "type", "") = "AP"
    BY DEF AccessPoints
  <2> DEFINE k == Half(h)
  <2>2. k \in 1 .. n /\ h \in {2 * k - 1, 2 * k}
    BY <1>6
  <2> HIDE DEF k, n
  <2>3. h = 2 * k - 1
    BY <1>7, <2>1, <2>2
  <2>4. PICK j \in Present : s[k] = Block(j)
    BY <1>7, <2>1, <2>2, <2>3
  <2>5. out[2 * k].value = "AP"
    BY <1>8, <2>1, <2>2, <2>3
  <2>6. out[2 * k].value = mode[j] /\ out[h].value = j
    BY <1>6, <2>2, <2>3, <2>4, LineParts
  <2> QED
    BY <2>1, <2>5, <2>6
<1> QED
  BY <1>9, <1>10

\* The stations of a dump are its blocks, each read once, whatever their order.
Shown(b, told) == [mac |-> b[1].value,
                   connected |-> IF told THEN b[2].value ELSE Untold]

LEMMA HeadsFound ==
    ASSUME NEW out, NEW n \in Nat, DOMAIN out = 1 .. n
    PROVE  LET S == {k \in DOMAIN out : out[k].key = "Station"}
               f == Heads(out)
           IN /\ f \in Seq(S)
              /\ \A k \in S : \E j \in 1 .. Len(f) : f[j] = k
              /\ \A i, j \in 1 .. Len(f) : f[i] = f[j] => i = j
<1> DEFINE S == {k \in DOMAIN out : out[k].key = "Station"}
           R == {p \in Nat \X Nat : p[1] < p[2]}
           f == Heads(out)
<1>1. S \in SUBSET (1 .. n) /\ IsFiniteSet(S)
  <2>1. IsFiniteSet(1 .. n)
    BY FS_Interval
  <2>2. S \in SUBSET (1 .. n)
    OBVIOUS
  <2> HIDE DEF S
  <2> QED
    BY <2>1, <2>2, FS_Subset
<1>2. \A k, l \in S : <<k, l>> \in R <=> k < l
  BY <1>1
<1> HIDE DEF S, R
<1>3. StrictOrder(R, S)
  BY <1>1, <1>2 DEF StrictOrder
<1>4. \A k \in S : Cardinality({l \in S : l < k}) = Rk(R, S, k)
  <2> SUFFICES ASSUME NEW k \in S
               PROVE  {l \in S : l < k} = {l \in S : <<l, k>> \in R}
    BY DEF Rk
  <2> QED
    BY <1>2
<1>5. /\ f \in [1 .. Cardinality(S) -> S]
      /\ \A j \in 1 .. Cardinality(S) : Rk(R, S, f[j]) = j - 1
  <2> DEFINE N == Cardinality(S)
             Nth(j) == CHOOSE k \in S : Cardinality({l \in S : l < k}) = j - 1
  <2>1. f = [j \in 1 .. N |-> Nth(j)]
    BY DEF Heads, Ranked, S
  <2>2. ASSUME NEW j \in 1 .. N PROVE Nth(j) \in S /\ Rk(R, S, Nth(j)) = j - 1
    <3>1. j - 1 \in 0 .. N - 1
      BY <1>1, FS_CardinalityType
    <3>2. \E k \in S : Rk(R, S, k) = j - 1
      <4>1. IsFiniteSet(S)
        BY <1>1
      <4> HIDE DEF f, Nth
      <4>2. \A i \in 0 .. Cardinality(S) - 1 : \E k \in S : Rk(R, S, k) = i
        BY <4>1, <1>3, Ranks
      <4> QED
        BY <3>1, <4>2
    <3>3. \E k \in S : Cardinality({l \in S : l < k}) = j - 1
      BY <1>4, <3>2
    <3>4. Nth(j) \in S /\ Cardinality({l \in S : l < Nth(j)}) = j - 1
      BY <3>3
    <3> QED
      BY <1>4, <3>4
  <2> HIDE DEF Nth, N
  <2> QED
    BY <2>1, <2>2 DEF N
<1> HIDE DEF f
<1>6. /\ f \in Seq(S)
      /\ \A k \in S : \E j \in 1 .. Len(f) : f[j] = k
      /\ \A i, j \in 1 .. Len(f) : i < j <=> <<f[i], f[j]>> \in R
  <2>1. IsFiniteSet(S) /\ Cardinality(S) \in Nat
    BY <1>1, FS_CardinalityType
  <2>2. \A j \in 1 .. Cardinality(S) : Rk(R, S, f[j]) = j - 1
    BY <1>5
  <2>3. /\ f \in Seq(S) /\ Len(f) = Cardinality(S)
        /\ \A k \in S : \E j \in 1 .. Len(f) : f[j] = k
        /\ \A i, j \in 1 .. Len(f) : i < j <=> <<f[i], f[j]>> \in R
    BY <1>3, <1>5, <2>1, <2>2, RankedInOrder, Zenon
  <2> QED
    BY <2>3
<1>7. ASSUME NEW i \in 1 .. Len(f), NEW j \in 1 .. Len(f), f[i] = f[j] PROVE i = j
  <2>1. f[i] \in S /\ <<f[i], f[i]>> \notin R
    BY <1>3, <1>6 DEF StrictOrder
  <2>2. ~(i < j) /\ ~(j < i)
    BY <1>6, <1>7, <2>1
  <2> QED
    BY <1>6, <2>2
<1> QED
  BY <1>6, <1>7 DEF f, S

\* Told: whether the dump says how long a station has been connected.
\* HeadsAt: the k-th block begins at head[k], and is as it was printed.
HeadsAt(out, M, told, s, head) ==
    /\ M \in Nat /\ DOMAIN out = 1 .. M
    /\ head \in [1 .. Len(s) -> 1 .. M]
    /\ \A k \in 1 .. Len(s) :
          /\ out[head[k]].key = "Station"
          /\ out[head[k]].value = s[k][1].value
          /\ Field(out, head[k], "connected", Untold)
                = IF told THEN s[k][2].value ELSE Untold
    /\ \A p \in 1 .. M :
          out[p].key = "Station" => \E k \in 1 .. Len(s) : p = head[k]

LEMMA HeadsRead ==
    ASSUME NEW B, NEW s \in Seq(B),
           \A k, l \in 1 .. Len(s) : s[k][1].value = s[l][1].value => k = l,
           NEW out, NEW M, NEW told, NEW head, HeadsAt(out, M, told, s, head),
           NEW st, st = Stations(out)
    PROVE  /\ \E n \in Nat : DOMAIN st = 1 .. n
           /\ \A j \in DOMAIN st : \E k \in 1 .. Len(s) : st[j] = Shown(s[k], told)
           /\ \A k \in 1 .. Len(s) : \E j \in DOMAIN st : st[j] = Shown(s[k], told)
           /\ \A i, j \in DOMAIN st : st[i].mac = st[j].mac => i = j
<1> USE DEF HeadsAt
<1> DEFINE S == {k \in DOMAIN out : out[k].key = "Station"}
           f == Heads(out)
           n == Len(f)
<1>1. /\ f \in Seq(S)
      /\ \A k \in S : \E j \in 1 .. n : f[j] = k
      /\ \A i, j \in 1 .. n : f[i] = f[j] => i = j
  BY HeadsFound
<1>2. st = [j \in DOMAIN f |-> [mac |-> out[f[j]].value,
                                connected |-> Field(out, f[j], "connected", Untold)]]
  BY DEF Stations
<1> HIDE DEF f
<1>3. n \in Nat /\ DOMAIN f = 1 .. n
  BY <1>1
<1>4. DOMAIN st = 1 .. n
  BY <1>2, <1>3
<1>5. ASSUME NEW j \in 1 .. n, NEW k \in 1 .. Len(s), f[j] = head[k]
      PROVE  st[j] = Shown(s[k], told)
  BY <1>2, <1>3, <1>5 DEF Shown
<1>6. ASSUME NEW j \in 1 .. n PROVE \E k \in 1 .. Len(s) : f[j] = head[k]
  <2>1. f[j] \in S
    BY <1>1
  <2> QED
    BY <2>1
<1>7. ASSUME NEW k \in 1 .. Len(s) PROVE \E j \in 1 .. n : f[j] = head[k]
  <2>1. head[k] \in S
    OBVIOUS
  <2> HIDE DEF S
  <2> QED
    BY <1>1, <2>1
<1> HIDE DEF n
<1>8. ASSUME NEW i \in DOMAIN st, NEW j \in DOMAIN st, st[i].mac = st[j].mac
      PROVE  i = j
  <2>1. PICK k \in 1 .. Len(s) : f[i] = head[k]
    BY <1>4, <1>6
  <2>2. PICK l \in 1 .. Len(s) : f[j] = head[l]
    BY <1>4, <1>6
  <2>3. st[i] = Shown(s[k], told) /\ st[j] = Shown(s[l], told)
    BY <1>4, <1>5, <2>1, <2>2
  <2>4. s[k][1].value = s[l][1].value
    BY <1>8, <2>3 DEF Shown
  <2>5. f[i] = f[j]
    BY <1>8, <2>1, <2>2, <2>4
  <2> QED
    BY <1>1, <1>4, <2>5 DEF n
<1> QED
  <2>1. \E m \in Nat : DOMAIN st = 1 .. m
    BY <1>3, <1>4 DEF n
  <2>2. \A j \in DOMAIN st : \E k \in 1 .. Len(s) : st[j] = Shown(s[k], told)
    BY <1>4, <1>5, <1>6
  <2>3. \A k \in 1 .. Len(s) : \E j \in DOMAIN st : st[j] = Shown(s[k], told)
    BY <1>4, <1>5, <1>7
  <2> QED
    BY <1>8, <2>1, <2>2, <2>3

\* Two kinds of dump: with the time a station has been connected, and without.
LEMMA HeadsTold ==
    ASSUME NEW L, NEW s \in Seq(Seq(L)),
           \A k \in DOMAIN s : /\ Len(s[k]) = 2 /\ s[k][1].key = "Station"
                               /\ s[k][2].key = "connected"
    PROVE  \E M, head : HeadsAt(FlattenSeq(s), M, TRUE, s, head)
<1> DEFINE N == Len(s)
<1>1. "Station" \in Headers /\ "connected" \notin Headers /\ "connected" # "Station"
  BY DEF Headers
<1>2. PICK out : out = FlattenSeq(s)
  OBVIOUS
<1>3. /\ out \in Seq(L) /\ Len(out) = 2 * N
      /\ \A k \in 1 .. N : out[2 * k - 1] = s[k][1] /\ out[2 * k] = s[k][2]
      /\ \A m \in 1 .. 2 * N : /\ Half(m) \in 1 .. N
                               /\ m \in {2 * Half(m) - 1, 2 * Half(m)}
  BY <1>2, PairsLines
<1>4. N \in Nat /\ DOMAIN s = 1 .. N
  OBVIOUS
<1> HIDE DEF N
<1> DEFINE M == 2 * N
           head == [k \in 1 .. N |-> 2 * k - 1]
<1>5. M \in Nat /\ DOMAIN out = 1 .. M /\ head \in [1 .. N -> 1 .. M]
  BY <1>3, <1>4
<1>6. ASSUME NEW k \in 1 .. N
      PROVE  /\ out[head[k]].key = "Station"
             /\ out[head[k]].value = s[k][1].value
             /\ Field(out, head[k], "connected", Untold) = s[k][2].value
  <2> HIDE DEF M, head
  <2>1. ASSUME NEW j \in 1 .. N PROVE out[2 * j - 1].key \in Headers
    <3>1. out[2 * j - 1] = s[j][1] /\ s[j][1].key = "Station"
      BY <1>3, <1>4
    <3> QED
      BY <1>1, <3>1
  <2>2. out[2 * k].key = "connected" /\ out[2 * k - 1].key = "Station"
    BY <1>3, <1>4
  <2>3. N \in Nat /\ Len(out) = 2 * N /\ "connected" \notin Headers
    BY <1>1, <1>3, <1>4
  <2>4. Field(out, 2 * k - 1, "connected", Untold) = out[2 * k].value
    BY <2>1, <2>2, <2>3, FieldNext, ZenonT(30)
  <2> QED
    BY <1>3, <2>2, <2>4 DEF head
<1>7. ASSUME NEW p \in 1 .. M, out[p].key = "Station"
      PROVE  \E k \in 1 .. N : p = head[k]
  <2> DEFINE k == Half(p)
  <2>1. k \in 1 .. N /\ p \in {2 * k - 1, 2 * k}
    BY <1>3
  <2> HIDE DEF k
  <2>2. p = 2 * k - 1
    BY <1>1, <1>3, <1>4, <1>7, <2>1, ZenonT(30)
  <2> QED
    BY <2>1, <2>2
<1> HIDE DEF M, head
<1>8. HeadsAt(out, M, TRUE, s, head)
  BY <1>5, <1>6, <1>7 DEF HeadsAt, N
<1> QED
  BY <1>2, <1>8

LEMMA HeadsUntold ==
    ASSUME NEW L, NEW s \in Seq(Seq(L)),
           \A k \in DOMAIN s : Len(s[k]) = 1 /\ s[k][1].key = "Station"
    PROVE  \E M, head : HeadsAt(FlattenSeq(s), M, FALSE, s, head)
<1> DEFINE N == Len(s)
<1>1. "Station" \in Headers
  BY DEF Headers
<1>2. PICK out : out = FlattenSeq(s)
  OBVIOUS
<1>3. out \in Seq(L) /\ Len(out) = N /\ \A k \in 1 .. N : out[k] = s[k][1]
  BY <1>2, SinglesLines
<1>4. N \in Nat /\ DOMAIN s = 1 .. N
  OBVIOUS
<1> HIDE DEF N
<1> DEFINE head == [k \in 1 .. N |-> k]
<1>5. DOMAIN out = 1 .. N /\ head \in [1 .. N -> 1 .. N]
  BY <1>3, <1>4
<1>6. ASSUME NEW k \in 1 .. N
      PROVE  /\ out[head[k]].key = "Station"
             /\ out[head[k]].value = s[k][1].value
             /\ Field(out, head[k], "connected", Untold) = Untold
  <2>1. k + 1 \in 1 .. N => out[k + 1].key \in Headers
    BY <1>1, <1>3, <1>4
  <2>2. Len(out) = N
    BY <1>3
  <2>3. Field(out, k, "connected", Untold) = Untold
    BY <1>4, <2>1, <2>2, FieldMissing
  <2> QED
    BY <1>3, <1>4, <2>3
<1>7. \A p \in 1 .. N : \E k \in 1 .. N : p = head[k]
  OBVIOUS
<1> HIDE DEF head
<1>8. HeadsAt(out, N, FALSE, s, head)
  BY <1>4, <1>5, <1>6, <1>7 DEF HeadsAt, N
<1> QED
  BY <1>2, <1>8

LEMMA StationsRead ==
    ASSUME NEW B, IsFiniteSet(B), NEW s \in SetToSeqs(B), NEW told \in BOOLEAN,
           \A b \in B :
              b = IF told THEN <<Line("Station", b[1].value),
                                 Line("connected", b[2].value)>>
                  ELSE <<Line("Station", b[1].value)>>,
           \A b, c \in B : b[1].value = c[1].value => b = c,
           NEW st, st = Stations(FlattenSeq(s))
    PROVE  /\ \E n \in Nat : DOMAIN st = 1 .. n
           /\ \A j \in DOMAIN st : \E b \in B : st[j] = Shown(b, told)
           /\ \A b \in B : \E j \in DOMAIN st : st[j] = Shown(b, told)
           /\ \A i, j \in DOMAIN st : st[i].mac = st[j].mac => i = j
<1> DEFINE N == Len(s)
<1>1. /\ s \in Seq(B) /\ N \in Nat /\ \A k \in 1 .. N : s[k] \in B
      /\ \A k, l \in 1 .. N : s[k] = s[l] => k = l
      /\ \A b \in B : \E k \in 1 .. N : s[k] = b
  <2>1. /\ s \in Seq(B)
        /\ \A k, l \in 1 .. Len(s) : s[k] = s[l] => k = l
        /\ \A b \in B : \E k \in 1 .. Len(s) : s[k] = b
    BY SeqsCover, ZenonT(30)
  <2>2. N \in Nat /\ \A k \in 1 .. N : s[k] \in B
    BY <2>1
  <2> QED
    BY <2>1, <2>2, Zenon
<1>2. \A k, l \in 1 .. N : s[k][1].value = s[l][1].value => k = l
  BY <1>1
<1>3. \E M, head : HeadsAt(FlattenSeq(s), M, told, s, head)
  <2> DEFINE L == {b[1] : b \in B} \cup {b[2] : b \in B}
  <2>1. CASE told
    <3>1. ASSUME NEW k \in 1 .. N
          PROVE  /\ s[k] \in Seq(L) /\ Len(s[k]) = 2
                 /\ s[k][1].key = "Station" /\ s[k][2].key = "connected"
      <4>1. s[k] = <<s[k][1], s[k][2]>>
        BY <1>1, <2>1
      <4>2. s[k][1] \in L /\ s[k][2] \in L
        BY <1>1
      <4>3. s[k][1].key = "Station" /\ s[k][2].key = "connected"
        BY <1>1, <2>1, LineParts
      <4> HIDE DEF L
      <4>4. ASSUME NEW x \in L, NEW y \in L
            PROVE  <<x, y>> \in Seq(L) /\ Len(<<x, y>>) = 2
        OBVIOUS
      <4>5. <<s[k][1], s[k][2]>> \in Seq(L) /\ Len(<<s[k][1], s[k][2]>>) = 2
        BY <4>2, <4>4
      <4> QED
        BY <4>1, <4>3, <4>5, Zenon
    <3> HIDE DEF L
    <3>2. s \in Seq(Seq(L)) /\ DOMAIN s = 1 .. N
      <4>1. DOMAIN s = 1 .. N
        BY <1>1
      <4>2. s = [k \in 1 .. N |-> s[k]]
        BY <1>1
      <4> HIDE DEF N
      <4> QED
        BY <1>1, <3>1, <4>1, <4>2
    <3>3. \E M, head : HeadsAt(FlattenSeq(s), M, TRUE, s, head)
      <4> HIDE DEF N
      <4> QED
        BY <3>1, <3>2, HeadsTold
    <3>4. told = TRUE
      BY <2>1
    <3> QED
      BY <3>3, <3>4
  <2>2. CASE ~told
    <3>1. ASSUME NEW k \in 1 .. N
          PROVE  s[k] \in Seq(L) /\ Len(s[k]) = 1 /\ s[k][1].key = "Station"
      <4>1. s[k] = <<s[k][1]>>
        BY <1>1, <2>2
      <4>2. s[k][1] \in L
        BY <1>1
      <4>3. s[k][1].key = "Station"
        BY <1>1, <2>2, LineParts
      <4> HIDE DEF L
      <4>4. ASSUME NEW x \in L PROVE <<x>> \in Seq(L) /\ Len(<<x>>) = 1
        OBVIOUS
      <4>5. <<s[k][1]>> \in Seq(L) /\ Len(<<s[k][1]>>) = 1
        BY <4>2, <4>4
      <4> QED
        BY <4>1, <4>3, <4>5, Zenon
    <3> HIDE DEF L
    <3>2. s \in Seq(Seq(L)) /\ DOMAIN s = 1 .. N
      <4>1. DOMAIN s = 1 .. N
        BY <1>1
      <4>2. s = [k \in 1 .. N |-> s[k]]
        BY <1>1
      <4> HIDE DEF N
      <4> QED
        BY <1>1, <3>1, <4>1, <4>2
    <3>3. \E M, head : HeadsAt(FlattenSeq(s), M, FALSE, s, head)
      <4> HIDE DEF N
      <4> QED
        BY <3>1, <3>2, HeadsUntold
    <3>4. told = FALSE
      BY <2>2
    <3> QED
      BY <3>3, <3>4
  <2> QED
    BY <2>1, <2>2
<1>4. PICK out, M, head : out = FlattenSeq(s) /\ HeadsAt(out, M, told, s, head)
  BY <1>3
<1>5. /\ \E n \in Nat : DOMAIN st = 1 .. n
      /\ \A j \in DOMAIN st : \E k \in 1 .. N : st[j] = Shown(s[k], told)
      /\ \A k \in 1 .. N : \E j \in DOMAIN st : st[j] = Shown(s[k], told)
      /\ \A i, j \in DOMAIN st : st[i].mac = st[j].mac => i = j
  <2>1. st = Stations(out)
    BY <1>4
  <2>2. s \in Seq(B)
    BY <1>1
  <2> QED
    BY <1>2, <1>4, <2>1, <2>2, HeadsRead
<1> HIDE DEF N
<1>6. ASSUME NEW j \in DOMAIN st PROVE \E b \in B : st[j] = Shown(b, told)
  <2>1. PICK k \in 1 .. N : st[j] = Shown(s[k], told)
    BY <1>5
  <2> QED
    BY <1>1, <2>1
<1>7. ASSUME NEW b \in B PROVE \E j \in DOMAIN st : st[j] = Shown(b, told)
  <2>1. PICK k \in 1 .. N : s[k] = b
    BY <1>1
  <2> QED
    BY <1>5, <2>1
<1> QED
  BY <1>5, <1>6, <1>7

-----------------------------------------------------------------------------
(* The machine.                                                            *)

Classes == (SUBSET Macs) \ {{}}

\* A client is on one interface, came at one time, and only access points
\* have clients.
WorldOK ==
    /\ mode \in [Ifaces -> Modes]
    /\ arrivals \in [Ifaces -> Seq(Classes)]
    /\ \A i \in Ifaces : mode[i] # "AP" => arrivals[i] = <<>>
    /\ \A i, j \in Ifaces : \A k \in DOMAIN arrivals[i], l \in DOMAIN arrivals[j] :
          arrivals[i][k] \cap arrivals[j][l] # {} => i = j /\ k = l

LEMMA HereIs ==
    ASSUME WorldOK, NEW i \in Ifaces
    PROVE  /\ \A m : m \in Here(i) <=> \E k \in DOMAIN arrivals[i] : m \in arrivals[i][k]
           /\ Here(i) \subseteq Macs
           /\ Len(arrivals[i]) \in Nat
           /\ DOMAIN arrivals[i] = 1 .. Len(arrivals[i])
           /\ \A k \in DOMAIN arrivals[i] : arrivals[i][k] \in Classes
<1>1. \A m : m \in Here(i) <=> \E k \in DOMAIN arrivals[i] : m \in arrivals[i][k]
  BY DEF Here, Range
<1>2. arrivals[i] \in Seq(Classes)
  BY DEF WorldOK
<1> HIDE DEF Classes
<1>3. /\ Len(arrivals[i]) \in Nat
      /\ DOMAIN arrivals[i] = 1 .. Len(arrivals[i])
      /\ \A k \in DOMAIN arrivals[i] : arrivals[i][k] \in Classes
  BY <1>2
<1>4. Here(i) \subseteq Macs
  BY <1>1, <1>3 DEF Classes
<1> QED
  BY <1>1, <1>3, <1>4

\* What parse_station_dump makes of a dump: each client once, and the seconds
\* since it came; of a managed interface, what that interface talks to.
LEMMA DumpParsed ==
    ASSUME WorldOK, NEW i \in Ifaces, NEW out \in DumpOutputs(i),
           NEW st, st = Stations(out)
    PROVE  /\ \E n \in Nat : DOMAIN st = 1 .. n
           /\ \A j \in DOMAIN st :
                 /\ st[j].mac \in IF mode[i] = "managed" THEN {Upstream} ELSE Here(i)
                 /\ st[j].connected \in Nat \cup {Untold}
                 /\ st[j] = [mac |-> st[j].mac, connected |-> st[j].connected]
                 /\ \A k \in DOMAIN arrivals[i] :
                       st[j].mac \in arrivals[i][k] =>
                          st[j].connected = IF i \in Silent THEN Untold
                                            ELSE Len(arrivals[i]) - k
           /\ \A m \in Here(i) : \E j \in DOMAIN st : st[j].mac = m
           /\ \A j, k \in DOMAIN st : st[j].mac = st[k].mac => j = k
<1> DEFINE n == Len(arrivals[i])
           Block(k, m) == <<Line("Station", m)>> \o
               IF i \in Silent THEN <<>> ELSE <<Line("connected", n - k)>>
           told == mode[i] # "managed" /\ i \notin Silent
<1>1. CASE mode[i] = "managed"
  <2> DEFINE b == <<Line("Station", Upstream)>>
             B == {b}
  <2>1. PICK s \in SetToSeqs(B) : out = FlattenSeq(s)
    BY <1>1 DEF DumpOutputs
  <2>2. IsFiniteSet(B)
    BY FS_Singleton
  <2>3. b[1].value = Upstream
    BY LineParts
  <2> PICK f \in BOOLEAN : f = FALSE
    OBVIOUS
  <2>4. \A c \in B : c = IF f THEN <<Line("Station", c[1].value),
                                     Line("connected", c[2].value)>>
                         ELSE <<Line("Station", c[1].value)>>
    BY <2>3
  <2>5. \A c, d \in B : c[1].value = d[1].value => c = d
    OBVIOUS
  <2>6. st = Stations(FlattenSeq(s))
    BY <2>1
  <2> HIDE DEF B
  <2>7. /\ \E m \in Nat : DOMAIN st = 1 .. m
        /\ \A j \in DOMAIN st : \E c \in B : st[j] = Shown(c, f)
        /\ \A j, k \in DOMAIN st : st[j].mac = st[k].mac => j = k
    BY <2>2, <2>4, <2>5, <2>6, StationsRead
  <2> HIDE DEF b
  <2>8. \A j \in DOMAIN st : st[j] = [mac |-> Upstream, connected |-> Untold]
    BY <2>3, <2>7 DEF B, Shown
  <2>9. arrivals[i] = <<>> /\ Here(i) = {}
    BY <1>1, HereIs DEF WorldOK
  <2> QED
    BY <1>1, <2>7, <2>8, <2>9
<1>2. CASE mode[i] # "managed"
  <2> DEFINE B == UNION {{Block(k, m) : m \in arrivals[i][k]} : k \in 1 .. n}
  <2>1. PICK s \in SetToSeqs(B) : out = FlattenSeq(s)
    BY <1>2 DEF DumpOutputs
  <2>2. n \in Nat /\ DOMAIN arrivals[i] = 1 .. n
    BY HereIs
  <2>3. ASSUME NEW k \in 1 .. n, NEW m
        PROVE  Block(k, m) = IF told THEN <<Line("Station", m), Line("connected", n - k)>>
                             ELSE <<Line("Station", m)>>
    <3>1. \A x, y : <<x>> \o <<>> = <<x>> /\ <<x>> \o <<y>> = <<x, y>>
      BY Joins
    <3>2. told <=> i \notin Silent
      BY <1>2
    <3> HIDE DEF told, n
    <3> QED
      BY <3>1, <3>2
  <2>4. ASSUME NEW k \in 1 .. n, NEW m
        PROVE  /\ Block(k, m)[1].value = m
               /\ told => Block(k, m)[2].value = n - k
    BY <2>3, LineParts
  <2> HIDE DEF Block
  <2>5. \A b \in B : \E k \in 1 .. n : \E m \in arrivals[i][k] : b = Block(k, m)
    OBVIOUS
  <2>6. \A k \in 1 .. n : \A m \in arrivals[i][k] : Block(k, m) \in B
    OBVIOUS
  <2> HIDE DEF B, n, told
  <2>7. \A b \in B : b = IF told THEN <<Line("Station", b[1].value),
                                        Line("connected", b[2].value)>>
                         ELSE <<Line("Station", b[1].value)>>
    BY <2>3, <2>4, <2>5
  <2>8. ASSUME NEW b \in B, NEW c \in B, b[1].value = c[1].value
        PROVE  b = c
    <3>1. PICK k \in 1 .. n : \E m \in arrivals[i][k] : b = Block(k, m)
      BY <2>5
    <3>2. PICK l \in 1 .. n : \E o \in arrivals[i][l] : c = Block(l, o)
      BY <2>5
    <3>3. PICK m \in arrivals[i][k] : b = Block(k, m) /\ m \in arrivals[i][l]
                                       /\ c = Block(l, m)
      BY <2>4, <2>8, <3>1, <3>2
    <3>4. k = l
      BY <2>2, <3>3 DEF WorldOK
    <3> QED
      BY <3>3, <3>4
  <2>9. IsFiniteSet(B)
    <3> DEFINE f == [b \in B |-> b[1].value]
    <3>1. \A b \in B : b[1].value \in Macs
      BY <2>2, <2>4, <2>5, HereIs
    <3>2. f \in Injection(B, Macs)
      BY <2>8, <3>1 DEF Injection, IsInjective
    <3> HIDE DEF f
    <3> QED
      BY <3>2, SnapshotAssumption, FS_Injection
  <2>10. told \in BOOLEAN
    BY DEF told
  <2>11. /\ \E m \in Nat : DOMAIN st = 1 .. m
         /\ \A j \in DOMAIN st : \E b \in B : st[j] = Shown(b, told)
         /\ \A b \in B : \E j \in DOMAIN st : st[j] = Shown(b, told)
         /\ \A j, k \in DOMAIN st : st[j].mac = st[k].mac => j = k
    <3>1. st = Stations(FlattenSeq(s))
      BY <2>1
    <3>2. \A b, c \in B : b[1].value = c[1].value => b = c
      BY <2>8
    <3> QED
      BY <2>7, <2>9, <2>10, <3>1, <3>2, StationsRead
  <2>12. ASSUME NEW k \in 1 .. n, NEW m \in arrivals[i][k]
         PROVE  Shown(Block(k, m), told)
                   = [mac |-> m, connected |-> IF i \in Silent THEN Untold ELSE n - k]
    BY <1>2, <2>4 DEF Shown, told
  <2>13. ASSUME NEW j \in DOMAIN st
         PROVE  \E k \in 1 .. n : \E m \in arrivals[i][k] :
                   st[j] = [mac |-> m,
                            connected |-> IF i \in Silent THEN Untold ELSE n - k]
    <3>1. PICK b \in B : st[j] = Shown(b, told)
      BY <2>11
    <3>2. PICK k \in 1 .. n : \E m \in arrivals[i][k] : b = Block(k, m)
      BY <2>5
    <3> QED
      BY <2>12, <3>1, <3>2
  <2>14. ASSUME NEW m \in Here(i) PROVE \E j \in DOMAIN st : st[j].mac = m
    <3>1. PICK k \in 1 .. n : m \in arrivals[i][k]
      BY <2>2, HereIs
    <3>2. PICK j \in DOMAIN st : st[j] = Shown(Block(k, m), told)
      BY <2>6, <2>11, <3>1
    <3> QED
      BY <2>12, <3>1, <3>2
  <2>15. ASSUME NEW j \in DOMAIN st
         PROVE  /\ st[j].mac \in Here(i)
                /\ st[j].connected \in Nat \cup {Untold}
                /\ st[j] = [mac |-> st[j].mac, connected |-> st[j].connected]
                /\ \A k \in DOMAIN arrivals[i] :
                      st[j].mac \in arrivals[i][k] =>
                         st[j].connected = IF i \in Silent THEN Untold ELSE n - k
    <3>1. PICK k \in 1 .. n : \E m \in arrivals[i][k] :
             st[j] = [mac |-> m, connected |-> IF i \in Silent THEN Untold ELSE n - k]
      BY <2>13
    <3> DEFINE m == st[j].mac
    <3>2. /\ m \in arrivals[i][k]
          /\ st[j] = [mac |-> m, connected |-> IF i \in Silent THEN Untold ELSE n - k]
      BY <3>1
    <3>3. n - k \in Nat
      BY <2>2
    <3>4. m \in Here(i)
      BY <2>2, <3>2, HereIs
    <3>5. \A l \in DOMAIN arrivals[i] : m \in arrivals[i][l] => l = k
      BY <2>2, <3>2 DEF WorldOK
    <3> QED
      BY <3>1, <3>2, <3>3, <3>4, <3>5
  <2> QED
    BY <1>2, <2>11, <2>14, <2>15 DEF n
<1> QED
  BY <1>1, <1>2

-----------------------------------------------------------------------------
(* The invariant.                                                          *)

\* A client that stayed is still on an interface.
StayedHere == \A m \in stayed : \E i \in Ifaces : m \in Here(i)

Asking == {"stations", "address", "neigh", "names"}

\* How far the snapshot is, what became of its interface, and what is told.
StageOK ==
    /\ stage \in {"dev", "done"} \cup Asking
    /\ ap \in Ifaces \cup {NoIface}
    /\ result \in {"none", "error", "off", "on"}
    /\ gateway \in BOOLEAN /\ warned \in BOOLEAN /\ steady \in BOOLEAN
    /\ broken \subseteq {"dev", "stations", "address", "neigh"}
    /\ stage = "dev" => ap = NoIface /\ broken = {} /\ steady
    /\ stage \in Asking => ap \in Ifaces
    /\ stage \in Asking => broken \cap {"dev", "stations"} = {}
    /\ stage = "done" => (result = "error" <=> broken \cap {"dev", "stations"} # {})
    /\ stage = "done" /\ result = "on" => ap \in Ifaces
    /\ steady /\ ap \in Ifaces => mode[ap] = "AP"
    /\ stage = "done" /\ result = "off" /\ steady =>
          ap = NoIface /\ \A i \in Ifaces : mode[i] # "AP"
    /\ broken \cap {"address", "neigh"} # {} => warned

\* What parse_station_dump returned.
Dump(st) ==
    /\ \E n \in Nat : DOMAIN st = 1 .. n
    /\ \A k \in DOMAIN st : /\ st[k].mac \in Listed
                            /\ st[k].connected \in Nat \cup {Untold}
    /\ \A k, l \in DOMAIN st : st[k].mac = st[l].mac => k = l

StationsOK ==
    /\ Dump(stations)
    /\ steady /\ (stage \in Asking \ {"stations"} \/ (stage = "done" /\ result = "on")) =>
          \A k \in DOMAIN stations : stations[k].mac \in Macs

LookupOK ==
    /\ \A m \in DOMAIN ips : ips[m] \in Ips
    /\ \A m \in DOMAIN lookup :
          /\ m \in DOMAIN ips
          /\ lookup[m] \in [done : BOOLEAN, left : 0 .. Patience, name : Names]

\* m is listed before n among the clients of i, whenever the dump is taken:
\* it came earlier, or in the same second and has the smaller address.
Earlier(i, m, n) ==
    IF i \in Silent THEN m < n
    ELSE \E k, l \in DOMAIN arrivals[i] :
            /\ m \in arrivals[i][k] /\ n \in arrivals[i][l]
            /\ k < l \/ (k = l /\ m < n)

OrderOK ==
    \A i \in Ifaces : \A m, n \in stayed \cap Here(i) :
        Place(stations, m) < Place(stations, n) => Earlier(i, m, n)

SnapInv == WorldOK /\ StayedHere /\ StageOK /\ StationsOK /\ LookupOK /\ OrderOK

-----------------------------------------------------------------------------
(* assemble_clients sorts: connected longest first, then by address.       *)

Ahead(st, j, k) ==
    \/ st[j].connected > st[k].connected
    \/ st[j].connected = st[k].connected /\ st[j].mac < st[k].mac

LEMMA DumpTyped ==
    ASSUME NEW st, Dump(st)
    PROVE  /\ \E n \in Nat : DOMAIN st = 1 .. n /\ Cardinality(DOMAIN st) = n
           /\ IsFiniteSet(DOMAIN st)
           /\ \A k \in DOMAIN st : st[k].connected \in Int /\ st[k].mac \in Nat
<1>1. PICK n \in Nat : DOMAIN st = 1 .. n
  BY DEF Dump
<1>2. IsFiniteSet(1 .. n) /\ Cardinality(1 .. n) = n
  BY FS_Interval
<1>3. ASSUME NEW k \in DOMAIN st PROVE st[k].connected \in Int /\ st[k].mac \in Nat
  <2>1. Untold \in Int
    BY DEF Untold
  <2>2. Listed \subseteq Nat
    BY SnapshotAssumption DEF Listed
  <2>3. /\ st[k].mac \in Listed
        /\ st[k].connected \in Nat \cup {Untold}
    BY Zenon DEF Dump
  <2> DEFINE x == st[k].connected
  <2>4. x \in Int
    <3>1. x \in Nat \/ x = Untold
      BY <2>3
    <3> HIDE DEF x
    <3> QED
      BY <2>1, <3>1
  <2> QED
    BY <2>2, <2>3, <2>4
<1> QED
  BY <1>1, <1>2, <1>3

LEMMA OrderSorts ==
    ASSUME NEW st, Dump(st)
    PROVE  \E f : /\ f = Order(st)
                  /\ Len(f) = Cardinality(DOMAIN st)
                  /\ \A n \in 1 .. Len(f) : f[n] \in DOMAIN st
                  /\ \A k \in DOMAIN st : \E n \in 1 .. Len(f) : f[n] = k
                  /\ \A m, n \in 1 .. Len(f) : m < n <=> Ahead(st, f[m], f[n])
<1> DEFINE f == Order(st)
           S == DOMAIN st
           R == {p \in S \X S : Ahead(st, p[1], p[2])}
           N == Cardinality(S)
           Nth(n) == CHOOSE k \in S : Cardinality({l \in S : Ahead(st, l, k)}) = n - 1
<1>1. IsFiniteSet(S) /\ N \in Nat
  BY DumpTyped, FS_CardinalityType
<1>2. \A k, l \in S : <<k, l>> \in R <=> Ahead(st, k, l)
  OBVIOUS
<1>3. f = [n \in 1 .. N |-> Nth(n)]
  BY DEF Order, Ranked, Ahead
<1> HIDE DEF R
<1>4. StrictOrder(R, S)
  <2>1. /\ \A k \in S : st[k].connected \in Int /\ st[k].mac \in Nat
        /\ \A k, l \in S : st[k].mac = st[l].mac => k = l
    BY DumpTyped DEF Dump
  <2>2. \A k \in S : ~Ahead(st, k, k)
    BY <2>1 DEF Ahead
  <2>3. \A k, l \in S : k # l => Ahead(st, k, l) \/ Ahead(st, l, k)
    BY <2>1 DEF Ahead
  <2>4. \A j, k, l \in S : Ahead(st, j, k) /\ Ahead(st, k, l) => Ahead(st, j, l)
    BY <2>1 DEF Ahead
  <2> QED
    BY <1>2, <2>2, <2>3, <2>4 DEF StrictOrder
<1>5. \A k \in S : Cardinality({l \in S : Ahead(st, l, k)}) = Rk(R, S, k)
  <2> SUFFICES ASSUME NEW k \in S
               PROVE  {l \in S : Ahead(st, l, k)} = {l \in S : <<l, k>> \in R}
    BY DEF Rk
  <2> QED
    BY <1>2
<1>6. ASSUME NEW n \in 1 .. N PROVE Nth(n) \in S /\ Rk(R, S, Nth(n)) = n - 1
  <2>1. n - 1 \in 0 .. N - 1
    BY <1>1
  <2>2. \E k \in S : Rk(R, S, k) = n - 1
    <3> HIDE DEF S, Nth
    <3>1. \A i \in 0 .. Cardinality(S) - 1 : \E k \in S : Rk(R, S, k) = i
      BY <1>1, <1>4, Ranks
    <3> QED
      BY <2>1, <3>1
  <2>3. \E k \in S : Cardinality({l \in S : Ahead(st, l, k)}) = n - 1
    BY <1>5, <2>2
  <2>4. Nth(n) \in S /\ Cardinality({l \in S : Ahead(st, l, Nth(n))}) = n - 1
    BY <2>3
  <2> QED
    BY <1>5, <2>4
<1> HIDE DEF Nth, S, f
<1>7. /\ f \in [1 .. N -> S]
      /\ \A n \in 1 .. N : Rk(R, S, f[n]) = n - 1
  <2> HIDE DEF N
  <2> QED
    BY <1>3, <1>6
<1>8. /\ f \in Seq(S) /\ Len(f) = N
      /\ \A k \in S : \E n \in 1 .. Len(f) : f[n] = k
      /\ \A m, n \in 1 .. Len(f) : m < n <=> <<f[m], f[n]>> \in R
  <2>1. /\ f \in [1 .. Cardinality(S) -> S]
        /\ \A n \in 1 .. Cardinality(S) : Rk(R, S, f[n]) = n - 1
    BY <1>7
  <2>2. IsFiniteSet(S) /\ StrictOrder(R, S)
    BY <1>1, <1>4
  <2>3. /\ f \in Seq(S) /\ Len(f) = Cardinality(S)
        /\ \A k \in S : \E n \in 1 .. Len(f) : f[n] = k
        /\ \A m, n \in 1 .. Len(f) : m < n <=> <<f[m], f[n]>> \in R
    BY <2>1, <2>2, RankedInOrder, Zenon
  <2> QED
    BY <2>3
<1>9. \A n \in 1 .. Len(f) : f[n] \in S
  BY <1>7, <1>8
<1> QED
  <2> WITNESS f
  <2> QED
    BY <1>2, <1>8, <1>9 DEF S, f

\* The place of a client in the list follows the order of the dump's stations.
LEMMA PlaceOrder ==
    ASSUME NEW st, Dump(st), NEW j \in DOMAIN st, NEW k \in DOMAIN st
    PROVE  Place(st, st[j].mac) < Place(st, st[k].mac) <=> Ahead(st, j, k)
<1>1. PICK f : /\ f = Order(st)
               /\ Len(f) = Cardinality(DOMAIN st)
               /\ \A n \in 1 .. Len(f) : f[n] \in DOMAIN st
               /\ \A l \in DOMAIN st : \E n \in 1 .. Len(f) : f[n] = l
               /\ \A m, n \in 1 .. Len(f) : m < n <=> Ahead(st, f[m], f[n])
  BY OrderSorts
<1>2. PICK N \in Nat : DOMAIN st = 1 .. N /\ Cardinality(DOMAIN st) = N
  BY DumpTyped
<1>3. /\ \A n \in 1 .. N : f[n] \in DOMAIN st
      /\ \A l \in DOMAIN st : \E n \in 1 .. N : f[n] = l
      /\ \A m, n \in 1 .. N : m < n <=> Ahead(st, f[m], f[n])
  BY <1>1, <1>2
<1>4. ASSUME NEW l \in DOMAIN st
      PROVE  /\ Place(st, st[l].mac) \in 1 .. N
             /\ f[Place(st, st[l].mac)] = l
  <2> DEFINE P == Place(st, st[l].mac)
  <2>1. PICK n \in 1 .. N : f[n] = l
    BY <1>3
  <2>2. \A i \in DOMAIN st : Clients(st)[i] = st[f[i]].mac
    BY <1>1 DEF Clients
  <2>3. n \in DOMAIN st /\ Clients(st)[n] = st[l].mac
    BY <1>2, <2>1, <2>2
  <2>4. P \in DOMAIN st /\ Clients(st)[P] = st[l].mac
    BY <2>3 DEF Place
  <2>5. f[P] \in DOMAIN st /\ st[f[P]].mac = st[l].mac
    BY <1>2, <1>3, <2>2, <2>4
  <2> QED
    BY <1>2, <2>4, <2>5 DEF Dump
<1> QED
  BY <1>3, <1>4

\* The list of a hotspot shows its clients by when they came, in whatever
\* order and second the kernel was asked.
LEMMA DumpListed ==
    ASSUME WorldOK, NEW i \in Ifaces, NEW out \in DumpOutputs(i),
           NEW st, st = Stations(out)
    PROVE  /\ Dump(st)
           /\ mode[i] = "AP" => \A k \in DOMAIN st : st[k].mac \in Macs
           /\ \A m, n \in Here(i) :
                 Place(st, m) < Place(st, n) <=> Earlier(i, m, n)
<1>1. /\ \E n \in Nat : DOMAIN st = 1 .. n
      /\ \A j \in DOMAIN st :
            /\ st[j].mac \in IF mode[i] = "managed" THEN {Upstream} ELSE Here(i)
            /\ st[j].connected \in Nat \cup {Untold}
            /\ \A k \in DOMAIN arrivals[i] :
                  st[j].mac \in arrivals[i][k] =>
                     st[j].connected = IF i \in Silent THEN Untold
                                       ELSE Len(arrivals[i]) - k
      /\ \A m \in Here(i) : \E j \in DOMAIN st : st[j].mac = m
      /\ \A j, k \in DOMAIN st : st[j].mac = st[k].mac => j = k
  BY DumpParsed
<1>2. /\ \A m : m \in Here(i) <=> \E k \in DOMAIN arrivals[i] : m \in arrivals[i][k]
      /\ Here(i) \subseteq Macs
      /\ Len(arrivals[i]) \in Nat /\ DOMAIN arrivals[i] = 1 .. Len(arrivals[i])
  BY HereIs
<1>3. Dump(st)
  BY <1>1, <1>2 DEF Dump, Listed
<1>4. ASSUME NEW m \in Here(i), NEW n \in Here(i)
      PROVE  Place(st, m) < Place(st, n) <=> Earlier(i, m, n)
  <2>1. PICK a \in DOMAIN st : st[a].mac = m
    BY <1>1
  <2>2. PICK b \in DOMAIN st : st[b].mac = n
    BY <1>1
  <2>3. Place(st, m) < Place(st, n) <=> Ahead(st, a, b)
    BY <1>3, <2>1, <2>2, PlaceOrder
  <2>4. PICK k \in DOMAIN arrivals[i] : m \in arrivals[i][k]
    BY <1>2
  <2>5. PICK l \in DOMAIN arrivals[i] : n \in arrivals[i][l]
    BY <1>2
  <2>6. CASE i \in Silent
    <3>1. st[a].connected = Untold /\ st[b].connected = Untold
      BY <1>1, <2>1, <2>2, <2>4, <2>5, <2>6
    <3> QED
      BY <2>1, <2>2, <2>3, <2>6, <3>1 DEF Ahead, Earlier, Untold
  <2>7. CASE i \notin Silent
    <3>1. /\ st[a].connected = Len(arrivals[i]) - k
          /\ st[b].connected = Len(arrivals[i]) - l
      BY <1>1, <2>1, <2>2, <2>4, <2>5, <2>7
    <3>2. Ahead(st, a, b) <=> k < l \/ (k = l /\ m < n)
      BY <1>2, <2>1, <2>2, <3>1 DEF Ahead
    <3>3. \A c, d \in DOMAIN arrivals[i] :
             m \in arrivals[i][c] /\ n \in arrivals[i][d] => c = k /\ d = l
      BY <2>4, <2>5 DEF WorldOK
    <3>4. Earlier(i, m, n) <=> k < l \/ (k = l /\ m < n)
      BY <2>4, <2>5, <2>7, <3>3 DEF Earlier
    <3> QED
      BY <2>3, <3>2, <3>4
  <2> QED
    BY <2>6, <2>7
<1>5. mode[i] = "AP" => \A k \in DOMAIN st : st[k].mac \in Macs
  BY <1>1, <1>2
<1> QED
  BY <1>3, <1>4, <1>5

-----------------------------------------------------------------------------
(* ipv4_by_mac: of the usable entries of a client one is the best.         *)

LEMMA EntriesTyped ==
    ASSUME NEW t \in Tables, NEW m, NEW k \in Usable(t, m)
    PROVE  /\ k \in Nat /\ t[k] \in Entries /\ t[k].family = "inet"
           /\ Rank[t[k].state] \in Nat /\ t[k].confirmed \in Nat
<1>1. PICK n \in 0 .. MaxEntries : t \in [1 .. n -> Entries]
  BY DEF Tables
<1>2. k \in 1 .. n /\ t[k].state \in DOMAIN Rank /\ t[k].family = "inet"
  BY <1>1 DEF Usable
<1>3. \A x \in DOMAIN Rank : Rank[x] \in Nat
  BY DEF Rank
<1> HIDE DEF Rank
<1>4. t[k] \in Entries
  BY <1>1, <1>2
<1> QED
  BY <1>2, <1>3, <1>4, SnapshotAssumption

Best(t, m) ==
    CHOOSE k \in Usable(t, m) :
        \A l \in Usable(t, m) \ {k} :
           Better(t[k], t[l]) \/ (~Better(t[l], t[k]) /\ k < l)

LEMMA BestExists ==
    ASSUME NEW t \in Tables, NEW m, Usable(t, m) # {}
    PROVE  /\ Best(t, m) \in Usable(t, m)
           /\ \A l \in Usable(t, m) : ~Better(t[l], t[Best(t, m)])
<1> DEFINE U == Usable(t, m)
           R(k) == Rank[t[k].state]
           C(k) == t[k].confirmed
<1>1. \A k \in U : k \in Nat /\ R(k) \in Nat /\ C(k) \in Nat
  BY EntriesTyped
<1>2. \A k, l \in U : Better(t[k], t[l]) <=>
                         R(k) < R(l) \/ (R(k) = R(l) /\ C(k) < C(l))
  BY DEF Better
<1> HIDE DEF U, R, C
<1>3. PICK r \in {R(k) : k \in U} : \A x \in {R(k) : k \in U} : r <= x
  <2> DEFINE S == {R(k) : k \in U}
  <2>1. S \in SUBSET Nat /\ S # {}
    BY <1>1 DEF U
  <2> HIDE DEF S
  <2>2. \E n \in S : \A x \in S : n <= x
    BY <2>1, LeastNat
  <2> QED
    BY <2>2 DEF S
<1> DEFINE U1 == {k \in U : R(k) = r}
<1>4. PICK c \in {C(k) : k \in U1} : \A x \in {C(k) : k \in U1} : c <= x
  <2> DEFINE S == {C(k) : k \in U1}
  <2>1. S \in SUBSET Nat /\ S # {}
    BY <1>1, <1>3
  <2> HIDE DEF S
  <2>2. \E n \in S : \A x \in S : n <= x
    BY <2>1, LeastNat
  <2> QED
    BY <2>2 DEF S
<1> DEFINE U2 == {k \in U1 : C(k) = c}
<1>5. PICK b \in U2 : \A x \in U2 : b <= x
  <2>1. U2 \in SUBSET Nat /\ U2 # {}
    BY <1>1, <1>4
  <2> HIDE DEF U2
  <2> QED
    BY <2>1, LeastNat
<1>6. b \in U /\ \A l \in U : /\ R(b) <= R(l)
                              /\ R(l) = R(b) => C(b) <= C(l)
                              /\ R(l) = R(b) /\ C(l) = C(b) => b <= l
  BY <1>3, <1>4, <1>5
<1>7. \A l \in U \ {b} : Better(t[b], t[l]) \/ (~Better(t[l], t[b]) /\ b < l)
  BY <1>1, <1>2, <1>6
<1>8. /\ Best(t, m) \in U
      /\ \A l \in U \ {Best(t, m)} : \/ Better(t[Best(t, m)], t[l])
                                     \/ ~Better(t[l], t[Best(t, m)])
  <2>1. \E k \in U : \A l \in U \ {k} :
           Better(t[k], t[l]) \/ (~Better(t[l], t[k]) /\ k < l)
    BY <1>6, <1>7
  <2> QED
    BY <2>1 DEF Best, U
<1>9. \A l \in U : ~Better(t[l], t[Best(t, m)])
  BY <1>1, <1>2, <1>8
<1> QED
  BY <1>8, <1>9 DEF U

\* What ReadNeighbours decorates the stations with.
LEMMA Decorated ==
    ASSUME NEW t \in Tables, ReadNeighbours(t)
    PROVE  /\ DOMAIN ips' = {m \in Listed : /\ Usable(t, m) # {}
                                            /\ \E k \in DOMAIN stations :
                                                  stations[k].mac = m}
           /\ \A m \in DOMAIN ips' : ips'[m] = t[Best(t, m)].ip
           /\ \A m \in DOMAIN lookup' : m \in DOMAIN ips' /\ lookup'[m] = Waiting
<1>1. /\ DOMAIN Ipv4ByMac(t) = {n \in Listed : Usable(t, n) # {}}
      /\ \A m \in DOMAIN Ipv4ByMac(t) : Ipv4ByMac(t)[m] = t[Best(t, m)].ip
  BY DEF Ipv4ByMac, Best
<1> QED
  BY <1>1 DEF ReadNeighbours

-----------------------------------------------------------------------------
(* How clients come and go.                                                *)

LEMMA Joined ==
    ASSUME WorldOK, NEW i \in Ifaces, NEW m \in Macs, Join(i, m)
    PROVE  /\ arrivals' \in [Ifaces -> Seq(Classes)]
           /\ \A j \in Ifaces \ {i} : arrivals'[j] = arrivals[j]
           /\ \A j \in Ifaces : \A k \in DOMAIN arrivals[j] :
                 k \in DOMAIN arrivals'[j] /\ arrivals[j][k] \subseteq arrivals'[j][k]
           /\ \A j \in Ifaces : \A k \in DOMAIN arrivals'[j] :
                 \A x \in arrivals'[j][k] :
                    \/ x = m /\ j = i /\ k = Len(arrivals'[i])
                    \/ k \in DOMAIN arrivals[j] /\ x \in arrivals[j][k]
<1> DEFINE n == Len(arrivals[i])
           old == arrivals[i]
<1>1. old \in Seq(Classes) /\ n \in Nat /\ DOMAIN old = 1 .. n
  <2>1. old \in Seq(Classes)
    BY DEF WorldOK
  <2> HIDE DEF old, Classes
  <2> QED
    BY <2>1 DEF old
<1>2. {m} \in Classes /\ \A c \in Classes : c \cup {m} \in Classes
  BY DEF Classes
<1>3. PICK new :
         /\ arrivals' = [arrivals EXCEPT ![i] = new]
         /\ \/ new = Append(old, {m})
            \/ n > 0 /\ new = [old EXCEPT ![n] = old[n] \cup {m}]
  BY DEF Join
<1> HIDE DEF old, n
<1>4. /\ new \in Seq(Classes) /\ DOMAIN old \subseteq DOMAIN new
      /\ DOMAIN new = 1 .. Len(new)
      /\ \A k \in DOMAIN old : old[k] \subseteq new[k]
      /\ \A k \in DOMAIN new : \A x \in new[k] :
            (x = m /\ k = Len(new)) \/ (k \in DOMAIN old /\ x \in old[k])
  <2> HIDE DEF Classes
  <2>0. n = Len(old)
    BY DEF n, old
  <2>1. CASE new = Append(old, {m})
    <3>1. /\ new \in Seq(Classes) /\ Len(new) = n + 1 /\ DOMAIN new = 1 .. n + 1
          /\ \A k \in 1 .. n : new[k] = old[k]
          /\ new[n + 1] = {m}
      BY <1>1, <1>2, <2>0, <2>1
    <3> QED
      BY <1>1, <3>1
  <2>2. CASE n > 0 /\ new = [old EXCEPT ![n] = old[n] \cup {m}]
    <3>1. /\ new \in Seq(Classes) /\ Len(new) = n /\ DOMAIN new = 1 .. n
          /\ \A k \in 1 .. n : new[k] = IF k = n THEN old[n] \cup {m} ELSE old[k]
      BY <1>1, <1>2, <2>0, <2>2
    <3> QED
      BY <1>1, <3>1
  <2> QED
    BY <1>3, <2>1, <2>2
<1>5. /\ arrivals' \in [Ifaces -> Seq(Classes)] /\ arrivals'[i] = new
      /\ \A j \in Ifaces \ {i} : arrivals'[j] = arrivals[j]
  BY <1>3, <1>4 DEF WorldOK
<1> HIDE DEF Classes
<1>6. ASSUME NEW j \in Ifaces
      PROVE  /\ \A k \in DOMAIN arrivals[j] :
                   k \in DOMAIN arrivals'[j] /\ arrivals[j][k] \subseteq arrivals'[j][k]
             /\ \A k \in DOMAIN arrivals'[j] : \A x \in arrivals'[j][k] :
                   \/ x = m /\ j = i /\ k = Len(arrivals'[i])
                   \/ k \in DOMAIN arrivals[j] /\ x \in arrivals[j][k]
  <2>1. CASE j = i
    BY <1>4, <1>5, <2>1 DEF old
  <2>2. CASE j # i
    BY <1>5, <2>2
  <2> QED
    BY <2>1, <2>2
<1> QED
  BY <1>5, <1>6

\* Each class that is left was one before, and the classes keep their order.
LEMMA Left ==
    ASSUME WorldOK, NEW i \in Ifaces, NEW m \in Macs, Leave(i, m)
    PROVE  /\ arrivals' \in [Ifaces -> Seq(Classes)]
           /\ \A j \in Ifaces \ {i} : arrivals'[j] = arrivals[j]
           /\ \A x : x # m => \A p \in DOMAIN arrivals[i] : x \in arrivals[i][p] =>
                 \E q \in DOMAIN arrivals'[i] : x \in arrivals'[i][q]
           /\ \A q \in DOMAIN arrivals'[i] : \A x \in arrivals'[i][q] :
                 x # m /\ \E p \in DOMAIN arrivals[i] : x \in arrivals[i][p]
           /\ \A q, s \in DOMAIN arrivals'[i] : \A p, r \in DOMAIN arrivals[i] :
                 \A x \in arrivals'[i][q], y \in arrivals'[i][s] :
                    x \in arrivals[i][p] /\ y \in arrivals[i][r] =>
                       (q < s <=> p < r) /\ (q = s <=> p = r)
<1> DEFINE old == arrivals[i]
           new == arrivals'[i]
           n == Len(old)
<1>1. /\ old \in Seq(Classes) /\ n \in Nat /\ DOMAIN old = 1 .. n
      /\ \A p, r \in DOMAIN old : \A x : x \in old[p] /\ x \in old[r] => p = r
  <2>1. old \in Seq(Classes)
    BY DEF WorldOK
  <2>2. \A p, r \in DOMAIN old : \A x : x \in old[p] /\ x \in old[r] => p = r
    BY DEF WorldOK
  <2> HIDE DEF old, Classes
  <2> QED
    BY <2>1, <2>2
<1>2. PICK k \in DOMAIN old :
         /\ m \in old[k]
         /\ arrivals' = [arrivals EXCEPT ![i] =
                            IF old[k] = {m} THEN RemoveAt(old, k)
                            ELSE [old EXCEPT ![k] = old[k] \ {m}]]
  BY DEF Leave
<1>3. /\ new = IF old[k] = {m} THEN RemoveAt(old, k)
               ELSE [old EXCEPT ![k] = old[k] \ {m}]
      /\ \A j \in Ifaces \ {i} : arrivals'[j] = arrivals[j]
      /\ new \in Seq(Classes) => arrivals' \in [Ifaces -> Seq(Classes)]
  <2> HIDE DEF Classes
  <2> QED
    BY <1>2 DEF WorldOK
<1> DEFINE Was(q) == IF old[k] = {m} /\ q >= k THEN q + 1 ELSE q
<1> HIDE DEF old, new
<1>4. /\ new \in Seq(Classes) /\ DOMAIN new = 1 .. Len(new) /\ Len(new) \in Nat
      /\ \A q \in DOMAIN new : Was(q) \in DOMAIN old /\ new[q] = old[Was(q)] \ {m}
      /\ \A p \in DOMAIN old : old[p] # {m} => \E q \in DOMAIN new : p = Was(q)
  <2>1. CASE old[k] = {m}
    <3> HIDE DEF Classes
    <3>1. /\ new \in Seq(Classes) /\ Len(new) = n - 1
          /\ \A p \in 1 .. n - 1 : new[p] = old[IF p < k THEN p ELSE p + 1]
      <4>1. k \in 1 .. Len(old) /\ new = RemoveAt(old, k)
        BY <1>1, <1>3, <2>1
      <4>2. /\ RemoveAt(old, k) \in Seq(Classes)
            /\ Len(RemoveAt(old, k)) = Len(old) - 1
            /\ \A p \in 1 .. Len(old) - 1 :
                  RemoveAt(old, k)[p] = old[IF p < k THEN p ELSE p + 1]
        BY <1>1, <4>1, Removed
      <4> QED
        BY <4>1, <4>2
    <3>2. DOMAIN new = 1 .. n - 1
      BY <3>1
    <3>3. ASSUME NEW q \in DOMAIN new
          PROVE  Was(q) \in DOMAIN old /\ new[q] = old[Was(q)] \ {m}
      <4>1. /\ Was(q) = IF q < k THEN q ELSE q + 1
            /\ Was(q) \in DOMAIN old /\ Was(q) # k
        BY <1>1, <2>1, <3>2
      <4>2. new[q] = old[Was(q)]
        BY <3>1, <3>2, <4>1
      <4>3. m \notin old[Was(q)]
        BY <1>1, <1>2, <4>1
      <4> HIDE DEF Was
      <4> QED
        BY <4>1, <4>2, <4>3
    <3>4. ASSUME NEW p \in DOMAIN old, old[p] # {m}
          PROVE  \E q \in DOMAIN new : p = Was(q)
      <4>1. CASE p < k
        <5>1. p \in DOMAIN new /\ p = Was(p)
          BY <1>1, <3>2, <4>1
        <5> QED
          BY <5>1
      <4>2. CASE p > k
        <5>1. p - 1 \in DOMAIN new /\ p = Was(p - 1)
          BY <1>1, <2>1, <3>2, <4>2
        <5> QED
          BY <5>1
      <4> QED
        BY <1>1, <2>1, <3>4, <4>1, <4>2
    <3> QED
      BY <1>1, <3>1, <3>2, <3>3, <3>4
  <2>2. CASE old[k] # {m}
    <3>1. old[k] \ {m} \in Classes
      BY <1>1, <1>2, <2>2 DEF Classes
    <3>2. /\ new \in Seq(Classes) /\ DOMAIN new = 1 .. n /\ Len(new) = n
          /\ \A p \in 1 .. n : new[p] = IF p = k THEN old[k] \ {m} ELSE old[p]
      <4> HIDE DEF Classes
      <4> QED
        BY <1>1, <1>3, <2>2, <3>1
    <3>3. \A p \in 1 .. n : p # k => m \notin old[p]
      BY <1>1, <1>2
    <3> HIDE DEF Classes
    <3>4. \A q \in DOMAIN new : Was(q) = q
      BY <2>2
    <3> HIDE DEF Was
    <3> QED
      BY <1>1, <3>2, <3>3, <3>4
  <2> QED
    BY <2>1, <2>2
<1>5. \A q, s \in DOMAIN new :
         (q < s <=> Was(q) < Was(s)) /\ (q = s <=> Was(q) = Was(s))
  BY <1>1, <1>4
<1> HIDE DEF Was, Classes
<1>6. ASSUME NEW x, x # m, NEW p \in DOMAIN old, x \in old[p]
      PROVE  \E q \in DOMAIN new : x \in new[q]
  <2>1. PICK q \in DOMAIN new : p = Was(q)
    BY <1>4, <1>6
  <2> QED
    BY <1>4, <1>6, <2>1
<1>7. ASSUME NEW q \in DOMAIN new, NEW x \in new[q]
      PROVE  /\ x # m /\ Was(q) \in DOMAIN old /\ x \in old[Was(q)]
             /\ \A p \in DOMAIN old : x \in old[p] => p = Was(q)
  BY <1>1, <1>4
<1>8. ASSUME NEW q \in DOMAIN new, NEW s \in DOMAIN new,
             NEW p \in DOMAIN old, NEW r \in DOMAIN old,
             NEW x \in new[q], NEW y \in new[s], x \in old[p], y \in old[r]
      PROVE  (q < s <=> p < r) /\ (q = s <=> p = r)
  <2>1. p = Was(q) /\ r = Was(s)
    BY <1>7, <1>8
  <2> QED
    BY <1>5, <2>1
<1>11. \A q, s \in DOMAIN new : \A p, r \in DOMAIN old :
          \A x \in new[q], y \in new[s] :
             x \in old[p] /\ y \in old[r] =>
                (q < s <=> p < r) /\ (q = s <=> p = r)
  BY <1>8
<1>9. \A q \in DOMAIN new : \A x \in new[q] :
         x # m /\ \E p \in DOMAIN old : x \in old[p]
  BY <1>7
<1>10. arrivals' \in [Ifaces -> Seq(Classes)]
  BY <1>3, <1>4
<1> QED
  BY <1>3, <1>6, <1>9, <1>10, <1>11 DEF old, new

-----------------------------------------------------------------------------
(* The steps of the machine keep the invariant.                            *)

LEMMA HereTyped ==
    ASSUME NEW i
    PROVE  /\ \A x : x \in Here(i) <=> \E k \in DOMAIN arrivals[i] : x \in arrivals[i][k]
           /\ \A x : x \in Here(i)' <=> \E k \in DOMAIN arrivals'[i] : x \in arrivals'[i][k]
BY DEF Here, Range

LEMMA JoinKeeps ==
    ASSUME SnapInv, NEW i \in Ifaces, NEW m \in Macs, Join(i, m)
    PROVE  SnapInv'
<1> USE DEF SnapInv
<1>1. /\ \A j \in Ifaces : m \notin Here(j)
      /\ mode[i] = "AP" /\ mode' = mode
      /\ UNCHANGED <<stage, reading, history>>
  BY DEF Join
<1>2. /\ arrivals' \in [Ifaces -> Seq(Classes)]
      /\ \A j \in Ifaces \ {i} : arrivals'[j] = arrivals[j]
      /\ \A j \in Ifaces : \A k \in DOMAIN arrivals[j] :
            k \in DOMAIN arrivals'[j] /\ arrivals[j][k] \subseteq arrivals'[j][k]
      /\ \A j \in Ifaces : \A k \in DOMAIN arrivals'[j] : \A x \in arrivals'[j][k] :
            \/ x = m /\ j = i /\ k = Len(arrivals'[i])
            \/ k \in DOMAIN arrivals[j] /\ x \in arrivals[j][k]
  BY Joined
<1> HIDE DEF Classes
<1>3. \A j \in Ifaces : \A k \in DOMAIN arrivals[j] : m \notin arrivals[j][k]
  BY <1>1, HereTyped
<1>4. WorldOK'
  <2>1. ASSUME NEW j \in Ifaces, mode[j] # "AP" PROVE arrivals'[j] = <<>>
    <3>1. arrivals[j] = <<>> /\ j # i
      BY <1>1, <2>1 DEF WorldOK
    <3> QED
      BY <1>2, <3>1
  <2>2. ASSUME NEW j \in Ifaces, NEW l \in Ifaces,
               NEW k \in DOMAIN arrivals'[j], NEW h \in DOMAIN arrivals'[l],
               NEW x \in arrivals'[j][k], x \in arrivals'[l][h]
        PROVE  j = l /\ k = h
    BY <1>2, <1>3, <2>2 DEF WorldOK
  <2> QED
    BY <1>1, <1>2, <2>1, <2>2 DEF WorldOK
<1>5. ASSUME NEW j \in Ifaces, NEW x
      PROVE  x \in Here(j)' <=> x \in Here(j) \/ (x = m /\ j = i /\ x \in Here(i)')
  BY <1>2, HereTyped
<1>6. StayedHere' /\ m \notin stayed
  BY <1>1, <1>5 DEF StayedHere, history
<1>7. OrderOK'
  <2> SUFFICES ASSUME NEW j \in Ifaces, NEW x \in stayed \cap Here(j)',
                      NEW y \in stayed \cap Here(j)',
                      Place(stations, x) < Place(stations, y)
               PROVE  Earlier(j, x, y)'
    BY <1>1 DEF OrderOK, Place, Clients, history, reading
  <2>1. x \in Here(j) /\ y \in Here(j)
    BY <1>5, <1>6
  <2>2. Earlier(j, x, y)
    BY <2>1 DEF OrderOK
  <2> QED
    BY <1>2, <2>2 DEF Earlier
<1>8. StageOK' /\ StationsOK' /\ LookupOK'
  BY <1>1 DEF StageOK, StationsOK, LookupOK, reading, history
<1> QED
  BY <1>4, <1>6, <1>7, <1>8

LEMMA LeaveKeeps ==
    ASSUME SnapInv, NEW i \in Ifaces, NEW m \in Macs, Leave(i, m)
    PROVE  SnapInv'
<1> USE DEF SnapInv
<1>1. /\ mode' = mode /\ stayed' = stayed \ {m}
      /\ UNCHANGED <<stage, reading, steady, broken>>
  BY DEF Leave
<1>2. /\ arrivals' \in [Ifaces -> Seq(Classes)]
      /\ \A j \in Ifaces \ {i} : arrivals'[j] = arrivals[j]
      /\ \A x : x # m => \A p \in DOMAIN arrivals[i] : x \in arrivals[i][p] =>
            \E q \in DOMAIN arrivals'[i] : x \in arrivals'[i][q]
      /\ \A q \in DOMAIN arrivals'[i] : \A x \in arrivals'[i][q] :
            x # m /\ \E p \in DOMAIN arrivals[i] : x \in arrivals[i][p]
      /\ \A q, s \in DOMAIN arrivals'[i] : \A p, r \in DOMAIN arrivals[i] :
            \A x \in arrivals'[i][q], y \in arrivals'[i][s] :
               x \in arrivals[i][p] /\ y \in arrivals[i][r] =>
                  (q < s <=> p < r) /\ (q = s <=> p = r)
  BY Left
<1> HIDE DEF Classes
<1>3. PICK o \in DOMAIN arrivals[i] : m \in arrivals[i][o]
  BY DEF Leave
<1>4. WorldOK'
  <2>1. ASSUME NEW j \in Ifaces, mode[j] # "AP" PROVE arrivals'[j] = <<>>
    <3>1. arrivals[j] = <<>>
      BY <2>1 DEF WorldOK
    <3>2. j # i
      BY <1>3, <3>1
    <3> QED
      BY <1>2, <3>1, <3>2
  <2>2. ASSUME NEW j \in Ifaces, NEW l \in Ifaces,
               NEW k \in DOMAIN arrivals'[j], NEW h \in DOMAIN arrivals'[l],
               NEW x \in arrivals'[j][k], x \in arrivals'[l][h]
        PROVE  j = l /\ k = h
    <3>1. PICK p \in DOMAIN arrivals[j] : x \in arrivals[j][p] /\ (j # i => p = k)
      BY <1>2
    <3>2. PICK r \in DOMAIN arrivals[l] : x \in arrivals[l][r] /\ (l # i => r = h)
      BY <1>2, <2>2
    <3>3. j = l /\ p = r
      BY <3>1, <3>2 DEF WorldOK
    <3> QED
      BY <1>2, <2>2, <3>1, <3>2, <3>3
  <2> QED
    BY <1>1, <1>2, <2>1, <2>2 DEF WorldOK
<1>5. ASSUME NEW j \in Ifaces, NEW x
      PROVE  x # m => (x \in Here(j)' <=> x \in Here(j))
  <2>1. CASE j = i
    BY <1>2, <2>1, HereTyped
  <2>2. CASE j # i
    BY <1>2, <2>2, HereTyped
  <2> QED
    BY <2>1, <2>2
<1>6. StayedHere'
  BY <1>1, <1>5 DEF StayedHere
<1>7. OrderOK'
  <2> SUFFICES ASSUME NEW j \in Ifaces, NEW x \in stayed' \cap Here(j)',
                      NEW y \in stayed' \cap Here(j)',
                      Place(stations, x) < Place(stations, y)
               PROVE  Earlier(j, x, y)'
    BY <1>1 DEF OrderOK, Place, Clients, reading
  <2>1. /\ x # m /\ y # m /\ x \in stayed /\ y \in stayed
        /\ x \in Here(j) /\ y \in Here(j)
    BY <1>1, <1>5
  <2>2. Earlier(j, x, y)
    BY <2>1 DEF OrderOK
  <2>3. CASE j = i /\ j \notin Silent
    <3>1. PICK p, r \in DOMAIN arrivals[i] :
             /\ x \in arrivals[i][p] /\ y \in arrivals[i][r]
             /\ p < r \/ (p = r /\ x < y)
      BY <2>2, <2>3 DEF Earlier
    <3>2. PICK q \in DOMAIN arrivals'[i] : x \in arrivals'[i][q]
      BY <1>2, <2>1, <3>1
    <3>3. PICK s \in DOMAIN arrivals'[i] : y \in arrivals'[i][s]
      BY <1>2, <2>1, <3>1
    <3>4. q < s \/ (q = s /\ x < y)
      BY <1>2, <3>1, <3>2, <3>3
    <3> QED
      BY <2>3, <3>2, <3>3, <3>4 DEF Earlier
  <2>4. CASE j # i \/ j \in Silent
    BY <1>2, <2>2, <2>4 DEF Earlier
  <2> QED
    BY <2>3, <2>4
<1>8. StageOK' /\ StationsOK' /\ LookupOK'
  BY <1>1 DEF StageOK, StationsOK, LookupOK, reading
<1> QED
  BY <1>4, <1>6, <1>7, <1>8

LEMMA SetModeKeeps ==
    ASSUME SnapInv, NEW i \in Ifaces, SetMode(i)
    PROVE  SnapInv'
<1> USE DEF SnapInv
<1>1. /\ arrivals' = [arrivals EXCEPT ![i] = <<>>]
      /\ stayed' = stayed \ Here(i)
      /\ steady' = (stage = "dev" \/ (steady /\ ap \notin {i, NoIface}))
      /\ UNCHANGED <<stage, reading, broken>>
  BY DEF SetMode
<1>2. /\ mode' \in [Ifaces -> Modes]
      /\ \A j \in Ifaces \ {i} : mode'[j] = mode[j]
  <2>1. PICK k \in Modes : mode' = [mode EXCEPT ![i] = k]
    BY DEF SetMode
  <2> HIDE DEF Modes
  <2> QED
    BY <2>1 DEF WorldOK
<1> HIDE DEF Classes
<1>3. /\ arrivals' \in [Ifaces -> Seq(Classes)]
      /\ arrivals'[i] = <<>>
      /\ \A j \in Ifaces \ {i} : arrivals'[j] = arrivals[j]
  BY <1>1 DEF WorldOK
<1>4. WorldOK'
  <2>1. \A j \in Ifaces : mode'[j] # "AP" => arrivals'[j] = <<>>
    BY <1>2, <1>3 DEF WorldOK
  <2>2. ASSUME NEW j \in Ifaces, NEW l \in Ifaces,
               NEW k \in DOMAIN arrivals'[j], NEW h \in DOMAIN arrivals'[l],
               NEW x \in arrivals'[j][k], x \in arrivals'[l][h]
        PROVE  j = l /\ k = h
    <3>1. j # i /\ l # i
      BY <1>3
    <3> QED
      BY <1>3, <2>2, <3>1 DEF WorldOK
  <2>3. \A j, l \in Ifaces :
           \A k \in DOMAIN arrivals'[j], h \in DOMAIN arrivals'[l] :
              arrivals'[j][k] \cap arrivals'[l][h] # {} => j = l /\ k = h
    BY <2>2
  <2> QED
    BY <1>2, <1>3, <2>1, <2>3 DEF WorldOK
<1>5. \A j \in Ifaces : Here(j)' = IF j = i THEN {} ELSE Here(j)
  BY <1>3 DEF Here, Range
<1>6. StayedHere'
  BY <1>1, <1>5 DEF StayedHere
<1>7. OrderOK'
  <2> SUFFICES ASSUME NEW j \in Ifaces, NEW x \in stayed' \cap Here(j)',
                      NEW y \in stayed' \cap Here(j)',
                      Place(stations, x) < Place(stations, y)
               PROVE  Earlier(j, x, y)'
    BY <1>1 DEF OrderOK, Place, Clients, reading
  <2>1. j # i /\ Earlier(j, x, y)
    BY <1>1, <1>5 DEF OrderOK
  <2> QED
    BY <1>3, <2>1 DEF Earlier
<1>8. StageOK'
  <2>1. NoIface \notin Ifaces
    BY SnapshotAssumption DEF NoIface
  <2> QED
    BY <1>1, <1>2, <2>1 DEF StageOK, reading, Asking
<1>9. StationsOK' /\ LookupOK'
  BY <1>1 DEF StageOK, StationsOK, LookupOK, reading, Asking
<1> QED
  BY <1>4, <1>6, <1>7, <1>8, <1>9

-----------------------------------------------------------------------------
(* The steps of the snapshot keep the invariant.                           *)

LEMMA MachineRests ==
    ASSUME SnapInv, UNCHANGED <<world, stations, stayed>>
    PROVE  WorldOK' /\ StayedHere' /\ OrderOK' /\ Dump(stations')
<1>1. /\ arrivals' = arrivals /\ mode' = mode
      /\ stations' = stations /\ stayed' = stayed
  BY DEF world
<1>2. WorldOK' /\ StayedHere'
  BY <1>1 DEF SnapInv, WorldOK, StayedHere, Here
<1>3. Dump(stations')
  BY <1>1 DEF SnapInv, StationsOK
<1>4. OrderOK'
  <2>1. OrderOK
    BY DEF SnapInv
  <2>2. \A i : Here(i)' = Here(i)
    BY <1>1 DEF Here
  <2>3. \A m : Place(stations', m) = Place(stations, m)
    BY <1>1
  <2>4. \A i, m, n : Earlier(i, m, n)' <=> Earlier(i, m, n)
    BY <1>1 DEF Earlier
  <2> QED
    BY <1>1, <2>1, <2>2, <2>3, <2>4 DEF OrderOK
<1> QED
  BY <1>2, <1>3, <1>4

LEMMA ReadDevKeeps ==
    ASSUME SnapInv, ReadDev
    PROVE  SnapInv'
<1> USE DEF SnapInv
<1>1. PICK aps : /\ aps = {i \in Ifaces : mode[i] = "AP"}
                 /\ warned' = (Cardinality(aps) > 1)
                 /\ \/ aps = {} /\ stage' = "done" /\ result' = "off" /\ ap' = ap
                    \/ /\ aps # {} /\ ap' = Min(aps) /\ stage' = "stations"
                       /\ result' = result
  <2>1. PICK out \in DevOutputs :
           LET aps == AccessPoints(out) IN
           /\ warned' = (Cardinality(aps) > 1)
           /\ IF aps = {}
              THEN Conclude("off") /\ UNCHANGED ap
              ELSE ap' = Min(aps) /\ stage' = "stations" /\ UNCHANGED result
    BY DEF ReadDev
  <2>2. AccessPoints(out) = {i \in Ifaces : mode[i] = "AP"}
    BY DevParsed DEF WorldOK
  <2> HIDE DEF SnapInv
  <2> QED
    BY <2>1, <2>2 DEF Conclude
<1>2. /\ stage = "dev" /\ warned' \in BOOLEAN
      /\ UNCHANGED <<world, stations, gateway, ips, lookup, history>>
  BY <1>1 DEF ReadDev
<1>3. aps # {} => ap' \in Ifaces /\ mode[ap'] = "AP"
  <2>1. aps \in SUBSET Nat
    BY <1>1, SnapshotAssumption
  <2> QED
    BY <1>1, <2>1, MinNat
<1>4. WorldOK' /\ StayedHere' /\ OrderOK' /\ Dump(stations')
  <2> HIDE DEF SnapInv
  <2> QED
    BY <1>2, MachineRests DEF history
<1>5. StageOK'
  BY <1>1, <1>2, <1>3 DEF StageOK, Asking, world, history
<1>6. StationsOK' /\ LookupOK'
  BY <1>1, <1>2, <1>4 DEF StationsOK, LookupOK, Asking
<1> QED
  BY <1>4, <1>5, <1>6

LEMMA ListStationsKeeps ==
    ASSUME SnapInv, ListStations
    PROVE  SnapInv'
<1> USE DEF SnapInv
<1>1. /\ stage = "stations" /\ stage' = "address" /\ stayed' = Here(ap)
      /\ UNCHANGED <<world, ap, gateway, ips, lookup, warned, result, steady, broken>>
  BY DEF ListStations
<1>2. PICK out \in DumpOutputs(ap) : stations' = Stations(out)
  BY DEF ListStations
<1>3. ap \in Ifaces /\ (steady => mode[ap] = "AP")
  BY <1>1 DEF StageOK, Asking
<1>4. /\ Dump(stations')
      /\ mode[ap] = "AP" => \A k \in DOMAIN stations' : stations'[k].mac \in Macs
      /\ \A m, n \in Here(ap) :
            Place(stations', m) < Place(stations', n) <=> Earlier(ap, m, n)
  <2> HIDE DEF WorldOK
  <2> QED
    BY <1>2, <1>3, DumpListed
<1>5. WorldOK' /\ StayedHere'
  BY <1>1, <1>3 DEF WorldOK, StayedHere, world, Here
<1>6. OrderOK'
  <2> SUFFICES ASSUME NEW i \in Ifaces, NEW m \in stayed' \cap Here(i)',
                      NEW n \in stayed' \cap Here(i)',
                      Place(stations', m) < Place(stations', n)
               PROVE  Earlier(i, m, n)'
    BY DEF OrderOK, Place, Clients
  <2>1. m \in Here(ap) /\ n \in Here(ap) /\ m \in Here(i) /\ n \in Here(i)
    BY <1>1 DEF world, Here
  <2>2. i = ap
    BY <1>3, <2>1, HereTyped DEF WorldOK
  <2>3. Earlier(ap, m, n)
    BY <1>4, <2>1
  <2> QED
    BY <1>1, <2>2, <2>3 DEF Earlier, world
<1>7. StageOK'
  BY <1>1 DEF StageOK, Asking, world
<1>8. StationsOK' /\ LookupOK'
  BY <1>1, <1>3, <1>4 DEF StationsOK, LookupOK, Asking
<1> QED
  BY <1>5, <1>6, <1>7, <1>8

LEMMA ReadNeighboursKeeps ==
    ASSUME SnapInv, NEW t \in Tables, ReadNeighbours(t)
    PROVE  SnapInv'
<1> USE DEF SnapInv
<1>1. /\ stage = "neigh" /\ stage' = "names"
      /\ UNCHANGED <<world, ap, stations, gateway, warned, result, history>>
  BY DEF ReadNeighbours
<1>2. WorldOK' /\ StayedHere' /\ OrderOK' /\ Dump(stations')
  <2> HIDE DEF SnapInv
  <2> QED
    BY <1>1, MachineRests DEF history
<1>3. StageOK' /\ StationsOK'
  BY <1>1, <1>2 DEF StageOK, StationsOK, Asking, world, history
<1>4. LookupOK'
  <2>1. ASSUME NEW m \in DOMAIN ips' PROVE ips'[m] \in Ips
    <3>1. Usable(t, m) # {} /\ ips'[m] = t[Best(t, m)].ip
      BY Decorated
    <3>2. Best(t, m) \in Usable(t, m)
      BY <3>1, BestExists
    <3>3. t[Best(t, m)] \in Entries /\ t[Best(t, m)].family = "inet"
      BY <3>2, EntriesTyped
    <3> QED
      BY <3>1, <3>3 DEF Ips
  <2>2. ASSUME NEW m \in DOMAIN lookup'
        PROVE  /\ m \in DOMAIN ips'
               /\ lookup'[m] \in [done : BOOLEAN, left : 0 .. Patience, name : Names]
    <3>1. m \in DOMAIN ips' /\ lookup'[m] = Waiting
      BY Decorated
    <3>2. None \in Names
      BY DEF Names
    <3> HIDE DEF Names
    <3> QED
      BY <3>1, <3>2, SnapshotAssumption DEF Waiting
  <2> HIDE DEF Names, Ips
  <2> QED
    BY <2>1, <2>2 DEF LookupOK
<1> QED
  BY <1>2, <1>3, <1>4

LEMMA LookupKeeps ==
    ASSUME SnapInv, NEW m,
           \/ Tick(m) \/ LookupFails(m) \/ \E p \in Packets : Receive(m, p)
    PROVE  SnapInv'
<1> USE DEF SnapInv
<1>1. UNCHANGED <<world, stage, ap, stations, gateway, ips, warned, result, history>>
  BY DEF Tick, LookupFails, Receive
<1>2. WorldOK' /\ StayedHere' /\ OrderOK' /\ Dump(stations')
  <2> HIDE DEF SnapInv
  <2> QED
    BY <1>1, MachineRests DEF history
<1>3. StageOK' /\ StationsOK'
  BY <1>1, <1>2 DEF StageOK, StationsOK, Asking, world, history
<1> DEFINE Records == [done : BOOLEAN, left : 0 .. Patience, name : Names]
<1>4. None \in Names /\ \A p \in Packets : Hostname[p] \in Names
  <2>1. DOMAIN Hostname = Packets
    BY DEF Hostname
  <2> HIDE DEF Hostname
  <2> QED
    BY <2>1 DEF Names, Range
<1> HIDE DEF Names
<1>5. \A n \in Names : Done(n) \in Records
  BY SnapshotAssumption DEF Done
<1>6. ASSUME NEW r \in Records, r.left > 0
      PROVE  [r EXCEPT !.left = r.left - 1] \in Records
  <2>1. r.left - 1 \in 0 .. Patience
    BY <1>6, SnapshotAssumption
  <2> QED
    BY <2>1
<1>7. DOMAIN lookup' = DOMAIN lookup /\ \A n \in DOMAIN lookup : lookup'[n] \in Records
  <2>1. \A n \in DOMAIN lookup : lookup[n] \in Records
    BY DEF LookupOK
  <2>2. CASE Tick(m)
    <3>1. /\ lookup[m].left > 0 /\ m \in DOMAIN lookup
          /\ lookup' = [lookup EXCEPT ![m] = [lookup[m] EXCEPT !.left = lookup[m].left - 1]]
      BY <2>2 DEF Tick
    <3>2. [lookup[m] EXCEPT !.left = lookup[m].left - 1] \in Records
      BY <1>6, <2>1, <3>1
    <3> HIDE DEF Records, SnapInv
    <3> QED
      BY <2>1, <3>1, <3>2
  <2>3. CASE LookupFails(m)
    <3>1. lookup' = [lookup EXCEPT ![m] = Done(None)]
      BY <2>3 DEF LookupFails
    <3> HIDE DEF Records, SnapInv
    <3> QED
      BY <1>4, <1>5, <2>1, <3>1
  <2>4. CASE \E p \in Packets : Receive(m, p)
    <3>1. PICK p \in Packets :
             \/ lookup' = [lookup EXCEPT ![m] = Done(Hostname[p])]
             \/ lookup' = lookup
      BY <2>4 DEF Receive
    <3> HIDE DEF Records, SnapInv
    <3> QED
      BY <1>4, <1>5, <2>1, <3>1
  <2> QED
    BY <2>2, <2>3, <2>4
<1>8. LookupOK'
  BY <1>1, <1>7 DEF LookupOK
<1> QED
  BY <1>2, <1>3, <1>8

LEMMA ConcludeKeeps ==
    ASSUME SnapInv,
           \/ ReadAddress \/ Vanished \/ ToolFails \/ Assemble \/ NextSnapshot
    PROVE  SnapInv'
<1> USE DEF SnapInv
<1>1. UNCHANGED <<world, stations, stayed>>
  BY DEF ReadAddress, Vanished, ToolFails, Assemble, NextSnapshot, history
<1>2. WorldOK' /\ StayedHere' /\ OrderOK' /\ Dump(stations')
  <2> HIDE DEF SnapInv
  <2> QED
    BY <1>1, MachineRests
<1>3. LookupOK'
  <2>1. CASE UNCHANGED <<ips, lookup>>
    BY <2>1 DEF LookupOK
  <2>2. CASE NextSnapshot
    BY <2>2 DEF NextSnapshot, LookupOK
  <2> QED
    BY <2>1, <2>2 DEF ReadAddress, Vanished, ToolFails, Assemble
<1>4. StageOK' /\ StationsOK'
  <2>1. CASE ReadAddress
    BY <1>2, <2>1 DEF ReadAddress, StageOK, StationsOK, Asking, world, history
  <2>2. CASE Vanished
    BY <1>2, <2>2 DEF Vanished, Conclude, StageOK, StationsOK, Asking, world, history
  <2>3. CASE ToolFails
    <3>1. /\ broken' = broken \cup {stage}
          /\ UNCHANGED <<world, ap, stations, gateway, steady>>
          /\ \/ /\ stage \in {"dev", "stations"} /\ stage' = "done"
                /\ result' = "error" /\ warned' = warned
             \/ /\ stage \in {"address", "neigh"} /\ stage' \in {"neigh", "names"}
                /\ warned' = TRUE /\ result' = result
      BY <2>3 DEF ToolFails, Conclude
    <3> QED
      BY <1>2, <3>1 DEF StageOK, StationsOK, Asking, world
  <2>4. CASE Assemble
    BY <1>2, <2>4 DEF Assemble, Conclude, StageOK, StationsOK, Asking, world, history
  <2>5. CASE NextSnapshot
    <3>1. NoIface \notin Ifaces
      BY SnapshotAssumption DEF NoIface
    <3> QED
      BY <1>2, <2>5, <3>1 DEF NextSnapshot, StageOK, StationsOK, Asking, world
  <2> QED
    BY <2>1, <2>2, <2>3, <2>4, <2>5
<1> QED
  BY <1>2, <1>3, <1>4

LEMMA SnapInit == Init => SnapInv
<1> SUFFICES ASSUME Init PROVE SnapInv
  OBVIOUS
<1> USE DEF Init
<1>1. WorldOK
  BY DEF WorldOK
<1>2. StageOK /\ StayedHere /\ LookupOK /\ OrderOK
  <2>1. NoIface \notin Ifaces
    BY SnapshotAssumption DEF NoIface
  <2>2. StageOK
    BY <2>1 DEF StageOK, Asking
  <2>3. StayedHere /\ OrderOK
    BY DEF StayedHere, OrderOK
  <2>4. ips = <<>> /\ lookup = <<>>
    OBVIOUS
  <2>5. LookupOK
    BY <2>4 DEF LookupOK
  <2> QED
    BY <2>2, <2>3, <2>5
<1>3. StationsOK
  <2>1. DOMAIN stations = 1 .. 0
    OBVIOUS
  <2> QED
    BY <2>1 DEF StationsOK, Dump, Asking
<1> QED
  BY <1>1, <1>2, <1>3 DEF SnapInv

LEMMA SnapInvariant == Spec => []SnapInv
<1>1. SnapInv /\ [Next]_vars => SnapInv'
  <2> SUFFICES ASSUME SnapInv, [Next]_vars PROVE SnapInv'
    OBVIOUS
  <2>1. CASE \E i \in Ifaces : SetMode(i)
    BY <2>1, SetModeKeeps
  <2>2. CASE \E i \in Ifaces : \E m \in Macs : Join(i, m)
    BY <2>2, JoinKeeps
  <2>3. CASE \E i \in Ifaces : \E m \in Macs : Leave(i, m)
    BY <2>3, LeaveKeeps
  <2>4. CASE \E m \in Listed : \/ Tick(m) \/ LookupFails(m)
                               \/ \E p \in Packets : Receive(m, p)
    BY <2>4, LookupKeeps
  <2>5. CASE ReadDev
    BY <2>5, ReadDevKeeps
  <2>6. CASE ListStations
    BY <2>6, ListStationsKeeps
  <2>7. CASE \E t \in Tables : ReadNeighbours(t)
    BY <2>7, ReadNeighboursKeeps
  <2>8. CASE ReadAddress \/ Vanished \/ ToolFails \/ Assemble \/ NextSnapshot
    BY <2>8, ConcludeKeeps
  <2>9. CASE UNCHANGED vars
    <3>1. UNCHANGED <<world, stations, stayed>> /\ UNCHANGED <<mode, stage, reading, history>>
      BY <2>9 DEF vars, world, reading, history
    <3>2. WorldOK' /\ StayedHere' /\ OrderOK' /\ Dump(stations')
      BY <3>1, MachineRests
    <3> QED
      BY <3>1, <3>2 DEF SnapInv, StageOK, StationsOK, LookupOK, reading, history
  <2> QED
    BY <2>1, <2>2, <2>3, <2>4, <2>5, <2>6, <2>7, <2>8, <2>9 DEF Next, Progress
<1> QED
  BY <1>1, SnapInit, PTL DEF Spec

-----------------------------------------------------------------------------
(* Reading a compressed name.                                              *)

\* Where a walk goes from cell p.
Onward(body, p) ==
    IF p \notin DOMAIN body THEN 0
    ELSE IF body[p].is = "label" THEN p + 1
    ELSE IF body[p].is = "pointer" THEN body[p].to
    ELSE 0

Trail(body, p, w) ==
    /\ w \in [Nat -> Nat] /\ w[0] = p
    /\ \A k \in Nat : w[k + 1] = Onward(body, w[k])

LEMMA OnwardType ==
    ASSUME NEW body, Cells(body), NEW p \in Nat
    PROVE  Onward(body, p) \in Nat
BY DEF Cells, Onward

LEMMA TrailExists ==
    ASSUME NEW body, Cells(body), NEW p \in Nat
    PROVE  \E w : Trail(body, p, w)
<1> DEFINE step == [q \in Nat |-> Onward(body, q)]
<1>1. step \in [Nat -> Nat]
  BY OnwardType
<1>2. \A q \in Nat : step[q] = Onward(body, q)
  OBVIOUS
<1> HIDE DEF step
<1>3. PICK w : Repeats(w, step, p, Nat)
  BY <1>1, Iterates
<1>4. \A k \in Nat : w[k + 1] = Onward(body, w[k])
  BY <1>2, <1>3 DEF Repeats
<1> QED
  BY <1>3, <1>4 DEF Repeats, Trail

LEMMA TrailUnique ==
    ASSUME NEW body, NEW p, NEW v, NEW w,
           Trail(body, p, v), Trail(body, p, w), NEW n \in Nat
    PROVE  v[n] = w[n]
<1> DEFINE D == {k \in Nat : v[k] # w[k]}
<1>1. SUFFICES ASSUME D # {} PROVE FALSE
  OBVIOUS
<1>2. PICK k \in D : \A l \in D : k <= l
  <2>1. D \in SUBSET Nat
    OBVIOUS
  <2> HIDE DEF D
  <2> QED
    BY <1>1, <2>1, LeastNat
<1>3. k # 0
  BY <1>2 DEF Trail
<1>4. k - 1 \in Nat /\ k - 1 \notin D
  BY <1>2, <1>3
<1>5. v[k] = Onward(body, v[k - 1]) /\ w[k] = Onward(body, w[k - 1])
  <2>1. k = (k - 1) + 1
    OBVIOUS
  <2> QED
    BY <1>4, <2>1 DEF Trail
<1> QED
  BY <1>2, <1>4, <1>5

\* The trail from the next cell is the rest of the trail.
LEMMA TrailRest ==
    ASSUME NEW body, NEW p \in Nat, NEW w, Trail(body, p, w),
           NEW v, Trail(body, Onward(body, p), v), NEW n \in Nat
    PROVE  w[n + 1] = v[n]
<1> DEFINE u == [k \in Nat |-> w[k + 1]]
<1>1. u \in [Nat -> Nat] /\ u[0] = Onward(body, p)
  BY DEF Trail
<1>2. ASSUME NEW k \in Nat PROVE u[k + 1] = Onward(body, u[k])
  BY DEF Trail
<1>3. Trail(body, Onward(body, p), u)
  <2> HIDE DEF u
  <2> QED
    BY <1>1, <1>2 DEF Trail
<1>4. u[n] = v[n]
  <2> HIDE DEF u
  <2> QED
    BY <1>3, TrailUnique
<1> QED
  BY <1>4

\* Walk is a trail's beginning.
LEMMA WalkIs ==
    ASSUME NEW body, Cells(body), NEW p \in Nat, NEW w, Trail(body, p, w)
    PROVE  Walk(body, p) = [k \in 0 .. MaxJumps + MaxName |-> w[k]]
<1> DEFINE Step(f, k) ==
              IF k = 0 THEN p
              ELSE LET q == f[k - 1] IN
                   IF q \notin DOMAIN body THEN 0
                   ELSE IF body[q].is = "label" THEN q + 1
                   ELSE IF body[q].is = "pointer" THEN body[q].to
                   ELSE 0
           Built(f) == f = [k \in Nat |-> Step(f, k)]
           at == CHOOSE f : Built(f)
<1>1. Walk(body, p) = [k \in 0 .. MaxJumps + MaxName |-> at[k]]
  BY DEF Walk
<1>2. \A f, k : Step(f, k) = IF k = 0 THEN p ELSE Onward(body, f[k - 1])
  BY DEF Onward
<1> HIDE DEF Step
<1>3. Built(w)
  <2>1. ASSUME NEW k \in Nat PROVE w[k] = Step(w, k)
    <3>1. CASE k = 0
      BY <1>2, <3>1 DEF Trail
    <3>2. CASE k # 0
      <4>1. k - 1 \in Nat /\ k = (k - 1) + 1
        BY <3>2
      <4>2. w[k] = Onward(body, w[k - 1])
        BY <4>1 DEF Trail
      <4> QED
        BY <1>2, <3>2, <4>2
    <3> QED
      BY <3>1, <3>2
  <2>2. w = [k \in Nat |-> w[k]]
    BY DEF Trail
  <2> QED
    BY <2>1, <2>2
<1>4. Built(at)
  <2> HIDE DEF Built
  <2> QED
    BY <1>3
<1>5. Trail(body, p, at)
  <2> HIDE DEF at
  <2>1. at = [k \in Nat |-> Step(at, k)]
    BY <1>4
  <2>2. at[0] = p
    BY <1>2, <2>1
  <2>3. ASSUME NEW k \in Nat PROVE at[k + 1] = Onward(body, at[k])
    <3>1. k + 1 \in Nat /\ k + 1 # 0 /\ (k + 1) - 1 = k
      OBVIOUS
    <3>2. at[k + 1] = Step(at, k + 1)
      BY <2>1, <3>1
    <3> QED
      BY <1>2, <3>1, <3>2
  <2>4. \A k \in Nat : at[k] \in Nat
    <3> DEFINE D == {k \in Nat : at[k] \notin Nat}
    <3>1. SUFFICES ASSUME D # {} PROVE FALSE
      OBVIOUS
    <3>2. PICK k \in D : \A l \in D : k <= l
      <4>1. D \in SUBSET Nat
        OBVIOUS
      <4> HIDE DEF D
      <4> QED
        BY <3>1, <4>1, LeastNat
    <3>3. k # 0
      BY <2>2, <3>2
    <3>4. k - 1 \in Nat /\ k - 1 \notin D /\ k = (k - 1) + 1
      BY <3>2, <3>3
    <3>5. at[k] = Onward(body, at[k - 1]) /\ at[k - 1] \in Nat
      BY <2>3, <3>4
    <3> QED
      BY <3>2, <3>5, OnwardType
  <2>5. at \in [Nat -> Nat]
    BY <2>1, <2>4
  <2> QED
    BY <2>2, <2>3, <2>5 DEF Trail
<1> HIDE DEF at
<1>6. \A k \in Nat : at[k] = w[k]
  BY <1>5, TrailUnique
<1> QED
  BY <1>1, <1>6, DnsAssumption

-----------------------------------------------------------------------------
(* Names along a trail.                                                    *)

Has(body, w, kind) == {k \in Nat : body[w[k]].is = kind}

EndsAt(body, w, n) == w[n] \in DOMAIN body /\ body[w[n]].is = "end"

LabelAt(body, w, n, k) ==
    CHOOSE i \in 0 .. n - 1 : /\ i \in Has(body, w, "label")
                              /\ Below(Has(body, w, "label"), i) = k - 1

NameTo(body, w, n) ==
    [k \in 1 .. Below(Has(body, w, "label"), n) |->
        body[w[LabelAt(body, w, n, k)]].text]

\* A trail that has come to an end before the name has no name.
LEMMA NoEnd ==
    ASSUME NEW body, Cells(body), NEW w, Trail(body, 0, w), NEW n \in Nat
    PROVE  w[n] = 0
<1> DEFINE D == {k \in Nat : w[k] # 0}
<1>1. SUFFICES ASSUME D # {} PROVE FALSE
  OBVIOUS
<1>2. PICK k \in D : \A l \in D : k <= l
  <2>1. D \in SUBSET Nat
    OBVIOUS
  <2> HIDE DEF D
  <2> QED
    BY <1>1, <2>1, LeastNat
<1>3. k # 0
  BY <1>2 DEF Trail
<1>4. k - 1 \in Nat /\ k - 1 \notin D /\ k = (k - 1) + 1
  BY <1>2, <1>3
<1>5. w[k] = Onward(body, w[k - 1]) /\ w[k - 1] = 0
  BY <1>4 DEF Trail
<1> QED
  BY <1>2, <1>5 DEF Onward, Cells

\* What is behind the first cell of a name that does not end there.
LEMMA NameRest ==
    ASSUME NEW body, Cells(body), NEW p \in Nat, NEW w, Trail(body, p, w),
           NEW q, q = Onward(body, p), NEW v, Trail(body, q, v),
           NEW n \in Nat, EndsAt(body, w, n + 1)
    PROVE  /\ p \in DOMAIN body /\ body[p].is \in {"label", "pointer"}
           /\ EndsAt(body, v, n)
           /\ \A kind : Below(Has(body, w, kind), n + 1) =
                 Below(Has(body, v, kind), n) + (IF body[p].is = kind THEN 1 ELSE 0)
<1>1. q \in Nat
  BY OnwardType
<1>2. \A k \in Nat : w[k + 1] = v[k]
  BY TrailRest
<1>3. EndsAt(body, v, n)
  BY <1>2 DEF EndsAt
<1>4. ASSUME q = 0 PROVE FALSE
  <2>1. Trail(body, 0, v)
    BY <1>4
  <2>2. v[n] = 0
    BY <2>1, NoEnd
  <2> QED
    BY <1>3, <2>2 DEF EndsAt, Cells
<1>5. p \in DOMAIN body /\ body[p].is \in {"label", "pointer"}
  BY <1>4 DEF Onward
<1>6. ASSUME NEW kind
      PROVE  Below(Has(body, w, kind), n + 1) =
                Below(Has(body, v, kind), n) + (IF body[p].is = kind THEN 1 ELSE 0)
  <2>1. \A k \in Nat : k + 1 \in Has(body, w, kind) <=> k \in Has(body, v, kind)
    BY <1>2 DEF Has
  <2>2. 0 \in Has(body, w, kind) <=> body[p].is = kind
    BY DEF Has, Trail
  <2> QED
    BY <2>1, <2>2, BelowShift
<1> QED
  BY <1>3, <1>5, <1>6

\* The label that LabelAt chooses.
LEMMA LabelThere ==
    ASSUME NEW body, NEW w, NEW n \in Nat,
           NEW k \in 1 .. Below(Has(body, w, "label"), n)
    PROVE  /\ LabelAt(body, w, n, k) \in 0 .. n - 1
           /\ \A i \in 0 .. n - 1 :
                 i = LabelAt(body, w, n, k) <=>
                    /\ i \in Has(body, w, "label")
                    /\ Below(Has(body, w, "label"), i) = k - 1
<1> DEFINE A == Has(body, w, "label")
           x == LabelAt(body, w, n, k)
<1>1. \E i \in 0 .. n - 1 : i \in A /\ Below(A, i) = k - 1
  <2> HIDE DEF A
  <2> QED
    BY BelowNth DEF A
<1>2. x \in 0 .. n - 1 /\ x \in A /\ Below(A, x) = k - 1
  BY <1>1 DEF LabelAt
<1> HIDE DEF A, x
<1>3. ASSUME NEW i \in 0 .. n - 1, i \in A, Below(A, i) = k - 1 PROVE i = x
  BY <1>2, <1>3, BelowOnce
<1> QED
  BY <1>2, <1>3 DEF A, x

\* A name is its first label and the rest, or goes on where a pointer leads.
LEMMA NameGoesOn ==
    ASSUME NEW body, Cells(body), NEW p \in Nat, NEW w, Trail(body, p, w),
           NEW q, q = Onward(body, p), NEW v, Trail(body, q, v),
           NEW n \in Nat, EndsAt(body, w, n + 1)
    PROVE  /\ body[p].is = "pointer" => NameTo(body, w, n + 1) = NameTo(body, v, n)
           /\ body[p].is = "label" =>
                 NameTo(body, w, n + 1) = <<body[p].text>> \o NameTo(body, v, n)
<1> DEFINE A == Has(body, w, "label")
           B == Has(body, v, "label")
           N == Below(B, n)
           a == NameTo(body, w, n + 1)
           b == NameTo(body, v, n)
<1>1. /\ w[0] = p /\ \A k \in Nat : w[k + 1] = v[k]
  <2>1. \A k \in Nat : w[k + 1] = v[k]
    BY TrailRest
  <2> QED
    BY <2>1 DEF Trail
<1>2. \A k \in Nat : k + 1 \in A <=> k \in B
  BY <1>1 DEF Has
<1>3. 0 \in A <=> body[p].is = "label"
  BY <1>1 DEF Has
<1>4. N \in Nat
  BY BelowStep
<1>5. b = [k \in 1 .. N |-> body[v[LabelAt(body, v, n, k)]].text]
  BY DEF NameTo
<1>6. a = [k \in 1 .. Below(A, n + 1) |-> body[w[LabelAt(body, w, n + 1, k)]].text]
  BY DEF NameTo
<1> HIDE DEF a, b
<1>7. \A i \in Nat : Below(A, i + 1) = Below(B, i) + (IF 0 \in A THEN 1 ELSE 0)
  <2> HIDE DEF A, B
  <2> QED
    BY <1>2, BelowShift
<1>8. ASSUME NEW k \in 1 .. N, NEW j \in 1 .. Below(A, n + 1),
             j = k + (IF 0 \in A THEN 1 ELSE 0)
      PROVE  a[j] = b[k]
  <2> DEFINE i == LabelAt(body, v, n, k)
  <2>1. i \in 0 .. n - 1 /\ i \in B /\ Below(B, i) = k - 1
    BY LabelThere
  <2> HIDE DEF i
  <2>2. i + 1 \in A /\ Below(A, i + 1) = j - 1
    <3> HIDE DEF A, B
    <3> QED
      BY <1>2, <1>7, <1>8, <2>1
  <2>3. i + 1 \in 0 .. (n + 1) - 1 /\ n + 1 \in Nat
    BY <2>1
  <2>4. i + 1 = LabelAt(body, w, n + 1, j)
    BY <2>2, <2>3, LabelThere
  <2>5. w[i + 1] = v[i]
    BY <1>1, <2>1
  <2> QED
    BY <1>5, <1>6, <2>4, <2>5 DEF i
<1>9. CASE body[p].is = "pointer"
  <2>1. Below(A, n + 1) = N
    BY <1>3, <1>4, <1>7, <1>9
  <2>2. \A k \in 1 .. N : a[k] = b[k]
    <3> HIDE DEF A, N
    <3> QED
      BY <1>3, <1>4, <1>8, <1>9, <2>1
  <2>3. a = b
    <3>1. /\ a = [k \in 1 .. N |-> a[k]]
          /\ b = [k \in 1 .. N |-> b[k]]
      BY <1>5, <1>6, <2>1
    <3> HIDE DEF N
    <3> QED
      BY <2>2, <3>1
  <2> QED
    BY <1>9, <2>3 DEF a, b
<1>10. CASE body[p].is = "label"
  <2>1. Below(A, n + 1) = N + 1 /\ 0 \in A
    BY <1>3, <1>7, <1>10
  <2>2. \A k \in 1 .. N : a[k + 1] = b[k]
    <3> HIDE DEF A, N
    <3> QED
      BY <1>4, <1>8, <2>1
  <2>3. a[1] = body[p].text
    <3>1. Below(A, 0) = 0
      BY BelowStep
    <3>2. 1 \in 1 .. Below(A, n + 1) /\ n + 1 \in Nat /\ 0 \in 0 .. (n + 1) - 1
      BY <1>4, <2>1
    <3>3. 0 = LabelAt(body, w, n + 1, 1)
      BY <2>1, <3>1, <3>2, LabelThere
    <3> QED
      BY <1>1, <1>6, <3>2, <3>3
  <2>4. a = <<body[p].text>> \o b
    <3> DEFINE t == body[p].text
               L == {t} \cup {b[k] : k \in 1 .. N}
               c == <<t>>
    <3>1. c \in Seq(L) /\ Len(c) = 1 /\ c[1] = t
      OBVIOUS
    <3>2. b \in Seq(L) /\ Len(b) = N
      <4> HIDE DEF N
      <4>1. \A k \in 1 .. N : b[k] \in L
        OBVIOUS
      <4>2. b = [k \in 1 .. N |-> b[k]]
        BY <1>5
      <4> HIDE DEF L
      <4> QED
        BY <1>4, <4>1, <4>2, SeqMade
    <3>3. a \in Seq(L) /\ Len(a) = N + 1
      <4> HIDE DEF N, A
      <4>1. \A k \in 1 .. N + 1 : a[k] \in L
        <5> TAKE k \in 1 .. N + 1
        <5>1. CASE k = 1
          BY <2>3, <5>1
        <5>2. CASE k # 1
          <6>1. k - 1 \in 1 .. N /\ (k - 1) + 1 = k
            BY <1>4, <5>2
          <6> QED
            BY <2>2, <6>1
        <5> QED
          BY <5>1, <5>2
      <4>2. a = [k \in 1 .. N + 1 |-> a[k]]
        BY <1>6, <2>1
      <4> HIDE DEF L
      <4>3. N + 1 \in Nat
        BY <1>4
      <4> QED
        BY <4>1, <4>2, <4>3, SeqMade
    <3> HIDE DEF L, c, N, t
    <3>4. /\ Len(a) = Len(c) + Len(b)
          /\ \A m \in 1 .. Len(c) : a[m] = c[m]
          /\ \A m \in 1 .. Len(b) : a[Len(c) + m] = b[m]
      <4>1. \A m \in 1 .. N : a[1 + m] = b[m]
        BY <1>4, <2>2
      <4>2. Len(c) = 1 /\ Len(b) = N /\ Len(a) = 1 + N
        BY <1>4, <3>1, <3>2, <3>3
      <4>3. \A m \in 1 .. Len(c) : a[m] = c[m]
        BY <2>3, <3>1 DEF t
      <4>4. \A m \in 1 .. Len(b) : a[Len(c) + m] = b[m]
        BY <4>1, <4>2
      <4> QED
        BY <4>2, <4>3, <4>4
    <3>5. a = c \o b
      BY <3>1, <3>2, <3>3, <3>4, Appended
    <3> QED
      BY <3>5 DEF c, t
  <2> QED
    BY <1>10, <2>4 DEF a, b
<1> QED
  BY <1>9, <1>10

-----------------------------------------------------------------------------
(* Reading a name.                                                         *)

ReadStep(body, f, r) ==
    LET p == r.pos IN
    IF p \notin DOMAIN body THEN None
    ELSE IF body[p].is = "end" THEN <<>>
    ELSE IF body[p].is = "pointer" /\ r.jumps < MaxJumps
         THEN f[Reader(body[p].to, r.jumps + 1, r.total)]
    ELSE IF body[p].is = "label" /\ r.total < MaxName
         THEN LET rest == f[Reader(p + 1, r.jumps, r.total + 1)] IN
              IF rest = None THEN None ELSE <<body[p].text>> \o rest
    ELSE None

Reads(body, f) == f = [r \in Readers |-> ReadStep(body, f, r)]

\* What there is left to count: less with every cell that leads on.
Room(n, max) == IF n < max THEN max - n ELSE 0

Fuel(r) == Room(r.jumps, MaxJumps) + Room(r.total, MaxName)

\* Where a reader goes from a cell, and that it has less left then.
LEMMA ReaderGoes ==
    ASSUME NEW body, Cells(body), NEW r \in Readers
    PROVE  /\ Fuel(r) \in Nat /\ Fuel(r) <= MaxJumps + MaxName
           /\ r = Reader(r.pos, r.jumps, r.total)
           /\ r.pos \in DOMAIN body /\ body[r.pos].is = "pointer"
                 /\ r.jumps < MaxJumps =>
                 LET q == Reader(body[r.pos].to, r.jumps + 1, r.total) IN
                 q \in Readers /\ Fuel(q) < Fuel(r)
           /\ r.total < MaxName =>
                 LET q == Reader(r.pos + 1, r.jumps, r.total + 1) IN
                 q \in Readers /\ Fuel(q) < Fuel(r)
<1>1. /\ r.pos \in Int /\ r.jumps \in Nat /\ r.total \in Nat
      /\ r = Reader(r.pos, r.jumps, r.total)
  BY DEF Readers, Reader
<1>2. /\ MaxJumps \in Nat /\ MaxName \in Nat
  BY DnsAssumption
<1>3. /\ Fuel(r) \in Nat /\ Fuel(r) <= MaxJumps + MaxName
  BY <1>1, <1>2 DEF Fuel, Room
<1>4. ASSUME r.pos \in DOMAIN body, body[r.pos].is = "pointer", r.jumps < MaxJumps
      PROVE  LET q == Reader(body[r.pos].to, r.jumps + 1, r.total) IN
             q \in Readers /\ Fuel(q) < Fuel(r)
  <2>1. body[r.pos].to \in Nat
    BY <1>4 DEF Cells
  <2> QED
    BY <2>1, <1>1, <1>2, <1>4 DEF Fuel, Room, Readers, Reader
<1>5. ASSUME r.total < MaxName
      PROVE  LET q == Reader(r.pos + 1, r.jumps, r.total + 1) IN
             q \in Readers /\ Fuel(q) < Fuel(r)
  BY <1>1, <1>2, <1>5 DEF Fuel, Room, Readers, Reader
<1> QED
  BY <1>1, <1>3, <1>4, <1>5

\* A step looks only where there is less left to count.
LEMMA StepSame ==
    ASSUME NEW body, Cells(body), NEW f, NEW g, NEW r \in Readers,
           \A q \in Readers : Fuel(q) < Fuel(r) => f[q] = g[q]
    PROVE  ReadStep(body, f, r) = ReadStep(body, g, r)
<1> DEFINE p == r.pos
           a == Reader(body[p].to, r.jumps + 1, r.total)
           b == Reader(p + 1, r.jumps, r.total + 1)
<1>1. /\ p \in DOMAIN body /\ body[p].is = "pointer" /\ r.jumps < MaxJumps =>
             f[a] = g[a]
      /\ r.total < MaxName => f[b] = g[b]
  BY ReaderGoes
<1> HIDE DEF a, b
<1> QED
  BY <1>1 DEF ReadStep, a, b

LEMMA ReadsExist ==
    ASSUME NEW body, Cells(body)
    PROVE  \E f : Reads(body, f)
<1> DEFINE Made(f) == [r \in Readers |-> ReadStep(body, f, r)]
           Upto(n, f) ==
              \A r \in Readers : Fuel(r) < n => f[r] = ReadStep(body, f, r)
           T == {n \in Nat : ~\E f : Upto(n, f)}
<1>1. ASSUME NEW f, NEW n \in Nat, Upto(n, f) PROVE Upto(n + 1, Made(f))
  <2> DEFINE g == Made(f)
  <2>1. \A r \in Readers : g[r] = ReadStep(body, f, r)
    OBVIOUS
  <2> HIDE DEF g
  <2>2. ASSUME NEW r \in Readers, Fuel(r) < n + 1 PROVE g[r] = ReadStep(body, g, r)
    <3>1. ASSUME NEW q \in Readers, Fuel(q) < Fuel(r) PROVE f[q] = g[q]
      <4>1. Fuel(q) < n
        BY <2>2, <3>1, ReaderGoes
      <4> QED
        BY <1>1, <2>1, <4>1
    <3>2. ReadStep(body, f, r) = ReadStep(body, g, r)
      BY <3>1, StepSame
    <3> QED
      BY <2>1, <3>2
  <2> QED
    BY <2>2 DEF g
<1>2. T = {}
  <2>1. SUFFICES ASSUME T # {} PROVE FALSE
    OBVIOUS
  <2>2. PICK n \in T : \A k \in T : n <= k
    <3>1. T \in SUBSET Nat
      OBVIOUS
    <3> HIDE DEF T
    <3> QED
      BY <2>1, <3>1, LeastNat
  <2>3. n # 0
    <3>1. ASSUME NEW f PROVE Upto(0, f)
      BY ReaderGoes
    <3> HIDE DEF Upto
    <3> QED
      BY <2>2, <3>1
  <2> HIDE DEF Upto, Made
  <2>4. n - 1 \in Nat /\ n - 1 \notin T /\ (n - 1) + 1 = n
    BY <2>2, <2>3
  <2>5. PICK f : Upto(n - 1, f)
    BY <2>4
  <2>6. Upto(n, Made(f))
    BY <1>1, <2>4, <2>5
  <2> QED
    BY <2>2, <2>6
<1> DEFINE N == MaxJumps + MaxName + 1
<1>3. PICK f : Upto(N, f)
  <2>1. N \in Nat
    BY DnsAssumption
  <2> HIDE DEF Upto, N
  <2> QED
    BY <1>2, <2>1
<1>4. ASSUME NEW r \in Readers PROVE f[r] = ReadStep(body, f, r)
  <2>1. Fuel(r) < N
    BY ReaderGoes, DnsAssumption
  <2> QED
    BY <1>3, <2>1
<1> DEFINE g == Made(f)
<1>5. \A r \in Readers : g[r] = f[r]
  BY <1>4
<1>6. ASSUME NEW r \in Readers PROVE ReadStep(body, f, r) = ReadStep(body, g, r)
  <2> HIDE DEF g
  <2> QED
    BY <1>5, StepSame
<1>7. Reads(body, g)
  <2>1. g = [r \in Readers |-> ReadStep(body, g, r)]
    <3>1. g = [r \in Readers |-> ReadStep(body, f, r)]
      OBVIOUS
    <3> HIDE DEF g
    <3> QED
      BY <1>6, <3>1
  <2> QED
    BY <2>1 DEF Reads
<1> QED
  BY <1>7

\* ReadName is such a reading, from nothing counted yet.
LEMMA ReadNameReads ==
    ASSUME NEW body, Cells(body), NEW pos
    PROVE  \E f : Reads(body, f) /\ ReadName(body, pos) = f[Reader(pos, 0, 0)]
<1> DEFINE Step(f, r) ==
             LET p == r.pos IN
             IF p \notin DOMAIN body THEN None
             ELSE IF body[p].is = "end" THEN <<>>
             ELSE IF body[p].is = "pointer" /\ r.jumps < MaxJumps
                  THEN f[Reader(body[p].to, r.jumps + 1, r.total)]
             ELSE IF body[p].is = "label" /\ r.total < MaxName
                  THEN LET rest == f[Reader(p + 1, r.jumps, r.total + 1)] IN
                       IF rest = None THEN None ELSE <<body[p].text>> \o rest
             ELSE None
           Built(f) == f = [r \in Readers |-> Step(f, r)]
           f == CHOOSE g : Built(g)
<1>1. ReadName(body, pos) = f[Reader(pos, 0, 0)]
  BY DEF ReadName
<1>2. ASSUME NEW g PROVE Built(g) <=> Reads(body, g)
  BY DEF Reads, ReadStep
<1> HIDE DEF Built
<1>3. Reads(body, f)
  <2>1. \E g : Built(g)
    BY <1>2, ReadsExist
  <2> QED
    BY <1>2, <2>1
<1> HIDE DEF f
<1> QED
  BY <1>1, <1>3

-----------------------------------------------------------------------------
(* A reading decodes the name of its trail.                                *)

\* Before a name's end there are only labels and pointers.
LEMMA OnTheWay ==
    ASSUME NEW body, Cells(body), NEW p, NEW w, Trail(body, p, w),
           NEW n \in Nat, EndsAt(body, w, n), NEW i \in 0 .. n - 1
    PROVE  w[i] \in DOMAIN body /\ body[w[i]].is \in {"label", "pointer"}
<1> DEFINE v == [k \in Nat |-> w[i + 1 + k]]
<1>1. v \in [Nat -> Nat]
  BY DEF Trail
<1>2. ASSUME NEW k \in Nat PROVE v[k + 1] = Onward(body, v[k])
  BY DEF Trail
<1>3. v[0] = Onward(body, w[i]) /\ v[n - (i + 1)] = w[n] /\ n - (i + 1) \in Nat
  BY DEF Trail
<1> HIDE DEF v
<1>4. ASSUME Onward(body, w[i]) = 0 PROVE FALSE
  <2>1. Trail(body, 0, v)
    BY <1>1, <1>2, <1>3, <1>4 DEF Trail
  <2>2. w[n] = 0
    BY <1>3, <2>1, NoEnd
  <2> QED
    BY <2>2 DEF EndsAt, Cells
<1> QED
  BY <1>4 DEF Onward

\* So there is one end, and what is before it is one or the other.
LEMMA OneEnd ==
    ASSUME NEW body, Cells(body), NEW p, NEW w, Trail(body, p, w),
           NEW m \in Nat, EndsAt(body, w, m), NEW n \in Nat, EndsAt(body, w, n)
    PROVE  m = n
<1>1. ASSUME m < n PROVE FALSE
  <2>1. m \in 0 .. n - 1
    BY <1>1
  <2> QED
    BY <2>1, OnTheWay DEF EndsAt
<1>2. ASSUME n < m PROVE FALSE
  <2>1. n \in 0 .. m - 1
    BY <1>2
  <2> QED
    BY <2>1, OnTheWay DEF EndsAt
<1> QED
  BY <1>1, <1>2

LEMMA LabelsAndPointers ==
    ASSUME NEW body, Cells(body), NEW p, NEW w, Trail(body, p, w),
           NEW n \in Nat, EndsAt(body, w, n)
    PROVE  Below(Has(body, w, "label"), n) + Below(Has(body, w, "pointer"), n) = n
<1> DEFINE A == Has(body, w, "label")
           B == Has(body, w, "pointer")
           T == {k \in Nat : k <= n /\ Below(A, k) + Below(B, k) # k}
<1>1. \A k \in 0 .. n - 1 : k \in A <=> k \notin B
  BY OnTheWay DEF Has
<1> HIDE DEF A, B
<1>2. T = {}
  <2>1. SUFFICES ASSUME T # {} PROVE FALSE
    OBVIOUS
  <2>2. PICK k \in T : \A j \in T : k <= j
    <3>1. T \in SUBSET Nat
      OBVIOUS
    <3> HIDE DEF T
    <3> QED
      BY <2>1, <3>1, LeastNat
  <2>3. k # 0
    BY <2>2, BelowStep
  <2>4. k - 1 \in Nat /\ k - 1 \notin T /\ k = (k - 1) + 1 /\ k - 1 \in 0 .. n - 1
    BY <2>2, <2>3
  <2>5. /\ Below(A, k) = Below(A, k - 1) + (IF k - 1 \in A THEN 1 ELSE 0)
        /\ Below(B, k) = Below(B, k - 1) + (IF k - 1 \in B THEN 1 ELSE 0)
        /\ Below(A, k - 1) \in Nat /\ Below(B, k - 1) \in Nat
    BY <2>4, BelowStep
  <2> QED
    BY <1>1, <2>2, <2>4, <2>5
<1> QED
  BY <1>2 DEF A, B

LEMMA NameIsSome ==
    ASSUME NEW body, Cells(body), NEW p, NEW w, Trail(body, p, w),
           NEW n \in Nat, EndsAt(body, w, n)
    PROVE  NameTo(body, w, n) # None
<1> DEFINE N == Below(Has(body, w, "label"), n)
           a == NameTo(body, w, n)
<1>1. N \in Nat
  BY BelowStep
<1>2. a = [k \in 1 .. N |-> body[w[LabelAt(body, w, n, k)]].text]
  BY DEF NameTo
<1>3. CASE N = 0
  <2>1. 1 \notin DOMAIN a
    BY <1>2, <1>3
  <2> QED
    BY <2>1 DEF None
<1>4. CASE N # 0
  <2> DEFINE i == LabelAt(body, w, n, 1)
  <2>1. 1 \in 1 .. N
    BY <1>1, <1>4
  <2>2. i \in 0 .. n - 1 /\ i \in Has(body, w, "label")
    BY <2>1, LabelThere
  <2>3. a[1] = body[w[i]].text
    BY <1>2, <2>1
  <2> HIDE DEF i
  <2>4. <<body[w[i]].text>> # None
    BY <2>2, OnTheWay DEF Has, Cells
  <2> HIDE DEF a
  <2>5. body[w[i]].text # "none"
    BY <2>4 DEF None
  <2> QED
    BY <2>3, <2>5 DEF a, None
<1> QED
  BY <1>3, <1>4

\* What a reader still allows is enough for the name.
Fits(body, w, n, r) ==
    /\ r.jumps + Below(Has(body, w, "pointer"), n) <= MaxJumps
    /\ r.total + Below(Has(body, w, "label"), n) <= MaxName

LEMMA ReadsName ==
    ASSUME NEW body, Cells(body), NEW f, Reads(body, f),
           NEW n \in Nat, NEW r \in Readers, NEW w, Trail(body, r.pos, w),
           EndsAt(body, w, n), Fits(body, w, n, r)
    PROVE  f[r] = NameTo(body, w, n)
<1> DEFINE Bad(m, s, u) == /\ Trail(body, s.pos, u) /\ EndsAt(body, u, m)
                           /\ Fits(body, u, m, s) /\ f[s] # NameTo(body, u, m)
           T == {m \in Nat : \E s \in Readers : \E u : Bad(m, s, u)}
<1>1. SUFFICES ASSUME T # {} PROVE FALSE
  OBVIOUS
<1>2. PICK m \in T : \A k \in T : m <= k
  <2>1. T \in SUBSET Nat
    OBVIOUS
  <2> HIDE DEF T
  <2> QED
    BY <1>1, <2>1, LeastNat
<1>3. PICK s \in Readers : \E u : Bad(m, s, u)
  BY <1>2
<1>4. PICK u : Bad(m, s, u)
  BY <1>3
<1>5. f[s] = ReadStep(body, f, s)
  BY DEF Reads
<1>6. s.pos \in Nat /\ s.jumps \in Nat /\ s.total \in Nat /\ u[0] = s.pos
  BY <1>4 DEF Readers, Trail
<1>7. CASE m = 0
  <2>1. f[s] = <<>>
    BY <1>4, <1>5, <1>6, <1>7 DEF EndsAt, ReadStep
  <2>2. NameTo(body, u, 0) = <<>>
    BY BelowStep DEF NameTo
  <2> QED
    BY <1>4, <1>7, <2>1, <2>2
<1>8. CASE m # 0
  <2> DEFINE p == s.pos
             q == Onward(body, p)
             k == m - 1
  <2>1. k \in Nat /\ m = k + 1 /\ k \notin T
    BY <1>2, <1>8
  <2>2. q \in Nat
    BY <1>6, OnwardType
  <2>3. PICK v : Trail(body, q, v)
    BY <2>2, TrailExists
  <2> HIDE DEF k, T, q
  <2>4. /\ p \in DOMAIN body /\ body[p].is \in {"label", "pointer"}
        /\ EndsAt(body, v, k)
        /\ \A kind : Below(Has(body, u, kind), k + 1) =
              Below(Has(body, v, kind), k) + (IF body[p].is = kind THEN 1 ELSE 0)
    <3>1. Trail(body, p, u) /\ EndsAt(body, u, k + 1)
      BY <1>4, <2>1
    <3> QED
      BY <1>6, <2>1, <2>3, <3>1, NameRest DEF q
  <2>5. /\ body[p].is = "pointer" => NameTo(body, u, m) = NameTo(body, v, k)
        /\ body[p].is = "label" =>
              NameTo(body, u, m) = <<body[p].text>> \o NameTo(body, v, k)
    <3>1. Trail(body, p, u) /\ EndsAt(body, u, k + 1)
      BY <1>4, <2>1
    <3> QED
      BY <1>6, <2>1, <2>3, <3>1, NameGoesOn DEF q
  <2>6. /\ Below(Has(body, v, "pointer"), k) \in Nat
        /\ Below(Has(body, v, "label"), k) \in Nat
    BY <2>1, BelowStep
  <2>7. ASSUME NEW t \in Readers, t.pos = q, Fits(body, v, k, t)
        PROVE  f[t] = NameTo(body, v, k)
    BY <2>1, <2>3, <2>4, <2>7 DEF T
  <2>8. CASE body[p].is = "pointer"
    <3> DEFINE t == Reader(body[p].to, s.jumps + 1, s.total)
    <3>1. s.jumps < MaxJumps /\ s.jumps + 1 + Below(Has(body, v, "pointer"), k) <= MaxJumps
          /\ s.total + Below(Has(body, v, "label"), k) <= MaxName
      BY <1>4, <1>6, <2>1, <2>4, <2>6, <2>8, DnsAssumption DEF Fits
    <3>2. /\ t \in Readers /\ t.pos = q
          /\ t.jumps = s.jumps + 1 /\ t.total = s.total
      BY <1>6, <2>4, <2>8 DEF Cells, Readers, Reader, q, Onward
    <3> HIDE DEF t
    <3>3. f[t] = NameTo(body, v, k)
      BY <2>7, <3>1, <3>2 DEF Fits
    <3>4. f[s] = f[t]
      BY <1>5, <2>4, <2>8, <3>1 DEF ReadStep, t
    <3> QED
      BY <1>4, <2>5, <2>8, <3>3, <3>4
  <2>9. CASE body[p].is = "label"
    <3> DEFINE t == Reader(p + 1, s.jumps, s.total + 1)
    <3>1. s.total < MaxName /\ s.total + 1 + Below(Has(body, v, "label"), k) <= MaxName
          /\ s.jumps + Below(Has(body, v, "pointer"), k) <= MaxJumps
      BY <1>4, <1>6, <2>1, <2>4, <2>6, <2>9, DnsAssumption DEF Fits
    <3>2. /\ t \in Readers /\ t.pos = q
          /\ t.jumps = s.jumps /\ t.total = s.total + 1
      BY <1>6, <2>4, <2>9 DEF Readers, Reader, q, Onward
    <3> HIDE DEF t
    <3>3. f[t] = NameTo(body, v, k)
      BY <2>7, <3>1, <3>2 DEF Fits
    <3>4. f[t] # None
      BY <2>1, <2>3, <2>4, <3>3, NameIsSome
    <3>5. f[s] = <<body[p].text>> \o f[t]
      BY <1>5, <2>4, <2>9, <3>1, <3>4 DEF ReadStep, t
    <3> QED
      BY <1>4, <2>5, <2>9, <3>3, <3>5
  <2> QED
    BY <2>4, <2>8, <2>9
<1> QED
  BY <1>7, <1>8

\* What is read is on the trail.
LEMMA NameRead ==
    ASSUME NEW body, Cells(body), NEW f, Reads(body, f),
           NEW r \in Readers, r.jumps <= MaxJumps, r.total <= MaxName,
           NEW w, Trail(body, r.pos, w), f[r] # None
    PROVE  \E n \in Nat : EndsAt(body, w, n) /\ Fits(body, w, n, r)
<1> DEFINE Named(s, u) == \E n \in Nat : EndsAt(body, u, n) /\ Fits(body, u, n, s)
           Bad(m, s, u) == /\ Fuel(s) = m /\ s.jumps <= MaxJumps /\ s.total <= MaxName
                           /\ Trail(body, s.pos, u) /\ f[s] # None /\ ~Named(s, u)
           T == {m \in Nat : \E s \in Readers : \E u : Bad(m, s, u)}
<1>1. SUFFICES ASSUME T # {} PROVE FALSE
  BY ReaderGoes
<1>2. PICK m \in T : \A k \in T : m <= k
  <2>1. T \in SUBSET Nat
    OBVIOUS
  <2> HIDE DEF T
  <2> QED
    BY <1>1, <2>1, LeastNat
<1>3. PICK s \in Readers : \E u : Bad(m, s, u)
  BY <1>2
<1>4. PICK u : Bad(m, s, u)
  BY <1>3
<1>5. f[s] = ReadStep(body, f, s)
  BY DEF Reads
<1> DEFINE p == s.pos
           q == Onward(body, p)
<1>6. p \in Nat /\ s.jumps \in Nat /\ s.total \in Nat /\ u[0] = p
  BY <1>4 DEF Readers, Trail
<1>7. q \in Nat
  BY <1>6, OnwardType
<1>8. PICK v : Trail(body, q, v)
  BY <1>7, TrailExists
<1>9. \A k \in Nat : u[k + 1] = v[k]
  BY <1>4, <1>6, <1>8, TrailRest
<1> HIDE DEF q
\* A reader that goes on finds the rest of the name.
<1>10. ASSUME NEW t \in Readers, t.pos = q, Fuel(t) < Fuel(s), f[t] # None,
              t.jumps <= MaxJumps, t.total <= MaxName
       PROVE  \E k \in Nat : /\ EndsAt(body, u, k + 1) /\ Fits(body, v, k, t)
                             /\ \A kind : Below(Has(body, u, kind), k + 1) =
                                   Below(Has(body, v, kind), k)
                                     + (IF body[p].is = kind THEN 1 ELSE 0)
  <2>1. Fuel(t) \in Nat /\ Fuel(t) \notin T
    BY <1>2, <1>4, <1>10, ReaderGoes
  <2>2. Named(t, v)
    <3> HIDE DEF Named
    <3> QED
      BY <1>8, <1>10, <2>1
  <2>3. PICK k \in Nat : EndsAt(body, v, k) /\ Fits(body, v, k, t)
    BY <2>2
  <2>4. EndsAt(body, u, k + 1)
    BY <1>9, <2>3 DEF EndsAt
  <2>5. Trail(body, p, u)
    BY <1>4
  <2>6. \A kind : Below(Has(body, u, kind), k + 1) =
           Below(Has(body, v, kind), k) + (IF body[p].is = kind THEN 1 ELSE 0)
    BY <1>6, <1>8, <2>4, <2>5, NameRest DEF q
  <2> QED
    BY <2>3, <2>4, <2>6
<1>11. p \in DOMAIN body /\ body[p].is \in {"end", "pointer", "label"}
  BY <1>4, <1>5 DEF ReadStep
<1>12. CASE body[p].is = "end"
  <2>1. EndsAt(body, u, 0)
    BY <1>6, <1>11, <1>12 DEF EndsAt
  <2>2. Fits(body, u, 0, s)
    BY <1>4, <1>6, BelowStep DEF Fits
  <2> QED
    BY <1>4, <2>1, <2>2
<1>13. CASE body[p].is = "pointer"
  <2> DEFINE t == Reader(body[p].to, s.jumps + 1, s.total)
  <2>1. s.jumps < MaxJumps /\ f[s] = f[t]
    BY <1>4, <1>5, <1>11, <1>13 DEF ReadStep
  <2>2. /\ t \in Readers /\ t.pos = q /\ Fuel(t) < Fuel(s)
        /\ t.jumps = s.jumps + 1 /\ t.total = s.total
    <3>1. t \in Readers /\ Fuel(t) < Fuel(s)
      BY <1>11, <1>13, <2>1, ReaderGoes
    <3> QED
      BY <1>11, <1>13, <3>1 DEF Reader, q, Onward
  <2>3. t.jumps <= MaxJumps
    BY <1>6, <2>1, <2>2, DnsAssumption
  <2> HIDE DEF t
  <2>4. PICK k \in Nat : /\ EndsAt(body, u, k + 1) /\ Fits(body, v, k, t)
                         /\ \A kind : Below(Has(body, u, kind), k + 1) =
                               Below(Has(body, v, kind), k)
                                 + (IF body[p].is = kind THEN 1 ELSE 0)
    BY <1>4, <1>10, <2>1, <2>2, <2>3
  <2>5. /\ Below(Has(body, u, "pointer"), k + 1) = Below(Has(body, v, "pointer"), k) + 1
        /\ Below(Has(body, u, "label"), k + 1) = Below(Has(body, v, "label"), k) + 0
        /\ Below(Has(body, v, "pointer"), k) \in Nat
        /\ Below(Has(body, v, "label"), k) \in Nat
    BY <1>13, <2>4, BelowStep
  <2>6. Fits(body, u, k + 1, s)
    BY <1>6, <2>2, <2>4, <2>5 DEF Fits
  <2> QED
    BY <1>4, <2>4, <2>6
<1>14. CASE body[p].is = "label"
  <2> DEFINE t == Reader(p + 1, s.jumps, s.total + 1)
  <2>1. s.total < MaxName /\ f[t] # None
    BY <1>4, <1>5, <1>11, <1>14 DEF ReadStep
  <2>2. /\ t \in Readers /\ t.pos = q /\ Fuel(t) < Fuel(s)
        /\ t.jumps = s.jumps /\ t.total = s.total + 1
    <3>1. t \in Readers /\ Fuel(t) < Fuel(s)
      BY <2>1, ReaderGoes
    <3> QED
      BY <1>11, <1>14, <3>1 DEF Reader, q, Onward
  <2>3. t.total <= MaxName
    BY <1>6, <2>1, <2>2, DnsAssumption
  <2> HIDE DEF t
  <2>4. PICK k \in Nat : /\ EndsAt(body, u, k + 1) /\ Fits(body, v, k, t)
                         /\ \A kind : Below(Has(body, u, kind), k + 1) =
                               Below(Has(body, v, kind), k)
                                 + (IF body[p].is = kind THEN 1 ELSE 0)
    BY <1>4, <1>10, <2>1, <2>2, <2>3
  <2>5. /\ Below(Has(body, u, "pointer"), k + 1) = Below(Has(body, v, "pointer"), k) + 0
        /\ Below(Has(body, u, "label"), k + 1) = Below(Has(body, v, "label"), k) + 1
        /\ Below(Has(body, v, "pointer"), k) \in Nat
        /\ Below(Has(body, v, "label"), k) \in Nat
    BY <1>14, <2>4, BelowStep
  <2>6. Fits(body, u, k + 1, s)
    BY <1>6, <2>2, <2>4, <2>5 DEF Fits
  <2> QED
    BY <1>4, <2>4, <2>6
<1> QED
  BY <1>11, <1>12, <1>13, <1>14

\* Spelled is the name of the trail, where it ends in time.
LEMMA SpelledIs ==
    ASSUME NEW body, Cells(body), NEW pos \in Nat, NEW w, Trail(body, pos, w)
    PROVE  Spelled(body, pos) =
              {NameTo(body, w, n) : n \in
                 {m \in Nat : EndsAt(body, w, m) /\ Fits(body, w, m, Reader(pos, 0, 0))}}
<1> DEFINE walk == Walk(body, pos)
           M == MaxJumps + MaxName
           Met(n, kind) == {k \in 0 .. n - 1 : body[walk[k]].is = kind}
           Count(n, kind) == Cardinality(Met(n, kind))
           Label(n, k) == CHOOSE i \in Met(n, "label") : Count(i, "label") = k - 1
           Text(n) == [k \in 1 .. Count(n, "label") |-> body[walk[Label(n, k)]].text]
           Ends == {n \in DOMAIN walk : walk[n] \in DOMAIN body
                                          /\ body[walk[n]].is = "end"}
           Good == {e \in Ends : /\ Count(e, "pointer") <= MaxJumps
                                 /\ Count(e, "label") <= MaxName}
           Fine == {m \in Nat : EndsAt(body, w, m)
                                  /\ Fits(body, w, m, Reader(pos, 0, 0))}
<1>1. Spelled(body, pos) = {Text(n) : n \in Good}
  BY DEF Spelled
<1>2. walk = [k \in 0 .. M |-> w[k]] /\ M \in Nat
  BY WalkIs, DnsAssumption
<1>3. w \in [Nat -> Nat]
  BY DEF Trail
<1> HIDE DEF walk, M
<1>4. ASSUME NEW n \in 0 .. M, NEW kind
      PROVE  /\ Met(n, kind) = {k \in 0 .. n - 1 : k \in Has(body, w, kind)}
             /\ Count(n, kind) = Below(Has(body, w, kind), n)
  <2>1. Met(n, kind) = {k \in 0 .. n - 1 : k \in Has(body, w, kind)}
    BY <1>2 DEF Has
  <2> HIDE DEF Met
  <2> QED
    BY <2>1 DEF Below
<1>5. \A n \in 0 .. M : /\ walk[n] = w[n] /\ n \in Nat
                        /\ Below(Has(body, w, "pointer"), n) \in Nat
                        /\ Below(Has(body, w, "label"), n) \in Nat
  <2> TAKE n \in 0 .. M
  <2>1. n \in Nat /\ walk[n] = w[n]
    BY <1>2
  <2> QED
    BY <2>1, BelowStep
<1> HIDE DEF Count
<1>6. ASSUME NEW n \in 0 .. M PROVE Text(n) = NameTo(body, w, n)
  <2> DEFINE N == Below(Has(body, w, "label"), n)
  <2>1. Count(n, "label") = N
    BY <1>4
  <2>2. ASSUME NEW k \in 1 .. N
        PROVE  Label(n, k) = LabelAt(body, w, n, k) /\ Label(n, k) \in 0 .. n - 1
    <3> DEFINE x == LabelAt(body, w, n, k)
    <3>1. /\ x \in 0 .. n - 1
          /\ \A i \in 0 .. n - 1 :
                i = x <=> /\ i \in Has(body, w, "label")
                          /\ Below(Has(body, w, "label"), i) = k - 1
      BY <1>5, <2>2, LabelThere
    <3> HIDE DEF x, Met
    <3>2. \A i \in Met(n, "label") : i \in 0 .. n - 1 /\ i \in 0 .. M
      <4>1. \A i \in Met(n, "label") : i \in 0 .. n - 1
        BY <1>4
      <4> QED
        BY <1>2, <4>1
    <3>3. \A i \in Met(n, "label") : Count(i, "label") = k - 1 <=> i = x
      BY <1>4, <3>1, <3>2
    <3>4. x \in Met(n, "label")
      BY <1>4, <3>1
    <3>5. Label(n, k) = x
      BY <3>3, <3>4
    <3> QED
      BY <3>1, <3>5 DEF x
  <2> HIDE DEF Label
  <2>3. ASSUME NEW k \in 1 .. N
        PROVE  body[walk[Label(n, k)]].text = body[w[LabelAt(body, w, n, k)]].text
    <3>1. Label(n, k) \in 0 .. M
      BY <1>2, <2>2
    <3> QED
      BY <1>5, <2>2, <3>1
  <2>4. Text(n) = [k \in 1 .. N |-> body[w[LabelAt(body, w, n, k)]].text]
    <3> HIDE DEF N
    <3> QED
      BY <2>1, <2>3
  <2> QED
    BY <2>4 DEF NameTo
<1>7. Good = Fine
  <2>1. ASSUME NEW n \in 0 .. M
        PROVE  /\ n \in Ends <=> EndsAt(body, w, n)
               /\ Count(n, "pointer") <= MaxJumps /\ Count(n, "label") <= MaxName <=>
                     Fits(body, w, n, Reader(pos, 0, 0))
    <3>1. n \in Ends <=> EndsAt(body, w, n)
      BY <1>2, <1>5 DEF EndsAt
    <3>2. /\ Count(n, "pointer") = Below(Has(body, w, "pointer"), n)
          /\ Count(n, "label") = Below(Has(body, w, "label"), n)
      BY <1>4
    <3> QED
      BY <1>5, <3>1, <3>2 DEF Fits, Reader
  <2>2. \A n \in Ends : n \in 0 .. M
    BY <1>2
  <2>3. ASSUME NEW n \in Fine PROVE n \in 0 .. M
    <3>1. /\ Below(Has(body, w, "label"), n) + Below(Has(body, w, "pointer"), n) = n
          /\ n \in Nat
      BY <2>3, LabelsAndPointers
    <3>2. /\ Below(Has(body, w, "label"), n) \in Nat
          /\ Below(Has(body, w, "pointer"), n) \in Nat
      BY <3>1, BelowStep
    <3> QED
      BY <2>3, <3>1, <3>2, DnsAssumption DEF Fits, Reader, M
  <2> HIDE DEF Ends
  <2> QED
    BY <2>1, <2>2, <2>3
<1>8. \A n \in Fine : n \in 0 .. M
  BY <1>2, <1>7
<1> HIDE DEF Text, Good, Fine
<1> QED
  BY <1>1, <1>6, <1>7, <1>8 DEF Fine

LEMMA SpelledSome ==
    ASSUME NEW body, Cells(body), NEW pos \in Nat
    PROVE  None \notin Spelled(body, pos)
<1>1. PICK w : Trail(body, pos, w)
  BY TrailExists
<1>2. \A n \in Nat : EndsAt(body, w, n) => NameTo(body, w, n) # None
  BY <1>1, NameIsSome
<1> QED
  BY <1>1, <1>2, SpelledIs

(* A name is read as it is spelled, whatever its pointers do -- lead back, *)
(* forth, in a circle or out of the datagram -- and none is read if it has *)
(* no end, or one too many pointers or labels: read_name.                  *)
THEOREM NameIsSpelled ==
    ASSUME NEW body, Cells(body), NEW pos \in Nat
    PROVE  {ReadName(body, pos)} =
              IF Spelled(body, pos) = {} THEN {None} ELSE Spelled(body, pos)
<1> DEFINE r == Reader(pos, 0, 0)
<1>1. PICK w : Trail(body, pos, w)
  BY TrailExists
<1> DEFINE Fine == {m \in Nat : EndsAt(body, w, m) /\ Fits(body, w, m, r)}
<1>2. PICK f : Reads(body, f) /\ ReadName(body, pos) = f[r]
  BY ReadNameReads
<1>3. r \in Readers /\ r.pos = pos /\ r.jumps <= MaxJumps /\ r.total <= MaxName
  BY DnsAssumption DEF Reader, Readers
<1> HIDE DEF r
<1>4. Spelled(body, pos) = {NameTo(body, w, n) : n \in Fine}
  BY <1>1, SpelledIs DEF r
<1>5. ASSUME f[r] # None PROVE Fine # {}
  BY <1>1, <1>2, <1>3, <1>5, NameRead
<1>6. ASSUME NEW n \in Fine PROVE f[r] = NameTo(body, w, n) /\ f[r] # None
  BY <1>1, <1>2, <1>3, ReadsName, NameIsSome
<1> HIDE DEF Fine
<1>7. CASE Fine = {}
  BY <1>2, <1>4, <1>5, <1>7
<1>8. CASE Fine # {}
  BY <1>2, <1>4, <1>6, <1>8
<1> QED
  BY <1>7, <1>8

-----------------------------------------------------------------------------
(* From a name to what a reply tells.                                      *)

LEMMA RecordThere ==
    ASSUME NEW body, Cells(body), NEW pos
    PROVE  /\ WholeRecord(body, pos) \in Nat
           /\ WholeRecord(body, pos) # 0 =>
                 /\ WholeRecord(body, pos) \in DOMAIN body
                 /\ body[WholeRecord(body, pos)].is = "record"
BY DEF WholeRecord, Cells

\* The records that FirstPtr passes, one after the other.
Recorded(body, start, record) ==
    \A n \in Nat : record[n] =
        IF n = 0 THEN WholeRecord(body, start)
        ELSE LET last == record[n - 1] IN
             IF last = 0 THEN 0
             ELSE WholeRecord(body, last + body[last].cells + 1)

Ptrs(body, record, answers) ==
    {n \in 0 .. answers - 1 : record[n] # 0 /\ body[record[n]].type = Ptr}

LEMMA FirstPtrIs ==
    ASSUME NEW body, Cells(body), NEW start, NEW answers
    PROVE  \E record :
              /\ Recorded(body, start, record)
              /\ FirstPtr(body, start, answers) =
                    LET ptrs == Ptrs(body, record, answers)
                        name == ReadName(body, record[Min(ptrs)] + 1)
                    IN IF ptrs = {} \/ name = None THEN None ELSE Sanitize(name)
<1> DEFINE Step(f, n) ==
             IF n = 0 THEN WholeRecord(body, start)
             ELSE LET last == f[n - 1] IN
                  IF last = 0 THEN 0
                  ELSE WholeRecord(body, last + body[last].cells + 1)
           Built(f) == f = [n \in Nat |-> Step(f, n)]
           record == CHOOSE f : Built(f)
<1>1. FirstPtr(body, start, answers) =
         LET ptrs == Ptrs(body, record, answers)
             name == ReadName(body, record[Min(ptrs)] + 1)
         IN IF ptrs = {} \/ name = None THEN None ELSE Sanitize(name)
  BY DEF FirstPtr, Ptrs
<1>2. Built(record)
  <2> DEFINE step == [q \in Nat |-> IF q = 0 THEN 0
                                    ELSE WholeRecord(body, q + body[q].cells + 1)]
  <2>1. step \in [Nat -> Nat]
    BY RecordThere
  <2>2. \A q \in Nat : step[q] = IF q = 0 THEN 0
                                 ELSE WholeRecord(body, q + body[q].cells + 1)
    OBVIOUS
  <2> HIDE DEF step
  <2>3. PICK g : Repeats(g, step, WholeRecord(body, start), Nat)
    BY <2>1, RecordThere, Iterates
  <2>4. ASSUME NEW n \in Nat PROVE g[n] = Step(g, n)
    <3>1. CASE n = 0
      BY <2>3, <3>1 DEF Repeats
    <3>2. CASE n # 0
      <4>1. n - 1 \in Nat /\ n = (n - 1) + 1
        BY <3>2
      <4>2. g[n] = step[g[n - 1]] /\ g[n - 1] \in Nat
        BY <2>3, <4>1 DEF Repeats
      <4> QED
        BY <2>2, <3>2, <4>2
    <3> QED
      BY <3>1, <3>2
  <2>5. g = [n \in Nat |-> g[n]]
    BY <2>3 DEF Repeats
  <2> HIDE DEF Step
  <2>6. Built(g)
    BY <2>4, <2>5
  <2> HIDE DEF Built
  <2> QED
    BY <2>6
<1> HIDE DEF record
<1>3. Recorded(body, start, record)
  BY <1>2 DEF Recorded
<1> QED
  BY <1>1, <1>3

\* What FirstPtr tells is a name in the data of a PTR record.
LEMMA PtrFound ==
    ASSUME NEW body, Cells(body), NEW start, NEW answers \in Nat,
           FirstPtr(body, start, answers) # None
    PROVE  \E k \in DOMAIN body :
              /\ body[k].is = "record" /\ body[k].type = Ptr
              /\ ReadName(body, k + 1) # None
              /\ FirstPtr(body, start, answers) = Sanitize(ReadName(body, k + 1))
<1>1. PICK record :
         /\ Recorded(body, start, record)
         /\ FirstPtr(body, start, answers) =
               LET ptrs == Ptrs(body, record, answers)
                   name == ReadName(body, record[Min(ptrs)] + 1)
               IN IF ptrs = {} \/ name = None THEN None ELSE Sanitize(name)
  BY FirstPtrIs
<1> DEFINE ptrs == Ptrs(body, record, answers)
           name == ReadName(body, record[Min(ptrs)] + 1)
<1>2. ASSUME NEW n \in Nat, record[n] # 0
      PROVE  record[n] \in DOMAIN body /\ body[record[n]].is = "record"
  <2>1. \E pos : record[n] = WholeRecord(body, pos)
    BY <1>1, <1>2 DEF Recorded
  <2> QED
    BY <1>2, <2>1, RecordThere
<1>3. Min(ptrs) \in ptrs /\ name # None
  <2>1. ptrs \in SUBSET Nat
    BY DEF Ptrs
  <2> HIDE DEF ptrs
  <2> QED
    BY <1>1, <2>1, MinNat DEF ptrs
<1>4. /\ record[Min(ptrs)] \in DOMAIN body /\ body[record[Min(ptrs)]].is = "record"
      /\ body[record[Min(ptrs)]].type = Ptr /\ ptrs # {}
  BY <1>2, <1>3 DEF Ptrs
<1> HIDE DEF ptrs
<1> QED
  BY <1>1, <1>3, <1>4 DEF ptrs

LEMMA HostnamesTold == \A p \in Packets : Hostname[p] \in Told \cup {None}
<1> SUFFICES ASSUME NEW p \in Packets, Hostname[p] # None PROVE Hostname[p] \in Told
  OBVIOUS
<1> DEFINE start == AfterQuestions(p.body, p.questions)
<1>1. Cells(p.body) /\ p.answers \in Nat
  BY SnapshotAssumption
<1>2. Hostname[p] \in Names
  BY DEF Names, Hostname, Range
<1>3. Hostname[p] = ParsePtr(p)
  BY DEF Hostname
<1>4. /\ IsReply(p) /\ p.rcode = 0
      /\ Hostname[p] = FirstPtr(p.body, start, p.answers)
  BY <1>3 DEF ParsePtr
<1> HIDE DEF start
<1>5. PICK k \in DOMAIN p.body :
         /\ p.body[k].is = "record" /\ p.body[k].type = Ptr
         /\ ReadName(p.body, k + 1) # None
         /\ Hostname[p] = Sanitize(ReadName(p.body, k + 1))
  BY <1>1, <1>4, PtrFound
<1>6. ReadName(p.body, k + 1) \in Spelled(p.body, k + 1)
  <2>1. k + 1 \in Nat
    BY <1>1 DEF Cells
  <2> QED
    BY <1>1, <1>5, <2>1, NameIsSpelled
<1> QED
  BY <1>2, <1>4, <1>5, <1>6 DEF Told

-----------------------------------------------------------------------------
(* A datagram's questions and records, in the order they come: the name of *)
(* the i-th begins at at[i] and ends at stop[i].  The first n are whole,   *)
(* and the next one, if there should be another, is not.                   *)

Whole(p, i, pos, k) ==
    LET body == p.body IN
    /\ k \in DOMAIN body /\ k + 1 \in DOMAIN body /\ pos <= k
    /\ body[k].is \in {"end", "pointer"}
    /\ \A l \in pos .. k - 1 : body[l].is = "label"
    /\ i >= p.questions => /\ body[k + 1].is = "record"
                           /\ k + 1 + body[k + 1].cells <= Len(body)

Behind(p, i, k) ==
    IF i < p.questions THEN k + 2 ELSE k + 2 + p.body[k + 1].cells

Laid(p, at, stop, n) ==
    /\ n \in 0 .. p.questions + p.answers
    /\ at[0] = 1
    /\ \A i \in 0 .. n - 1 : /\ Whole(p, i, at[i], stop[i])
                             /\ at[i + 1] = Behind(p, i, stop[i])
    /\ n < p.questions + p.answers => \A k : ~Whole(p, n, at[n], k)

\* The PTR records among them.
LaidPtrs(p, stop, n) ==
    {i \in p.questions .. n - 1 : p.body[stop[i] + 1].type = Ptr}

LEMMA SkipIs ==
    ASSUME NEW body, NEW pos
    PROVE  LET stops == {j \in DOMAIN body : j >= pos /\ body[j].is # "label"}
               first == CHOOSE j \in stops : \A k \in stops : j <= k
           IN SkipName(body, pos) =
                 IF stops # {} /\ body[first].is \in {"end", "pointer"}
                 THEN first + 1 ELSE 0
BY DEF SkipName

LEMMA SkipTyped ==
    ASSUME NEW body, Cells(body), NEW pos
    PROVE  SkipName(body, pos) \in Nat
<1> DEFINE stops == {j \in DOMAIN body : j >= pos /\ body[j].is # "label"}
           first == CHOOSE j \in stops : \A k \in stops : j <= k
<1>1. SkipName(body, pos) =
         IF stops # {} /\ body[first].is \in {"end", "pointer"} THEN first + 1 ELSE 0
  BY SkipIs
<1>2. stops \in SUBSET Nat
  BY DEF Cells
<1>3. ASSUME stops # {} PROVE first \in Nat
  <2> HIDE DEF stops
  <2> QED
    BY <1>2, <1>3, LeastNat
<1> HIDE DEF first
<1> QED
  BY <1>1, <1>3

\* Every datagram is laid out in some way.
LEMMA LayoutExists ==
    ASSUME NEW p, Cells(p.body), p.questions \in Nat, p.answers \in Nat
    PROVE  \E at, stop, n : Laid(p, at, stop, n)
<1> DEFINE Stop(i, pos) == CHOOSE k : Whole(p, i, pos, k)
           Goes(i, pos) == \E k : Whole(p, i, pos, k)
           S == Nat \X Nat
           After(x) == <<x[1] + 1, IF Goes(x[1], x[2])
                                   THEN Behind(p, x[1], Stop(x[1], x[2])) ELSE 0>>
           step == [x \in S |-> After(x)]
<1>1. ASSUME NEW i \in Nat, NEW k, Whole(p, i, 0, k) \/ \E pos : Whole(p, i, pos, k)
      PROVE  Behind(p, i, k) \in Nat
  <2>1. k \in Nat /\ (i >= p.questions => p.body[k + 1].cells \in Nat)
    BY <1>1 DEF Whole, Cells
  <2>2. i < p.questions \/ i >= p.questions
    OBVIOUS
  <2> QED
    BY <2>1, <2>2 DEF Behind
<1>2. ASSUME NEW x \in S PROVE After(x) \in S
  <2>1. x[1] \in Nat /\ x[1] + 1 \in Nat
    OBVIOUS
  <2>2. CASE Goes(x[1], x[2])
    <3>1. Whole(p, x[1], x[2], Stop(x[1], x[2]))
      BY <2>2
    <3>2. Behind(p, x[1], Stop(x[1], x[2])) \in Nat
      <4> HIDE DEF Stop
      <4> QED
        BY <1>1, <2>1, <3>1
    <3> HIDE DEF Goes, Stop
    <3> QED
      BY <2>1, <2>2, <3>2
  <2>3. CASE ~Goes(x[1], x[2])
    <3> HIDE DEF Goes, Stop
    <3> QED
      BY <2>1, <2>3
  <2> QED
    BY <2>2, <2>3
<1> HIDE DEF S, After
<1>3. step \in [S -> S] /\ <<0, 1>> \in S
  BY <1>2 DEF S
<1>4. \A x \in S : step[x] = After(x)
  OBVIOUS
<1> HIDE DEF step
<1>5. PICK w : Repeats(w, step, <<0, 1>>, S)
  BY <1>3, Iterates
<1>6. /\ w[0] = <<0, 1>>
      /\ \A i \in Nat : w[i] \in S /\ w[i + 1] = After(w[i])
  BY <1>4, <1>5 DEF Repeats
<1>7. \A i \in Nat : w[i][1] = i
  <2> DEFINE T == {i \in Nat : w[i][1] # i}
  <2>1. SUFFICES ASSUME T # {} PROVE FALSE
    OBVIOUS
  <2>2. PICK i \in T : \A j \in T : i <= j
    <3>1. T \in SUBSET Nat
      OBVIOUS
    <3> HIDE DEF T
    <3> QED
      BY <2>1, <3>1, LeastNat
  <2>3. i # 0
    BY <1>6, <2>2
  <2>4. i - 1 \in Nat /\ i - 1 \notin T /\ i = (i - 1) + 1
    BY <2>2, <2>3
  <2>5. w[i] = After(w[i - 1]) /\ w[i - 1][1] = i - 1
    BY <1>6, <2>4
  <2>6. w[i][1] = (i - 1) + 1
    BY <2>5 DEF After
  <2> QED
    BY <2>2, <2>4, <2>6
<1> DEFINE at == [i \in Nat |-> w[i][2]]
           stop == [i \in Nat |-> Stop(i, at[i])]
           N == p.questions + p.answers
           U == {i \in Nat : i = N \/ ~Goes(i, at[i])}
<1>8. PICK n \in U : \A i \in U : n <= i
  <2>1. U \in SUBSET Nat /\ N \in U
    OBVIOUS
  <2> HIDE DEF U
  <2> QED
    BY <2>1, LeastNat
<1>9. n \in 0 .. N /\ n \in Nat /\ N \in Nat /\ N \in U
  BY <1>8
<1>10. ASSUME NEW i \in 0 .. n - 1
       PROVE  Whole(p, i, at[i], stop[i]) /\ at[i + 1] = Behind(p, i, stop[i])
  <2>1. i \in Nat /\ i \notin U /\ i + 1 \in Nat
    BY <1>8, <1>9
  <2>2. Goes(i, at[i])
    BY <2>1
  <2>3. Whole(p, i, at[i], stop[i])
    BY <2>1, <2>2
  <2>4. w[i + 1] = After(w[i]) /\ w[i][1] = i /\ w[i][2] = at[i]
    BY <1>6, <1>7, <2>1
  <2>5. stop[i] = Stop(i, at[i]) /\ at[i + 1] = w[i + 1][2]
    BY <2>1
  <2> HIDE DEF Goes, Stop, at, stop, U
  <2>6. at[i + 1] = Behind(p, i, stop[i])
    BY <2>2, <2>4, <2>5 DEF After
  <2> QED
    BY <2>3, <2>6
<1>11. n < N => \A k : ~Whole(p, n, at[n], k)
  BY <1>8, <1>9
<1>12. at[0] = 1
  BY <1>6
<1> HIDE DEF at, stop, U
<1>13. Laid(p, at, stop, n)
  BY <1>9, <1>10, <1>11, <1>12 DEF Laid
<1> QED
  BY <1>13

\* SkipName finds the end of a name, and none where there is none.
LEMMA Skipped ==
    ASSUME NEW p, Cells(p.body), NEW i, NEW pos \in Nat, NEW k, Whole(p, i, pos, k)
    PROVE  /\ SkipName(p.body, pos) = k + 1
           /\ k \in Nat /\ k + 1 \in DOMAIN p.body
<1> DEFINE body == p.body
           stops == {j \in DOMAIN body : j >= pos /\ body[j].is # "label"}
           first == CHOOSE j \in stops : \A l \in stops : j <= l
<1>1. /\ k \in DOMAIN body /\ k + 1 \in DOMAIN body /\ pos <= k
      /\ body[k].is \in {"end", "pointer"}
      /\ \A l \in pos .. k - 1 : body[l].is = "label"
      /\ DOMAIN body \subseteq Nat
  BY DEF Whole, Cells
<1>2. k \in stops /\ \A j \in stops : k <= j
  BY <1>1
<1>3. stops \subseteq Nat /\ k \in Nat
  BY <1>1
<1>4. SkipName(body, pos) =
         IF stops # {} /\ body[first].is \in {"end", "pointer"} THEN first + 1 ELSE 0
  BY SkipIs
<1> HIDE DEF stops
<1>5. first = k
  <2>1. \A j \in stops : (\A l \in stops : j <= l) <=> j = k
    BY <1>2, <1>3
  <2> QED
    BY <1>2, <2>1
<1> QED
  BY <1>1, <1>2, <1>3, <1>4, <1>5

LEMMA NotSkipped ==
    ASSUME NEW p, Cells(p.body), NEW i, NEW pos \in Nat \ {0},
           \A k : ~Whole(p, i, pos, k)
    PROVE  IF i >= p.questions THEN WholeRecord(p.body, pos) = 0
           ELSE SkipName(p.body, pos) \notin DOMAIN p.body
<1> DEFINE body == p.body
           stops == {j \in DOMAIN body : j >= pos /\ body[j].is # "label"}
           first == CHOOSE j \in stops : \A l \in stops : j <= l
           fixed == SkipName(body, pos)
<1>1. SUFFICES ASSUME fixed \in DOMAIN body,
                      i >= p.questions =>
                         /\ body[fixed].is = "record"
                         /\ fixed + body[fixed].cells <= Len(body)
               PROVE  FALSE
  BY DEF WholeRecord
<1>2. fixed = IF stops # {} /\ body[first].is \in {"end", "pointer"}
              THEN first + 1 ELSE 0
  BY SkipIs
<1>3. stops # {} /\ body[first].is \in {"end", "pointer"} /\ fixed = first + 1
  <2>1. fixed # 0
    <3> HIDE DEF fixed
    <3> QED
      BY <1>1 DEF Cells
  <2> HIDE DEF fixed, stops, first
  <2> QED
    BY <1>2, <2>1
<1>4. first \in stops /\ \A l \in stops : first <= l
  <2>1. stops \in SUBSET Nat
    BY DEF Cells
  <2> HIDE DEF stops
  <2> QED
    BY <1>3, <2>1, LeastNat
<1> HIDE DEF first, fixed
<1>5. first \in DOMAIN body /\ pos <= first /\ first \in Nat
  BY <1>4 DEF Cells
<1>6. ASSUME NEW l \in pos .. first - 1 PROVE body[l].is = "label"
  <2>1. l \in DOMAIN body /\ l >= pos /\ ~(first <= l)
    BY <1>5 DEF Cells
  <2> QED
    BY <1>4, <2>1
<1>7. Whole(p, i, pos, first)
  BY <1>1, <1>3, <1>5, <1>6 DEF Whole
<1> QED
  BY <1>7

LEMMA Places ==
    ASSUME NEW p, Cells(p.body), p.questions \in Nat, p.answers \in Nat,
           NEW at, NEW stop, NEW n, Laid(p, at, stop, n), NEW i \in 0 .. n
    PROVE  at[i] \in Nat \ {0}
<1>1. n \in Nat
  BY DEF Laid
<1>2. CASE i = 0
  BY <1>2 DEF Laid
<1>3. CASE i # 0
  <2> DEFINE j == i - 1
             k == stop[j]
  <2>1. j \in 0 .. n - 1 /\ j + 1 = i
    BY <1>1, <1>3
  <2> HIDE DEF j
  <2>2. Whole(p, j, at[j], k) /\ at[i] = Behind(p, j, k)
    BY <2>1 DEF Laid
  <2>3. k \in Nat /\ (j >= p.questions => p.body[k + 1].cells \in Nat)
    BY <2>2 DEF Whole, Cells
  <2>4. j < p.questions \/ j >= p.questions
    BY <1>1, <2>1
  <2> HIDE DEF k
  <2> QED
    BY <2>2, <2>3, <2>4 DEF Behind
<1> QED
  BY <1>2, <1>3

\* AfterQuestions is where the records begin, if they do.
LEMMA QuestionsPassed ==
    ASSUME NEW p, Cells(p.body), p.questions \in Nat, p.answers \in Nat,
           NEW at, NEW stop, NEW n, Laid(p, at, stop, n)
    PROVE  AfterQuestions(p.body, p.questions) =
              IF n < p.questions THEN 0 ELSE at[p.questions]
<1> DEFINE body == p.body
           Q == p.questions
           Step(f, m) ==
             IF m = 0 THEN 1
             ELSE LET type == IF f[m - 1] = 0 THEN 0 ELSE SkipName(body, f[m - 1])
                  IN IF type \in DOMAIN body THEN type + 1 ELSE 0
           Built(f) == f = [m \in Nat |-> Step(f, m)]
           skip == CHOOSE f : Built(f)
<1>1. AfterQuestions(body, Q) = skip[Q]
  BY DEF AfterQuestions
<1>2. Built(skip)
  <2> DEFINE step == [q \in Nat |->
                        LET type == IF q = 0 THEN 0 ELSE SkipName(body, q)
                        IN IF type \in DOMAIN body THEN type + 1 ELSE 0]
  <2>1. step \in [Nat -> Nat]
    BY SkipTyped
  <2>2. \A q \in Nat : step[q] = LET type == IF q = 0 THEN 0 ELSE SkipName(body, q)
                                 IN IF type \in DOMAIN body THEN type + 1 ELSE 0
    OBVIOUS
  <2> HIDE DEF step
  <2>3. PICK g : Repeats(g, step, 1, Nat)
    BY <2>1, Iterates
  <2>4. ASSUME NEW m \in Nat PROVE g[m] = Step(g, m)
    <3>1. CASE m = 0
      BY <2>3, <3>1 DEF Repeats
    <3>2. CASE m # 0
      <4>1. m - 1 \in Nat /\ m = (m - 1) + 1
        BY <3>2
      <4>2. g[m] = step[g[m - 1]] /\ g[m - 1] \in Nat
        BY <2>3, <4>1 DEF Repeats
      <4> QED
        BY <2>2, <3>2, <4>2
    <3> QED
      BY <3>1, <3>2
  <2>5. g = [m \in Nat |-> g[m]]
    BY <2>3 DEF Repeats
  <2> HIDE DEF Step
  <2>6. Built(g)
    BY <2>4, <2>5
  <2> HIDE DEF Built
  <2> QED
    BY <2>6
<1> HIDE DEF skip
<1>3. \A m \in Nat : skip[m] = Step(skip, m)
  BY <1>2
<1>4. Q \in Nat /\ n \in Nat /\ at[0] = 1
  BY DEF Laid
<1>5. 0 \notin DOMAIN body
  BY DEF Cells
<1>6. ASSUME NEW m \in Nat, m < n, m < Q, skip[m] = at[m]
      PROVE  skip[m + 1] = at[m + 1]
  <2>1. m \in 0 .. n - 1 /\ m \in 0 .. n
    BY <1>4, <1>6
  <2>2. Whole(p, m, at[m], stop[m]) /\ at[m + 1] = stop[m] + 2
    BY <1>6, <2>1 DEF Laid, Behind
  <2>3. at[m] \in Nat \ {0}
    BY <2>1, Places
  <2>4. /\ SkipName(body, at[m]) = stop[m] + 1
        /\ stop[m] \in Nat /\ stop[m] + 1 \in DOMAIN body
    BY <2>2, <2>3, Skipped
  <2>5. m + 1 \in Nat /\ m + 1 # 0 /\ (m + 1) - 1 = m
    OBVIOUS
  <2>6. skip[m + 1] = (stop[m] + 1) + 1
    BY <1>3, <1>6, <2>3, <2>4, <2>5
  <2> QED
    BY <2>2, <2>4, <2>6
<1>7. ASSUME NEW m \in Nat, m < Q, m = n, skip[m] = at[m]
      PROVE  skip[m + 1] = 0
  <2>1. \A k : ~Whole(p, n, at[n], k)
    BY <1>4, <1>7 DEF Laid
  <2>2. at[n] \in Nat \ {0}
    BY <1>4, Places
  <2>3. SkipName(body, at[n]) \notin DOMAIN body
    BY <1>4, <1>7, <2>1, <2>2, NotSkipped
  <2>4. m + 1 \in Nat /\ m + 1 # 0 /\ (m + 1) - 1 = m
    OBVIOUS
  <2> QED
    BY <1>3, <1>7, <2>2, <2>3, <2>4
<1>8. ASSUME NEW m \in Nat, skip[m] = 0 PROVE skip[m + 1] = 0
  <2>1. m + 1 \in Nat /\ m + 1 # 0 /\ (m + 1) - 1 = m
    OBVIOUS
  <2> QED
    BY <1>3, <1>5, <1>8, <2>1
<1>9. skip[0] = 1
  BY <1>3
<1> HIDE DEF Step, Built
<1> DEFINE T == {m \in Nat : m <= Q /\ skip[m] # IF n < m THEN 0 ELSE at[m]}
<1>10. T = {}
  <2>1. SUFFICES ASSUME T # {} PROVE FALSE
    OBVIOUS
  <2>2. PICK m \in T : \A k \in T : m <= k
    <3>1. T \in SUBSET Nat
      OBVIOUS
    <3> HIDE DEF T
    <3> QED
      BY <2>1, <3>1, LeastNat
  <2>3. m # 0
    BY <1>4, <1>9, <2>2
  <2> DEFINE k == m - 1
  <2>4. k \in Nat /\ k \notin T /\ m = k + 1 /\ k < Q
    BY <1>4, <2>2, <2>3
  <2> HIDE DEF k
  <2>5. skip[k] = IF n < k THEN 0 ELSE at[k]
    BY <1>4, <2>4
  <2>6. CASE k < n
    BY <1>4, <1>6, <2>2, <2>4, <2>5, <2>6
  <2>7. CASE k = n
    BY <1>4, <1>7, <2>2, <2>4, <2>5, <2>7
  <2>8. CASE n < k
    BY <1>4, <1>8, <2>2, <2>4, <2>5, <2>8
  <2> QED
    BY <1>4, <2>4, <2>6, <2>7, <2>8
<1> QED
  BY <1>1, <1>4, <1>10

LEMMA RecordsPassed ==
    ASSUME NEW p, Cells(p.body), p.questions \in Nat, p.answers \in Nat,
           NEW at, NEW stop, NEW n, Laid(p, at, stop, n), n >= p.questions,
           NEW record, Recorded(p.body, at[p.questions], record),
           NEW m \in 0 .. p.answers - 1
    PROVE  record[m] = IF p.questions + m < n THEN stop[p.questions + m] + 1 ELSE 0
<1> DEFINE body == p.body
           Q == p.questions
           A == p.answers
           To(k) == IF Q + k < n THEN stop[Q + k] + 1 ELSE 0
           T == {k \in Nat : k < A /\ record[k] # To(k)}
<1>1. n \in Nat
  BY DEF Laid
\* What a whole record, or the one that is not, looks like from its place.
<1>2. ASSUME NEW k \in Nat, k < A, Q + k <= n
      PROVE  WholeRecord(body, at[Q + k]) = To(k)
  <2> DEFINE i == Q + k
  <2>1. i \in 0 .. n /\ i >= Q
    BY <1>1, <1>2
  <2> HIDE DEF i
  <2>2. at[i] \in Nat \ {0}
    BY <2>1, Places
  <2>3. CASE i < n
    <3>1. Whole(p, i, at[i], stop[i])
      <4>1. i \in 0 .. n - 1
        BY <1>1, <2>1, <2>3
      <4> QED
        BY <4>1 DEF Laid
    <3>2. /\ SkipName(body, at[i]) = stop[i] + 1
          /\ stop[i] + 1 \in DOMAIN body
      BY <2>2, <3>1, Skipped
    <3>3. /\ body[stop[i] + 1].is = "record"
          /\ stop[i] + 1 + body[stop[i] + 1].cells <= Len(body)
      BY <2>1, <3>1 DEF Whole
    <3>4. WholeRecord(body, at[i]) = stop[i] + 1
      BY <3>2, <3>3 DEF WholeRecord
    <3> QED
      BY <2>3, <3>4 DEF i
  <2>4. CASE ~(i < n)
    <3>1. i = n /\ n < Q + A
      BY <1>1, <1>2, <2>1, <2>4 DEF i
    <3>2. \A l : ~Whole(p, n, at[n], l)
      BY <3>1 DEF Laid
    <3>3. WholeRecord(body, at[i]) = 0
      BY <2>1, <2>2, <3>1, <3>2, NotSkipped
    <3> QED
      BY <2>4, <3>3 DEF i
  <2> QED
    BY <2>3, <2>4
<1>3. ASSUME NEW k \in Nat, Q + k < n
      PROVE  /\ stop[Q + k] + 1 # 0
             /\ at[Q + k + 1] = stop[Q + k] + 1 + body[stop[Q + k] + 1].cells + 1
  <2> DEFINE i == Q + k
             cells == body[stop[i] + 1].cells
  <2>1. i \in 0 .. n - 1 /\ i >= Q /\ i \in 0 .. n
    BY <1>1, <1>3
  <2> HIDE DEF i
  <2>2. Whole(p, i, at[i], stop[i]) /\ at[i + 1] = Behind(p, i, stop[i])
    BY <2>1 DEF Laid
  <2>3. ~(i < Q)
    BY <1>1, <2>1
  <2>4. at[i + 1] = stop[i] + 2 + cells
    BY <2>2, <2>3 DEF Behind
  <2>5. stop[i] \in Nat /\ cells \in Nat
    BY <2>1, <2>2 DEF Whole, Cells
  <2> HIDE DEF cells
  <2>6. stop[i] + 1 # 0 /\ at[i + 1] = stop[i] + 1 + cells + 1
    BY <2>4, <2>5
  <2> QED
    BY <2>6 DEF i, cells
<1>4. record[0] = WholeRecord(body, at[Q])
  BY DEF Recorded
<1>5. ASSUME NEW k \in Nat, record[k] # 0
      PROVE  record[k + 1] = WholeRecord(body, record[k] + body[record[k]].cells + 1)
  <2>1. k + 1 \in Nat /\ k + 1 # 0 /\ (k + 1) - 1 = k
    OBVIOUS
  <2> QED
    BY <1>5, <2>1 DEF Recorded
<1>6. ASSUME NEW k \in Nat, record[k] = 0 PROVE record[k + 1] = 0
  <2>1. k + 1 \in Nat /\ k + 1 # 0 /\ (k + 1) - 1 = k
    OBVIOUS
  <2> QED
    BY <1>6, <2>1 DEF Recorded
<1>7. T = {}
  <2>1. SUFFICES ASSUME T # {} PROVE FALSE
    OBVIOUS
  <2>2. PICK k \in T : \A j \in T : k <= j
    <3>1. T \in SUBSET Nat
      OBVIOUS
    <3> HIDE DEF T
    <3> QED
      BY <2>1, <3>1, LeastNat
  <2>3. k \in Nat /\ k < A /\ record[k] # To(k)
    BY <2>2
  <2>4. CASE k = 0
    <3>1. Q + k = Q /\ Q + k <= n
      BY <1>1, <2>4
    <3>2. record[k] = To(k)
      BY <1>2, <1>4, <2>3, <2>4, <3>1
    <3> QED
      BY <2>3, <3>2
  <2>5. CASE k # 0
    <3> DEFINE l == k - 1
    <3>1. l \in Nat /\ l \notin T /\ l < A /\ k = l + 1 /\ Q + l + 1 = Q + k
      BY <2>2, <2>3, <2>5
    <3> HIDE DEF l
    <3>2. record[l] = To(l)
      BY <3>1
    <3> HIDE DEF T
    <3>3. CASE Q + l < n
      <4>1. record[l] = stop[Q + l] + 1 /\ record[l] # 0
        BY <1>3, <3>1, <3>2, <3>3
      <4>2. at[Q + k] = record[l] + body[record[l]].cells + 1
        BY <1>3, <3>1, <3>3, <4>1
      <4>3. Q + k <= n
        BY <1>1, <3>1, <3>3
      <4>4. WholeRecord(body, at[Q + k]) = To(k)
        BY <1>2, <2>3, <4>3
      <4>5. record[k] = WholeRecord(body, record[l] + body[record[l]].cells + 1)
        BY <1>5, <3>1, <4>1
      <4> HIDE DEF To
      <4> QED
        BY <2>3, <4>2, <4>4, <4>5
    <3>4. CASE ~(Q + l < n)
      <4>1. record[l] = 0
        BY <3>2, <3>4
      <4>2. ~(Q + k < n)
        BY <1>1, <3>1, <3>4
      <4>3. record[k] = 0
        BY <1>6, <3>1, <4>1
      <4> QED
        BY <2>3, <4>2, <4>3
    <3> QED
      BY <3>3, <3>4
  <2> QED
    BY <2>4, <2>5
<1> QED
  BY <1>7

(* Of any datagram that answers the query, with any number of questions    *)
(* and records, whole or breaking off anywhere, the hostname is the one    *)
(* that the first whole PTR record spells, and none if there is no such    *)
(* record or it spells none: parse_ptr_response.                           *)
THEOREM RepliesAreRead ==
    ASSUME NEW p, IsReply(p), p.rcode = 0, Cells(p.body),
           p.questions \in Nat, p.answers \in Nat,
           NEW at, NEW stop, NEW n, Laid(p, at, stop, n)
    PROVE  LET ptrs == LaidPtrs(p, stop, n)
               names == {Sanitize(name) :
                            name \in Spelled(p.body, stop[Min(ptrs)] + 2)}
           IN {ParsePtr(p)} = IF ptrs = {} \/ names = {} THEN {None} ELSE names
<1> DEFINE body == p.body
           Q == p.questions
           A == p.answers
           ptrs == LaidPtrs(p, stop, n)
           names == {Sanitize(name) : name \in Spelled(body, stop[Min(ptrs)] + 2)}
<1>1. n \in Nat /\ n <= Q + A
  BY DEF Laid
<1>2. AfterQuestions(body, Q) = IF n < Q THEN 0 ELSE at[Q]
  BY QuestionsPassed
<1>3. PICK record :
         /\ Recorded(body, at[Q], record)
         /\ FirstPtr(body, at[Q], A) =
               LET found == Ptrs(body, record, A)
                   name == ReadName(body, record[Min(found)] + 1)
               IN IF found = {} \/ name = None THEN None ELSE Sanitize(name)
  BY FirstPtrIs
<1> DEFINE found == Ptrs(body, record, A)
<1>4. CASE n < Q
  <2>1. ptrs = {}
    BY <1>1, <1>4 DEF LaidPtrs
  <2>2. ParsePtr(p) = None
    BY <1>2, <1>4 DEF ParsePtr
  <2> HIDE DEF ptrs, names
  <2>3. {ParsePtr(p)} = IF ptrs = {} \/ names = {} THEN {None} ELSE names
    BY <2>1, <2>2
  <2> QED
    BY <2>3 DEF ptrs, names
<1>5. CASE n >= Q
  <2>1. ASSUME NEW m \in 0 .. A - 1
        PROVE  /\ Q + m < n => record[m] = stop[Q + m] + 1 /\ record[m] # 0
                               /\ stop[Q + m] \in Nat
               /\ ~(Q + m < n) => record[m] = 0
    <3>1. record[m] = IF Q + m < n THEN stop[Q + m] + 1 ELSE 0
      BY <1>3, <1>5, RecordsPassed
    <3>2. ASSUME Q + m < n PROVE stop[Q + m] \in Nat
      <4>1. Q + m \in 0 .. n - 1
        BY <1>1, <3>2
      <4>2. Whole(p, Q + m, at[Q + m], stop[Q + m])
        BY <4>1 DEF Laid
      <4> QED
        BY <4>2 DEF Whole, Cells
    <3> QED
      BY <3>1, <3>2
  <2>2. \A m \in 0 .. A - 1 : m \in found <=> Q + m \in ptrs
    <3> TAKE m \in 0 .. A - 1
    <3>1. CASE Q + m < n
      <4>1. record[m] = stop[Q + m] + 1 /\ record[m] # 0 /\ Q + m \in Q .. n - 1
        BY <1>1, <2>1, <3>1
      <4> QED
        BY <4>1 DEF Ptrs, LaidPtrs
    <3>2. CASE ~(Q + m < n)
      <4>1. record[m] = 0 /\ Q + m \notin Q .. n - 1
        BY <1>1, <2>1, <3>2
      <4> QED
        BY <4>1 DEF Ptrs, LaidPtrs
    <3> QED
      BY <3>1, <3>2
  <2>3. /\ \A i \in ptrs : /\ i - Q \in 0 .. A - 1 /\ Q + (i - Q) = i
                           /\ i \in Nat /\ i < n
        /\ \A m \in found : m \in 0 .. A - 1
    BY <1>1 DEF Ptrs, LaidPtrs
  <2>4. at[Q] # 0
    <3>1. Q \in 0 .. n
      BY <1>1, <1>5
    <3> QED
      BY <3>1, Places
  <2>5. ParsePtr(p) = FirstPtr(body, at[Q], A)
    <3>1. ~(n < Q)
      BY <1>1, <1>5
    <3> QED
      BY <1>2, <2>4, <3>1 DEF ParsePtr
  <2> HIDE DEF ptrs, found, names
  <2>6. found = {} <=> ptrs = {}
    BY <2>2, <2>3
  <2>7. ASSUME ptrs = {} PROVE ParsePtr(p) = None
    BY <1>3, <2>5, <2>6, <2>7 DEF found
  <2>8. ASSUME ptrs # {}
        PROVE  {ParsePtr(p)} = IF names = {} THEN {None} ELSE names
    <3>1. Min(found) \in found /\ \A k \in found : Min(found) <= k
      <4>1. found \in SUBSET Nat
        BY <2>3
      <4> QED
        BY <2>6, <2>8, <4>1, MinNat
    <3>2. Min(ptrs) \in ptrs /\ \A k \in ptrs : Min(ptrs) <= k
      <4>1. ptrs \in SUBSET Nat
        BY <2>3
      <4> QED
        BY <2>8, <4>1, MinNat
    <3> DEFINE m == Min(found)
               i == Min(ptrs)
               data == stop[i] + 2
    <3>3. m \in 0 .. A - 1 /\ Q + m \in ptrs /\ Q + m < n
      BY <2>2, <2>3, <3>1
    <3>4. i = Q + m
      <4>1. i - Q \in 0 .. A - 1 /\ i - Q \in found /\ i \in Nat
        BY <2>2, <2>3, <3>2
      <4>2. m <= i - Q /\ i <= Q + m
        BY <3>1, <3>2, <3>3, <4>1
      <4> HIDE DEF m, i
      <4> QED
        BY <3>3, <4>1, <4>2
    <3>5. record[m] + 1 = data /\ data \in Nat
      <4>1. record[m] = stop[Q + m] + 1 /\ stop[Q + m] \in Nat
        BY <2>1, <3>3
      <4> HIDE DEF m, i
      <4> QED
        BY <3>4, <4>1
    <3>6. ParsePtr(p) = IF ReadName(body, data) = None THEN None
                        ELSE Sanitize(ReadName(body, data))
      BY <1>3, <2>5, <2>6, <2>8, <3>5 DEF found
    <3>7. {ReadName(body, data)} =
             IF Spelled(body, data) = {} THEN {None} ELSE Spelled(body, data)
      BY <3>5, NameIsSpelled
    <3>8. None \notin Spelled(body, data)
      BY <3>5, SpelledSome
    <3>9. names = {Sanitize(name) : name \in Spelled(body, data)}
      BY DEF names
    <3> HIDE DEF data
    <3>10. CASE Spelled(body, data) = {}
      BY <3>6, <3>7, <3>9, <3>10
    <3>11. CASE Spelled(body, data) # {}
      BY <3>6, <3>7, <3>8, <3>9, <3>11
    <3> QED
      BY <3>10, <3>11
  <2>9. {ParsePtr(p)} = IF ptrs = {} \/ names = {} THEN {None} ELSE names
    BY <2>7, <2>8
  <2> QED
    BY <2>9 DEF names, ptrs
<1> QED
  BY <1>1, <1>4, <1>5

-----------------------------------------------------------------------------
(* The properties.                                                         *)

(* Every variable of the snapshot stays what its type says, whoever comes  *)
(* and goes while the tools are asked: a station is listed once, only one  *)
(* with an address is looked up, and its address is one neigh printed.     *)
THEOREM TypeCorrect == Spec => []TypeOK
<1>1. SnapInv => TypeOK
  <2> SUFFICES ASSUME SnapInv PROVE TypeOK
    OBVIOUS
  <2> USE DEF SnapInv
  <2>1. ASSUME NEW i \in Ifaces
        PROVE  /\ UNION Range(arrivals[i]) \subseteq Macs
               /\ {} \notin Range(arrivals[i])
    <3>1. /\ Here(i) \subseteq Macs
          /\ \A k \in DOMAIN arrivals[i] : arrivals[i][k] \in Classes
      BY HereIs
    <3>2. \A k \in DOMAIN arrivals[i] : arrivals[i][k] # {}
      BY <3>1 DEF Classes
    <3> QED
      BY <3>1, <3>2 DEF Here, Range
  <2>2. stayed \subseteq Macs
    BY HereIs DEF StayedHere
  <2>3. ASSUME NEW k \in DOMAIN stations
        PROVE  /\ stations[k].mac \in Listed
               /\ stations[k].connected \in Nat \cup {Untold}
               /\ \A l \in 1 .. k - 1 : stations[l].mac # stations[k].mac
    BY DEF StationsOK, Dump
  <2>4. /\ \A m \in DOMAIN ips : ips[m] \in Ips
        /\ \A m \in DOMAIN lookup :
              /\ m \in DOMAIN ips
              /\ lookup[m] \in [done : BOOLEAN, left : 0 .. Patience, name : Names]
    BY DEF LookupOK
  <2>5. /\ mode \in [Ifaces -> Modes]
        /\ \A i \in Ifaces : mode[i] # "AP" => arrivals[i] = <<>>
    BY DEF WorldOK
  <2> HIDE DEF SnapInv
  <2>6. /\ stage \in {"dev", "stations", "address", "neigh", "names", "done"}
        /\ ap \in Ifaces \cup {NoIface}
        /\ result \in {"none", "error", "off", "on"}
        /\ gateway \in BOOLEAN /\ warned \in BOOLEAN /\ steady \in BOOLEAN
        /\ broken \subseteq {"dev", "stations", "address", "neigh"}
    BY DEF SnapInv, StageOK, Asking
  <2> HIDE DEF Modes, Listed, Untold, Ips, Names
  <2> QED
    BY <2>1, <2>2, <2>3, <2>4, <2>5, <2>6 DEF TypeOK
<1> QED
  BY <1>1, SnapInvariant, PTL

(* What a finished snapshot says is so, for any interfaces and clients.    *)
THEOREM ReadsTrue == Spec => []ReadingIsTrue
<1>1. ASSUME SnapInv, NEW m \in DOMAIN lookup PROVE lookup[m].name \in Told \cup {None}
  <2>1. lookup[m].name \in Names
    <3> HIDE DEF Names
    <3> QED
      BY <1>1 DEF SnapInv, LookupOK
  <2>2. Names = {Hostname[p] : p \in Packets} \cup {None}
    BY DEF Names, Range, Hostname
  <2> QED
    BY <2>1, <2>2, HostnamesTold
<1>2. SnapInv => ReadingIsTrue
  BY <1>1 DEF SnapInv, ReadingIsTrue, StageOK, StationsOK
<1> QED
  BY <1>2, SnapInvariant, PTL

(* The list never shuffles: two clients that stay keep their order.        *)
THEOREM OrderIsKept == Spec => OrderKept
<1>1. SnapInv /\ ListStations =>
         \A m, n \in stayed \cap Here(ap) :
            Place(stations, m) < Place(stations, n) =>
               Place(stations', m) < Place(stations', n)
  <2> SUFFICES ASSUME SnapInv, ListStations,
                      NEW m \in stayed \cap Here(ap), NEW n \in stayed \cap Here(ap),
                      Place(stations, m) < Place(stations, n)
               PROVE  Place(stations', m) < Place(stations', n)
    OBVIOUS
  <2>1. ap \in Ifaces /\ WorldOK
    BY DEF ListStations, SnapInv, StageOK, Asking
  <2>2. PICK out \in DumpOutputs(ap) : stations' = Stations(out)
    BY DEF ListStations
  <2>3. Earlier(ap, m, n)
    BY <2>1 DEF SnapInv, OrderOK
  <2>4. \A x, y \in Here(ap) :
           Place(stations', x) < Place(stations', y) <=> Earlier(ap, x, y)
    BY <2>1, <2>2, DumpListed
  <2> QED
    BY <2>3, <2>4
<1> QED
  BY <1>1, SnapInvariant, PTL DEF Spec, OrderKept

(* A station is shown with an address exactly when neigh has a usable      *)
(* entry for it, and with one that no other of its entries beats.          *)
THEOREM AddressesAreRight == Spec => [][AddressesRight]_vars
<1>1. SnapInv => AddressesRight
  <2> SUFFICES ASSUME SnapInv, NEW t \in Tables, ReadNeighbours(t),
                      NEW k \in DOMAIN stations
               PROVE  LET m == stations[k].mac IN
                      /\ m \in DOMAIN ips' <=> Usable(t, m) # {}
                      /\ m \in DOMAIN ips' =>
                            \E e \in Usable(t, m) :
                               /\ t[e].ip = ips'[m]
                               /\ \A o \in Usable(t, m) : ~Better(t[o], t[e])
    BY DEF AddressesRight
  <2> DEFINE m == stations[k].mac
  <2>1. m \in Listed
    BY DEF SnapInv, StationsOK, Dump
  <2>2. m \in DOMAIN ips' <=> Usable(t, m) # {}
    BY <2>1, Decorated
  <2>3. ASSUME m \in DOMAIN ips'
        PROVE  \E e \in Usable(t, m) :
                  /\ t[e].ip = ips'[m]
                  /\ \A o \in Usable(t, m) : ~Better(t[o], t[e])
    <3>1. /\ Best(t, m) \in Usable(t, m)
          /\ \A l \in Usable(t, m) : ~Better(t[l], t[Best(t, m)])
      BY <2>2, <2>3, BestExists
    <3>2. ips'[m] = t[Best(t, m)].ip
      BY <2>3, Decorated
    <3> QED
      BY <3>1, <3>2
  <2> QED
    BY <2>2, <2>3
<1> QED
  BY <1>1, SnapInvariant, PTL DEF Spec

\* What who sent a datagram says of it is so: where its first PTR record has
\* its data.
StartTold(p) ==
    \E at, stop, n :
        /\ Laid(p, at, stop, n)
        /\ p.start = LET ptrs == LaidPtrs(p, stop, n) IN
                     IF ptrs = {} THEN 0 ELSE stop[Min(ptrs)] + 2

(* Addresses and names are the right ones, whatever datagrams arrive, of   *)
(* which `start` says where their first PTR record has its data.           *)
THEOREM DecorationsAreRight ==
    ASSUME \A p \in Packets : IsReply(p) /\ p.rcode = 0 => StartTold(p)
    PROVE  Spec => DecorationsAreTrue
<1>1. ASSUME NEW p \in Packets, IsReply(p)
      PROVE  LET names == IF p.rcode # 0 \/ p.start = 0 THEN {}
                          ELSE {Sanitize(n) : n \in Spelled(p.body, p.start)}
             IN {Hostname[p]} = IF names = {} THEN {None} ELSE names
  <2>1. Hostname[p] = ParsePtr(p)
    BY DEF Hostname
  <2>2. CASE p.rcode # 0
    BY <2>1, <2>2 DEF ParsePtr
  <2>3. CASE p.rcode = 0
    <3>1. PICK at, stop, n :
             /\ Laid(p, at, stop, n)
             /\ p.start = LET ptrs == LaidPtrs(p, stop, n) IN
                          IF ptrs = {} THEN 0 ELSE stop[Min(ptrs)] + 2
      BY <1>1, <2>3 DEF StartTold
    <3> DEFINE ptrs == LaidPtrs(p, stop, n)
               names == {Sanitize(name) :
                            name \in Spelled(p.body, stop[Min(ptrs)] + 2)}
    <3>2. Cells(p.body) /\ p.questions \in Nat /\ p.answers \in Nat
      BY SnapshotAssumption
    <3>3. {ParsePtr(p)} = IF ptrs = {} \/ names = {} THEN {None} ELSE names
      BY <1>1, <2>3, <3>1, <3>2, RepliesAreRead
    <3>4. ptrs # {} => p.start = stop[Min(ptrs)] + 2 /\ p.start # 0
      <4>1. ASSUME ptrs # {} PROVE stop[Min(ptrs)] + 2 # 0
        <5>1. ptrs \in SUBSET Nat
          BY <3>2 DEF LaidPtrs
        <5>2. Min(ptrs) \in ptrs
          <6> HIDE DEF ptrs
          <6> QED
            BY <4>1, <5>1, MinNat
        <5>3. Min(ptrs) \in 0 .. n - 1
          BY <3>2, <5>2 DEF LaidPtrs
        <5>4. Whole(p, Min(ptrs), at[Min(ptrs)], stop[Min(ptrs)])
          <6> HIDE DEF ptrs
          <6> QED
            BY <3>1, <5>3 DEF Laid
        <5>5. stop[Min(ptrs)] \in Nat
          <6> HIDE DEF ptrs
          <6> QED
            BY <3>2, <5>4 DEF Whole, Cells
        <5> QED
          BY <5>5
      <4> QED
        BY <3>1, <4>1
    <3> HIDE DEF ptrs
    <3>5. CASE ptrs = {}
      <4>1. p.start = 0 /\ Hostname[p] = None
        BY <2>1, <3>1, <3>3, <3>5 DEF ptrs
      <4> QED
        BY <4>1
    <3>6. CASE ptrs # {}
      BY <2>1, <2>3, <3>3, <3>4, <3>6
    <3> QED
      BY <3>5, <3>6
  <2> QED
    BY <2>2, <2>3
<1>2. ASSUME SnapInv, [Next]_vars PROVE NamesRight
  <2> SUFFICES ASSUME NEW m \in DOMAIN lookup, NEW p \in Packets,
                      lookup'[m] # lookup[m], IsReply(p), Receive(m, p)
               PROVE  LET names == IF p.rcode # 0 \/ p.start = 0 THEN {}
                                   ELSE {Sanitize(n) : n \in Spelled(p.body, p.start)}
                      IN {lookup'[m].name} = IF names = {} THEN {None} ELSE names
    BY DEF NamesRight
  <2>1. lookup'[m] = Done(Hostname[p])
    BY DEF Receive
  <2>2. lookup'[m].name = Hostname[p]
    BY <2>1 DEF Done
  <2> QED
    BY <1>1, <2>2
<1>3. Spec => [][NamesRight]_vars
  BY <1>2, SnapInvariant, PTL DEF Spec
<1>4. Spec => [][AddressesRight /\ NamesRight]_vars
  BY <1>3, AddressesAreRight, PTL
<1> QED
  BY <1>4 DEF DecorationsAreTrue
=============================================================================
