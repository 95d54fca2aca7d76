--------------------------- MODULE Capture_proof ---------------------------
(* While the SDK counts as the source of the traffic nothing else is       *)
(* listed, latched or left talking (SdkAlone), and no row of the mirror    *)
(* ever shows another runtime's request (SdkRowKeepsRun), for any number   *)
(* of requests, runtimes, lost connections and rows.                       *)
EXTENDS NetworkCapture, TLAPS, NaturalsInduction, WellFoundedInduction

Record == [epoch : Nat \ {0}, by : {"cdp", "int", "sdk"}, n : Ids, p : 0..MaxRuns,
           run : Runs, of : 0..MaxRuns]
Reads == [t : {"read"}, run : Runs, sdk : SUBSET Ids, done : SUBSET Ids]

SameKey(a, b) == SameId(a, b) /\ a.epoch = b.epoch
Distinct(b) == \A i, j \in DOMAIN b : SameKey(b[i], b[j]) => i = j

RuntimeTypes ==
  /\ backend \in Backends /\ run \in Runs /\ target \in Runs
  /\ sdk \in BOOLEAN /\ hooked \in BOOLEAN /\ muted \in BOOLEAN /\ cdpOn \in BOOLEAN
  /\ req \in [Ids -> {"none", "sent", "done"}]
  /\ wrapped \subseteq Ids /\ traced \subseteq Ids /\ inSdk \subseteq Ids
ServerTypes ==
  /\ link \in BOOLEAN /\ drops \in 0..MaxDrops
  /\ sdkPresent \in {"unknown", "yes", "no"} /\ cdpNet \in {"unknown", "yes", "no"}
  /\ miss \in 0..ConfirmCount - 1
  /\ lastTarget \in 0..MaxRuns
  /\ epoch \in Nat \ {0}
  /\ lastRun \in [run : 0..MaxRuns, epoch : Nat]
WireTypes == up \in Seq(Msg) /\ down \in Seq(Cmd) /\ replies \in Seq(Reads)
RowTypes == rows \in Seq(Record) /\ Distinct(rows) /\ Len(rows) <= MaxSize

ClosedIsIdle == ~link => up = <<>> /\ down = <<>>

\* Epochs only grow, and the rows of the mirror are of the runtime it saw last
\* or of an earlier epoch.
Epochs ==
  /\ \A row \in Range(rows) : row.epoch <= epoch
  /\ lastRun.epoch <= epoch
  /\ lastRun.run = 0 => lastRun.epoch = 0
  /\ \A row \in Range(rows) : row.by = "sdk" =>
       /\ row.p = 0
       /\ row.epoch <= lastRun.epoch
       /\ row.epoch = lastRun.epoch => row.run = lastRun.run

Sole == sdkPresent = "yes" => \A row \in Range(rows) : row.epoch = epoch => row.by = "sdk"
Whole == \A row \in Range(rows) :
           row.by = "sdk" /\ <<row.epoch, row.n>> \in seen => Done(row)

\* The flag that counts: nothing under way changes it, or it is set by the last
\* command that does.
Flags == {"mute", "inject"}
Quiet(s) == \A k \in DOMAIN s : s[k].t \notin Flags
Muting(s, k) == /\ s[k].t = "mute" /\ s[k].v
                /\ \A j \in DOMAIN s : j > k => s[j].t \notin Flags
FlagLast ==
  link /\ sdkPresent = "yes" => \/ (hooked => muted) /\ Quiet(down)
                                \/ \E k \in DOMAIN down : Muting(down, k)

RowInv == RowTypes /\ Epochs /\ Sole /\ Whole
CaptureInv == /\ RuntimeTypes /\ ServerTypes /\ WireTypes
              /\ RowInv
              /\ ClosedIsIdle /\ FlagLast

-----------------------------------------------------------------------------
(* Induction and recursion, by least elements of sets of numbers.          *)

LEMMA Induction ==
  ASSUME NEW N \in Nat, NEW B, 0 \in B, \A n \in 1..N : n - 1 \in B => n \in B
  PROVE  0..N \subseteq B
<1> DEFINE C == {n \in 0..N : n \notin B}
<1>1. SUFFICES ASSUME C # {} PROVE FALSE
  OBVIOUS
<1>2. C \subseteq Nat
  OBVIOUS
<1>3. PICK n \in C : \A m \in C : <<m, n>> \notin OpToRel(<, Nat)
  <2> HIDE DEF C
  <2> QED BY <1>1, <1>2, NatLessThanWellFounded, WFMin
<1>4. \A m \in C : ~(m < n)
  BY <1>3, <1>2 DEF OpToRel
<1>5. n \in 1..N
  OBVIOUS
<1>6. n - 1 \in 0..N /\ n - 1 \notin C
  BY <1>4, <1>5
<1> QED BY <1>5, <1>6

Recurs(N, D, a, G) ==
  \E f \in [0..N -> D] : \A n \in 0..N : f[n] = IF n = 0 THEN a ELSE G[n][f[n - 1]]

LEMMA Recursion ==
  ASSUME NEW N \in Nat, NEW D, NEW a \in D, NEW G \in [1..N -> [D -> D]]
  PROVE  Recurs(N, D, a, G)
<1> DEFINE Till(m, f) == /\ f \in [0..m -> D]
                         /\ \A n \in 0..m : f[n] = IF n = 0 THEN a ELSE G[n][f[n - 1]]
           B == {m \in 0..N : \E f : Till(m, f)}
<1>1. 0 \in B
  <2> DEFINE f == [n \in 0..0 |-> a]
  <2>1. Till(0, f)
    OBVIOUS
  <2> HIDE DEF f, Till
  <2> QED BY <2>1
<1>2. ASSUME NEW m \in 1..N, m - 1 \in B
      PROVE  m \in B
  <2>1. PICK g : Till(m - 1, g)
    BY <1>2
  <2> DEFINE f == [n \in 0..m |-> IF n < m THEN g[n] ELSE G[m][g[m - 1]]]
  <2>2. g[m - 1] \in D
    BY <2>1
  <2>3. G[m][g[m - 1]] \in D
    BY <2>2
  <2>4. f \in [0..m -> D]
    BY <2>1, <2>3
  <2>5. ASSUME NEW n \in 0..m
        PROVE  f[n] = IF n = 0 THEN a ELSE G[n][f[n - 1]]
    <3>1. CASE n < m
      <4>1. n \in 0..m - 1 /\ f[n] = g[n] /\ (n # 0 => f[n - 1] = g[n - 1])
        BY <3>1
      <4> HIDE DEF f
      <4> QED BY <2>1, <4>1
    <3>2. CASE n = m
      <4>1. f[n] = G[m][g[m - 1]] /\ f[n - 1] = g[n - 1] /\ n # 0
        BY <3>2
      <4> HIDE DEF f
      <4> QED BY <3>2, <4>1
    <3> QED BY <3>1, <3>2
  <2> HIDE DEF f
  <2>6. Till(m, f)
    BY <2>4, <2>5
  <2> QED BY <2>6
<1>3. N \in B
  <2> HIDE DEF B
  <2>1. 0..N \subseteq B
    BY <1>1, <1>2, Induction
  <2> QED BY <2>1
<1> QED BY <1>3 DEF Recurs

-----------------------------------------------------------------------------
(* The buffer.                                                             *)

\* The buffer as it is filtered row by row.
Filtered(T, b, gone) ==
  \E f \in [0..Len(b) -> Seq(T)] :
    /\ Without(b, gone) = f[Len(b)]
    /\ \A n \in 0..Len(b) : f[n] = IF n = 0 THEN <<>>
          ELSE IF b[n] \in gone THEN f[n - 1] ELSE Append(f[n - 1], b[n])

LEMMA WithoutIs ==
  ASSUME NEW T, NEW b \in Seq(T), NEW gone
  PROVE  Filtered(T, b, gone)
<1> DEFINE F(g) == [n \in 0..Len(b) |-> IF n = 0 THEN <<>>
                      ELSE IF b[n] \in gone THEN g[n - 1] ELSE Append(g[n - 1], b[n])]
           c == CHOOSE g : g = F(g)
           G == [n \in 1..Len(b) |-> [s \in Seq(T) |->
                   IF b[n] \in gone THEN s ELSE Append(s, b[n])]]
<1>1. Len(b) \in Nat /\ <<>> \in Seq(T)
  OBVIOUS
<1>2. G \in [1..Len(b) -> [Seq(T) -> Seq(T)]]
  OBVIOUS
<1>3. PICK f \in [0..Len(b) -> Seq(T)] :
         \A n \in 0..Len(b) : f[n] = IF n = 0 THEN <<>> ELSE G[n][f[n - 1]]
  <2> DEFINE D == Seq(T)
             N == Len(b)
             a == <<>>
  <2>1. N \in Nat /\ a \in D /\ G \in [1..N -> [D -> D]]
    BY <1>1, <1>2
  <2> HIDE DEF G, D, N, a
  <2>2. Recurs(N, D, a, G)
    BY <2>1, Recursion
  <2> QED BY <2>2 DEF Recurs, D, N, a
<1>4. ASSUME NEW n \in 0..Len(b)
      PROVE  f[n] = IF n = 0 THEN <<>>
                    ELSE IF b[n] \in gone THEN f[n - 1] ELSE Append(f[n - 1], b[n])
  <2>1. CASE n # 0
    <3>1. n \in 1..Len(b) /\ n - 1 \in 0..Len(b) /\ f[n - 1] \in Seq(T)
      BY <2>1
    <3>2. G[n][f[n - 1]] = IF b[n] \in gone THEN f[n - 1] ELSE Append(f[n - 1], b[n])
      BY <3>1
    <3> HIDE DEF G
    <3> QED BY <1>3, <2>1, <3>2
  <2> QED BY <1>3, <2>1
<1>5. f = F(f)
  BY <1>4
<1>6. c = F(c)
  BY <1>5
<1>7. Without(b, gone) = c[Len(b)]
  BY DEF Without
<1>8. 0..Len(b) \subseteq {n \in 0..Len(b) : c[n] = f[n]}
  <2> DEFINE B == {n \in 0..Len(b) : c[n] = f[n]}
  <2>1. ASSUME NEW n \in 0..Len(b)
        PROVE  c[n] = IF n = 0 THEN <<>>
                      ELSE IF b[n] \in gone THEN c[n - 1] ELSE Append(c[n - 1], b[n])
    <3>1. F(c)[n] = IF n = 0 THEN <<>>
                    ELSE IF b[n] \in gone THEN c[n - 1] ELSE Append(c[n - 1], b[n])
      OBVIOUS
    <3> HIDE DEF c, F
    <3> QED BY <1>6, <3>1
  <2> HIDE DEF c, F, G
  <2>2. 0 \in B
    <3>1. 0 \in 0..Len(b) /\ c[0] = <<>> /\ f[0] = <<>>
      BY <1>1, <1>4, <2>1
    <3> QED BY <3>1
  <2>3. ASSUME NEW n \in 1..Len(b), n - 1 \in B
        PROVE  n \in B
    <3>1. n \in 0..Len(b) /\ n # 0 /\ c[n - 1] = f[n - 1]
      BY <2>3
    <3>2. c[n] = f[n]
      BY <1>4, <2>1, <3>1
    <3> QED BY <3>1, <3>2
  <2> HIDE DEF B
  <2>4. 0..Len(b) \subseteq B
    BY <1>1, <2>2, <2>3, Induction
  <2> QED BY <2>4 DEF B
<1>9. Without(b, gone) = f[Len(b)]
  <2>1. Len(b) \in 0..Len(b)
    BY <1>1
  <2> HIDE DEF c, F, G
  <2> QED BY <1>7, <1>8, <2>1
<1> HIDE DEF c, F, G
<1> QED BY <1>4, <1>9 DEF Filtered

LEMMA WithoutKeeps ==
  ASSUME NEW b \in Seq(Record), Distinct(b), NEW gone
  PROVE  /\ Without(b, gone) \in Seq(Record) /\ Len(Without(b, gone)) <= Len(b)
         /\ Distinct(Without(b, gone))
         /\ Range(Without(b, gone)) \subseteq Range(b) \ gone
<1>1. PICK f \in [0..Len(b) -> Seq(Record)] :
        /\ Without(b, gone) = f[Len(b)]
        /\ \A n \in 0..Len(b) : f[n] = IF n = 0 THEN <<>>
              ELSE IF b[n] \in gone THEN f[n - 1] ELSE Append(f[n - 1], b[n])
  <2>1. Filtered(Record, b, gone)
    BY WithoutIs
  <2> QED BY <2>1 DEF Filtered
<1>2. Len(b) \in Nat /\ DOMAIN b = 1..Len(b)
  OBVIOUS
<1> DEFINE From(n) == /\ Len(f[n]) <= n /\ Distinct(f[n])
                      /\ \A j \in DOMAIN f[n] : \E k \in 1..n : f[n][j] = b[k] /\ b[k] \notin gone
           B == {n \in 0..Len(b) : From(n)}
<1>3. 0 \in B
  <2>1. 0 \in 0..Len(b) /\ f[0] = <<>>
    BY <1>1, <1>2
  <2> QED BY <2>1 DEF Distinct
<1>4. ASSUME NEW n \in 1..Len(b), n - 1 \in B
      PROVE  n \in B
  <2> DEFINE s == f[n - 1]
  <2>1. n \in 0..Len(b) /\ n - 1 \in 0..Len(b) /\ n # 0 /\ b[n] \in Record /\ n \in DOMAIN b
    BY <1>2
  <2>2. s \in Seq(Record) /\ f[n] = IF b[n] \in gone THEN s ELSE Append(s, b[n])
    BY <1>1, <2>1
  <2>3. From(n - 1)
    BY <1>4
  <2>4. /\ Len(s) <= n - 1 /\ Distinct(s)
        /\ \A j \in DOMAIN s : \E k \in 1..n - 1 : s[j] = b[k] /\ b[k] \notin gone
    BY <2>3
  <2> HIDE DEF s, B
  <2>5. CASE b[n] \in gone
    <3>1. \A j \in DOMAIN s : \E k \in 1..n : s[j] = b[k] /\ b[k] \notin gone
      <4>1. 1..n - 1 \subseteq 1..n
        BY <1>2
      <4> QED BY <2>4, <4>1
    <3>2. Len(s) <= n
      BY <2>2, <2>4
    <3>3. From(n)
      BY <2>2, <2>4, <2>5, <3>1, <3>2
    <3> QED BY <2>1, <3>3 DEF B
  <2>6. CASE b[n] \notin gone
    <3>1. /\ f[n] = Append(s, b[n]) /\ Len(f[n]) = Len(s) + 1 /\ DOMAIN f[n] = 1..Len(s) + 1
          /\ DOMAIN s = 1..Len(s) /\ Len(s) \in Nat
          /\ \A j \in 1..Len(s) : f[n][j] = s[j]
          /\ f[n][Len(s) + 1] = b[n]
      BY <2>1, <2>2, <2>6
    <3>2. ASSUME NEW j \in DOMAIN f[n]
          PROVE  \E k \in 1..n : f[n][j] = b[k] /\ b[k] \notin gone /\ (j <= Len(s) => k < n)
      <4>1. CASE j \in 1..Len(s)
        <5>1. PICK k \in 1..n - 1 : s[j] = b[k] /\ b[k] \notin gone
          BY <2>4, <3>1, <4>1
        <5> QED BY <3>1, <4>1, <5>1
      <4>2. CASE j = Len(s) + 1
        BY <2>6, <3>1, <4>2
      <4> QED BY <3>1, <4>1, <4>2
    <3>3. ASSUME NEW j \in 1..Len(s)
          PROVE  ~SameKey(s[j], b[n])
      <4>1. PICK k \in 1..n - 1 : s[j] = b[k]
        BY <2>4, <3>1
      <4>2. k \in DOMAIN b /\ k # n
        BY <1>2
      <4> QED BY <2>1, <4>1, <4>2 DEF Distinct
    <3>4. ASSUME NEW i \in DOMAIN f[n], NEW j \in DOMAIN f[n], SameKey(f[n][i], f[n][j])
          PROVE  i = j
      <4>1. SameKey(f[n][j], f[n][i])
        BY <3>4 DEF SameKey, SameId
      <4>2. CASE i \in 1..Len(s) /\ j \in 1..Len(s)
        BY <2>4, <3>1, <3>4, <4>2 DEF Distinct
      <4>3. CASE i \in 1..Len(s) /\ j = Len(s) + 1
        BY <3>1, <3>3, <3>4, <4>3
      <4>4. CASE i = Len(s) + 1 /\ j \in 1..Len(s)
        BY <3>1, <3>3, <4>1, <4>4
      <4> QED BY <3>1, <4>2, <4>3, <4>4
    <3>5. Distinct(f[n])
      BY <3>4 DEF Distinct
    <3>6. Len(f[n]) <= n
      BY <2>4, <3>1
    <3>7. From(n)
      BY <3>2, <3>5, <3>6
    <3> QED BY <2>1, <3>7 DEF B
  <2> QED BY <2>5, <2>6
<1>5. From(Len(b))
  <2> HIDE DEF B
  <2>1. 0..Len(b) \subseteq B
    BY <1>2, <1>3, <1>4, Induction
  <2>2. Len(b) \in B
    BY <1>2, <2>1
  <2> QED BY <2>2 DEF B
<1>6. f[Len(b)] \in Seq(Record)
  BY <1>2
<1> QED BY <1>1, <1>2, <1>5, <1>6 DEF Range

LEMMA SetTyped ==
  ASSUME NEW b \in Seq(Record), NEW row \in Record
  PROVE  Set(b, row) \in Seq(Record)
<1>1. CASE \E i \in 1..Len(b) : SameId(b[i], row) /\ b[i].epoch = row.epoch
  <2>1. Set(b, row) = [i \in 1..Len(b) |->
          IF SameId(b[i], row) /\ b[i].epoch = row.epoch THEN row ELSE b[i]]
    BY <1>1 DEF Set
  <2> QED BY <2>1
<1>2. CASE ~\E i \in 1..Len(b) : SameId(b[i], row) /\ b[i].epoch = row.epoch
  <2>1. Set(b, row) \in {Append(b, row), Tail(Append(b, row))}
    BY <1>2 DEF Set
  <2>2. Append(b, row) \in Seq(Record) /\ Append(b, row) # <<>>
    <3>1. Len(Append(b, row)) = Len(b) + 1 /\ Len(b) \in Nat
      OBVIOUS
    <3>2. Append(b, row) \in Seq(Record)
      OBVIOUS
    <3> QED BY <3>1, <3>2
  <2>3. Tail(Append(b, row)) \in Seq(Record)
    BY <2>2
  <2> QED BY <2>1, <2>2, <2>3
<1> QED BY <1>1, <1>2

LEMMA TailRows ==
  ASSUME NEW b \in Seq(Record), b # <<>>, Distinct(b)
  PROVE  /\ Tail(b) \in Seq(Record) /\ Len(Tail(b)) = Len(b) - 1
         /\ Distinct(Tail(b)) /\ Range(Tail(b)) \subseteq Range(b)
<1>1. Tail(b) \in Seq(Record) /\ Len(Tail(b)) = Len(b) - 1 /\ Len(b) \in Nat
  OBVIOUS
<1>2. \A i \in DOMAIN Tail(b) : i + 1 \in DOMAIN b /\ Tail(b)[i] = b[i + 1]
  OBVIOUS
<1>3. DOMAIN Tail(b) \subseteq Nat
  OBVIOUS
<1>4. Distinct(Tail(b))
  BY <1>2, <1>3 DEF Distinct
<1> QED BY <1>1, <1>2, <1>4 DEF Range

\* Setting a row keeps the keys apart, and leaves under its key only itself.
LEMMA SetKeeps ==
  ASSUME NEW b \in Seq(Record), Distinct(b), Len(b) <= MaxSize, NEW row \in Record
  PROVE  /\ Set(b, row) \in Seq(Record) /\ Len(Set(b, row)) <= MaxSize
         /\ Distinct(Set(b, row))
         /\ Range(Set(b, row)) \subseteq Range(b) \union {row}
         /\ \A r \in Range(Set(b, row)) : SameKey(r, row) => r = row
<1>1. Set(b, row) \in Seq(Record)
  BY SetTyped
<1>2. CASE \E i \in DOMAIN b : SameKey(b[i], row)
  <2>0. DOMAIN b = 1..Len(b)
    OBVIOUS
  <2>1. Set(b, row) = [i \in DOMAIN b |-> IF SameKey(b[i], row) THEN row ELSE b[i]]
    <3>1. \E i \in 1..Len(b) : SameId(b[i], row) /\ b[i].epoch = row.epoch
      BY <1>2, <2>0 DEF SameKey
    <3>2. Set(b, row) = [i \in 1..Len(b) |->
            IF SameId(b[i], row) /\ b[i].epoch = row.epoch THEN row ELSE b[i]]
      BY <3>1 DEF Set
    <3> QED BY <2>0, <3>2 DEF SameKey
  <2>2. Len(Set(b, row)) = Len(b)
    BY <1>1, <2>1
  <2>3. \A i \in DOMAIN b : SameKey(b[i], Set(b, row)[i])
    BY <2>1 DEF SameKey, SameId
  <2>4. Distinct(Set(b, row))
    BY <2>1, <2>3 DEF Distinct, SameKey, SameId
  <2> QED BY <1>1, <2>1, <2>2, <2>4 DEF Range
<1>3. CASE ~\E i \in DOMAIN b : SameKey(b[i], row)
  <2> DEFINE longer == Append(b, row)
  <2>1. Set(b, row) = IF Len(longer) > MaxSize THEN Tail(longer) ELSE longer
    BY <1>3 DEF Set, SameKey
  <2>2. /\ longer \in Seq(Record) /\ longer # <<>> /\ Len(longer) = Len(b) + 1 /\ Len(b) \in Nat
        /\ DOMAIN longer = 1..Len(b) + 1 /\ DOMAIN b = 1..Len(b)
        /\ \A i \in 1..Len(b) : longer[i] = b[i]
        /\ longer[Len(b) + 1] = row
    OBVIOUS
  <2> HIDE DEF longer
  <2>3. Distinct(longer)
    <3>1. ASSUME NEW i \in DOMAIN longer, NEW j \in DOMAIN longer, SameKey(longer[i], longer[j])
          PROVE  i = j
      <4>1. SameKey(longer[j], longer[i])
        BY <3>1 DEF SameKey, SameId
      <4>2. CASE i \in DOMAIN b /\ j \in DOMAIN b
        BY <2>2, <3>1, <4>2 DEF Distinct
      <4>3. CASE ~(i \in DOMAIN b /\ j \in DOMAIN b)
        BY <1>3, <2>2, <3>1, <4>1, <4>3
      <4> QED BY <4>2, <4>3
    <3> QED BY <3>1 DEF Distinct
  <2>4. /\ Range(longer) \subseteq Range(b) \union {row}
        /\ \A r \in Range(longer) : SameKey(r, row) => r = row
    BY <1>3, <2>2 DEF Range
  <2>5. CASE Len(longer) > MaxSize
    <3>1. /\ Set(b, row) = Tail(longer) /\ Len(Tail(longer)) = Len(b) /\ Distinct(Tail(longer))
          /\ Range(Tail(longer)) \subseteq Range(longer)
      BY <2>1, <2>2, <2>3, <2>5, TailRows
    <3> QED BY <1>1, <2>4, <3>1
  <2>6. CASE ~(Len(longer) > MaxSize)
    <3>1. Set(b, row) = longer /\ Len(longer) <= MaxSize
      BY <2>1, <2>2, <2>6, BoundsAssumption
    <3> QED BY <1>1, <2>3, <2>4, <3>1
  <2> QED BY <2>5, <2>6
<1> QED BY <1>2, <1>3

\* What the mirror makes of an answer: every new entry is there as it was read,
\* and no other row is under its key.
Shows(a, e, i) == Row(e, "sdk", i, a.run, i \in a.done)

MirrorSteps(a, e, new) ==
  \E f \in [0..NumIds -> Seq(Record)] :
    /\ Mirrored(a, e, new) = f[NumIds]
    /\ \A i \in 0..NumIds : f[i] = IF i = 0 THEN rows
          ELSE IF i \in new THEN Set(f[i - 1], Shows(a, e, i)) ELSE f[i - 1]

LEMMA RowTyped ==
  ASSUME NEW e \in Nat \ {0}, NEW by \in {"cdp", "int", "sdk"}, NEW n \in Ids, NEW r \in Runs,
         NEW done \in BOOLEAN
  PROVE  Row(e, by, n, r, done) \in Record
<1>1. r \in 0..MaxRuns /\ 0 \in 0..MaxRuns
  BY BoundsAssumption DEF Runs
<1> QED BY <1>1 DEF Row, Record

LEMMA MirroredIs ==
  ASSUME rows \in Seq(Record), NEW a \in Reads, NEW e \in Nat \ {0}, NEW new \in SUBSET Ids
  PROVE  MirrorSteps(a, e, new)
<1> DEFINE F(g) == [i \in 0..NumIds |-> IF i = 0 THEN rows
              ELSE IF i \in new THEN Set(g[i - 1], Row(e, "sdk", i, a.run, i \in a.done)) ELSE g[i - 1]]
           c == CHOOSE g : g = F(g)
           G == [i \in 1..NumIds |-> [b \in Seq(Record) |->
                  IF i \in new THEN Set(b, Shows(a, e, i)) ELSE b]]
           D == Seq(Record)
<1>1. NumIds \in Nat /\ Ids = 1..NumIds
  BY BoundsAssumption DEF Ids
<1>2. ASSUME NEW i \in 1..NumIds
      PROVE  Shows(a, e, i) \in Record
  <2>1. a.run \in Runs /\ (i \in a.done) \in BOOLEAN /\ i \in Ids
    BY <1>1 DEF Reads
  <2> QED BY <2>1, RowTyped DEF Shows
<1>3. G \in [1..NumIds -> [D -> D]]
  <2>1. ASSUME NEW i \in 1..NumIds, NEW b \in D
        PROVE  (IF i \in new THEN Set(b, Shows(a, e, i)) ELSE b) \in D
    BY <1>2, SetTyped
  <2> HIDE DEF D
  <2> QED BY <2>1 DEF D
<1>4. PICK f \in [0..NumIds -> D] :
         \A i \in 0..NumIds : f[i] = IF i = 0 THEN rows ELSE G[i][f[i - 1]]
  <2> HIDE DEF G, D
  <2>1. Recurs(NumIds, D, rows, G)
    BY <1>1, <1>3, Recursion DEF D
  <2> QED BY <2>1 DEF Recurs
<1>5. ASSUME NEW i \in 0..NumIds
      PROVE  f[i] = IF i = 0 THEN rows
                    ELSE IF i \in new THEN Set(f[i - 1], Shows(a, e, i)) ELSE f[i - 1]
  <2>1. CASE i # 0
    <3>1. i \in 1..NumIds /\ i - 1 \in 0..NumIds /\ f[i - 1] \in D
      BY <1>1, <2>1
    <3>2. G[i][f[i - 1]] = IF i \in new THEN Set(f[i - 1], Shows(a, e, i)) ELSE f[i - 1]
      BY <3>1
    <3> HIDE DEF G
    <3> QED BY <1>4, <2>1, <3>2
  <2> QED BY <1>4, <2>1
<1>6. f = F(f)
  <2> HIDE DEF D
  <2> QED BY <1>4, <1>5 DEF Shows
<1>7. c = F(c)
  BY <1>6
<1>8. Mirrored(a, e, new) = c[NumIds]
  BY DEF Mirrored
<1>9. 0..NumIds \subseteq {i \in 0..NumIds : c[i] = f[i]}
  <2> DEFINE B == {i \in 0..NumIds : c[i] = f[i]}
  <2>1. ASSUME NEW i \in 0..NumIds
        PROVE  c[i] = IF i = 0 THEN rows
                      ELSE IF i \in new THEN Set(c[i - 1], Shows(a, e, i)) ELSE c[i - 1]
    <3>1. F(c)[i] = IF i = 0 THEN rows
                    ELSE IF i \in new THEN Set(c[i - 1], Shows(a, e, i)) ELSE c[i - 1]
      BY DEF Shows
    <3> HIDE DEF c, F
    <3> QED BY <1>7, <3>1
  <2> HIDE DEF c, F, G, D
  <2>2. 0 \in B
    <3>1. 0 \in 0..NumIds /\ c[0] = rows /\ f[0] = rows
      BY <1>1, <1>5, <2>1
    <3> QED BY <3>1
  <2>3. ASSUME NEW n \in 1..NumIds, n - 1 \in B
        PROVE  n \in B
    <3>1. n \in 0..NumIds /\ n # 0 /\ c[n - 1] = f[n - 1]
      BY <1>1, <2>3
    <3>2. c[n] = f[n]
      BY <1>5, <2>1, <3>1
    <3> QED BY <3>1, <3>2
  <2> HIDE DEF B
  <2>4. 0..NumIds \subseteq B
    BY <1>1, <2>2, <2>3, Induction
  <2> QED BY <2>4 DEF B
<1>10. Mirrored(a, e, new) = f[NumIds]
  <2>1. NumIds \in 0..NumIds
    BY <1>1
  <2> HIDE DEF c, F, G
  <2> QED BY <1>8, <1>9, <2>1
<1> HIDE DEF c, F, G
<1> QED BY <1>4, <1>5, <1>10 DEF MirrorSteps

Merged(next, a, e, new) ==
  /\ next \in Seq(Record) /\ Len(next) <= MaxSize /\ Distinct(next)
  /\ \A r \in Range(next) :
       \/ r \in Range(rows) /\ \A k \in new : ~SameKey(r, Shows(a, e, k))
       \/ \E k \in new : r = Shows(a, e, k)

LEMMA MirroredKeeps ==
  ASSUME RowTypes, NEW a \in Reads, NEW e \in Nat \ {0}, NEW new \in SUBSET Ids
  PROVE  Merged(Mirrored(a, e, new), a, e, new)
<1> DEFINE next == Mirrored(a, e, new)
<1>1. NumIds \in Nat /\ Ids = 1..NumIds
  BY BoundsAssumption DEF Ids
<1>2. PICK f \in [0..NumIds -> Seq(Record)] :
        /\ next = f[NumIds]
        /\ \A i \in 0..NumIds : f[i] = IF i = 0 THEN rows
              ELSE IF i \in new THEN Set(f[i - 1], Shows(a, e, i)) ELSE f[i - 1]
  <2>1. MirrorSteps(a, e, new)
    BY MirroredIs DEF RowTypes
  <2> QED BY <2>1 DEF MirrorSteps
<1> DEFINE Holds(b, n) ==
             /\ Len(b) <= MaxSize /\ Distinct(b)
             /\ \A r \in Range(b) :
                  \/ r \in Range(rows) /\ \A k \in new : k <= n => ~SameKey(r, Shows(a, e, k))
                  \/ \E k \in new : r = Shows(a, e, k)
           B == {n \in 0..NumIds : Holds(f[n], n)}
<1>3. 0 \in B
  <2>1. 0 \in 0..NumIds /\ f[0] = rows
    BY <1>1, <1>2
  <2>2. \A k \in new : ~(k <= 0)
    BY <1>1
  <2>3. Holds(rows, 0)
    BY <2>2 DEF RowTypes
  <2> QED BY <2>1, <2>3
<1>4. ASSUME NEW n \in 1..NumIds, n - 1 \in B
      PROVE  n \in B
  <2> DEFINE b == f[n - 1]
             row == Shows(a, e, n)
  <2>1. n \in 0..NumIds /\ n - 1 \in 0..NumIds /\ n # 0 /\ n \in Nat
    BY <1>1
  <2>2. b \in Seq(Record) /\ f[n] = IF n \in new THEN Set(b, row) ELSE b
    BY <1>2, <2>1
  <2>3. Holds(b, n - 1)
    BY <1>4
  <2>4. \A k \in new : k <= n => k <= n - 1 \/ k = n
    BY <1>1, <2>1
  <2> HIDE DEF b, row
  <2>5. CASE n \in new
    <3>1. row \in Record
      <4>1. a.run \in Runs /\ (n \in a.done) \in BOOLEAN /\ n \in Ids
        BY <1>1 DEF Reads
      <4> QED BY <4>1, RowTyped DEF Shows, row
    <3>2. /\ Len(Set(b, row)) <= MaxSize /\ Distinct(Set(b, row))
          /\ Range(Set(b, row)) \subseteq Range(b) \union {row}
          /\ \A r \in Range(Set(b, row)) : SameKey(r, row) => r = row
      BY <2>2, <2>3, <3>1, SetKeeps
    <3>3. ASSUME NEW r \in Range(Set(b, row))
          PROVE  \/ r \in Range(rows) /\ \A k \in new : k <= n => ~SameKey(r, Shows(a, e, k))
                 \/ \E k \in new : r = Shows(a, e, k)
      <4>1. CASE r = row
        BY <2>5, <4>1 DEF row
      <4>2. CASE r # row
        <5>1. r \in Range(b) /\ ~SameKey(r, row)
          BY <3>2, <4>2
        <5> QED BY <2>3, <2>4, <5>1 DEF row
      <4> QED BY <4>1, <4>2
    <3>4. Holds(f[n], n)
      BY <2>2, <2>5, <3>2, <3>3
    <3> QED BY <2>1, <3>4
  <2>6. CASE n \notin new
    <3>1. f[n] = b
      BY <2>2, <2>6
    <3>2. \A k \in new : k <= n => k <= n - 1
      BY <2>4, <2>6
    <3>3. Holds(b, n)
      BY <2>3, <3>2
    <3> QED BY <2>1, <3>1, <3>3
  <2> QED BY <2>5, <2>6
<1>5. Holds(next, NumIds) /\ next \in Seq(Record)
  <2> HIDE DEF B
  <2>1. 0..NumIds \subseteq B
    BY <1>1, <1>3, <1>4, Induction
  <2>2. NumIds \in 0..NumIds /\ NumIds \in B
    BY <1>1, <2>1
  <2> QED BY <1>2, <2>2 DEF B
<1>6. \A k \in new : k <= NumIds
  BY <1>1
<1> QED BY <1>5, <1>6 DEF Merged

-----------------------------------------------------------------------------
(* What is sent.                                                           *)

LEMMA ConcatHolds ==
  ASSUME NEW T, NEW s \in Seq(T), NEW t \in Seq(T)
  PROVE  /\ s \o t \in Seq(T) /\ Len(s \o t) = Len(s) + Len(t)
         /\ \A i \in 1..Len(s) : (s \o t)[i] = s[i]
         /\ \A k \in 1..Len(t) : (s \o t)[Len(s) + k] = t[k]
<1>1. s \o t \in Seq(T) /\ Len(s \o t) = Len(s) + Len(t)
  OBVIOUS
<1>2. \A i \in 1..Len(s) : (s \o t)[i] = s[i]
  OBVIOUS
<1>3. ASSUME NEW k \in 1..Len(t)
      PROVE  (s \o t)[Len(s) + k] = t[k]
  <2>1. Len(s) \in Nat /\ Len(t) \in Nat
    OBVIOUS
  <2>2. Len(s) + k \in 1..Len(s) + Len(t) /\ ~(Len(s) + k <= Len(s)) /\ Len(s) + k - Len(s) = k
    BY <2>1
  <2> QED BY <2>1, <2>2
<1> QED BY <1>1, <1>2, <1>3

LEMMA EmitKeeps ==
  ASSUME NEW msgs \in Seq(Msg), up \in Seq(Msg), Emit(msgs)
  PROVE  up' \in Seq(Msg) /\ (~link => up' = up)
<1>1. up \o msgs \in Seq(Msg)
  BY ConcatHolds
<1> QED BY <1>1 DEF Emit

\* The flag as it will be once the commands s were run by a runtime with the
\* interceptor in it (h) and the flag set (m).
FlagOk(s, h, m) == \/ (h => m) /\ Quiet(s)
                   \/ \E k \in DOMAIN s : Muting(s, k)

LEMMA FlagLastIs == FlagLast <=> (link /\ sdkPresent = "yes" => FlagOk(down, hooked, muted))
  BY DEF FlagLast, FlagOk

LEMMA QuietTellKeeps ==
  ASSUME NEW s \in Seq(Cmd), NEW t \in Seq(Cmd), NEW h, NEW m, FlagOk(s, h, m), Quiet(t)
  PROVE  FlagOk(s \o t, h, m)
<1> DEFINE both == s \o t
<1>1. /\ both \in Seq(Cmd) /\ Len(both) = Len(s) + Len(t) /\ Len(s) \in Nat /\ Len(t) \in Nat
      /\ \A i \in 1..Len(s) : both[i] = s[i]
      /\ \A k \in 1..Len(t) : both[Len(s) + k] = t[k]
  BY ConcatHolds
<1> HIDE DEF both
<1>2. ASSUME NEW j \in DOMAIN both, j \notin DOMAIN s
      PROVE  both[j].t \notin Flags
  <2>1. j - Len(s) \in 1..Len(t) /\ j = Len(s) + (j - Len(s))
    BY <1>1, <1>2
  <2>2. both[j] = t[j - Len(s)] /\ j - Len(s) \in DOMAIN t
    BY <1>1, <2>1
  <2> QED BY <2>2 DEF Quiet
<1>3. CASE (h => m) /\ Quiet(s)
  <2>1. Quiet(both)
    BY <1>1, <1>2, <1>3 DEF Quiet
  <2> QED BY <1>3, <2>1 DEF FlagOk, both
<1>4. ASSUME NEW k \in DOMAIN s, Muting(s, k)
      PROVE  Muting(both, k) /\ k \in DOMAIN both
  <2>1. ASSUME NEW j \in DOMAIN s
        PROVE  j \in DOMAIN both /\ both[j] = s[j]
    <3>1. j \in 1..Len(s) /\ DOMAIN both = 1..Len(both)
      BY <1>1
    <3> QED BY <1>1, <3>1
  <2>2. ASSUME NEW j \in DOMAIN both, j > k
        PROVE  both[j].t \notin Flags
    <3>1. CASE j \in DOMAIN s
      BY <1>4, <2>1, <2>2, <3>1 DEF Muting
    <3> QED BY <1>2, <3>1
  <2>3. both[k].t = "mute" /\ both[k].v
    BY <1>4, <2>1 DEF Muting
  <2>4. Muting(both, k)
    BY <2>2, <2>3 DEF Muting
  <2> QED BY <1>4, <2>1, <2>4
<1> QED BY <1>3, <1>4 DEF FlagOk, both

LEMMA MutingTellKeeps ==
  ASSUME NEW s \in Seq(Cmd), NEW t \in Seq(Cmd), NEW h, NEW m, NEW k \in DOMAIN t, Muting(t, k)
  PROVE  FlagOk(s \o t, h, m)
<1> DEFINE both == s \o t
<1>1. /\ both \in Seq(Cmd) /\ Len(both) = Len(s) + Len(t) /\ Len(s) \in Nat /\ Len(t) \in Nat
      /\ \A i \in 1..Len(t) : both[Len(s) + i] = t[i]
  BY ConcatHolds
<1> HIDE DEF both
<1>2. Len(s) + k \in DOMAIN both /\ both[Len(s) + k] = t[k] /\ k \in Nat
  BY <1>1
<1>3. ASSUME NEW j \in DOMAIN both, j > Len(s) + k
      PROVE  both[j].t \notin Flags
  <2>1. j - Len(s) \in 1..Len(t) /\ j = Len(s) + (j - Len(s)) /\ j - Len(s) > k
    BY <1>1, <1>2, <1>3
  <2>2. both[j] = t[j - Len(s)] /\ j - Len(s) \in DOMAIN t
    BY <1>1, <2>1
  <2> QED BY <2>1, <2>2 DEF Muting
<1>4. Muting(both, Len(s) + k)
  BY <1>2, <1>3 DEF Muting
<1> QED BY <1>2, <1>4 DEF FlagOk, both

LEMMA RunKeepsFlag ==
  ASSUME NEW s \in Seq(Cmd), s # <<>>, NEW h \in BOOLEAN, NEW m \in BOOLEAN, FlagOk(s, h, m),
         NEW h1 \in BOOLEAN, NEW m1 \in BOOLEAN,
         h1 = (h \/ Head(s).t = "inject"), m1 = IF Head(s).t = "mute" THEN Head(s).v ELSE m
  PROVE  FlagOk(Tail(s), h1, m1)
<1>1. /\ Head(s) = s[1] /\ 1 \in DOMAIN s /\ DOMAIN s = 1..Len(s) /\ Len(s) \in Nat
      /\ DOMAIN Tail(s) = 1..Len(s) - 1
      /\ \A j \in 1..Len(s) - 1 : Tail(s)[j] = s[j + 1] /\ j + 1 \in DOMAIN s
  OBVIOUS
<1>2. CASE (h => m) /\ Quiet(s)
  <2>1. h1 = h /\ m1 = m
    BY <1>1, <1>2 DEF Quiet, Flags
  <2>2. Quiet(Tail(s))
    BY <1>1, <1>2 DEF Quiet
  <2> QED BY <1>2, <2>1, <2>2 DEF FlagOk
<1>3. ASSUME NEW k \in DOMAIN s, Muting(s, k), k = 1
      PROVE  (h1 => m1) /\ Quiet(Tail(s))
  <2>1. m1 = TRUE
    BY <1>1, <1>3 DEF Muting
  <2>2. ASSUME NEW j \in DOMAIN Tail(s)
        PROVE  Tail(s)[j].t \notin Flags
    <3>1. j + 1 \in DOMAIN s /\ j + 1 > 1 /\ Tail(s)[j] = s[j + 1]
      BY <1>1
    <3> QED BY <1>3, <3>1 DEF Muting
  <2> QED BY <2>1, <2>2 DEF Quiet
<1>4. ASSUME NEW k \in DOMAIN s, Muting(s, k), k # 1
      PROVE  k - 1 \in DOMAIN Tail(s) /\ Muting(Tail(s), k - 1)
  <2>1. k - 1 \in DOMAIN Tail(s) /\ Tail(s)[k - 1] = s[k]
    BY <1>1, <1>4
  <2>2. ASSUME NEW j \in DOMAIN Tail(s), j > k - 1
        PROVE  Tail(s)[j].t \notin Flags
    <3>1. j + 1 \in DOMAIN s /\ j + 1 > k /\ Tail(s)[j] = s[j + 1]
      BY <1>1, <2>2
    <3> QED BY <1>4, <3>1 DEF Muting
  <2> QED BY <1>4, <2>1, <2>2 DEF Muting
<1> QED BY <1>2, <1>3, <1>4 DEF FlagOk

LEMMA Commands ==
  /\ [t |-> "inject"] \in Cmd /\ [t |-> "enable"] \in Cmd /\ [t |-> "probe"] \in Cmd
  /\ [t |-> "read"] \in Cmd /\ [t |-> "wipe"] \in Cmd
  /\ \A v \in BOOLEAN : [t |-> "mute", v |-> v] \in Cmd
  BY DEF Cmd

LEMMA Messages ==
  /\ [t |-> "cleared"] \in Msg /\ [t |-> "created"] \in Msg
  /\ \A v \in BOOLEAN : [t |-> "probe", v |-> v] \in Msg /\ [t |-> "enable", v |-> v] \in Msg
  /\ \A t \in {"sent", "done"}, by \in {"cdp", "int"}, n \in Ids, r \in Runs :
        [t |-> t, by |-> by, n |-> n, run |-> r] \in Msg
  /\ \A r \in Runs, s, d \in SUBSET Ids : [t |-> "read", run |-> r, sdk |-> s, done |-> d] \in Msg
<1>1. [t |-> "cleared"] \in Msg /\ [t |-> "created"] \in Msg
  BY DEF Msg
<1>2. \A v \in BOOLEAN : [t |-> "probe", v |-> v] \in Msg /\ [t |-> "enable", v |-> v] \in Msg
  BY DEF Msg
<1>3. \A t \in {"sent", "done"}, by \in {"cdp", "int"}, n \in Ids, r \in Runs :
        [t |-> t, by |-> by, n |-> n, run |-> r] \in Msg
  BY DEF Msg
<1>4. \A r \in Runs, s, d \in SUBSET Ids : [t |-> "read", run |-> r, sdk |-> s, done |-> d] \in Msg
  BY DEF Msg
<1> QED BY <1>1, <1>2, <1>3, <1>4

\* What a message of each kind holds.
LEMMA MessageIs ==
  ASSUME NEW m \in Msg
  PROVE  /\ m.t \in {"sent", "done"} => m.by \in {"cdp", "int"} /\ m.n \in Ids /\ m.run \in Runs
         /\ m.t \in {"probe", "enable"} => m.v \in BOOLEAN
         /\ m.t = "read" => m \in Reads
<1>1. CASE m \in [t : {"sent", "done"}, by : {"cdp", "int"}, n : Ids, run : Runs]
  BY <1>1
<1>2. CASE m \in [t : {"cleared", "created"}]
  BY <1>2
<1>3. CASE m \in [t : {"probe", "enable"}, v : BOOLEAN]
  BY <1>3
<1>4. CASE m \in Reads
  BY <1>4 DEF Reads
<1> QED BY <1>1, <1>2, <1>3, <1>4 DEF Msg, Reads

-----------------------------------------------------------------------------
(* What happens to the rows.                                               *)

RunsKept == \A old \in Range(rows), row \in Range(rows') :
              old.by = "sdk" /\ SameKey(row, old) => row.run = old.run

LEMMA RowsAre ==
  ASSUME RowTypes
  PROVE  /\ \A row \in Range(rows) : row \in Record
         /\ \A a, b \in Range(rows) : SameKey(a, b) => a = b
<1>1. \A row \in Range(rows) : \E i \in DOMAIN rows : row = rows[i]
  BY DEF Range
<1>2. \A i \in DOMAIN rows : rows[i] \in Record
  BY DEF RowTypes
<1> QED BY <1>1, <1>2 DEF RowTypes, Distinct

LEMMA RowsStay ==
  ASSUME RowInv, UNCHANGED <<rows, lastRun, seen>>, epoch \in Nat, lastRun.epoch \in Nat,
         \/ epoch' = epoch /\ (sdkPresent' = "yes" => sdkPresent = "yes")
         \/ epoch' = epoch + 1
  PROVE  RowInv' /\ RunsKept
<1>1. Epochs' /\ Sole'
  <2>1. \A row \in Range(rows) : row.epoch \in Nat
    BY RowsAre DEF RowInv, Record
  <2>2. CASE epoch' = epoch
    BY <2>2 DEF RowInv, Epochs, Sole
  <2>3. CASE epoch' = epoch + 1
    <3>1. \A row \in Range(rows) : row.epoch <= epoch' /\ row.epoch # epoch'
      BY <2>1, <2>3 DEF RowInv, Epochs
    <3>2. lastRun.epoch <= epoch'
      BY <2>3 DEF RowInv, Epochs
    <3> QED BY <3>1, <3>2 DEF RowInv, Epochs, Sole
  <2> QED BY <2>2, <2>3
<1>2. RowTypes' /\ Whole'
  BY DEF RowInv, RowTypes, Whole, Done
<1>3. RunsKept
  BY RowsAre DEF RunsKept, RowInv
<1> QED BY <1>1, <1>2, <1>3 DEF RowInv

\* A response completes a row, and none of the mirror's.
LEMMA CompleteKeeps ==
  ASSUME RowInv, UNCHANGED <<epoch, lastRun, seen, sdkPresent>>,
         NEW by \in {"cdp", "int"}, NEW n \in Ids, NEW r \in Runs,
         Complete(Row(epoch, by, n, r, TRUE))
  PROVE  RowInv' /\ RunsKept
<1> DEFINE id == Row(epoch, by, n, r, TRUE)
<1>1. id.by = by /\ id.run = r /\ r \in 0..MaxRuns
  BY BoundsAssumption DEF Row, Runs
<1>2. rows' = [i \in 1..Len(rows) |-> IF i \in Found(id) THEN [rows[i] EXCEPT !.of = id.run] ELSE rows[i]]
  BY DEF Complete
<1>3. Found(id) \subseteq {i \in 1..Len(rows) : SameId(rows[i], id)}
  BY DEF Found
<1> HIDE DEF id
<1>4. rows \in Seq(Record) /\ DOMAIN rows = 1..Len(rows)
  BY DEF RowInv, RowTypes
<1>5. ASSUME NEW i \in 1..Len(rows)
      PROVE  /\ rows'[i] \in Record /\ SameKey(rows'[i], rows[i]) /\ rows'[i].run = rows[i].run
             /\ rows[i].by = "sdk" => rows'[i] = rows[i]
  <2>1. rows[i] \in Record
    BY <1>4
  <2>2. CASE i \in Found(id)
    <3>1. rows[i].by = by
      BY <1>1, <1>3, <2>2 DEF SameId
    <3>2. rows'[i] = [rows[i] EXCEPT !.of = r]
      BY <1>1, <1>2, <2>2
    <3> QED BY <1>1, <2>1, <3>1, <3>2 DEF Record, SameKey, SameId
  <2>3. CASE i \notin Found(id)
    <3>1. rows'[i] = rows[i]
      BY <1>2, <2>3
    <3> QED BY <2>1, <3>1 DEF SameKey, SameId
  <2> QED BY <2>2, <2>3
<1>6. rows' \in Seq(Record) /\ Len(rows') = Len(rows) /\ DOMAIN rows' = 1..Len(rows)
  <2>1. rows' = [i \in 1..Len(rows) |-> rows'[i]] /\ Len(rows) \in Nat
    BY <1>2, <1>4
  <2>2. rows' \in [1..Len(rows) -> Record]
    BY <1>5, <2>1
  <2> QED BY <2>1, <2>2
<1>7. ASSUME NEW row \in Range(rows')
      PROVE  \E old \in Range(rows) :
               /\ SameKey(row, old) /\ row.run = old.run /\ (old.by = "sdk" => row = old)
  BY <1>4, <1>5, <1>6 DEF Range
<1>8. RowTypes'
  <2>1. ASSUME NEW i \in 1..Len(rows), NEW j \in 1..Len(rows), SameKey(rows'[i], rows'[j])
        PROVE  i = j
    <3>1. SameKey(rows[i], rows[j])
      BY <1>5, <2>1 DEF SameKey, SameId
    <3> QED BY <1>4, <3>1 DEF RowInv, RowTypes, Distinct
  <2> QED BY <1>6, <2>1 DEF RowInv, RowTypes, Distinct
<1>9. Epochs' /\ Sole' /\ Whole'
  BY <1>7 DEF RowInv, Epochs, Sole, Whole, Done, SameKey, SameId
<1>10. RunsKept
  <2>1. ASSUME NEW old \in Range(rows), NEW row \in Range(rows'), SameKey(row, old)
        PROVE  row.run = old.run
    <3>1. PICK own \in Range(rows) : SameKey(row, own) /\ row.run = own.run
      BY <1>7
    <3>2. SameKey(own, old)
      BY <2>1, <3>1 DEF SameKey, SameId
    <3> QED BY <3>1, <3>2, RowsAre DEF RowInv
  <2> QED BY <2>1 DEF RunsKept
<1> QED BY <1>8, <1>9, <1>10 DEF RowInv

\* A request the server captured itself, while no SDK counts.
LEMMA CapturedKeeps ==
  ASSUME RowInv, epoch \in Nat \ {0}, UNCHANGED <<epoch, lastRun, seen, sdkPresent>>,
         sdkPresent # "yes", NEW by \in {"cdp", "int"}, NEW n \in Ids, NEW r \in Runs,
         rows' = Set(rows, Row(epoch, by, n, r, FALSE))
  PROVE  RowInv' /\ RunsKept
<1> DEFINE new == Row(epoch, by, n, r, FALSE)
<1>1. new \in Record
  BY RowTyped
<1>2. new.by # "sdk" /\ new.epoch = epoch /\ epoch <= epoch
  BY DEF Row
<1> HIDE DEF new
<1>3. /\ rows' \in Seq(Record) /\ Len(rows') <= MaxSize /\ Distinct(rows')
      /\ Range(rows') \subseteq Range(rows) \union {new}
  BY <1>1, SetKeeps DEF RowInv, RowTypes, new
<1>4. RowTypes'
  BY <1>3 DEF RowTypes
<1>5. Epochs' /\ Sole' /\ Whole'
  BY <1>2, <1>3 DEF RowInv, Epochs, Sole, Whole, Done
<1>6. RunsKept
  <2>1. ASSUME NEW old \in Range(rows), NEW row \in Range(rows'), old.by = "sdk", SameKey(row, old)
        PROVE  row.run = old.run
    <3>1. row \in Range(rows)
      BY <1>2, <1>3, <2>1 DEF SameKey, SameId
    <3> QED BY <2>1, <3>1, RowsAre DEF RowInv
  <2> QED BY <2>1 DEF RunsKept
<1> QED BY <1>4, <1>5, <1>6 DEF RowInv

\* What remains when the SDK appears is the mirror's, or of an earlier epoch.
LEMMA EdgeKeeps ==
  ASSUME RowInv, UNCHANGED <<epoch, lastRun, seen>>,
         \/ sdkPresent' = "yes" /\ rows' = RowsAfterEdge(TRUE)
         \/ sdkPresent' = "no" /\ rows' = rows
  PROVE  RowInv' /\ RunsKept
<1> DEFINE gone == {r \in Range(rows) : r.epoch = epoch /\ r.by # "sdk"}
<1>1. /\ rows' \in Seq(Record) /\ Len(rows') <= Len(rows) /\ Len(rows') <= MaxSize
      /\ Distinct(rows') /\ Range(rows') \subseteq Range(rows)
      /\ sdkPresent' = "yes" => Range(rows') \subseteq Range(rows) \ gone
  <2> HIDE DEF gone
  <2>1. /\ Without(rows, gone) \in Seq(Record) /\ Len(Without(rows, gone)) <= Len(rows)
        /\ Distinct(Without(rows, gone))
        /\ Range(Without(rows, gone)) \subseteq Range(rows) \ gone
    BY WithoutKeeps DEF RowInv, RowTypes
  <2>2. rows \in Seq(Record) /\ Len(rows) \in Nat /\ Len(rows) <= MaxSize /\ Distinct(rows)
    BY DEF RowInv, RowTypes
  <2>3. MaxSize \in Nat
    BY BoundsAssumption
  <2>4. CASE sdkPresent' = "yes"
    <3>1. rows' = Without(rows, gone)
      BY <2>4 DEF RowsAfterEdge, gone
    <3>2. Len(rows') \in Nat
      BY <2>1, <3>1
    <3> QED BY <2>1, <2>2, <2>3, <3>1, <3>2
  <2>5. CASE sdkPresent' # "yes"
    <3>1. rows' = rows
      BY <2>5
    <3>2. rows' \in Seq(Record) /\ Len(rows') <= Len(rows) /\ Len(rows') <= MaxSize /\ Distinct(rows')
      BY <2>2, <3>1
    <3> QED BY <2>5, <3>1, <3>2
  <2> QED BY <2>4, <2>5
<1>2. Sole'
  BY <1>1 DEF Sole
<1>3. RowTypes' /\ Epochs' /\ Whole'
  BY <1>1 DEF RowInv, RowTypes, Epochs, Whole, Done
<1>4. RunsKept
  BY <1>1, RowsAre DEF RunsKept, RowInv
<1> QED BY <1>2, <1>3, <1>4 DEF RowInv

LEMMA ClearedKeeps ==
  ASSUME RowInv, UNCHANGED <<epoch, lastRun, seen>>, rows' = <<>>
  PROVE  RowInv' /\ RunsKept
<1>1. rows' \in Seq(Record) /\ Len(rows') = 0 /\ DOMAIN rows' = {} /\ Range(rows') = {}
  BY DEF Range
<1> QED BY <1>1, BoundsAssumption
        DEF RowInv, RowTypes, Distinct, Epochs, Sole, Whole, RunsKept

\* What the mirror reads is of the runtime whose rows the epoch has, or it starts
\* a new epoch.
Merges(a, e, new) ==
  /\ e = IF Restarted(a) THEN epoch + 1 ELSE epoch
  /\ new = {i \in a.sdk : <<e, i>> \notin seen}
  /\ epoch' = e /\ lastRun' = [run |-> a.run, epoch |-> e]
  /\ seen' = seen \union {<<e, i>> : i \in new \intersect Latched(a)}
  /\ rows' = Mirrored(a, e, new) /\ sdkPresent' = sdkPresent

LEMMA MirrorKeeps ==
  ASSUME RowInv, ServerTypes, NEW a \in Reads, NEW e, NEW new, Merges(a, e, new)
  PROVE  RowInv' /\ RunsKept
<1> USE DEF Merges
<1>1. /\ epoch \in Nat \ {0} /\ e \in Nat \ {0} /\ epoch <= e /\ e <= e
      /\ e \in {epoch, epoch + 1}
      /\ lastRun.epoch \in Nat /\ a.run \in Runs /\ a.run # 0 /\ new \in SUBSET Ids
  BY DEF ServerTypes, Reads, Runs
<1>2. /\ rows' \in Seq(Record) /\ Len(rows') <= MaxSize /\ Distinct(rows')
      /\ \A r \in Range(rows') :
           \/ r \in Range(rows) /\ \A k \in new : ~SameKey(r, Shows(a, e, k))
           \/ \E k \in new : r = Shows(a, e, k)
  <2>1. Merged(Mirrored(a, e, new), a, e, new)
    BY <1>1, MirroredKeeps DEF RowInv
  <2> QED BY <2>1 DEF Merged
<1>3. \A k : /\ Shows(a, e, k).by = "sdk" /\ Shows(a, e, k).epoch = e /\ Shows(a, e, k).n = k
             /\ Shows(a, e, k).run = a.run /\ Shows(a, e, k).p = 0
             /\ (k \in a.done => Done(Shows(a, e, k)))
  BY <1>1 DEF Shows, Row, Done
<1>4. \A row \in Range(rows) : row.epoch \in Nat /\ row \in Record
  BY RowsAre DEF RowInv, Record
<1>5. \A row \in Range(rows) : row.by = "sdk" /\ row.epoch = e => row.run = a.run
  BY <1>1, <1>4 DEF RowInv, Epochs, Restarted
<1>6. RowTypes'
  BY <1>2 DEF RowTypes
<1>7. Epochs'
  <2>1. \A row \in Range(rows) : row.epoch <= e
    BY <1>1, <1>4 DEF RowInv, Epochs
  <2>2. ASSUME NEW row \in Range(rows')
        PROVE  /\ row.epoch <= e
               /\ row.by = "sdk" /\ row.epoch = e => row.run = a.run
    <3>1. CASE row \in Range(rows)
      BY <1>5, <2>1, <3>1
    <3>2. ASSUME NEW k \in new, row = Shows(a, e, k)
          PROVE  row.epoch <= e /\ row.run = a.run
      BY <1>1, <1>3, <3>2
    <3> QED BY <1>2, <3>1, <3>2
  <2>3. ASSUME NEW row \in Range(rows'), row.by = "sdk"
        PROVE  row.p = 0
    <3>1. CASE row \in Range(rows)
      BY <2>3, <3>1 DEF RowInv, Epochs
    <3>2. CASE \E k \in new : row = Shows(a, e, k)
      BY <1>3, <3>2
    <3> QED BY <1>2, <2>3, <3>1, <3>2
  <2> QED BY <1>1, <2>2, <2>3 DEF Epochs
<1>8. Sole'
  <2>1. ASSUME sdkPresent = "yes", NEW row \in Range(rows), row.epoch = e
        PROVE  row.by = "sdk"
    <3>1. row.epoch <= epoch /\ row.epoch \in Nat
      BY <1>4, <2>1 DEF RowInv, Epochs
    <3>2. e = epoch
      BY <1>1, <2>1, <3>1
    <3> QED BY <2>1, <3>2 DEF RowInv, Sole
  <2>2. ASSUME sdkPresent = "yes", NEW row \in Range(rows'), row.epoch = e
        PROVE  row.by = "sdk"
    <3>1. CASE row \in Range(rows)
      BY <2>1, <2>2, <3>1
    <3>2. ASSUME NEW k \in new, row = Shows(a, e, k)
          PROVE  row.by = "sdk"
      BY <1>3, <3>2
    <3> QED BY <1>2, <3>1, <3>2
  <2> QED BY <2>2 DEF Sole
<1>9. Whole'
  <2>1. ASSUME NEW row \in Range(rows'), row.by = "sdk", <<row.epoch, row.n>> \in seen'
        PROVE  Done(row)
    <3>1. ASSUME NEW k \in new, row = Shows(a, e, k)
          PROVE  Done(row)
      <4>1. <<e, k>> \notin seen /\ <<e, k>> \in seen'
        BY <1>3, <2>1, <3>1
      <4>2. k \in a.done
        BY <4>1 DEF Latched
      <4> QED BY <1>3, <3>1, <4>2
    <3>2. ASSUME row \in Range(rows), \A k \in new : ~SameKey(row, Shows(a, e, k))
          PROVE  Done(row)
      <4>1. row.p = 0
        BY <2>1, <3>2 DEF RowInv, Epochs
      <4>2. CASE <<row.epoch, row.n>> \in seen
        BY <2>1, <3>2, <4>2 DEF RowInv, Whole
      <4>3. CASE <<row.epoch, row.n>> \notin seen
        <5>1. row.epoch = e /\ row.n \in new
          BY <2>1, <4>3
        <5>2. SameKey(row, Shows(a, e, row.n))
          BY <1>3, <2>1, <4>1, <5>1 DEF SameKey, SameId
        <5> QED BY <3>2, <5>1, <5>2
      <4> QED BY <4>2, <4>3
    <3> QED BY <1>2, <3>1, <3>2
  <2> QED BY <2>1 DEF Whole, Done
<1>10. RunsKept
  <2>1. ASSUME NEW old \in Range(rows), NEW row \in Range(rows'), old.by = "sdk", SameKey(row, old)
        PROVE  row.run = old.run
    <3>1. CASE row \in Range(rows)
      BY <2>1, <3>1, RowsAre DEF RowInv
    <3>2. ASSUME NEW k \in new, row = Shows(a, e, k)
          PROVE  row.run = old.run
      BY <1>3, <1>5, <2>1, <3>2 DEF SameKey
    <3> QED BY <1>2, <3>1, <3>2
  <2> QED BY <2>1 DEF RunsKept
<1> QED BY <1>6, <1>7, <1>8, <1>9, <1>10 DEF RowInv

-----------------------------------------------------------------------------
(* The steps.                                                              *)

Kept == CaptureInv' /\ RunsKept

LEMMA OneTwo ==
  ASSUME NEW T, NEW x \in T, NEW y \in T
  PROVE  <<x>> \in Seq(T) /\ <<x, y>> \in Seq(T) /\ <<>> \in Seq(T)
  OBVIOUS

LEMMA Start == Init => CaptureInv
<1> SUFFICES ASSUME Init PROVE CaptureInv
  OBVIOUS
<1>1. 1 \in Runs /\ 0 \in 0..MaxRuns /\ 0 \in 0..MaxDrops /\ 0 \in 0..ConfirmCount - 1
  BY BoundsAssumption DEF Runs, ConfirmCount
<1>2. RuntimeTypes
  BY <1>1 DEF Init, RuntimeTypes
<1>3. ServerTypes
  <2>1. lastRun \in [run : 0..MaxRuns, epoch : Nat]
    BY <1>1 DEF Init
  <2>2. epoch \in Nat \ {0}
    BY DEF Init
  <2> QED BY <1>1, <2>1, <2>2 DEF Init, ServerTypes
<1>4. <<>> \in Seq(Msg) /\ <<>> \in Seq(Cmd) /\ <<>> \in Seq(Reads) /\ <<>> \in Seq(Record)
  OBVIOUS
<1>5. WireTypes
  BY <1>4 DEF Init, WireTypes
<1>6. Range(rows) = {} /\ DOMAIN rows = {} /\ Len(rows) = 0
  BY DEF Init, Range
<1>7. RowInv
  BY <1>4, <1>6, BoundsAssumption DEF Init, RowInv, RowTypes, Distinct, Epochs, Sole, Whole
<1> QED BY <1>2, <1>3, <1>5, <1>7 DEF Init, CaptureInv, ClosedIsIdle, FlagLast

LEMMA ConnectKeeps == CaptureInv /\ Connect => Kept
<1> SUFFICES ASSUME CaptureInv, Connect PROVE Kept
  OBVIOUS
<1>1. /\ link' = TRUE /\ sdkPresent' = "unknown" /\ miss' = 0 /\ cdpNet' = "unknown"
      /\ epoch' \in {epoch, epoch + 1} /\ lastTarget' = target
      /\ down' = <<[t |-> "inject"], [t |-> "enable"]>>
      /\ UNCHANGED <<backend, run, target, sdk, hooked, muted, cdpOn, req, wrapped, traced, inSdk,
                     drops, up, rows, replies, lastRun, seen>>
  BY DEF Connect, runtimeVars, mirrorVars
<1>2. down' \in Seq(Cmd)
  <2> DEFINE inject == [t |-> "inject"]
             enable == [t |-> "enable"]
  <2>1. inject \in Cmd /\ enable \in Cmd /\ down' = <<inject, enable>>
    BY <1>1, Commands
  <2> HIDE DEF inject, enable
  <2> QED BY <2>1, OneTwo
<1>3. RowInv' /\ RunsKept
  <2>1. epoch \in Nat /\ lastRun.epoch \in Nat
    BY DEF CaptureInv, ServerTypes
  <2> QED BY <1>1, <2>1, RowsStay DEF CaptureInv
<1>4. ServerTypes'
  <2>1. target \in 0..MaxRuns /\ epoch' \in Nat \ {0} /\ 0 \in 0..ConfirmCount - 1
    BY <1>1, BoundsAssumption DEF CaptureInv, RuntimeTypes, ServerTypes, Runs, ConfirmCount
  <2> QED BY <1>1, <2>1 DEF CaptureInv, ServerTypes
<1>5. RuntimeTypes' /\ WireTypes'
  BY <1>1, <1>2 DEF CaptureInv, RuntimeTypes, WireTypes
<1>6. ClosedIsIdle' /\ FlagLast'
  BY <1>1 DEF ClosedIsIdle, FlagLast
<1> QED BY <1>3, <1>4, <1>5, <1>6 DEF Kept, CaptureInv

LEMMA ServerStays ==
  ASSUME CaptureInv,
         UNCHANGED <<sdkPresent, miss, cdpNet, lastTarget, epoch, rows, lastRun, seen>>
  PROVE  /\ RowInv' /\ RunsKept
         /\ link' \in BOOLEAN /\ drops' \in 0..MaxDrops => ServerTypes'
<1>1. epoch \in Nat /\ lastRun.epoch \in Nat
  BY DEF CaptureInv, ServerTypes
<1>2. RowInv' /\ RunsKept
  BY <1>1, RowsStay DEF CaptureInv
<1> QED BY <1>2 DEF CaptureInv, ServerTypes

LEMMA DropKeeps == CaptureInv /\ Drop => Kept
<1> SUFFICES ASSUME CaptureInv, Drop PROVE Kept
  OBVIOUS
<1>1. /\ link' = FALSE /\ up' = <<>> /\ down' = <<>> /\ drops' = drops + 1 /\ drops < MaxDrops
      /\ cdpOn' = FALSE /\ traced' = {}
      /\ UNCHANGED <<backend, run, target, sdk, hooked, muted, req, wrapped, inSdk, sdkPresent, miss,
                     cdpNet, lastTarget, epoch, rows, replies, lastRun, seen>>
  BY DEF Drop, Lost, appVars, mirrorVars
<1>2. up' \in Seq(Msg) /\ down' \in Seq(Cmd)
  BY <1>1
<1>3. RowInv' /\ RunsKept /\ ServerTypes'
  <2>1. drops' \in 0..MaxDrops
    BY <1>1, BoundsAssumption DEF CaptureInv, ServerTypes
  <2> QED BY <1>1, <2>1, ServerStays
<1>4. RuntimeTypes' /\ WireTypes'
  BY <1>1, <1>2 DEF CaptureInv, RuntimeTypes, WireTypes
<1>5. ClosedIsIdle' /\ FlagLast'
  BY <1>1 DEF ClosedIsIdle, FlagLast
<1> QED BY <1>3, <1>4, <1>5 DEF Kept, CaptureInv

LEMMA NewRuntimeTypes ==
  ASSUME RuntimeTypes, NewRuntime, UNCHANGED backend, target' \in {target, run'}
  PROVE  RuntimeTypes' /\ hooked' = FALSE
<1>1. run' \in Runs
  BY BoundsAssumption DEF RuntimeTypes, NewRuntime, Runs
<1>2. req' \in [Ids -> {"none", "sent", "done"}]
  BY DEF NewRuntime
<1> QED BY <1>1, <1>2 DEF RuntimeTypes, NewRuntime

LEMMA RestartsKeep == CaptureInv /\ (Reload \/ Kill \/ Relaunch) => Kept
<1> SUFFICES ASSUME CaptureInv, Reload \/ Kill \/ Relaunch PROVE Kept
  OBVIOUS
<1>1. /\ UNCHANGED <<sdkPresent, miss, cdpNet, lastTarget, epoch, rows, lastRun, seen, drops, replies>>
      /\ NewRuntime /\ UNCHANGED backend /\ target' \in {target, run'}
  BY DEF Reload, Kill, Relaunch, appVars, mirrorVars, wireVars
<1>2. RuntimeTypes' /\ hooked' = FALSE
  BY <1>1, NewRuntimeTypes DEF CaptureInv
<1>3. \/ link' = link /\ down' = down /\ up' \in Seq(Msg) /\ (~link => up' = up)
      \/ link' = FALSE /\ down' = <<>> /\ up' = <<>>
  <2>1. CASE Reload
    <3>1. <<[t |-> "cleared"], [t |-> "created"]>> \in Seq(Msg)
      BY Messages, OneTwo
    <3> QED BY <2>1, <3>1, EmitKeeps DEF Reload, CaptureInv, WireTypes
  <2>2. CASE Kill \/ Relaunch
    BY <2>2 DEF Kill, Relaunch, wireVars, Lost, CaptureInv, WireTypes
  <2> QED BY <2>1, <2>2
<1>4. RowInv' /\ RunsKept /\ ServerTypes'
  <2>1. link' \in BOOLEAN /\ drops' \in 0..MaxDrops
    BY <1>1, <1>3 DEF CaptureInv, ServerTypes
  <2> QED BY <1>1, <2>1, ServerStays
<1>5. WireTypes'
  <2>1. <<>> \in Seq(Msg) /\ <<>> \in Seq(Cmd)
    OBVIOUS
  <2> QED BY <1>1, <1>3, <2>1 DEF CaptureInv, WireTypes
<1>6. ClosedIsIdle' /\ FlagLast'
  BY <1>1, <1>2, <1>3 DEF CaptureInv, ClosedIsIdle, FlagLast
<1> QED BY <1>2, <1>4, <1>5, <1>6 DEF Kept, CaptureInv

LEMMA InitSdkKeeps == CaptureInv /\ InitSdk => Kept
<1> SUFFICES ASSUME CaptureInv, InitSdk PROVE Kept
  OBVIOUS
<1>1. /\ sdk' = TRUE
      /\ UNCHANGED <<backend, run, target, hooked, muted, cdpOn, req, wrapped, traced, inSdk, link,
                     drops, up, down, sdkPresent, miss, cdpNet, lastTarget, epoch, rows, replies,
                     lastRun, seen>>
  BY DEF InitSdk, wireVars, appVars, mirrorVars
<1>2. RowInv' /\ RunsKept /\ ServerTypes'
  <2>1. link' \in BOOLEAN /\ drops' \in 0..MaxDrops
    BY <1>1 DEF CaptureInv, ServerTypes
  <2> QED BY <1>1, <2>1, ServerStays
<1>3. RuntimeTypes' /\ WireTypes'
  BY <1>1 DEF CaptureInv, RuntimeTypes, WireTypes
<1>4. ClosedIsIdle' /\ FlagLast'
  BY <1>1 DEF CaptureInv, ClosedIsIdle, FlagLast
<1> QED BY <1>2, <1>3, <1>4 DEF Kept, CaptureInv

LEMMA ReportsTyped ==
  ASSUME RuntimeTypes, NEW kind \in {"sent", "done"}, NEW i \in Ids
  PROVE  Reported(kind, i) \in Seq(Msg) /\ Traced(kind, i) \in Seq(Msg)
<1>1. /\ [t |-> kind, by |-> "int", n |-> i, run |-> run] \in Msg
      /\ [t |-> kind, by |-> "cdp", n |-> i, run |-> run] \in Msg
  BY Messages DEF RuntimeTypes
<1> DEFINE a == [t |-> kind, by |-> "int", n |-> i, run |-> run]
           b == [t |-> kind, by |-> "cdp", n |-> i, run |-> run]
<1>2. <<a>> \in Seq(Msg) /\ <<b>> \in Seq(Msg) /\ <<>> \in Seq(Msg)
  <2> HIDE DEF a, b
  <2> QED BY <1>1, OneTwo DEF a, b
<1> QED BY <1>2 DEF Reported, Traced

LEMMA RequestsKeep == ASSUME CaptureInv, NEW i \in Ids, Send(i) \/ Respond(i) PROVE Kept
<1>1. /\ req' = [req EXCEPT ![i] = "sent"] \/ req' = [req EXCEPT ![i] = "done"]
      /\ wrapped' \subseteq wrapped \union {i} /\ traced' \subseteq traced \union {i}
      /\ inSdk' \subseteq inSdk \union {i}
      /\ UNCHANGED <<backend, run, target, sdk, hooked, muted, cdpOn, link, drops, down, sdkPresent,
                     miss, cdpNet, lastTarget, epoch, rows, replies, lastRun, seen>>
  BY DEF Send, Respond, appVars, mirrorVars
<1>2. up' \in Seq(Msg) /\ (~link => up' = up)
  <2>1. /\ Reported("sent", i) \in Seq(Msg) /\ Traced("sent", i) \in Seq(Msg)
        /\ Reported("done", i) \in Seq(Msg) /\ Traced("done", i) \in Seq(Msg) /\ <<>> \in Seq(Msg)
    BY ReportsTyped DEF CaptureInv
  <2>2. CASE Send(i)
    <3>1. Reported("sent", i) \o Traced("sent", i) \in Seq(Msg)
      BY <2>1, ConcatHolds
    <3> QED BY <2>2, <3>1, EmitKeeps DEF Send, CaptureInv, WireTypes
  <2>3. CASE Respond(i)
    <3> DEFINE r == IF i \in wrapped THEN Reported("done", i) ELSE <<>>
    <3>1. r \in Seq(Msg)
      BY <2>1
    <3>2. Traced("done", i) \o r \in Seq(Msg)
      <4> HIDE DEF r
      <4> QED BY <2>1, <3>1, ConcatHolds
    <3> QED BY <2>3, <3>2, EmitKeeps DEF Respond, CaptureInv, WireTypes
  <2> QED BY <2>2, <2>3
<1>3. RowInv' /\ RunsKept /\ ServerTypes'
  <2>1. link' \in BOOLEAN /\ drops' \in 0..MaxDrops
    BY <1>1 DEF CaptureInv, ServerTypes
  <2> QED BY <1>1, <2>1, ServerStays
<1>4. RuntimeTypes'
  BY <1>1 DEF CaptureInv, RuntimeTypes
<1>5. WireTypes' /\ ClosedIsIdle' /\ FlagLast'
  BY <1>1, <1>2 DEF CaptureInv, WireTypes, ClosedIsIdle, FlagLast
<1> QED BY <1>3, <1>4, <1>5 DEF Kept, CaptureInv

LEMMA RunKeeps == CaptureInv /\ Run => Kept
<1> SUFFICES ASSUME CaptureInv, Run PROVE Kept
  OBVIOUS
<1> DEFINE c == Head(down)
<1>1. /\ down # <<>> /\ down' = Tail(down) /\ Emit(Answer(c))
      /\ hooked' = (hooked \/ c.t = "inject")
      /\ muted' = IF c.t = "mute" THEN c.v ELSE muted
      /\ cdpOn' = (cdpOn \/ (c.t = "enable" /\ backend # "refuses"))
      /\ inSdk' = IF c.t = "wipe" THEN {} ELSE inSdk
      /\ UNCHANGED <<backend, run, target, sdk, req, wrapped, traced, link, drops, sdkPresent, miss,
                     cdpNet, lastTarget, epoch, rows, replies, lastRun, seen>>
  BY DEF Run, appVars, mirrorVars
<1>2. c \in Cmd /\ down' \in Seq(Cmd)
  BY <1>1 DEF CaptureInv, WireTypes
<1>3. c.t = "mute" => c.v \in BOOLEAN
  BY <1>2 DEF Cmd
<1> HIDE DEF c
<1>4. Answer(c) \in Seq(Msg)
  <2> DEFINE e == [t |-> "enable", v |-> backend = "answers"]
             p == [t |-> "probe", v |-> sdk]
             r == [t |-> "read", run |-> run, sdk |-> inSdk,
                   done |-> {i \in inSdk : req[i] = "done"}]
  <2>1. e \in Msg /\ p \in Msg
    BY Messages DEF CaptureInv, RuntimeTypes
  <2>2. r \in Msg
    <3>1. {i \in inSdk : req[i] = "done"} \in SUBSET Ids /\ inSdk \in SUBSET Ids /\ run \in Runs
      BY DEF CaptureInv, RuntimeTypes
    <3> QED BY <3>1, Messages
  <2>3. <<e>> \in Seq(Msg) /\ <<p>> \in Seq(Msg) /\ <<r>> \in Seq(Msg) /\ <<>> \in Seq(Msg)
    <3> HIDE DEF e, p, r
    <3> QED BY <2>1, <2>2, OneTwo
  <2>4. Answer(c) \in {<<e>>, <<p>>, <<r>>, <<>>}
    BY DEF Answer
  <2> HIDE DEF e, p, r
  <2> QED BY <2>3, <2>4
<1>5. up' \in Seq(Msg) /\ (~link => up' = up)
  BY <1>1, <1>4, EmitKeeps DEF CaptureInv, WireTypes
<1>6. RowInv' /\ RunsKept /\ ServerTypes'
  <2>1. link' \in BOOLEAN /\ drops' \in 0..MaxDrops
    BY <1>1 DEF CaptureInv, ServerTypes
  <2> QED BY <1>1, <2>1, ServerStays
<1>7. RuntimeTypes' /\ muted' \in BOOLEAN /\ hooked' \in BOOLEAN
  BY <1>1, <1>3 DEF CaptureInv, RuntimeTypes
<1>8. WireTypes' /\ ClosedIsIdle'
  BY <1>1, <1>2, <1>5 DEF CaptureInv, WireTypes, ClosedIsIdle
<1>9. FlagLast'
  <2>1. ASSUME link, sdkPresent = "yes"
        PROVE  FlagOk(Tail(down), hooked', muted')
    <3>1. FlagOk(down, hooked, muted)
      BY <2>1, FlagLastIs DEF CaptureInv
    <3>2. hooked \in BOOLEAN /\ muted \in BOOLEAN /\ down \in Seq(Cmd)
      BY DEF CaptureInv, RuntimeTypes, WireTypes
    <3> QED BY <1>1, <1>7, <3>1, <3>2, RunKeepsFlag DEF c
  <2> QED BY <1>1, <2>1 DEF FlagLast, FlagOk
<1> QED BY <1>6, <1>7, <1>8, <1>9 DEF Kept, CaptureInv

LEMMA QuietCommand ==
  ASSUME NEW cmd \in {"probe", "read", "wipe"}
  PROVE  <<[t |-> cmd]>> \in Seq(Cmd) /\ Quiet(<<[t |-> cmd]>>)
<1> DEFINE c == [t |-> cmd]
<1>1. c \in Cmd /\ c.t \notin Flags
  BY Commands DEF Flags
<1> HIDE DEF c
<1>2. <<c>> \in Seq(Cmd) /\ DOMAIN <<c>> = {1} /\ <<c>>[1] = c
  BY <1>1, OneTwo
<1>3. Quiet(<<c>>)
  BY <1>1, <1>2 DEF Quiet
<1> QED BY <1>2, <1>3 DEF c

LEMMA AskKeeps ==
  ASSUME CaptureInv, NEW cmd \in {"probe", "read", "wipe"}, Ask(cmd),
         UNCHANGED <<link, hooked, muted, sdkPresent, up>>
  PROVE  down' \in Seq(Cmd) /\ ClosedIsIdle' /\ FlagLast'
<1>1. link /\ down' = down \o <<[t |-> cmd]>>
  BY DEF Ask, Tell
<1>2. <<[t |-> cmd]>> \in Seq(Cmd) /\ Quiet(<<[t |-> cmd]>>) /\ down \in Seq(Cmd)
  BY QuietCommand DEF CaptureInv, WireTypes
<1> DEFINE t == <<[t |-> cmd]>>
<1> HIDE DEF t
<1>3. down' \in Seq(Cmd)
  BY <1>1, <1>2, ConcatHolds DEF t
<1>4. ASSUME sdkPresent = "yes"
      PROVE  FlagOk(down \o t, hooked, muted)
  <2>1. FlagOk(down, hooked, muted)
    BY <1>1, <1>4, FlagLastIs DEF CaptureInv
  <2> QED BY <1>2, <2>1, QuietTellKeeps DEF t
<1>5. FlagLast'
  <2>1. down' = down \o t
    BY <1>1 DEF t
  <2> QED BY <1>4, <2>1 DEF FlagLast, FlagOk
<1> QED BY <1>1, <1>3, <1>5 DEF ClosedIsIdle

LEMMA TimersKeep == CaptureInv /\ (Probe \/ Poll) => Kept
<1> SUFFICES ASSUME CaptureInv, Probe \/ Poll PROVE Kept
  OBVIOUS
<1>1. /\ UNCHANGED <<backend, run, target, sdk, hooked, muted, cdpOn, req, wrapped, traced, inSdk,
                     link, drops, up, sdkPresent, miss, cdpNet, lastTarget, epoch, rows, replies,
                     lastRun, seen>>
      /\ Ask("probe") \/ Ask("read")
  BY DEF Probe, Poll, runtimeVars, appVars, mirrorVars
<1>2. down' \in Seq(Cmd) /\ ClosedIsIdle' /\ FlagLast'
  BY <1>1, AskKeeps
<1>3. RowInv' /\ RunsKept /\ ServerTypes'
  <2>1. link' \in BOOLEAN /\ drops' \in 0..MaxDrops
    BY <1>1 DEF CaptureInv, ServerTypes
  <2> QED BY <1>1, <2>1, ServerStays
<1>4. RuntimeTypes' /\ WireTypes'
  BY <1>1, <1>2 DEF CaptureInv, RuntimeTypes, WireTypes
<1> QED BY <1>2, <1>3, <1>4 DEF Kept, CaptureInv

LEMMA ClearKeeps == CaptureInv /\ Clear => Kept
<1> SUFFICES ASSUME CaptureInv, Clear PROVE Kept
  OBVIOUS
<1>1. /\ UNCHANGED <<backend, run, target, sdk, hooked, muted, cdpOn, req, wrapped, traced, inSdk,
                     link, drops, up, sdkPresent, miss, cdpNet, lastTarget, epoch, replies,
                     lastRun, seen>>
      /\ rows' = <<>> /\ (Ask("wipe") \/ down' = down)
  BY DEF Clear, runtimeVars, appVars, mirrorVars
<1>2. down' \in Seq(Cmd) /\ ClosedIsIdle' /\ FlagLast'
  <2>1. CASE Ask("wipe")
    BY <1>1, <2>1, AskKeeps
  <2>2. CASE down' = down
    BY <1>1, <2>2 DEF CaptureInv, WireTypes, ClosedIsIdle, FlagLast
  <2> QED BY <1>1, <2>1, <2>2
<1>3. RowInv' /\ RunsKept
  BY <1>1, ClearedKeeps DEF CaptureInv
<1>4. RuntimeTypes' /\ WireTypes' /\ ServerTypes'
  BY <1>1, <1>2 DEF CaptureInv, RuntimeTypes, WireTypes, ServerTypes
<1> QED BY <1>2, <1>3, <1>4 DEF Kept, CaptureInv

LEMMA MirrorStepKeeps == CaptureInv /\ Mirror => Kept
<1> SUFFICES ASSUME CaptureInv, Mirror PROVE Kept
  OBVIOUS
<1> DEFINE a == Head(replies)
           e == IF Restarted(a) THEN epoch + 1 ELSE epoch
           new == {i \in a.sdk : <<e, i>> \notin seen}
<1>1. /\ replies # <<>> /\ replies' = Tail(replies)
      /\ epoch' = e /\ lastRun' = [run |-> a.run, epoch |-> e]
      /\ seen' = seen \union {<<e, i>> : i \in new \intersect Latched(a)}
      /\ rows' = Mirrored(a, e, new)
      /\ UNCHANGED <<backend, run, target, sdk, hooked, muted, cdpOn, req, wrapped, traced, inSdk,
                     link, drops, up, down, sdkPresent, miss, cdpNet, lastTarget>>
  BY DEF Mirror, runtimeVars, wireVars, appVars
<1>2. a \in Reads /\ replies' \in Seq(Reads)
  BY <1>1 DEF CaptureInv, WireTypes
<1>3. RowInv' /\ RunsKept
  <2>1. RowInv /\ ServerTypes
    BY DEF CaptureInv
  <2>2. Merges(a, e, new)
    BY <1>1 DEF Merges
  <2> HIDE DEF a, e, new
  <2> QED BY <1>2, <2>1, <2>2, MirrorKeeps
<1>4. epoch' \in Nat \ {0} /\ lastRun' \in [run : 0..MaxRuns, epoch : Nat]
  <2>1. a.run \in 0..MaxRuns
    BY <1>2, BoundsAssumption DEF Reads, Runs
  <2>2. e \in Nat \ {0}
    BY DEF CaptureInv, ServerTypes
  <2> HIDE DEF a, e
  <2> QED BY <1>1, <2>1, <2>2
<1>5. RuntimeTypes' /\ WireTypes' /\ ServerTypes'
  <2> HIDE DEF a, e, new
  <2> QED BY <1>1, <1>2, <1>4 DEF CaptureInv, RuntimeTypes, WireTypes, ServerTypes
<1>6. ClosedIsIdle' /\ FlagLast'
  BY <1>1 DEF CaptureInv, ClosedIsIdle, FlagLast
<1> QED BY <1>3, <1>5, <1>6 DEF Kept, CaptureInv

\* The runs of the rows, the server's own state, and what it tells the app.
Served == /\ RowInv' /\ RunsKept /\ ServerTypes' /\ FlagLast'
          /\ down' \in Seq(Cmd) /\ replies' \in Seq(Reads)

Undisturbed == UNCHANGED <<link, drops, hooked, muted, lastTarget, lastRun, seen>>

LEMMA RowsServed ==
  ASSUME CaptureInv, Undisturbed, NEW m \in Msg,
         UNCHANGED <<down, sdkPresent, miss, epoch, replies>>,
         \/ m.t = "sent" /\ RequestSent(m)
         \/ m.t = "done" /\ ResponseReceived(m) /\ cdpNet' = cdpNet
  PROVE  Served
<1>1. m.by \in {"cdp", "int"} /\ m.n \in Ids /\ m.run \in Runs
  BY MessageIs
<1>2. epoch \in Nat \ {0} /\ lastRun.epoch \in Nat
  BY DEF CaptureInv, ServerTypes
<1>3. RowInv' /\ RunsKept /\ cdpNet' \in {cdpNet, "yes"}
  <2>1. CASE rows' = rows /\ cdpNet' = cdpNet
    BY <1>2, <2>1, RowsStay DEF CaptureInv, Undisturbed
  <2>2. CASE m.t = "sent" /\ RequestSent(m) /\ rows' # rows
    <3>1. CASE m.by = "cdp"
      <4>1. sdkPresent # "yes" /\ cdpNet' = "yes"
            /\ rows' = Set(rows, Row(epoch, "cdp", m.n, m.run, FALSE))
        BY <2>2, <3>1 DEF RequestSent
      <4> QED BY <1>1, <1>2, <4>1, CapturedKeeps DEF CaptureInv, Undisturbed
    <3>2. CASE m.by # "cdp"
      <4>1. sdkPresent # "yes" /\ cdpNet' = cdpNet
            /\ rows' = Set(rows, Row(epoch, "int", m.n, m.run, FALSE))
        BY <2>2, <3>2 DEF RequestSent, Suppressed
      <4> QED BY <1>1, <1>2, <4>1, CapturedKeeps DEF CaptureInv, Undisturbed
    <3> QED BY <3>1, <3>2
  <2>3. CASE m.t = "done" /\ ResponseReceived(m) /\ cdpNet' = cdpNet /\ rows' # rows
    <3>1. Complete(Row(epoch, m.by, m.n, m.run, TRUE))
      BY <2>3 DEF ResponseReceived
    <3> QED BY <1>1, <2>3, <3>1, CompleteKeeps DEF CaptureInv, Undisturbed
  <2>4. CASE m.t = "sent" /\ RequestSent(m) /\ rows' = rows
    <3>1. cdpNet' \in {cdpNet, "yes"}
      BY <2>4 DEF RequestSent
    <3>2. RowInv' /\ RunsKept
      BY <1>2, <2>4, RowsStay DEF CaptureInv, Undisturbed
    <3> QED BY <3>1, <3>2
  <2> QED BY <2>1, <2>2, <2>3, <2>4
<1>4. ServerTypes'
  BY <1>3 DEF CaptureInv, ServerTypes, Undisturbed
<1> QED BY <1>3, <1>4 DEF Served, CaptureInv, WireTypes, FlagLast, Undisturbed

LEMMA MuteTold ==
  ASSUME NEW s \in Seq(Cmd), NEW v \in BOOLEAN, NEW h, NEW m
  PROVE  /\ s \o <<[t |-> "mute", v |-> v]>> \in Seq(Cmd)
         /\ v => FlagOk(s \o <<[t |-> "mute", v |-> v]>>, h, m)
<1> DEFINE c == [t |-> "mute", v |-> v]
<1>1. c \in Cmd /\ c.t = "mute" /\ c.v = v
  BY Commands
<1> HIDE DEF c
<1>2. <<c>> \in Seq(Cmd) /\ DOMAIN <<c>> = {1} /\ <<c>>[1] = c
  BY <1>1, OneTwo
<1>3. s \o <<c>> \in Seq(Cmd)
  BY <1>2, ConcatHolds
<1>4. v => Muting(<<c>>, 1) /\ 1 \in DOMAIN <<c>>
  <2> DEFINE t == <<c>>
  <2>1. DOMAIN t = {1} /\ t[1] = c
    BY <1>2
  <2> HIDE DEF t
  <2>2. \A j \in DOMAIN t : ~(j > 1)
    BY <2>1
  <2>3. v => Muting(t, 1)
    BY <1>1, <2>1, <2>2 DEF Muting
  <2> QED BY <2>1, <2>3 DEF t
<1>5. v => FlagOk(s \o <<c>>, h, m)
  BY <1>2, <1>4, MutingTellKeeps
<1> QED BY <1>3, <1>5 DEF c

LEMMA ProbeServed ==
  ASSUME CaptureInv, Undisturbed, link, NEW v \in BOOLEAN, ProbeAnswer(v),
         UNCHANGED <<cdpNet, epoch, replies>>
  PROVE  Served
<1> DEFINE was == sdkPresent = "yes"
           held == ~v /\ was /\ miss + 1 < ConfirmCount
           present == v \/ held
<1>1. /\ miss' = IF held THEN miss + 1 ELSE 0
      /\ sdkPresent' = IF present THEN "yes" ELSE "no"
      /\ present # was => down' = down \o <<[t |-> "mute", v |-> present]>> /\ rows' = RowsAfterEdge(present)
      /\ present = was => down' = down /\ rows' = rows
  BY DEF ProbeAnswer, Tell
<1>2. ServerTypes'
  <2>1. miss' \in 0..ConfirmCount - 1
    BY <1>1 DEF CaptureInv, ServerTypes, ConfirmCount
  <2>2. sdkPresent' \in {"unknown", "yes", "no"}
    BY <1>1
  <2> QED BY <2>1, <2>2 DEF CaptureInv, ServerTypes, Undisturbed
<1> HIDE DEF held
<1>3. RowInv' /\ RunsKept
  <2>1. epoch \in Nat /\ lastRun.epoch \in Nat
    BY DEF CaptureInv, ServerTypes
  <2>2. CASE present = was
    <3>1. sdkPresent' = "yes" => sdkPresent = "yes"
      BY <1>1, <2>2
    <3> QED BY <1>1, <2>1, <2>2, <3>1, RowsStay DEF CaptureInv, Undisturbed
  <2>3. CASE present # was
    <3>1. \/ sdkPresent' = "yes" /\ rows' = RowsAfterEdge(TRUE)
          \/ sdkPresent' = "no" /\ rows' = rows
      <4>1. CASE present
        BY <1>1, <2>3, <4>1 DEF RowsAfterEdge
      <4>2. CASE ~present
        BY <1>1, <2>3, <4>2 DEF RowsAfterEdge
      <4> QED BY <4>1, <4>2
    <3> QED BY <3>1, EdgeKeeps DEF CaptureInv, Undisturbed
  <2> QED BY <2>2, <2>3
<1>4. down' \in Seq(Cmd) /\ FlagLast'
  <2>1. down \in Seq(Cmd) /\ present \in BOOLEAN
    BY DEF CaptureInv, WireTypes, held
  <2>2. CASE present = was
    BY <1>1, <2>1, <2>2 DEF CaptureInv, FlagLast, Undisturbed
  <2>3. CASE present # was
    <3>1. /\ down \o <<[t |-> "mute", v |-> present]>> \in Seq(Cmd)
          /\ present => FlagOk(down \o <<[t |-> "mute", v |-> present]>>, hooked, muted)
      <4> HIDE DEF present
      <4> QED BY <2>1, MuteTold
    <3>2. sdkPresent' = "yes" => present
      BY <1>1
    <3>3. sdkPresent' = "yes" => FlagOk(down', hooked', muted')
      BY <1>1, <2>3, <3>1, <3>2 DEF Undisturbed
    <3>4. down' \in Seq(Cmd)
      BY <1>1, <2>3, <3>1
    <3> QED BY <3>3, <3>4 DEF FlagLast, FlagOk
  <2> QED BY <2>2, <2>3
<1> QED BY <1>2, <1>3, <1>4 DEF Served, CaptureInv, WireTypes

LEMMA CreatedServed ==
  ASSUME CaptureInv, Undisturbed, link, Tell(Reinjection),
         UNCHANGED <<sdkPresent, miss, cdpNet, epoch, rows, replies>>
  PROVE  Served
<1> DEFINE i == [t |-> "inject"]
           c == [t |-> "mute", v |-> sdkPresent = "yes"]
           n == [t |-> "enable"]
           t == <<i, c, n>>
<1>1. /\ i \in Cmd /\ c \in Cmd /\ n \in Cmd /\ n.t \notin Flags
      /\ c.t = "mute" /\ c.v = (sdkPresent = "yes")
  BY Commands DEF Flags
<1>2. down' = down \o t /\ down \in Seq(Cmd)
  BY DEF Tell, Reinjection, CaptureInv, WireTypes
<1> HIDE DEF i, c, n
<1>3. t \in Seq(Cmd) /\ DOMAIN t = {1, 2, 3} /\ t[2] = c /\ t[3] = n
  BY <1>1
<1>4. sdkPresent = "yes" => Muting(t, 2) /\ 2 \in DOMAIN t
  <2>1. \A j \in DOMAIN t : j > 2 => t[j] = n
    BY <1>3
  <2> HIDE DEF t
  <2> QED BY <1>1, <1>3, <2>1 DEF Muting
<1> HIDE DEF t
<1>5. sdkPresent = "yes" => FlagOk(down \o t, hooked, muted)
  BY <1>2, <1>3, <1>4, MutingTellKeeps
<1>6. down' \in Seq(Cmd)
  BY <1>2, <1>3, ConcatHolds
<1>7. FlagLast'
  BY <1>2, <1>5 DEF FlagLast, FlagOk, Undisturbed
<1>8. RowInv' /\ RunsKept
  <2>1. epoch \in Nat /\ lastRun.epoch \in Nat
    BY DEF CaptureInv, ServerTypes
  <2> QED BY <2>1, RowsStay DEF CaptureInv, Undisturbed
<1> QED BY <1>6, <1>7, <1>8 DEF Served, CaptureInv, ServerTypes, WireTypes, Undisturbed

LEMMA OthersServed ==
  ASSUME CaptureInv, Undisturbed, NEW m \in Msg, UNCHANGED <<down, sdkPresent, miss, rows>>,
         \/ m.t = "enable" /\ cdpNet' = (IF m.v THEN "yes" ELSE "no") /\ UNCHANGED <<epoch, replies>>
         \/ m.t = "cleared" /\ epoch' = epoch + 1 /\ UNCHANGED <<cdpNet, replies>>
         \/ m.t = "read" /\ replies' = Append(replies, m) /\ UNCHANGED <<cdpNet, epoch>>
  PROVE  Served
<1>1. epoch \in Nat \ {0} /\ lastRun.epoch \in Nat /\ epoch' \in {epoch, epoch + 1}
  BY DEF CaptureInv, ServerTypes
<1>2. RowInv' /\ RunsKept
  BY <1>1, RowsStay DEF CaptureInv, Undisturbed
<1>3. replies' \in Seq(Reads)
  <2>1. replies \in Seq(Reads) /\ (m.t = "read" => m \in Reads)
    BY MessageIs DEF CaptureInv, WireTypes
  <2> QED BY <2>1
<1>4. epoch' \in Nat \ {0} /\ cdpNet' \in {cdpNet, "yes", "no"}
  BY <1>1
<1>5. ServerTypes'
  BY <1>4 DEF CaptureInv, ServerTypes, Undisturbed
<1> QED BY <1>2, <1>3, <1>5 DEF Served, CaptureInv, WireTypes, FlagLast, Undisturbed

LEMMA DeliverKeeps == CaptureInv /\ Deliver => Kept
<1> SUFFICES ASSUME CaptureInv, Deliver PROVE Kept
  OBVIOUS
<1> DEFINE m == Head(up)
<1>1. /\ up # <<>> /\ up' = Tail(up) /\ Undisturbed
      /\ UNCHANGED <<backend, run, target, sdk, hooked, muted, cdpOn, req, wrapped, traced, inSdk>>
  BY DEF Deliver, runtimeVars, Undisturbed
<1>2. m \in Msg /\ up' \in Seq(Msg)
  BY <1>1 DEF CaptureInv, WireTypes
<1>3. link
  BY <1>1 DEF CaptureInv, ClosedIsIdle
<1>4. Served
  <2>0. \/ m.t = "sent" /\ RequestSent(m) /\ UNCHANGED <<down, sdkPresent, miss, epoch, replies>>
        \/ m.t = "done" /\ ResponseReceived(m) /\ UNCHANGED <<down, sdkPresent, miss, cdpNet, epoch, replies>>
        \/ m.t = "probe" /\ ProbeAnswer(m.v) /\ UNCHANGED <<cdpNet, epoch, replies>>
        \/ m.t = "created" /\ Tell(Reinjection) /\ UNCHANGED <<sdkPresent, miss, cdpNet, epoch, rows, replies>>
        \/ /\ UNCHANGED <<down, sdkPresent, miss, rows>>
           /\ \/ m.t = "enable" /\ cdpNet' = (IF m.v THEN "yes" ELSE "no") /\ UNCHANGED <<epoch, replies>>
              \/ m.t = "cleared" /\ epoch' = epoch + 1 /\ UNCHANGED <<cdpNet, replies>>
              \/ m.t = "read" /\ replies' = Append(replies, m) /\ UNCHANGED <<cdpNet, epoch>>
    BY DEF Deliver, appVars
  <2> HIDE DEF m
  <2>1. CASE m.t = "sent" /\ RequestSent(m) /\ UNCHANGED <<down, sdkPresent, miss, epoch, replies>>
    <3>1. \/ m.t = "sent" /\ RequestSent(m)
          \/ m.t = "done" /\ ResponseReceived(m) /\ cdpNet' = cdpNet
      BY <2>1
    <3>2. UNCHANGED <<down, sdkPresent, miss, epoch, replies>>
      BY <2>1
    <3> QED BY <1>1, <1>2, <3>1, <3>2, RowsServed
  <2>2. CASE m.t = "done" /\ ResponseReceived(m) /\ UNCHANGED <<down, sdkPresent, miss, cdpNet, epoch, replies>>
    <3>1. \/ m.t = "sent" /\ RequestSent(m)
          \/ m.t = "done" /\ ResponseReceived(m) /\ cdpNet' = cdpNet
      BY <2>2
    <3>2. UNCHANGED <<down, sdkPresent, miss, epoch, replies>>
      BY <2>2
    <3> QED BY <1>1, <1>2, <3>1, <3>2, RowsServed
  <2>3. CASE m.t = "probe" /\ ProbeAnswer(m.v) /\ UNCHANGED <<cdpNet, epoch, replies>>
    <3>1. m.v \in BOOLEAN
      BY <1>2, <2>3, MessageIs
    <3> QED BY <1>1, <1>3, <2>3, <3>1, ProbeServed
  <2>4. CASE m.t = "created" /\ Tell(Reinjection) /\ UNCHANGED <<sdkPresent, miss, cdpNet, epoch, rows, replies>>
    BY <1>1, <1>3, <2>4, CreatedServed
  <2>5. CASE /\ UNCHANGED <<down, sdkPresent, miss, rows>>
             /\ \/ m.t = "enable" /\ cdpNet' = (IF m.v THEN "yes" ELSE "no") /\ UNCHANGED <<epoch, replies>>
                \/ m.t = "cleared" /\ epoch' = epoch + 1 /\ UNCHANGED <<cdpNet, replies>>
                \/ m.t = "read" /\ replies' = Append(replies, m) /\ UNCHANGED <<cdpNet, epoch>>
    BY <1>1, <1>2, <2>5, OthersServed
  <2> QED BY <2>0, <2>1, <2>2, <2>3, <2>4, <2>5
<1>5. RuntimeTypes' /\ WireTypes' /\ ClosedIsIdle'
  BY <1>1, <1>2, <1>3, <1>4
     DEF CaptureInv, RuntimeTypes, WireTypes, ClosedIsIdle, Served, Undisturbed
<1> QED BY <1>4, <1>5 DEF Kept, CaptureInv, Served

LEMMA StepKeeps == CaptureInv /\ [Next]_vars => Kept
<1> SUFFICES ASSUME CaptureInv, [Next]_vars PROVE Kept
  OBVIOUS
<1>1. CASE UNCHANGED vars
  <2>1. RowInv' /\ RunsKept
    <3>1. epoch \in Nat /\ lastRun.epoch \in Nat
      BY DEF CaptureInv, ServerTypes
    <3> QED BY <1>1, <3>1, RowsStay DEF CaptureInv, vars, appVars, mirrorVars
  <2> QED BY <1>1, <2>1 DEF vars, runtimeVars, wireVars, appVars, mirrorVars, Kept, CaptureInv,
             RuntimeTypes, ServerTypes, WireTypes, ClosedIsIdle, FlagLast
<1>2. CASE Next
  BY <1>2, ConnectKeeps, DropKeeps, RestartsKeep, InitSdkKeeps, RequestsKeep, RunKeeps,
     DeliverKeeps, TimersKeep, ClearKeeps, MirrorStepKeeps DEF Next, App
<1> QED BY <1>1, <1>2

-----------------------------------------------------------------------------
(* The theorems.                                                           *)

\* The inductive invariant: the rows keyed apart, epochs that only grow, and the
\* flag that the last command under way sets.
THEOREM CaptureInvariant == Spec => []CaptureInv
<1>1. CaptureInv /\ [Next]_vars => CaptureInv'
  BY StepKeeps DEF Kept
<1> QED BY <1>1, Start, PTL DEF Spec

\* Every variable keeps its type, and no key is in the buffer twice.
THEOREM CaptureTypes == Spec => []TypeOK
<1>1. CaptureInv => TypeOK
  <2> SUFFICES ASSUME CaptureInv PROVE TypeOK
    OBVIOUS
  <2>1. \A i \in 1..Len(up) : up[i] \in Msg
    BY DEF CaptureInv, WireTypes
  <2>2. \A i \in 1..Len(down) : down[i] \in Cmd
    BY DEF CaptureInv, WireTypes
  <2>3. DOMAIN rows = 1..Len(rows)
    BY DEF CaptureInv, RowInv, RowTypes
  <2>4. \A i, j \in 1..Len(rows) :
          i # j => ~(SameId(rows[i], rows[j]) /\ rows[i].epoch = rows[j].epoch)
    BY <2>3 DEF CaptureInv, RowInv, RowTypes, Distinct, SameKey
  <2>5. lastRun.run \in 0..MaxRuns
    BY DEF CaptureInv, ServerTypes
  <2> QED BY <2>1, <2>2, <2>4, <2>5
          DEF TypeOK, CaptureInv, RuntimeTypes, ServerTypes, RowInv, RowTypes
<1> QED BY <1>1, CaptureInvariant, PTL

\* While the SDK counts it is the only source of the epoch, nothing is latched
\* before it is complete, and a runtime with the interceptor is muted.
THEOREM CaptureSdkAlone == Spec => []SdkAlone
<1>1. CaptureInv => SdkAlone
  <2> SUFFICES ASSUME CaptureInv PROVE SdkAlone
    OBVIOUS
  <2>1. \A i \in 1..Len(rows) : rows[i] \in Range(rows)
    BY DEF CaptureInv, RowInv, RowTypes, Range
  <2>2. SdkIsSoleSource
    BY <2>1 DEF CaptureInv, RowInv, Sole, SdkIsSoleSource
  <2>3. LatchedIsDone
    BY <2>1 DEF CaptureInv, RowInv, Whole, LatchedIsDone
  <2>4. MutedWhileSdk
    BY DEF CaptureInv, FlagLast, MutedWhileSdk
  <2> QED BY <2>2, <2>3, <2>4 DEF SdkAlone
<1> QED BY <1>1, CaptureInvariant, PTL

\* No row of the mirror is ever overwritten with another runtime's request.
THEOREM CaptureKeepsRuns == Spec => SdkRowKeepsRun
<1>1. CaptureInv /\ [Next]_vars =>
        \A i \in 1..Len(rows), j \in 1..Len(rows') :
          /\ rows[i].by = "sdk" /\ rows'[j].epoch = rows[i].epoch /\ SameId(rows'[j], rows[i])
          => rows'[j].run = rows[i].run
  <2> SUFFICES ASSUME CaptureInv, [Next]_vars,
                      NEW i \in 1..Len(rows), NEW j \in 1..Len(rows'),
                      rows[i].by = "sdk", rows'[j].epoch = rows[i].epoch, SameId(rows'[j], rows[i])
               PROVE  rows'[j].run = rows[i].run
    OBVIOUS
  <2>1. CaptureInv' /\ RunsKept
    BY StepKeeps DEF Kept
  <2>2. rows[i] \in Range(rows) /\ rows'[j] \in Range(rows')
    BY <2>1 DEF CaptureInv, RowInv, RowTypes, Range
  <2> QED BY <2>1, <2>2 DEF RunsKept, SameKey
<1> QED BY <1>1, CaptureInvariant, PTL DEF Spec, SdkRowKeepsRun
=============================================================================
