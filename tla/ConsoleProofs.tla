---------------------------- MODULE ConsoleProofs ----------------------------
(***************************************************************************)
(* Proofs about the console: the line buffer with its three wrapping       *)
(* indices, and the copies that control-T makes of it, are terminals of    *)
(* their own, and a reader sleeps past a line only if a switch brought it. *)
(***************************************************************************)
EXTENDS Console, Integers, Sequences, SequenceTheorems, WellFoundedInduction, TLAPS

-----------------------------------------------------------------------------
(* Indices that wrap at M, a multiple of the ring buffer's size N *)

\* Quotient and remainder.
LEMMA ModRange ==
  ASSUME NEW m \in Nat, m > 0, NEW x \in Int
  PROVE  x % m \in 0..(m - 1) /\ x \div m \in Int /\ x = m * (x \div m) + (x % m)
  OBVIOUS

\* The remainder of a number less than two moduli away from 0.
LEMMA ModSmall ==
  ASSUME NEW m \in Nat, m > 0, NEW x \in Int
  PROVE  /\ 0 <= x /\ x < m => x % m = x
         /\ -m <= x /\ x < 0 => x % m = x + m
         /\ m <= x /\ x < 2 * m => x % m = x - m
  OBVIOUS

\* The remainder is determined.
LEMMA ModUnique ==
  ASSUME NEW m \in Nat, m > 0, NEW x \in Int, NEW d \in Int, NEW r \in 0..(m - 1), x = m * d + r
  PROVE  x % m = r
  OBVIOUS

\* An index that moves ahead by k stays an index, and k is how far it is ahead.
LEMMA Forward ==
  ASSUME NEW M \in Nat, M > 0, NEW x \in 0..(M - 1), NEW k \in 0..(M - 1)
  PROVE  /\ ((x + k) % M) \in 0..(M - 1)
         /\ (x + k) % M = x + k \/ (x + k) % M = (x + k) - M
  <1>1. x + k \in Int /\ 0 <= x + k /\ x + k < 2 * M
    OBVIOUS
  <1>2. ((x + k) % M) \in 0..(M - 1)
    BY <1>1, ModRange
  <1>3. (x + k) % M = x + k \/ (x + k) % M = (x + k) - M
    BY <1>1, ModSmall
  <1> QED BY <1>2, <1>3

\* The distance of two indices that wrap at M.
LEMMA Distance ==
  ASSUME NEW M \in Nat, M > 0, NEW x \in 0..(M - 1), NEW y \in 0..(M - 1)
  PROVE  /\ ((y - x) % M) \in 0..(M - 1)
         /\ \A v \in 0..(M - 1) : (y - x) % M = v <=> y = x + v \/ y = (x + v) - M
  <1>1. y - x \in Int /\ -M <= y - x /\ y - x < M
    OBVIOUS
  <1>2. ((y - x) % M) \in 0..(M - 1)
    BY <1>1, ModRange
  <1>3. (y - x) % M = IF 0 <= y - x THEN y - x ELSE (y - x) + M
    BY <1>1, ModSmall
  <1>4. PICK d \in 0..(M - 1) : d = (y - x) % M
    BY <1>2
  <1>5. \A v \in 0..(M - 1) : d = v <=> y = x + v \/ y = (x + v) - M
    BY <1>3, <1>4
  <1> QED BY <1>4, <1>5

\* An index a ahead of r is a - k ahead of one that is k ahead of r.
LEMMA AheadOf ==
  ASSUME NEW M \in Nat, NEW r \in 0..(M - 1), NEW w \in 0..(M - 1), NEW x \in 0..(M - 1),
         NEW a \in 0..(M - 1), NEW k \in 0..a,
         w = r + a \/ w = (r + a) - M, x = r + k \/ x = (r + k) - M
  PROVE  w = x + (a - k) \/ w = (x + (a - k)) - M
  OBVIOUS

\* An index n ahead of one that is a ahead of r is a + n ahead of r.
LEMMA Beyond ==
  ASSUME NEW M \in Nat, NEW r \in 0..(M - 1), NEW w \in 0..(M - 1), NEW x \in 0..(M - 1),
         NEW a \in Nat, NEW n \in Nat, a + n < M,
         w = r + a \/ w = (r + a) - M, x = w + n \/ x = (w + n) - M
  PROVE  x = r + (a + n) \/ x = (r + (a + n)) - M
  OBVIOUS

\* An index that has wrapped names the same slot.
LEMMA SameSlot ==
  ASSUME NEW N \in Nat, N > 0, NEW M \in Nat, M % N = 0, NEW x \in Int
  PROVE  (x - M) % N = x % N
  <1>1. M = N * (M \div N) + (M % N) /\ M \div N \in Int
    BY ModRange
  <1>2. x = N * (x \div N) + (x % N) /\ x \div N \in Int /\ x % N \in 0..(N - 1)
    BY ModRange
  <1>3. PICK a, b \in Int : a = M \div N /\ b = x \div N
    BY <1>1, <1>2
  <1>4. PICK r \in 0..(N - 1) : r = x % N
    BY <1>2
  <1>5. M = N * a
    BY <1>1, <1>3
  <1>6. x - M = N * (b - a) + r
    BY <1>2, <1>3, <1>4, <1>5
  <1>7. x - M \in Int /\ b - a \in Int
    OBVIOUS
  <1>8. (x - M) % N = r
    BY <1>6, <1>7, ModUnique
  <1> QED BY <1>4, <1>8

\* Two positions less than N apart have different slots.
LEMMA SlotsDiffer ==
  ASSUME NEW N \in Nat, N > 0, NEW x \in Int, NEW y \in Int, x % N = y % N, x - y < N, y - x < N
  PROVE  x = y
  <1>1. x = N * (x \div N) + (x % N) /\ x \div N \in Int
    BY ModRange
  <1>2. y = N * (y \div N) + (y % N) /\ y \div N \in Int
    BY ModRange
  <1>3. PICK a, b \in Int : a = x \div N /\ b = y \div N
    BY <1>1, <1>2
  <1>4. x % N \in Int /\ y % N \in Int
    BY ModRange
  <1>5. x - y = N * (a - b)
    BY <1>1, <1>2, <1>3, <1>4
  <1> QED BY <1>5

\* A function on 1..n is a sequence of length n.
LEMMA FunctionIsSeq ==
  ASSUME NEW n \in Nat, NEW S, NEW f \in [1..n -> S]
  PROVE  f \in Seq(S) /\ Len(f) = n
  <1>1. f \in Seq(S)
    BY SeqDef
  <1>2. Len(f) \in Nat /\ DOMAIN f = 1..Len(f) /\ DOMAIN f = 1..n
    BY <1>1, LenProperties
  <1> QED BY <1>1, <1>2

-----------------------------------------------------------------------------
(* The inductive invariant *)

Alphabet == {Stored(ch) : ch \in Chars} \cup {"none"}
Buffers  == [buf : [0..(INPUT_BUF - 1) -> Alphabet],
             r : 0..(W - 1), w : 0..(W - 1), e : 0..(W - 1)]

\* What is entered and what is edited fit in the buffer, and no line's end is edited.
Good(b) ==
  /\ b \in Buffers
  /\ Len(Ready(b)) + Len(Edited(b)) <= INPUT_BUF
  /\ \A k \in 1..Len(Edited(b)) : Edited(b)[k] \notin LineEnds

Types ==
  /\ inputs \in [Consoles -> Buffers] /\ active \in Consoles /\ con \in [Procs -> Consoles]
  /\ at \in [Procs -> [pc : {"user", "loop", "sleep"}, n : Int, dst : Seq(Alphabet)]]

Inv == Types /\ Good(input) /\ (\A c \in Consoles : Good(inputs[c])) /\ NoMissedLine

-----------------------------------------------------------------------------
(* One buffer *)

\* What the assumption says about the buffer's size and the width of its indices.
LEMMA ConstFacts ==
  /\ INPUT_BUF \in Nat /\ INPUT_BUF > 0 /\ W \in Nat /\ W > 0 /\ INPUT_BUF < W /\ W % INPUT_BUF = 0
  /\ MAX_NUM_CONTAINERS \in Nat /\ 0 \in Consoles
  BY ConsoleAssumption DEF Consoles

\* An index names a slot of buf.
LEMMA SlotRange ==
  ASSUME NEW x \in Int PROVE (x % INPUT_BUF) \in 0..(INPUT_BUF - 1)
  BY ConstFacts, ModRange

\* An index that has wrapped names the same slot.
LEMMA Shift ==
  ASSUME NEW r \in Int, NEW x \in Int, x = r \/ x = r - W, NEW i \in Int
  PROVE  (x + i) % INPUT_BUF = (r + i) % INPUT_BUF
  <1>1. INPUT_BUF \in Nat /\ INPUT_BUF > 0 /\ W \in Nat /\ W % INPUT_BUF = 0
    BY ConstFacts
  <1>2. \A y \in Int : (y - W) % INPUT_BUF = y % INPUT_BUF
    BY <1>1, SameSlot
  <1>3. CASE x = r
    BY <1>3
  <1>4. CASE x = r - W
    <2>1. PICK y \in Int : y = r + i
      OBVIOUS
    <2>2. x + i = y - W
      BY <1>1, <1>4, <2>1
    <2>3. (y - W) % INPUT_BUF = y % INPUT_BUF
      BY <1>2
    <2> QED BY <2>1, <2>2, <2>3
  <1> QED BY <1>3, <1>4

\* The characters between two indices, as consoleread and consoleintr find them in buf.
LEMMA Segment ==
  ASSUME NEW b \in Buffers, NEW f \in 0..(W - 1), NEW t \in 0..(W - 1), NEW n \in 0..(W - 1),
         (t - f) % W = n
  PROVE  /\ Between(b, f, t) \in Seq(Alphabet) /\ Len(Between(b, f, t)) = n
         /\ \A k \in 1..n : Between(b, f, t)[k] = b.buf[(f + (k - 1)) % INPUT_BUF]
  <1>1. ASSUME NEW k \in 1..n PROVE /\ f + k - 1 = f + (k - 1) /\ b.buf[(f + k - 1) % INPUT_BUF] \in Alphabet
    <2>1. f + k - 1 \in Int /\ f + k - 1 = f + (k - 1)
      BY ConstFacts
    <2>2. (f + k - 1) % INPUT_BUF \in 0..(INPUT_BUF - 1)
      BY <2>1, SlotRange
    <2> QED BY <2>1, <2>2 DEF Buffers
  <1>2. n \in Nat
    BY ConstFacts
  <1>3. Between(b, f, t) \in [1..n -> Alphabet]
    BY <1>1 DEF Between
  <1>4. \A k \in 1..n : Between(b, f, t)[k] = b.buf[(f + (k - 1)) % INPUT_BUF]
    BY <1>1 DEF Between
  <1> QED BY <1>2, <1>3, <1>4, FunctionIsSeq

\* A buffer with a entered and c edited characters.
Laid(b, a, c) ==
  /\ b \in Buffers /\ a \in Nat /\ c \in Nat /\ a + c <= INPUT_BUF
  /\ b.w = b.r + a \/ b.w = (b.r + a) - W
  /\ b.e = b.r + (a + c) \/ b.e = (b.r + (a + c)) - W

\* Entered and edited characters lie one behind the other from r.
LEMMA Layout ==
  ASSUME NEW b, NEW a, NEW c, Laid(b, a, c)
  PROVE  /\ Ready(b) \in Seq(Alphabet) /\ Len(Ready(b)) = a
         /\ \A k \in 1..a : Ready(b)[k] = b.buf[(b.r + (k - 1)) % INPUT_BUF]
         /\ Edited(b) \in Seq(Alphabet) /\ Len(Edited(b)) = c
         /\ \A k \in 1..c : Edited(b)[k] = b.buf[(b.r + (a + (k - 1))) % INPUT_BUF]
         /\ (b.e - b.r) % W = a + c
  <1>1. /\ b \in Buffers /\ a \in 0..(W - 1) /\ c \in 0..(W - 1) /\ a + c \in 0..(W - 1) /\ a \in Nat /\ c \in Nat
        /\ b.w = b.r + a \/ b.w = (b.r + a) - W
        /\ b.e = b.r + (a + c) \/ b.e = (b.r + (a + c)) - W
    BY ConstFacts DEF Laid
  <1>2. PICK r, w, e \in 0..(W - 1) : r = b.r /\ w = b.w /\ e = b.e
    BY <1>1 DEF Buffers
  <1>3. /\ w = r + a \/ w = (r + a) - W
        /\ e = r + (a + c) \/ e = (r + (a + c)) - W
    BY <1>1, <1>2
  <1>4. e = w + c \/ e = (w + c) - W
    BY <1>1, <1>3, ConstFacts
  <1>5. (w - r) % W = a /\ (e - r) % W = a + c /\ (e - w) % W = c
    <2>1. W > 0 /\ a \in 0..(W - 1) /\ c \in 0..(W - 1) /\ a + c \in 0..(W - 1)
      BY <1>1, ConstFacts
    <2>2. (w - r) % W = a
      BY <1>3, <2>1, ConstFacts, Distance
    <2>3. (e - r) % W = a + c
      BY <1>3, <2>1, ConstFacts, Distance
    <2>4. (e - w) % W = c
      BY <1>4, <2>1, ConstFacts, Distance
    <2> QED BY <2>2, <2>3, <2>4
  <1>6. /\ Ready(b) \in Seq(Alphabet) /\ Len(Ready(b)) = a
        /\ \A k \in 1..a : Ready(b)[k] = b.buf[(b.r + (k - 1)) % INPUT_BUF]
    <2>1. /\ Between(b, r, w) \in Seq(Alphabet) /\ Len(Between(b, r, w)) = a
          /\ \A k \in 1..a : Between(b, r, w)[k] = b.buf[(r + (k - 1)) % INPUT_BUF]
      BY <1>1, <1>5, Segment
    <2> QED BY <1>2, <2>1 DEF Ready
  <1>7. /\ Edited(b) \in Seq(Alphabet) /\ Len(Edited(b)) = c
        /\ \A k \in 1..c : Edited(b)[k] = b.buf[(w + (k - 1)) % INPUT_BUF]
    <2>1. /\ Between(b, w, e) \in Seq(Alphabet) /\ Len(Between(b, w, e)) = c
          /\ \A k \in 1..c : Between(b, w, e)[k] = b.buf[(w + (k - 1)) % INPUT_BUF]
      BY <1>1, <1>5, Segment
    <2> QED BY <1>2, <2>1 DEF Edited
  <1>8. ASSUME NEW k \in 1..c PROVE (w + (k - 1)) % INPUT_BUF = (r + (a + (k - 1))) % INPUT_BUF
    <2>1. PICK x, i \in Int : x = r + a /\ i = k - 1
      BY <1>1, ConstFacts
    <2>2. w = x \/ w = x - W
      BY <1>3, <2>1
    <2>3. (w + i) % INPUT_BUF = (x + i) % INPUT_BUF
      <3>1. w \in Int
        OBVIOUS
      <3> QED BY <2>2, <3>1, Shift
    <2>4. x + i = r + (a + (k - 1))
      BY <1>1, <2>1, ConstFacts
    <2> QED BY <2>1, <2>3, <2>4
  <1> QED BY <1>2, <1>5, <1>6, <1>7, <1>8

\* Where the k-th edited character is.
LEMMA EditedAt ==
  ASSUME NEW b, NEW a, NEW c, Laid(b, a, c), NEW k \in 1..c
  PROVE  Edited(b)[k] = b.buf[(b.r + (a + (k - 1))) % INPUT_BUF]
  BY Layout

\* A good buffer is laid out in this way.
LEMMA GoodIsLaid ==
  ASSUME NEW b, Good(b)
  PROVE  Laid(b, Len(Ready(b)), Len(Edited(b)))
  <1>1. b \in Buffers
    BY DEF Good
  <1>2. PICK r, w, e \in 0..(W - 1) : r = b.r /\ w = b.w /\ e = b.e
    BY <1>1 DEF Buffers
  <1>3. PICK a, c \in 0..(W - 1) : a = (w - r) % W /\ c = (e - w) % W
    BY ConstFacts, Distance
  <1>4. Len(Ready(b)) = a /\ Len(Edited(b)) = c
    BY <1>1, <1>2, <1>3, Segment DEF Ready, Edited
  <1>5. a + c <= INPUT_BUF
    BY <1>4 DEF Good
  <1>6. (w = r + a \/ w = (r + a) - W) /\ (e = w + c \/ e = (w + c) - W)
    BY <1>3, ConstFacts, Distance
  <1>7. e = r + (a + c) \/ e = (r + (a + c)) - W
    BY <1>5, <1>6, ConstFacts
  <1> QED BY <1>1, <1>2, <1>4, <1>5, <1>6, <1>7, ConstFacts DEF Laid

\* consoleread takes k characters.
Shorter(b, d, k) == k <= Len(Ready(b)) /\ d = [b EXCEPT !.r = (b.r + k) % W]

\* consoleread moves r: the first k entered characters are gone, the rest stays.
LEMMA TakeBuffer ==
  ASSUME NEW b, Good(b), NEW k \in Nat, NEW d, Shorter(b, d, k)
  PROVE  /\ Good(d) /\ Ready(d) = SubSeq(Ready(b), k + 1, Len(Ready(b))) /\ Edited(d) = Edited(b)
  <1>1. PICK a, c \in Nat : a = Len(Ready(b)) /\ c = Len(Edited(b)) /\ Laid(b, a, c)
    BY GoodIsLaid DEF Laid
  <1>2. b \in Buffers /\ a + c <= INPUT_BUF
    BY <1>1 DEF Laid
  <1>3. PICK r, w, e \in 0..(W - 1) : r = b.r /\ w = b.w /\ e = b.e
    BY <1>2 DEF Buffers
  <1>4. k \in 0..(W - 1) /\ k \in 0..a
    BY <1>1, <1>2, ConstFacts DEF Shorter
  <1>5. PICK x \in 0..(W - 1) : x = (r + k) % W /\ (x = r + k \/ x = (r + k) - W)
    BY <1>4, ConstFacts, Forward
  <1>6. /\ d \in Buffers /\ d.r = x /\ d.w = b.w /\ d.e = b.e /\ d.buf = b.buf
    BY <1>2, <1>3, <1>5 DEF Buffers, Shorter
  <1>7. /\ w = r + a \/ w = (r + a) - W
        /\ e = r + (a + c) \/ e = (r + (a + c)) - W
    BY <1>1, <1>2, <1>3 DEF Laid
  <1>0. PICK m \in Nat : m = a - k
    BY <1>4
  <1>8. Laid(d, m, c)
    <2>1. m + c <= INPUT_BUF /\ a = m + k
      BY <1>0, <1>2, <1>4, ConstFacts
    <2>2. w = x + m \/ w = (x + m) - W
      <3>1. a \in 0..(W - 1)
        BY <1>2, ConstFacts
      <3>2. w = x + (a - k) \/ w = (x + (a - k)) - W
        BY <1>4, <1>5, <1>7, <3>1, ConstFacts, AheadOf
      <3> QED BY <1>0, <3>2
    <2>3. e = x + (m + c) \/ e = (x + (m + c)) - W
      <3>1. PICK n \in 0..(W - 1) : n = a + c
        BY <1>2, ConstFacts
      <3>2. k \in 0..n /\ n - k = m + c
        BY <1>0, <1>4, <3>1
      <3>3. e = x + (n - k) \/ e = (x + (n - k)) - W
        BY <1>5, <1>7, <3>1, <3>2, ConstFacts, AheadOf
      <3> QED BY <3>2, <3>3
    <2> QED BY <1>3, <1>6, <2>1, <2>2, <2>3 DEF Laid
  <1>9. ASSUME NEW i \in Int PROVE (x + i) % INPUT_BUF = (r + (k + i)) % INPUT_BUF
    <2>1. PICK y \in Int : y = r + k
      BY <1>4, ConstFacts
    <2>2. (x + i) % INPUT_BUF = (y + i) % INPUT_BUF
      <3>1. x \in Int /\ (x = y \/ x = y - W)
        BY <1>5, <2>1, ConstFacts
      <3>2. PICK z \in Int : z = x
        BY <3>1
      <3>3. (z + i) % INPUT_BUF = (y + i) % INPUT_BUF
        BY <3>1, <3>2, Shift
      <3> QED BY <3>2, <3>3
    <2>3. y + i = r + (k + i)
      BY <1>4, <2>1, ConstFacts
    <2> QED BY <2>2, <2>3
  <1>10. Edited(d) = Edited(b)
    <2>2. \A i \in 1..c : Edited(d)[i] = d.buf[(d.r + (m + (i - 1))) % INPUT_BUF]
      BY <1>8, EditedAt
    <2>3. \A i \in 1..c : Edited(b)[i] = b.buf[(b.r + (a + (i - 1))) % INPUT_BUF]
      <3>1. Laid(b, a, c)
        BY <1>1
      <3> QED BY <3>1, EditedAt
    <2>1. ASSUME NEW i \in 1..c PROVE Edited(d)[i] = Edited(b)[i]
      <3>1. Edited(d)[i] = b.buf[(x + (m + (i - 1))) % INPUT_BUF]
        BY <1>6, <2>2
      <3>2. Edited(b)[i] = b.buf[(r + (a + (i - 1))) % INPUT_BUF]
        BY <1>3, <2>3
      <3>3. m + (i - 1) \in Int /\ k + (m + (i - 1)) = a + (i - 1)
        BY <1>0, <1>4, ConstFacts
      <3> QED BY <1>9, <3>1, <3>2, <3>3
    <2> QED BY <1>1, <1>8, <2>1, Layout, SeqEqual
  <1>11. Ready(d) = SubSeq(Ready(b), k + 1, a)
    <2>1. Ready(b) \in Seq(Alphabet) /\ Len(Ready(b)) = a /\ Ready(d) \in Seq(Alphabet) /\ Len(Ready(d)) = m
      BY <1>1, <1>8, Layout
    <2>2. /\ SubSeq(Ready(b), k + 1, a) \in Seq(Alphabet)
          /\ Len(SubSeq(Ready(b), k + 1, a)) = IF k + 1 <= a THEN a - (k + 1) + 1 ELSE 0
          /\ \A i \in 1..(a - (k + 1) + 1) : SubSeq(Ready(b), k + 1, a)[i] = Ready(b)[(k + 1) + i - 1]
      <3>1. \A i \in (k + 1)..a : Ready(b)[i] \in Alphabet
        BY <1>4, <2>1, ElementOfSeq
      <3>2. k + 1 \in Int /\ a \in Int
        BY <1>4
      <3> QED BY <3>1, <3>2, SubSeqProperties
    <2>3. Len(SubSeq(Ready(b), k + 1, a)) = m
      BY <1>0, <1>4, <2>2
    <2>4. ASSUME NEW i \in 1..m PROVE Ready(d)[i] = SubSeq(Ready(b), k + 1, a)[i]
      <3>1. Ready(d)[i] = b.buf[(x + (i - 1)) % INPUT_BUF]
        <4>1. Ready(d)[i] = d.buf[(d.r + (i - 1)) % INPUT_BUF]
          BY <1>8, Layout
        <4> QED BY <1>6, <4>1
      <3>2. k + i \in 1..a /\ i - 1 \in Int /\ k + (i - 1) = (k + i) - 1 /\ (k + 1) + i - 1 = k + i /\ i \in 1..(a - (k + 1) + 1)
        BY <1>0, <1>4
      <3>3. Ready(b)[k + i] = b.buf[(r + ((k + i) - 1)) % INPUT_BUF]
        BY <1>1, <1>3, <3>2, Layout
      <3>4. SubSeq(Ready(b), k + 1, a)[i] = Ready(b)[k + i]
        BY <2>2, <3>2
      <3> QED BY <1>9, <3>1, <3>2, <3>3, <3>4
    <2> QED BY <2>1, <2>2, <2>3, <2>4, SeqEqual
  <1>12. Good(d)
    <2>1. Len(Ready(d)) = m /\ Len(Edited(d)) = c
      BY <1>8, Layout
    <2>2. Len(Ready(d)) + Len(Edited(d)) <= INPUT_BUF
      BY <1>0, <1>2, <1>4, <2>1, ConstFacts
    <2> QED BY <1>6, <1>10, <2>2 DEF Good
  <1> QED BY <1>1, <1>10, <1>11, <1>12

\* Where the k-th entered character is.
LEMMA ReadyAt ==
  ASSUME NEW b, NEW a, NEW c, Laid(b, a, c), NEW k \in 1..a
  PROVE  Ready(b)[k] = b.buf[(b.r + (k - 1)) % INPUT_BUF]
  BY Layout

\* The two parts of the buffer are sequences, and their lengths add up to e - r.
LEMMA LaidSeqs ==
  ASSUME NEW b, NEW a, NEW c, Laid(b, a, c)
  PROVE  /\ Ready(b) \in Seq(Alphabet) /\ Len(Ready(b)) = a
         /\ Edited(b) \in Seq(Alphabet) /\ Len(Edited(b)) = c
         /\ (b.e - b.r) % W = a + c
  BY Layout

\* The sizes of a buffer, without the buffer.
LEMMA Sizing ==
  ASSUME NEW b, Good(b)
  PROVE  \E a, c \in 0..(W - 1), r, w, e \in 0..(W - 1) :
           /\ Laid(b, a, c) /\ a + c <= INPUT_BUF /\ r = b.r /\ w = b.w /\ e = b.e
           /\ w = r + a \/ w = (r + a) - W
           /\ e = w + c \/ e = (w + c) - W
           /\ e = r + (a + c) \/ e = (r + (a + c)) - W
  <1>1. PICK a, c \in Nat : a = Len(Ready(b)) /\ c = Len(Edited(b)) /\ Laid(b, a, c)
    BY GoodIsLaid DEF Laid
  <1>2. /\ Laid(b, a, c) /\ b \in Buffers /\ a + c <= INPUT_BUF
        /\ b.w = b.r + a \/ b.w = (b.r + a) - W
        /\ b.e = b.r + (a + c) \/ b.e = (b.r + (a + c)) - W
    BY <1>1 DEF Laid
  <1>3. PICK r, w, e \in 0..(W - 1) : r = b.r /\ w = b.w /\ e = b.e
    BY <1>2 DEF Buffers
  <1>4. a \in 0..(W - 1) /\ c \in 0..(W - 1)
    BY <1>2, ConstFacts
  <1>5. /\ w = r + a \/ w = (r + a) - W
        /\ e = r + (a + c) \/ e = (r + (a + c)) - W
    BY <1>2, <1>3
  <1>6. e = w + c \/ e = (w + c) - W
    BY <1>2, <1>5, ConstFacts
  <1> QED BY <1>2, <1>3, <1>4, <1>5, <1>6

\* Backspace and control-U leave n of the characters that are edited.
Erased(b, d, n) == n <= Len(Edited(b)) /\ d = [b EXCEPT !.e = (b.w + n) % W]

\* Control-U and backspace move e back: the entered characters stay.
LEMMA EraseBuffer ==
  ASSUME NEW b, Good(b), NEW n \in Nat, NEW d, Erased(b, d, n)
  PROVE  Good(d) /\ Ready(d) = Ready(b) /\ Edited(d) = SubSeq(Edited(b), 1, n)
  <1>1. PICK a, c \in 0..(W - 1), r, w, e \in 0..(W - 1) :
           /\ Laid(b, a, c) /\ a + c <= INPUT_BUF /\ r = b.r /\ w = b.w /\ e = b.e
           /\ w = r + a \/ w = (r + a) - W
    BY Sizing
  <1>2. Laid(b, a, c) /\ b \in Buffers
    BY <1>1 DEF Laid
  <1>3. /\ Ready(b) \in Seq(Alphabet) /\ Len(Ready(b)) = a
        /\ Edited(b) \in Seq(Alphabet) /\ Len(Edited(b)) = c
    BY <1>2, LaidSeqs
  <1>4. n <= c /\ n \in 0..(W - 1) /\ a + n <= INPUT_BUF /\ a + n < W
    <2>1. n <= c
      BY <1>3 DEF Erased
    <2> QED BY <1>1, <2>1, ConstFacts
  <1>5. PICK x \in 0..(W - 1) : x = (w + n) % W /\ (x = w + n \/ x = (w + n) - W)
    BY <1>4, ConstFacts, Forward
  <1>6. d \in Buffers /\ d.r = b.r /\ d.w = b.w /\ d.e = x /\ d.buf = b.buf
    BY <1>1, <1>2, <1>5 DEF Erased, Buffers
  <1>7. Laid(d, a, n)
    <2>1. x = r + (a + n) \/ x = (r + (a + n)) - W
      BY <1>1, <1>4, <1>5, ConstFacts, Beyond
    <2>2. a \in Nat
      BY ConstFacts
    <2> QED BY <1>1, <1>4, <1>6, <2>1, <2>2 DEF Laid
  <1>8. /\ Ready(d) \in Seq(Alphabet) /\ Len(Ready(d)) = a
        /\ Edited(d) \in Seq(Alphabet) /\ Len(Edited(d)) = n
    BY <1>7, LaidSeqs
  <1>9. Ready(d) = Ready(b)
    <2>1. \A k \in 1..a : Ready(d)[k] = d.buf[(d.r + (k - 1)) % INPUT_BUF]
      BY <1>7, ReadyAt
    <2>2. \A k \in 1..a : Ready(b)[k] = b.buf[(b.r + (k - 1)) % INPUT_BUF]
      BY <1>2, ReadyAt
    <2>3. \A k \in 1..a : Ready(d)[k] = Ready(b)[k]
      BY <1>6, <2>1, <2>2
    <2> QED BY <1>3, <1>8, <2>3, SeqEqual
  <1>10. ASSUME NEW k \in 1..n PROVE Edited(d)[k] = Edited(b)[k] /\ k \in 1..c
    <2>1. k \in 1..c
      BY <1>4
    <2>2. Edited(d)[k] = d.buf[(d.r + (a + (k - 1))) % INPUT_BUF]
      BY <1>7, EditedAt
    <2>3. Edited(b)[k] = b.buf[(b.r + (a + (k - 1))) % INPUT_BUF]
      BY <1>2, <2>1, EditedAt
    <2> QED BY <1>6, <2>1, <2>2, <2>3
  <1>11. Edited(d) = SubSeq(Edited(b), 1, n)
    <2>1. \A k \in 1..n : Edited(b)[k] \in Alphabet
      BY <1>3, <1>10, ElementOfSeq
    <2>2. 1 \in Int /\ n \in Int
      OBVIOUS
    <2>3. /\ SubSeq(Edited(b), 1, n) \in Seq(Alphabet)
          /\ Len(SubSeq(Edited(b), 1, n)) = IF 1 <= n THEN n - 1 + 1 ELSE 0
          /\ \A k \in 1..(n - 1 + 1) : SubSeq(Edited(b), 1, n)[k] = Edited(b)[1 + k - 1]
      BY <2>1, <2>2, SubSeqProperties
    <2>4. Len(SubSeq(Edited(b), 1, n)) = n /\ n - 1 + 1 = n
      BY <2>3
    <2>5. \A k \in 1..n : SubSeq(Edited(b), 1, n)[k] = Edited(d)[k]
      <3>1. \A k \in 1..n : 1 + k - 1 = k
        OBVIOUS
      <3> QED BY <1>10, <2>3, <2>4, <3>1
    <2> QED BY <1>8, <2>3, <2>4, <2>5, SeqEqual
  <1>12. Good(d)
    <2>1. \A k \in 1..n : Edited(d)[k] \notin LineEnds
      BY <1>3, <1>10 DEF Good
    <2> QED BY <1>4, <1>6, <1>8, <2>1 DEF Good
  <1> QED BY <1>9, <1>11, <1>12

\* consoleintr stores ch; entered says whether that enters the line.
Entered(b, ch) == ch \in LineEnds \/ (b.e + 1) % W = (b.r + INPUT_BUF) % W
Typed(b, d, ch) ==
  /\ (b.e - b.r) % W < INPUT_BUF
  /\ d = [buf |-> [b.buf EXCEPT ![b.e % INPUT_BUF] = ch],
          r   |-> b.r,
          w   |-> IF Entered(b, ch) THEN (b.e + 1) % W ELSE b.w,
          e   |-> (b.e + 1) % W]

\* consoleintr stores a character: edited, or entered with the whole line when it ends one or
\* fills the buffer.
LEMMA TypeBuffer ==
  ASSUME NEW b, Good(b), NEW ch \in Alphabet, NEW d, Typed(b, d, ch)
  PROVE  /\ Good(d)
         /\ Len(Ready(b) \o Append(Edited(b), ch)) <= INPUT_BUF
         /\ Entered(b, ch) <=> ch \in LineEnds \/ Len(Ready(b) \o Append(Edited(b), ch)) = INPUT_BUF
         /\ IF Entered(b, ch)
            THEN Ready(d) = Ready(b) \o Append(Edited(b), ch) /\ Edited(d) = <<>>
            ELSE Ready(d) = Ready(b) /\ Edited(d) = Append(Edited(b), ch)
  <1>1. PICK a, c \in 0..(W - 1), r, w, e \in 0..(W - 1) :
           /\ Laid(b, a, c) /\ a + c <= INPUT_BUF /\ r = b.r /\ w = b.w /\ e = b.e
           /\ w = r + a \/ w = (r + a) - W
           /\ e = r + (a + c) \/ e = (r + (a + c)) - W
    BY Sizing
  <1>2. Laid(b, a, c) /\ b \in Buffers /\ a \in Nat /\ c \in Nat
    BY <1>1 DEF Laid
  <1>3. /\ Ready(b) \in Seq(Alphabet) /\ Len(Ready(b)) = a
        /\ Edited(b) \in Seq(Alphabet) /\ Len(Edited(b)) = c /\ (b.e - b.r) % W = a + c
    BY <1>2, LaidSeqs
  <1>4. a + c < INPUT_BUF
    BY <1>3 DEF Typed
  <1>5. PICK f \in 0..(W - 1) : f = (e + 1) % W /\ (f = e + 1 \/ f = (e + 1) - W)
    <2>1. 1 \in 0..(W - 1)
      BY ConstFacts
    <2> QED BY <2>1, ConstFacts, Forward
  <1>6. f = r + (a + c + 1) \/ f = (r + (a + c + 1)) - W
    BY <1>1, <1>2, <1>4, <1>5, ConstFacts
  <1>7. (e + 1) % W = (r + INPUT_BUF) % W <=> a + c + 1 = INPUT_BUF
    <2>1. PICK g \in 0..(W - 1) : g = (r + INPUT_BUF) % W /\ (g = r + INPUT_BUF \/ g = (r + INPUT_BUF) - W)
      <3>1. INPUT_BUF \in 0..(W - 1)
        BY ConstFacts
      <3> QED BY <3>1, ConstFacts, Forward
    <2>2. f = g <=> a + c + 1 = INPUT_BUF
      BY <1>2, <1>4, <1>6, <2>1, ConstFacts
    <2> QED BY <1>5, <2>1, <2>2
  <1>8. Entered(b, ch) <=> ch \in LineEnds \/ a + c + 1 = INPUT_BUF
    BY <1>1, <1>7 DEF Entered
  <1> DEFINE line == Append(Edited(b), ch)
  <1>9. /\ line \in Seq(Alphabet) /\ Len(line) = c + 1 /\ line[c + 1] = ch
        /\ \A k \in 1..c : line[k] = Edited(b)[k]
    BY <1>3, AppendProperties
  <1> HIDE DEF line
  <1>10. /\ Ready(b) \o line \in Seq(Alphabet) /\ Len(Ready(b) \o line) = a + (c + 1)
         /\ \A k \in 1..(a + (c + 1)) : (Ready(b) \o line)[k] = IF k <= a THEN Ready(b)[k] ELSE line[k - a]
    <2>1. PICK s \in Seq(Alphabet) : s = Ready(b) /\ Len(s) = a
      BY <1>3
    <2>2. /\ s \o line \in Seq(Alphabet) /\ Len(s \o line) = Len(s) + Len(line)
          /\ \A k \in 1..(Len(s) + Len(line)) : (s \o line)[k] = IF k <= Len(s) THEN s[k] ELSE line[k - Len(s)]
      BY <1>9, ConcatProperties
    <2> QED BY <1>9, <2>1, <2>2
  \* The character goes to the slot after the last one in use.
  <1>11. PICK last \in 0..(INPUT_BUF - 1) : last = e % INPUT_BUF /\ last = (r + (a + c)) % INPUT_BUF
    <2>1. PICK x \in Int : x = r + (a + c)
      BY <1>2, ConstFacts
    <2>2. e \in Int /\ e + 0 = e /\ x + 0 = x /\ (e = x \/ e = x - W)
      BY <1>1, <2>1, ConstFacts
    <2>3. (e + 0) % INPUT_BUF = (x + 0) % INPUT_BUF
      BY <2>2, Shift
    <2> QED BY <2>1, <2>2, <2>3, SlotRange
  <1>12. /\ d \in Buffers /\ d.r = r /\ d.e = f /\ d.buf = [b.buf EXCEPT ![last] = ch]
         /\ d.w = IF Entered(b, ch) THEN f ELSE w
    <2>1. b.buf \in [0..(INPUT_BUF - 1) -> Alphabet]
      BY <1>2 DEF Buffers
    <2>2. [b.buf EXCEPT ![last] = ch] \in [0..(INPUT_BUF - 1) -> Alphabet]
      BY <2>1
    <2>3. d = [buf |-> [b.buf EXCEPT ![last] = ch], r |-> r, w |-> IF Entered(b, ch) THEN f ELSE w, e |-> f]
      BY <1>1, <1>5, <1>11 DEF Typed
    <2>4. (IF Entered(b, ch) THEN f ELSE w) \in 0..(W - 1)
      OBVIOUS
    <2> HIDE DEF Entered
    <2> QED BY <2>2, <2>3, <2>4 DEF Buffers
  <1>13. ASSUME NEW i \in 0..(a + c - 1)
         PROVE  d.buf[(r + i) % INPUT_BUF] = b.buf[(r + i) % INPUT_BUF]
    <2>1. PICK x, y \in Int : x = r + i /\ y = r + (a + c) /\ x # y /\ x - y < INPUT_BUF /\ y - x < INPUT_BUF
      BY <1>2, <1>4, ConstFacts
    <2>2. x % INPUT_BUF # y % INPUT_BUF
      BY <2>1, ConstFacts, SlotsDiffer
    <2>3. (x % INPUT_BUF) \in 0..(INPUT_BUF - 1)
      BY SlotRange
    <2>4. b.buf \in [0..(INPUT_BUF - 1) -> Alphabet]
      BY <1>2 DEF Buffers
    <2> QED BY <1>11, <1>12, <2>1, <2>2, <2>3, <2>4
  <1>14. d.buf[(r + (a + c)) % INPUT_BUF] = ch
    <2>1. b.buf \in [0..(INPUT_BUF - 1) -> Alphabet]
      BY <1>2 DEF Buffers
    <2> QED BY <1>11, <1>12, <2>1
  \* The characters of b and the new one, wherever the line's end is.
  <1>15. ASSUME NEW k \in 1..(a + (c + 1))
         PROVE  (Ready(b) \o line)[k] = d.buf[(r + (k - 1)) % INPUT_BUF]
    <2>1. CASE k <= a
      <3>1. Ready(b)[k] = b.buf[(b.r + (k - 1)) % INPUT_BUF]
        BY <1>2, <2>1, ReadyAt
      <3>2. k - 1 \in 0..(a + c - 1)
        BY <1>2, <2>1
      <3> QED BY <1>1, <1>10, <1>13, <2>1, <3>1, <3>2
    <2>2. CASE k > a /\ k <= a + c
      <3>1. PICK j \in 1..c : j = k - a
        BY <1>2, <2>2
      <3>2. Edited(b)[j] = b.buf[(b.r + (a + (j - 1))) % INPUT_BUF]
        BY <1>2, EditedAt
      <3>3. a + (j - 1) = k - 1 /\ k - 1 \in 0..(a + c - 1) /\ ~(k <= a)
        BY <1>2, <2>2, <3>1
      <3>4. (Ready(b) \o line)[k] = Edited(b)[j]
        BY <1>9, <1>10, <3>1, <3>3
      <3> QED BY <1>1, <1>13, <3>2, <3>3, <3>4
    <2>3. CASE k = a + (c + 1)
      <3>1. k - a = c + 1 /\ k - 1 = a + c /\ ~(k <= a)
        BY <1>2, <2>3
      <3>2. (Ready(b) \o line)[k] = line[k - a]
        BY <1>10, <3>1
      <3> QED BY <1>9, <1>14, <3>1, <3>2
    <2>4. k <= a \/ (k > a /\ k <= a + c) \/ k = a + (c + 1)
      BY <1>2
    <2> QED BY <2>1, <2>2, <2>3, <2>4
  <1>16. CASE Entered(b, ch)
    <2>0. PICK n \in Nat : n = a + (c + 1)
      BY <1>2
    <2>1. Laid(d, n, 0)
      <3>1. n + 0 <= INPUT_BUF /\ (f = r + n \/ f = (r + n) - W) /\ n + 0 = n
        BY <1>2, <1>4, <1>6, <2>0, ConstFacts
      <3> QED BY <1>12, <1>16, <3>1 DEF Laid
    <2>2. /\ Ready(d) \in Seq(Alphabet) /\ Len(Ready(d)) = n
          /\ Edited(d) \in Seq(Alphabet) /\ Len(Edited(d)) = 0
      BY <2>1, LaidSeqs
    <2>3. \A k \in 1..n : Ready(d)[k] = d.buf[(d.r + (k - 1)) % INPUT_BUF]
      BY <2>1, ReadyAt
    <2>4. \A k \in 1..n : Ready(d)[k] = (Ready(b) \o line)[k]
      BY <1>12, <1>15, <2>0, <2>3
    <2>5. Ready(d) = Ready(b) \o line
      BY <1>10, <2>0, <2>2, <2>4, SeqEqual
    <2>6. Edited(d) = <<>>
      BY <2>2, EmptySeq
    <2>7. Good(d)
      <3>1. Len(Ready(d)) + Len(Edited(d)) <= INPUT_BUF
        BY <1>2, <1>4, <2>0, <2>2, ConstFacts
      <3> QED BY <1>12, <2>2, <3>1 DEF Good
    <2>8. Len(Ready(b) \o line) <= INPUT_BUF /\ (a + (c + 1) = INPUT_BUF <=> a + c + 1 = INPUT_BUF)
      BY <1>2, <1>4, <1>10, ConstFacts
    <2> QED BY <1>8, <1>10, <1>16, <2>5, <2>6, <2>7, <2>8 DEF line
  <1>17. CASE ~Entered(b, ch)
    <2>0. PICK n \in Nat : n = c + 1
      BY <1>2
    <2>1. Laid(d, a, n)
      <3>1. a + n <= INPUT_BUF /\ (f = r + (a + n) \/ f = (r + (a + n)) - W)
        BY <1>2, <1>4, <1>6, <2>0, ConstFacts
      <3> QED BY <1>1, <1>2, <1>12, <1>17, <3>1 DEF Laid
    <2>2. /\ Ready(d) \in Seq(Alphabet) /\ Len(Ready(d)) = a
          /\ Edited(d) \in Seq(Alphabet) /\ Len(Edited(d)) = n
      BY <2>1, LaidSeqs
    <2>3. \A k \in 1..a : Ready(d)[k] = d.buf[(d.r + (k - 1)) % INPUT_BUF]
      BY <2>1, ReadyAt
    <2>4. \A k \in 1..a : Ready(d)[k] = Ready(b)[k]
      <3>1. \A k \in 1..a : k \in 1..(a + (c + 1)) /\ k <= a
        BY <1>2
      <3> QED BY <1>10, <1>12, <1>15, <2>3, <3>1
    <2>5. Ready(d) = Ready(b)
      BY <1>3, <2>2, <2>4, SeqEqual
    <2>6. ASSUME NEW k \in 1..n PROVE Edited(d)[k] = line[k]
      <3>1. Edited(d)[k] = d.buf[(d.r + (a + (k - 1))) % INPUT_BUF]
        BY <2>1, EditedAt
      <3>2. PICK j \in 1..(a + (c + 1)) : j = a + k
        BY <1>2, <2>0
      <3>3. a + (k - 1) = j - 1 /\ j - a = k /\ ~(j <= a)
        BY <1>2, <2>0, <3>2
      <3> QED BY <1>10, <1>12, <1>15, <3>1, <3>3
    <2>7. Edited(d) = line
      BY <1>9, <2>0, <2>2, <2>6, SeqEqual
    <2>8. Good(d)
      <3>1. Len(Ready(d)) + Len(Edited(d)) <= INPUT_BUF
        BY <1>2, <1>4, <2>0, <2>2, ConstFacts
      <3>2. \A k \in 1..c : line[k] \notin LineEnds
        BY <1>3, <1>9 DEF Good
      <3>3. ch \notin LineEnds
        BY <1>8, <1>17
      <3>4. \A k \in 1..n : line[k] \notin LineEnds
        <4>1. \A k \in 1..n : k \in 1..c \/ k = c + 1
          BY <1>2, <2>0
        <4> QED BY <1>9, <3>2, <3>3, <4>1
      <3> QED BY <1>12, <2>2, <2>7, <3>1, <3>4 DEF Good
    <2>9. Len(Ready(b) \o line) <= INPUT_BUF /\ (a + (c + 1) = INPUT_BUF <=> a + c + 1 = INPUT_BUF)
      BY <1>2, <1>4, <1>10, ConstFacts
    <2> QED BY <1>8, <1>10, <1>17, <2>5, <2>7, <2>8, <2>9 DEF line
  <1> QED BY <1>16, <1>17

-----------------------------------------------------------------------------
(* The least element of a set of numbers, for consoleread's loop *)

Less == {ss \in Nat \X Nat : ss[1] < ss[2]}

\* The numbers are well-founded.
LEMMA LessWF == IsWellFoundedOn(Less, Nat)
  BY NatLessThanWellFounded DEF OpToRel, Less

\* The smallest element of a set of numbers is in it.
LEMMA Smallest ==
  ASSUME NEW S \in SUBSET Nat, S # {}
  PROVE  Min(S) \in S /\ \A y \in S : Min(S) <= y
  <1>1. PICK x \in S : \A y \in S : ~(<<y, x>> \in Less)
    BY LessWF, WFMin
  <1>2. ASSUME NEW y \in S PROVE x <= y
    <2>1. ~(<<y, x>> \in Less)
      BY <1>1
    <2>2. x \in Nat /\ y \in Nat
      OBVIOUS
    <2>3. ~(y < x)
      BY <2>1, <2>2 DEF Less
    <2> QED BY <2>2, <2>3
  <1>3. \A y \in S : x <= y
    BY <1>2
  <1> QED BY <1>3 DEF Min

-----------------------------------------------------------------------------
(* The terminals that the buffers stand for *)

EditF  == [c \in Consoles |-> Edited(Buffer(c))]
ReadyF == [c \in Consoles |-> Ready(Buffer(c))]
DstF   == [p \in Procs |-> at[p].dst]

\* A character stored is a step Store of the terminals.
LEMMA StoreStep ==
  ASSUME NEW c \in Consoles, NEW ch,
         Len(ReadyF[c] \o Append(EditF[c], ch)) <= INPUT_BUF,
         DstF' = DstF,
         IF ch \in LineEnds \/ Len(ReadyF[c] \o Append(EditF[c], ch)) = INPUT_BUF
         THEN /\ ReadyF' = [ReadyF EXCEPT ![c] = ReadyF[c] \o Append(EditF[c], ch)]
              /\ EditF' = [EditF EXCEPT ![c] = <<>>]
         ELSE EditF' = [EditF EXCEPT ![c] = Append(EditF[c], ch)] /\ ReadyF' = ReadyF
  PROVE  T!Store(c, ch)
  BY DEF T!Store, T!LineEnds, LineEnds, EditF, ReadyF, DstF

\* Characters erased are a step Erase of the terminals.
LEMMA EraseStep ==
  ASSUME NEW c \in Consoles, EditF[c] # <<>>, NEW k \in {0, Len(EditF[c]) - 1},
         EditF' = [EditF EXCEPT ![c] = SubSeq(EditF[c], 1, k)],
         ReadyF' = ReadyF, DstF' = DstF
  PROVE  T!Erase(c)
  BY DEF T!Erase, EditF, ReadyF, DstF

\* One read of k characters, over the terminals.
Reads(p, k) ==
  LET s    == ReadyF[con[p]]
      got  == SubSeq(s, 1, IF s[k] = "eof" THEN k - 1 ELSE k)
      left == IF DstF'[p] = <<>> THEN k ELSE Len(got)
  IN  /\ k \in 1..Len(s)
      /\ \A i \in 1..(k - 1) : s[i] \notin LineEnds
      /\ DstF' = [DstF EXCEPT ![p] = DstF[p] \o got]
      /\ ReadyF' = [ReadyF EXCEPT ![con[p]] = SubSeq(ReadyF[con[p]], left + 1, Len(ReadyF[con[p]]))]
      /\ UNCHANGED EditF

\* Characters taken by consoleread are a step Read of the terminals.
LEMMA ReadStep ==
  ASSUME NEW p \in Procs, NEW k, Reads(p, k)
  PROVE  T!Read(p)
  BY Zenon DEF Reads, T!Read, T!LineEnds, LineEnds, EditF, ReadyF, DstF

\* A step that leaves the console on the screen where it is changes its terminal only.
LEMMA OneTerminal ==
  ASSUME active \in Consoles, inputs' = inputs, active' = active
  PROVE  /\ EditF' = [EditF EXCEPT ![active] = Edited(input')]
         /\ ReadyF' = [ReadyF EXCEPT ![active] = Ready(input')]
         /\ EditF[active] = Edited(input) /\ ReadyF[active] = Ready(input)
         /\ EditF \in [Consoles -> {Edited(Buffer(c)) : c \in Consoles}]
         /\ ReadyF \in [Consoles -> {Ready(Buffer(c)) : c \in Consoles}]
  <1>1. \A c \in Consoles : Buffer(c)' = IF c = active THEN input' ELSE Buffer(c)
    BY DEF Buffer
  <1>2. Buffer(active) = input
    BY DEF Buffer
  <1>3. EditF' = [c \in Consoles |-> Edited(IF c = active THEN input' ELSE Buffer(c))]
    BY <1>1 DEF EditF
  <1>4. ReadyF' = [c \in Consoles |-> Ready(IF c = active THEN input' ELSE Buffer(c))]
    BY <1>1 DEF ReadyF
  <1> QED BY <1>2, <1>3, <1>4 DEF EditF, ReadyF

\* A step of the terminals, or none.
Simulates == (T!Next \/ UNCHANGED <<EditF, ReadyF, DstF>>) /\ UNCHANGED con

\* The invariant in parts.
LEMMA InvFacts ==
  ASSUME Inv
  PROVE  /\ active \in Consoles /\ Good(input) /\ con \in [Procs -> Consoles]
         /\ at \in [Procs -> [pc : {"user", "loop", "sleep"}, n : Int, dst : Seq(Alphabet)]]
         /\ inputs \in [Consoles -> Buffers] /\ (\A c \in Consoles : Good(inputs[c]))
         /\ Ready(input) \in Seq(Alphabet) /\ Edited(input) \in Seq(Alphabet)
  <1>1. Good(input)
    BY DEF Inv
  <1>2. Laid(input, Len(Ready(input)), Len(Edited(input)))
    BY <1>1, GoodIsLaid
  <1>3. Ready(input) \in Seq(Alphabet) /\ Edited(input) \in Seq(Alphabet)
    BY <1>2, LaidSeqs
  <1> QED BY <1>1, <1>3 DEF Inv, Types

\* Control-T saves one buffer and brings another: no terminal changes.
LEMMA SwitchStep ==
  ASSUME Inv, Switch
  PROVE  Inv' /\ Simulates
  <1>1. /\ active' = (active + 1) % (MAX_NUM_CONTAINERS + 1)
        /\ inputs' = [inputs EXCEPT ![active] = input] /\ input' = inputs'[active']
        /\ missed' = missed \cup Sleepers /\ at' = at /\ con' = con
    BY DEF Switch, Pressed
  <1>2. active' \in Consoles
    <2>1. PICK n \in Nat : n = MAX_NUM_CONTAINERS + 1 /\ n > 0 /\ n - 1 = MAX_NUM_CONTAINERS
      BY ConstFacts
    <2>2. active + 1 \in Int
      BY InvFacts, ConstFacts DEF Consoles
    <2>3. ((active + 1) % n) \in 0..(n - 1)
      BY <2>1, <2>2, ModRange
    <2> QED BY <1>1, <2>1, <2>3 DEF Consoles
  <1>3. \A c \in Consoles : inputs'[c] = Buffer(c)
    BY <1>1, InvFacts DEF Buffer
  <1>4. \A c \in Consoles : Buffer(c)' = Buffer(c)
    BY <1>1, <1>2, <1>3 DEF Buffer
  <1>5. \A c \in Consoles : Good(Buffer(c))
    BY InvFacts DEF Buffer
  <1>6. inputs' \in [Consoles -> Buffers] /\ (\A c \in Consoles : Good(inputs'[c])) /\ Good(input')
    <2>1. input \in Buffers
      BY InvFacts DEF Good
    <2> QED BY <1>1, <1>2, <1>3, <1>5, <2>1, InvFacts
  <1>7. NoMissedLine'
    <2>1. Sleepers' = Sleepers
      BY <1>1 DEF Sleepers
    <2> QED BY <1>1, <2>1 DEF NoMissedLine
  <1>8. Types'
    BY <1>1, <1>2, <1>6, InvFacts DEF Types
  <1>9. UNCHANGED <<EditF, ReadyF, DstF>>
    <2>1. EditF' = EditF /\ ReadyF' = ReadyF
      BY <1>4 DEF EditF, ReadyF
    <2> QED BY <1>1, <2>1 DEF DstF
  <1>10. Good(input)' /\ (\A c \in Consoles : Good(inputs[c]))'
    BY <1>6
  <1> QED BY <1>1, <1>7, <1>8, <1>9, <1>10 DEF Inv, Simulates

\* Erasing keeps what has been entered.
LEMMA EraseKeeps ==
  ASSUME Inv, NEW n \in Nat, Erased(input, input', n),
         n = Len(Edited(input)) - 1 \/ n = 0,
         UNCHANGED <<inputs, active, at, missed, con>>
  PROVE  Inv' /\ Simulates
  <1>1. Good(input') /\ Ready(input') = Ready(input) /\ Edited(input') = SubSeq(Edited(input), 1, n)
    BY InvFacts, EraseBuffer
  <1>2. NoMissedLine'
    <2>1. Sleepers' = Sleepers
      BY DEF Sleepers
    <2>2. NoMissedLine
      BY DEF Inv
    <2> QED BY <1>1, <2>1, <2>2 DEF NoMissedLine
  <1>3. Types'
    BY InvFacts DEF Types
  <1>4. Inv'
    BY <1>1, <1>2, <1>3, InvFacts DEF Inv
  <1>5. /\ EditF' = [EditF EXCEPT ![active] = Edited(input')]
        /\ ReadyF' = [ReadyF EXCEPT ![active] = Ready(input')]
        /\ EditF[active] = Edited(input) /\ ReadyF[active] = Ready(input)
    BY InvFacts, OneTerminal
  <1>6. ReadyF' = ReadyF
    BY <1>1, <1>5, InvFacts, OneTerminal
  <1>7. DstF' = DstF
    BY DEF DstF
  <1>8. CASE Edited(input) = <<>>
    <2>1. n = 0
      BY <1>8 DEF Erased
    <2>2. SubSeq(Edited(input), 1, n) = <<>>
      BY <2>1, SubSeqEmpty
    <2>3. EditF' = EditF
      BY <1>1, <1>5, <1>8, <2>2, InvFacts, OneTerminal
    <2> QED BY <1>4, <1>6, <1>7, <2>3 DEF Simulates
  <1>9. CASE Edited(input) # <<>>
    <2>1. n \in {0, Len(EditF[active]) - 1}
      BY <1>5
    <2>2. T!Erase(active)
      BY <1>1, <1>5, <1>6, <1>7, <1>9, <2>1, InvFacts, EraseStep
    <2>3. T!Next
      BY <2>2, InvFacts DEF T!Next
    <2> QED BY <1>4, <2>3 DEF Simulates
  <1> QED BY <1>8, <1>9

\* Control-U.
LEMMA KillLineStep ==
  ASSUME Inv, KillLine
  PROVE  Inv' /\ Simulates
  <1> DEFINE ends == {k \in 1..Len(Edited(input)) : Edited(input)[k] = "nl"}
  <1>1. ends = {}
    BY InvFacts DEF Good, LineEnds
  <1>2. Max(ends \cup {0}) = 0
    <2>1. ends \cup {0} = {0}
      BY <1>1
    <2>2. Max({0}) = 0
      BY DEF Max
    <2> QED BY <2>1, <2>2
  <1>3. input' = [input EXCEPT !.e = (input.w + 0) % W] /\ UNCHANGED <<inputs, active, at, missed, con>>
    BY <1>2 DEF KillLine, Pressed
  <1>4. Erased(input, input', 0)
    BY <1>3, InvFacts DEF Erased
  <1> QED BY <1>3, <1>4, EraseKeeps

\* Control-H.
LEMMA BackspaceStep ==
  ASSUME Inv, Backspace
  PROVE  Inv' /\ Simulates
  <1>1. PICK a, c \in 0..(W - 1), r, w, e \in 0..(W - 1) :
           /\ Laid(input, a, c) /\ a + c <= INPUT_BUF /\ r = input.r /\ w = input.w /\ e = input.e
           /\ w = r + a \/ w = (r + a) - W
           /\ e = w + c \/ e = (w + c) - W
    BY InvFacts, Sizing
  <1>2. Len(Edited(input)) = c
    BY <1>1, LaidSeqs
  <1>3. c # 0
    BY <1>1, ConstFacts DEF Backspace
  <1>4. PICK n \in Nat : n = c - 1 /\ n \in 0..(W - 1)
    BY <1>3, ConstFacts
  <1>5. (e - 1) % W = (w + n) % W
    <2>1. PICK x \in 0..(W - 1) : x = (w + n) % W /\ (x = w + n \/ x = (w + n) - W)
      BY <1>4, ConstFacts, Forward
    <2>2. e - 1 = x \/ e - 1 = x - W
      BY <1>1, <1>4, <2>1, ConstFacts
    <2>3. (e - 1) % W = x
      BY <2>2, ConstFacts, ModSmall, Distance
    <2> QED BY <2>1, <2>3
  <1>6. input' = [input EXCEPT !.e = (input.w + n) % W] /\ UNCHANGED <<inputs, active, at, missed, con>>
    BY <1>1, <1>5 DEF Backspace, Pressed
  <1>7. Erased(input, input', n) /\ n = Len(Edited(input)) - 1
    BY <1>2, <1>4, <1>6 DEF Erased
  <1> QED BY <1>6, <1>7, EraseKeeps

\* Any other character.
LEMMA TypeStep ==
  ASSUME Inv, NEW ch \in Chars, Type(ch)
  PROVE  Inv' /\ Simulates
  <1>1. PICK s \in Alphabet : s = Stored(ch) /\ s \in {Stored(x) : x \in Chars}
    BY DEF Alphabet
  <1>2. Typed(input, input', s) /\ UNCHANGED <<inputs, active, con>>
    BY <1>1 DEF Type, Pressed, Typed, Entered
  <1>3. IF Entered(input, s) THEN Wakeup(Procs) /\ missed' = {} ELSE UNCHANGED <<at, missed>>
    BY <1>1 DEF Type, Enters, Entered
  <1> HIDE DEF Entered
  <1>4. /\ Good(input')
        /\ Len(Ready(input) \o Append(Edited(input), s)) <= INPUT_BUF
        /\ Entered(input, s) <=> s \in LineEnds \/ Len(Ready(input) \o Append(Edited(input), s)) = INPUT_BUF
        /\ IF Entered(input, s)
           THEN Ready(input') = Ready(input) \o Append(Edited(input), s) /\ Edited(input') = <<>>
           ELSE Ready(input') = Ready(input) /\ Edited(input') = Append(Edited(input), s)
    BY <1>2, InvFacts, TypeBuffer
  <1>5. /\ at' \in [Procs -> [pc : {"user", "loop", "sleep"}, n : Int, dst : Seq(Alphabet)]]
        /\ \A p \in Procs : at'[p].dst = at[p].dst
        /\ Entered(input, s) => \A p \in Procs : at'[p].pc # "sleep"
    <2>1. CASE Entered(input, s)
      <3>1. at' = [p \in Procs |-> IF p \in Sleepers THEN [at[p] EXCEPT !.pc = "loop"] ELSE at[p]]
        BY <1>3, <2>1 DEF Wakeup
      <3> QED BY <3>1, InvFacts DEF Sleepers
    <2>2. CASE ~Entered(input, s)
      BY <1>3, <2>2, InvFacts
    <2> QED BY <2>1, <2>2
  <1>6. NoMissedLine'
    <2>1. CASE Entered(input, s)
      BY <1>5, <2>1 DEF NoMissedLine, Sleepers
    <2>2. CASE ~Entered(input, s)
      <3>1. NoMissedLine
        BY DEF Inv
      <3>2. at' = at /\ missed' = missed /\ Ready(input') = Ready(input)
        BY <1>3, <1>4, <2>2
      <3>3. Sleepers' = Sleepers
        BY <3>2 DEF Sleepers
      <3> QED BY <1>2, <3>1, <3>2, <3>3 DEF NoMissedLine
    <2> QED BY <2>1, <2>2
  <1>7. Types'
    BY <1>2, <1>5, InvFacts DEF Types
  <1>8. Inv'
    BY <1>2, <1>4, <1>6, <1>7, InvFacts DEF Inv
  <1>9. /\ EditF' = [EditF EXCEPT ![active] = Edited(input')]
        /\ ReadyF' = [ReadyF EXCEPT ![active] = Ready(input')]
        /\ EditF[active] = Edited(input) /\ ReadyF[active] = Ready(input)
    BY <1>2, InvFacts, OneTerminal
  <1>10. DstF' = DstF
    BY <1>5 DEF DstF
  <1>11. ~Entered(input, s) => ReadyF' = ReadyF
    BY <1>2, <1>4, <1>9, InvFacts, OneTerminal
  <1>12. T!Store(active, s)
    <2>1. Len(ReadyF[active] \o Append(EditF[active], s)) <= INPUT_BUF
      BY <1>4, <1>9
    <2>2. IF s \in LineEnds \/ Len(ReadyF[active] \o Append(EditF[active], s)) = INPUT_BUF
          THEN /\ ReadyF' = [ReadyF EXCEPT ![active] = ReadyF[active] \o Append(EditF[active], s)]
               /\ EditF' = [EditF EXCEPT ![active] = <<>>]
          ELSE EditF' = [EditF EXCEPT ![active] = Append(EditF[active], s)] /\ ReadyF' = ReadyF
      BY <1>4, <1>9, <1>11
    <2> QED BY <1>10, <2>1, <2>2, InvFacts, StoreStep
  <1>13. T!Next
    BY <1>1, <1>12, InvFacts DEF T!Next
  <1> QED BY <1>2, <1>8, <1>13 DEF Simulates

\* consoleread is called.
LEMMA CallReadStep ==
  ASSUME Inv, NEW p \in Procs, CallRead(p)
  PROVE  Inv' /\ Simulates
  <1>1. PICK n \in Sizes : /\ at' = [at EXCEPT ![p] = [pc |-> "loop", n |-> n, dst |-> <<>>]]
                           /\ UNCHANGED <<input, inputs, active, con, missed>>
    BY DEF CallRead
  <1>2. n \in Int /\ <<>> \in Seq(Alphabet)
    BY ConsoleAssumption
  <1>3. at' \in [Procs -> [pc : {"user", "loop", "sleep"}, n : Int, dst : Seq(Alphabet)]]
    BY <1>1, <1>2, InvFacts
  <1>4. NoMissedLine'
    <2>1. NoMissedLine
      BY DEF Inv
    <2>2. Sleepers' \subseteq Sleepers
      BY <1>1, InvFacts DEF Sleepers
    <2> QED BY <1>1, <2>1, <2>2 DEF NoMissedLine
  <1>5. Inv'
    BY <1>1, <1>3, <1>4, InvFacts DEF Inv, Types
  <1>6. EditF' = EditF /\ ReadyF' = ReadyF
    BY <1>1 DEF EditF, ReadyF, Buffer
  <1>7. DstF' = [DstF EXCEPT ![p] = <<>>]
    BY <1>1, InvFacts DEF DstF
  <1>8. T!Call(p)
    BY <1>6, <1>7 DEF T!Call, EditF, ReadyF, DstF
  <1>9. T!Next
    BY <1>8 DEF T!Next
  <1> QED BY <1>1, <1>5, <1>9 DEF Simulates

\* A reader is killed.
LEMMA KillStep ==
  ASSUME Inv, NEW p \in Procs, Kill(p)
  PROVE  Inv' /\ Simulates
  <1>1. /\ at' = [q \in Procs |-> IF q \in {p} \cap Sleepers THEN [at[q] EXCEPT !.pc = "loop"] ELSE at[q]]
        /\ missed' = missed \ {p} /\ UNCHANGED <<input, inputs, active, con>>
    BY DEF Kill, Wakeup
  <1>2. /\ at' \in [Procs -> [pc : {"user", "loop", "sleep"}, n : Int, dst : Seq(Alphabet)]]
        /\ \A q \in Procs : at'[q].dst = at[q].dst
    BY <1>1, InvFacts
  <1>3. Sleepers' \subseteq Sleepers \ {p}
    BY <1>1, InvFacts DEF Sleepers
  <1>4. NoMissedLine'
    <2>1. NoMissedLine
      BY DEF Inv
    <2> QED BY <1>1, <1>3, <2>1 DEF NoMissedLine
  <1>5. Inv'
    BY <1>1, <1>2, <1>4, InvFacts DEF Inv, Types
  <1>6. EditF' = EditF /\ ReadyF' = ReadyF
    BY <1>1 DEF EditF, ReadyF, Buffer
  <1>7. DstF' = DstF
    BY <1>2 DEF DstF
  <1> QED BY <1>1, <1>5, <1>6, <1>7 DEF Simulates

\* What consoleread takes in one round: m characters leave the buffer, got are stored.
Takes(p, k, m, got) ==
  /\ m \in Nat /\ m <= Len(Ready(input)) /\ (active # con[p] => m = 0) /\ got \in Seq(Alphabet)
  /\ Taken(p, k).r = (input.r + m) % W /\ Taken(p, k).n \in Int
  /\ Taken(p, k).dst = at[p].dst \o got
  /\ IF k = 0 THEN m = 0 /\ got = <<>>
     ELSE /\ active = con[p] /\ got = SubSeq(Ready(input), 1, IF Ready(input)[k] = "eof" THEN k - 1 ELSE k)
          /\ m = IF at[p].dst \o got = <<>> THEN k ELSE Len(got)
  /\ k = 0 \/ Found(p)[k] # "eof" => m = k

\* What a reader takes and keeps is determined.
LEMMA TakesExist ==
  ASSUME Inv, NEW p \in Procs, NEW k \in 0..Len(Found(p))
  PROVE  \E m, got : Takes(p, k, m, got)
  <1>1. PICK s \in Seq(Alphabet) : s = Ready(input) /\ (active = con[p] => Found(p) = s)
    BY InvFacts DEF Found
  <1>2. PICK t \in Seq(Alphabet) : t = Found(p) /\ (active # con[p] => t = <<>>)
    <2>1. <<>> \in Seq(Alphabet)
      OBVIOUS
    <2> QED BY <1>1, <2>1 DEF Found
  <1>3. k \in 0..Len(t) /\ Len(t) \in Nat /\ Len(s) \in Nat /\ (active # con[p] => k = 0)
    BY <1>1, <1>2, LenProperties
  <1>4. at[p].dst \in Seq(Alphabet) /\ at[p].n \in Int
    BY InvFacts
  <1>5. PICK eof \in BOOLEAN : eof = (k > 0 /\ t[k] = "eof")
    OBVIOUS
  <1>0. (eof => k > 0 /\ t[k] = "eof") /\ (~eof => k = 0 \/ t[k] # "eof")
    <2>1. (eof => k > 0 /\ t[k] = "eof") /\ (~eof => ~(k > 0) \/ t[k] # "eof")
      BY <1>5, Zenon
    <2> QED BY <1>3, <2>1
  <1>6. PICK j \in 0..Len(t) : j = (IF eof THEN k - 1 ELSE k)
    <2>1. k - 1 \in 0..Len(t) \/ ~(k > 0)
      BY <1>3
    <2> QED BY <1>0, <1>3, <2>1
  <1>7. PICK got : got = SubSeq(t, 1, j)
    OBVIOUS
  <1>8. PICK put \in {0, 1} : put = (IF eof /\ at[p].dst \o got # <<>> THEN 1 ELSE 0)
    OBVIOUS
  <1>9. Taken(p, k) = [r |-> (input.r + k - put) % W, n |-> at[p].n - Len(got), dst |-> at[p].dst \o got]
    BY ONLY <1>2, <1>5, <1>6, <1>7, <1>8, Zenon DEF Taken
  <1>10. got \in Seq(Alphabet) /\ Len(got) = j
    <2>1. \A i \in 1..j : t[i] \in Alphabet
      BY <1>2, <1>3, <1>6, ElementOfSeq
    <2>2. got \in Seq(Alphabet) /\ Len(got) = IF 1 <= j THEN j - 1 + 1 ELSE 0
      BY <1>3, <1>7, <2>1, SubSeqProperties
    <2> QED BY <1>3, <2>2
  <1>11. PICK m \in Nat : m = k - put
    <2>1. put = 1 => k > 0
      BY <1>0, <1>8
    <2> QED BY <1>3, <2>1
  <1>12. Taken(p, k).r = (input.r + m) % W /\ Taken(p, k).n \in Int /\ Taken(p, k).dst = at[p].dst \o got
    <2>1. Taken(p, k).r = (input.r + (k - put)) % W
      BY <1>9
    <2>2. Taken(p, k).n \in Int
      BY <1>3, <1>4, <1>9, <1>10
    <2> QED BY <1>9, <1>11, <2>1, <2>2
  <1>13. m <= Len(s) /\ (active # con[p] => m = 0) /\ (k = 0 \/ t[k] # "eof" => m = k)
    <2>1. k = 0 \/ t[k] # "eof" => put = 0
      BY <1>0, <1>8
    <2>2. Len(t) = Len(s) \/ k = 0
      BY <1>1, <1>2, <1>3
    <2>3. m <= Len(s) /\ (put = 0 => m = k)
      BY <1>3, <1>11, <2>2
    <2> QED BY <1>3, <2>1, <2>3
  <1>14. CASE k = 0
    <2>1. m = 0 /\ j = 0
      BY <1>3, <1>6, <1>14, <1>13
    <2>2. got = <<>>
      BY <1>7, <2>1, SubSeqEmpty
    <2>3. Takes(p, k, m, got)
      BY <1>1, <1>2, <1>10, <1>12, <1>13, <1>14, <2>1, <2>2 DEF Takes
    <2> QED BY <2>3
  <1>15. CASE k # 0
    <2>1. k > 0 /\ active = con[p] /\ t = s
      BY <1>1, <1>2, <1>3, <1>15
    <2>2. j = (IF s[k] = "eof" THEN k - 1 ELSE k)
      BY <1>0, <1>6, <2>1
    <2>3. m = (IF at[p].dst \o got = <<>> THEN k ELSE Len(got))
      BY <1>0, <1>3, <1>6, <1>8, <1>10, <1>11, <2>1
    <2>4. got = SubSeq(Ready(input), 1, IF Ready(input)[k] = "eof" THEN k - 1 ELSE k)
      BY <1>1, <1>7, <2>1, <2>2
    <2>5. Takes(p, k, m, got)
      BY <1>1, <1>2, <1>10, <1>12, <1>13, <1>15, <2>1, <2>3, <2>4 DEF Takes
    <2> QED BY <2>5
  <1> QED BY <1>14, <1>15

\* consoleread takes characters up to the end of a line or of what is entered.
LEMMA TakeStep ==
  ASSUME Inv, NEW p \in Procs, NEW k \in 0..Len(Found(p)), NEW pc \in {"user", "sleep"},
         \A i \in 1..(k - 1) : Found(p)[i] \notin LineEnds,
         pc = "sleep" => k = Len(Found(p)) /\ (k = 0 \/ Found(p)[k] # "eof"),
         Take(p, k, pc)
  PROVE  Inv' /\ Simulates
  <1>1. PICK m, got : Takes(p, k, m, got)
    BY TakesExist
  <1>2. /\ input' = [input EXCEPT !.r = (input.r + m) % W]
        /\ at' = [at EXCEPT ![p] = [pc |-> pc, n |-> Taken(p, k).n, dst |-> at[p].dst \o got]]
        /\ UNCHANGED <<inputs, active, con, missed>>
    BY <1>1 DEF Take, Takes
  <1>3. /\ m \in Nat /\ m <= Len(Ready(input)) /\ (active # con[p] => m = 0) /\ got \in Seq(Alphabet)
        /\ Taken(p, k).n \in Int
    BY <1>1 DEF Takes
  <1>4. Shorter(input, input', m)
    BY <1>2, <1>3 DEF Shorter
  <1>5. /\ Good(input') /\ Ready(input') = SubSeq(Ready(input), m + 1, Len(Ready(input)))
        /\ Edited(input') = Edited(input)
    BY <1>3, <1>4, InvFacts, TakeBuffer
  <1>6. at[p].dst \o got \in Seq(Alphabet)
    BY <1>3, InvFacts, ConcatProperties
  <1>7. at' \in [Procs -> [pc : {"user", "loop", "sleep"}, n : Int, dst : Seq(Alphabet)]]
    BY <1>2, <1>3, <1>6, InvFacts
  <1>8. m = 0 => Ready(input') = Ready(input)
    <2>1. m = 0 => Ready(input') = SubSeq(Ready(input), 1, Len(Ready(input)))
      BY <1>5
    <2> QED BY <2>1, InvFacts, SubSeqFull
  <1>9. Ready(input') # <<>> => Ready(input) # <<>>
    <2>1. SUFFICES ASSUME Ready(input) = <<>> PROVE Ready(input') = <<>>
      OBVIOUS
    <2>2. m = 0
      BY <1>3, <2>1
    <2> QED BY <1>8, <2>1, <2>2
  <1>10. NoMissedLine'
    <2>1. SUFFICES ASSUME NEW q \in Procs, at'[q].pc = "sleep", active = con[q], Ready(input') # <<>>
                   PROVE  q \in missed
      BY <1>2 DEF NoMissedLine, Sleepers
    <2>2. CASE q # p
      <3>1. q \in Sleepers
        BY <1>2, <2>1, <2>2, InvFacts DEF Sleepers
      <3> QED BY <1>9, <2>1, <3>1 DEF Inv, NoMissedLine
    <2>3. CASE q = p
      <3>1. pc = "sleep"
        BY <1>2, <2>1, <2>3, InvFacts
      <3>2. k = Len(Found(p)) /\ m = k
        BY <1>1, <3>1 DEF Takes
      <3>3. m = Len(Ready(input))
        BY <2>1, <2>3, <3>2 DEF Found
      <3>4. Ready(input') = <<>>
        <4>1. m + 1 \in Int /\ Len(Ready(input)) \in Int /\ Len(Ready(input)) < m + 1
          BY <1>3, <3>3
        <4> QED BY <1>5, <4>1, SubSeqEmpty
      <3> QED BY <2>1, <3>4
    <2> QED BY <2>2, <2>3
  <1>11. Inv'
    BY <1>2, <1>5, <1>7, <1>10, InvFacts DEF Inv, Types
  <1>12. /\ EditF' = [EditF EXCEPT ![active] = Edited(input')]
         /\ ReadyF' = [ReadyF EXCEPT ![active] = Ready(input')]
         /\ EditF[active] = Edited(input) /\ ReadyF[active] = Ready(input)
    BY <1>2, InvFacts, OneTerminal
  <1>13. EditF' = EditF
    BY <1>2, <1>5, <1>12, InvFacts, OneTerminal
  <1>14. DstF' = [DstF EXCEPT ![p] = DstF[p] \o got] /\ DstF[p] = at[p].dst /\ DstF \in [Procs -> Seq(Alphabet)]
    BY <1>2, InvFacts DEF DstF
  <1>15. CASE k = 0
    <2>1. m = 0 /\ got = <<>>
      BY <1>1, <1>15 DEF Takes
    <2>2. ReadyF' = ReadyF
      BY <1>2, <1>8, <1>12, <2>1, InvFacts, OneTerminal
    <2>3. DstF[p] \o <<>> = DstF[p]
      BY <1>14
    <2>4. DstF' = DstF
      BY <1>14, <2>1, <2>3
    <2> QED BY <1>2, <1>11, <1>13, <2>2, <2>4 DEF Simulates
  <1>16. CASE k # 0
    <2>1. /\ active = con[p] /\ got = SubSeq(Ready(input), 1, IF Ready(input)[k] = "eof" THEN k - 1 ELSE k)
          /\ m = IF at[p].dst \o got = <<>> THEN k ELSE Len(got)
      BY <1>1, <1>16 DEF Takes
    <2>2. ReadyF[con[p]] = Ready(input) /\ Found(p) = Ready(input) /\ k \in 1..Len(Ready(input))
      BY <1>12, <1>16, <2>1 DEF Found
    <2>3. DstF'[p] = at[p].dst \o got
      BY <1>14
    <2>4. Reads(p, k)
      <3>1. ReadyF' = [ReadyF EXCEPT ![con[p]] = SubSeq(ReadyF[con[p]], (IF DstF'[p] = <<>> THEN k ELSE Len(got)) + 1, Len(ReadyF[con[p]]))]
        BY <1>5, <1>12, <2>1, <2>2, <2>3
      <3>2. got = SubSeq(ReadyF[con[p]], 1, IF ReadyF[con[p]][k] = "eof" THEN k - 1 ELSE k)
        BY <2>1, <2>2
      <3>3. k \in 1..Len(ReadyF[con[p]]) /\ \A i \in 1..(k - 1) : ReadyF[con[p]][i] \notin LineEnds
        BY <2>2
      <3> QED BY <1>13, <1>14, <3>1, <3>2, <3>3 DEF Reads
    <2>5. T!Read(p)
      BY <2>4, ReadStep
    <2>6. T!Next
      BY <2>5 DEF T!Next
    <2> QED BY <1>2, <1>11, <2>6 DEF Simulates
  <1> QED BY <1>15, <1>16

\* consoleread returns with a line, an end of file or all it was asked for.
LEMMA ReadReturnsStep ==
  ASSUME Inv, NEW p \in Procs, ReadReturns(p)
  PROVE  Inv' /\ Simulates
  <1>1. Len(Found(p)) \in Nat
    BY InvFacts, LenProperties DEF Found
  <1>2. Stops(p) \in SUBSET Nat /\ Stops(p) # {}
    BY <1>1 DEF Stops, ReadReturns
  <1>3. PICK k : k = Min(Stops(p))
    OBVIOUS
  <1>4. k \in Stops(p) /\ \A y \in Stops(p) : k <= y
    BY <1>2, <1>3, Smallest
  <1>5. k \in 0..Len(Found(p))
    BY <1>1, <1>4 DEF Stops
  <1>6. ASSUME NEW i \in 1..(k - 1) PROVE Found(p)[i] \notin LineEnds
    <2>1. i \in 1..Len(Found(p)) /\ ~(k <= i)
      BY <1>1, <1>5
    <2>2. i \notin Stops(p)
      BY <1>4, <2>1
    <2> QED BY <2>1, <2>2 DEF Stops
  <1>7. Take(p, k, "user")
    BY <1>3 DEF ReadReturns
  <1> QED BY <1>5, <1>6, <1>7, TakeStep

\* The characters that do not end the read are all taken.
LEMMA ReadWaitsStep ==
  ASSUME Inv, NEW p \in Procs, ReadSleeps(p) \/ ReadFails(p)
  PROVE  Inv' /\ Simulates
  <1>1. PICK k \in Nat : k = Len(Found(p))
    BY InvFacts, LenProperties DEF Found
  <1>2. \A i \in 1..k : Found(p)[i] \notin LineEnds
    BY <1>1 DEF Stops, ReadSleeps, ReadFails
  <1>3. k \in 0..Len(Found(p)) /\ \A i \in 1..(k - 1) : Found(p)[i] \notin LineEnds
    <2>1. \A i \in 1..(k - 1) : i \in 1..k
      OBVIOUS
    <2> QED BY <1>1, <1>2, <2>1
  <1>4. k = 0 \/ Found(p)[k] # "eof"
    BY <1>1, <1>2 DEF LineEnds
  <1>5. PICK pc \in {"user", "sleep"} : Take(p, k, pc)
    BY <1>1 DEF ReadSleeps, ReadFails
  <1> QED BY <1>1, <1>3, <1>4, <1>5, TakeStep

-----------------------------------------------------------------------------
(* The theorems *)

\* All buffers are empty at first, and so are the terminals.
LEMMA InitFacts == Init => Inv /\ T!Init
  <1> SUFFICES ASSUME Init PROVE Inv /\ T!Init
    OBVIOUS
  <1>1. Laid(NoInput, 0, 0)
    BY ConstFacts DEF Laid, NoInput, Buffers, Alphabet
  <1>2. Ready(NoInput) = <<>> /\ Edited(NoInput) = <<>> /\ NoInput \in Buffers
    <2>1. Ready(NoInput) \in Seq(Alphabet) /\ Len(Ready(NoInput)) = 0 /\ Edited(NoInput) \in Seq(Alphabet) /\ Len(Edited(NoInput)) = 0
      BY <1>1, LaidSeqs
    <2> QED BY <1>1, <2>1, EmptySeq DEF Laid
  <1>3. Good(NoInput)
    BY <1>2, ConstFacts DEF Good
  <1>4. /\ input = NoInput /\ inputs = [c \in Consoles |-> NoInput] /\ active = 0
        /\ con \in [Procs -> Consoles]
        /\ at = [p \in Procs |-> [pc |-> "user", n |-> 0, dst |-> <<>>]]
    BY ConsoleAssumption DEF Init
  <1> HIDE DEF NoInput
  <1>5. Types
    BY <1>2, <1>4, ConstFacts DEF Types
  <1>6. NoMissedLine
    BY <1>4 DEF NoMissedLine, Sleepers
  <1>7. Inv
    BY <1>3, <1>4, <1>5, <1>6 DEF Inv
  <1>8. \A c \in Consoles : Buffer(c) = NoInput
    BY <1>4 DEF Buffer
  <1>9. T!Init
    BY <1>2, <1>4, <1>8 DEF T!Init
  <1> QED BY <1>7, <1>9

\* Every step keeps the invariant and is a step of the terminals or none of theirs.
LEMMA NextStep == Inv /\ [Next]_vars => Inv' /\ Simulates
  <1> SUFFICES ASSUME Inv, [Next]_vars PROVE Inv' /\ Simulates
    OBVIOUS
  <1>1. CASE Switch
    BY <1>1, SwitchStep
  <1>2. CASE KillLine
    BY <1>2, KillLineStep
  <1>3. CASE Backspace
    BY <1>3, BackspaceStep
  <1>4. CASE \E ch \in Chars : Type(ch)
    BY <1>4, TypeStep
  <1>5. CASE \E p \in Procs : CallRead(p)
    BY <1>5, CallReadStep
  <1>6. CASE \E p \in Procs : ReadReturns(p)
    BY <1>6, ReadReturnsStep
  <1>7. CASE \E p \in Procs : ReadSleeps(p) \/ ReadFails(p)
    BY <1>7, ReadWaitsStep
  <1>8. CASE \E p \in Procs : Kill(p)
    BY <1>8, KillStep
  <1>9. CASE UNCHANGED vars
    <2>1. UNCHANGED <<input, inputs, active, con, at, missed>>
      BY <1>9 DEF vars
    <2>2. Sleepers' = Sleepers
      BY <2>1 DEF Sleepers
    <2>3. Inv'
      BY <2>1, <2>2 DEF Inv, Types, NoMissedLine
    <2>4. UNCHANGED <<EditF, ReadyF, DstF>>
      BY <2>1 DEF EditF, ReadyF, DstF, Buffer
    <2> QED BY <2>1, <2>3, <2>4 DEF Simulates
  <1> QED BY <1>1, <1>2, <1>3, <1>4, <1>5, <1>6, <1>7, <1>8, <1>9 DEF Next

\* Every reachable state satisfies the invariant.
LEMMA Invariance == Spec => []Inv
  <1>1. Init => Inv
    BY InitFacts
  <1>2. Inv /\ [Next]_vars => Inv'
    BY NextStep
  <1> QED BY <1>1, <1>2, PTL DEF Spec

\* Nobody sleeps in consoleread while the console on the screen is his and has
\* a line entered, unless control-T brought the console while he slept: whatever
\* the consoles, the readers and the keys.
THEOREM NoLineMissed == Spec => []NoMissedLine
  <1>1. Inv => NoMissedLine
    BY DEF Inv
  <1> QED BY <1>1, Invariance, PTL

\* Every step of the ring buffer, its wrapping indices and control-T's copies is
\* a step of the terminals that have a line and a queue each, or none of theirs.
THEOREM ConsoleImplementsTerminals == Spec => ImplementsTerminals
  <1>1. Init => T!Init
    BY InitFacts
  <1>2. Inv /\ [Next]_vars =>
          [T!Next /\ UNCHANGED con]_<<[c \in Consoles |-> Edited(Buffer(c))],
                                      [c \in Consoles |-> Ready(Buffer(c))],
                                      [p \in Procs |-> at[p].dst], con>>
    BY NextStep DEF Simulates, EditF, ReadyF, DstF
  <1> QED BY <1>1, <1>2, Invariance, PTL DEF Spec, ImplementsTerminals, T!Spec

=============================================================================
