----------------------------- MODULE PipeProofs ------------------------------
(***************************************************************************)
(* Proofs about the pipe: its page is freed exactly once, sleepers have a  *)
(* reason to sleep, and the ring buffer with its wrapping counters is a    *)
(* bounded queue, for every number of processes, every PIPESIZE and every  *)
(* width of the counters that PIPESIZE divides.                            *)
(***************************************************************************)
EXTENDS Pipe, Integers, Sequences, SequenceTheorems, FiniteSetTheorems, TLAPS

-----------------------------------------------------------------------------
(* Indices that wrap at M, a multiple of the ring buffer's size N *)

\* Quotient and remainder.
LEMMA ModRange ==
  ASSUME NEW m \in Nat, m > 0, NEW x \in Int
  PROVE  x % m \in 0..(m - 1) /\ x \div m \in Int /\ x = m * (x \div m) + (x % m)
  OBVIOUS

\* The remainder of a number less than two moduli away from 0.
LEMMA ModSmall ==
  ASSUME NEW m \in Nat, m > 0, NEW x \in Int
  PROVE  /\ 0 <= x /\ x < m => x % m = x
         /\ -m <= x /\ x < 0 => x % m = x + m
         /\ m <= x /\ x < 2 * m => x % m = x - m
  OBVIOUS

\* The remainder is determined.
LEMMA ModUnique ==
  ASSUME NEW m \in Nat, m > 0, NEW x \in Int, NEW d \in Int, NEW r \in 0..(m - 1), x = m * d + r
  PROVE  x % m = r
  OBVIOUS

\* An index that has wrapped names the same slot.
LEMMA SameSlot ==
  ASSUME NEW N \in Nat, N > 0, NEW M \in Nat, M % N = 0, NEW x \in Int
  PROVE  (x - M) % N = x % N
  <1>1. M = N * (M \div N) + (M % N) /\ M \div N \in Int
    BY ModRange
  <1>2. x = N * (x \div N) + (x % N) /\ x \div N \in Int /\ x % N \in 0..(N - 1)
    BY ModRange
  <1>3. PICK a, b \in Int : a = M \div N /\ b = x \div N
    BY <1>1, <1>2
  <1>4. PICK r \in 0..(N - 1) : r = x % N
    BY <1>2
  <1>5. M = N * a
    BY <1>1, <1>3
  <1>6. x - M = N * (b - a) + r
    BY <1>2, <1>3, <1>4, <1>5
  <1>7. x - M \in Int /\ b - a \in Int
    OBVIOUS
  <1>8. (x - M) % N = r
    BY <1>6, <1>7, ModUnique
  <1> QED BY <1>4, <1>8

\* Two positions less than N apart have different slots.
LEMMA SlotsDiffer ==
  ASSUME NEW N \in Nat, N > 0, NEW x \in Int, NEW y \in Int, x % N = y % N, x - y < N, y - x < N
  PROVE  x = y
  <1>1. x = N * (x \div N) + (x % N) /\ x \div N \in Int
    BY ModRange
  <1>2. y = N * (y \div N) + (y % N) /\ y \div N \in Int
    BY ModRange
  <1>3. PICK a, b \in Int : a = x \div N /\ b = y \div N
    BY <1>1, <1>2
  <1>4. x % N \in Int /\ y % N \in Int
    BY ModRange
  <1>5. x - y = N * (a - b)
    BY <1>1, <1>2, <1>3, <1>4
  <1> QED BY <1>5

\* A function on 1..n is a sequence of length n.
LEMMA FunctionIsSeq ==
  ASSUME NEW n \in Nat, NEW S, NEW f \in [1..n -> S]
  PROVE  f \in Seq(S) /\ Len(f) = n
  <1>1. f \in Seq(S)
    BY SeqDef
  <1>2. Len(f) \in Nat /\ DOMAIN f = 1..Len(f) /\ DOMAIN f = 1..n
    BY <1>1, LenProperties
  <1> QED BY <1>1, <1>2

-----------------------------------------------------------------------------
(* The inductive invariant *)

Holders(e) == {p \in Procs : e \in ofile[p]}
CloseAt(e) == IF e = "r" THEN "close_r" ELSE "close_w"
Closers(e) == {p \in Procs : pc[p] = CloseAt(e)}

\* f->ref counts the descriptors; a process inside a call has the descriptor it entered with.
Refs == \A e \in Ends : ref[e] = Cardinality(Holders(e))
Attached ==
  \A p \in Procs : /\ pc[p] \in {"unborn", "dead"} => ofile[p] = {}
                   /\ pc[p] \in {"write", "wsleep"} => "w" \in ofile[p]
                   /\ pc[p] \in {"read", "rsleep"} => "r" \in ofile[p]

\* The last one to close an end is alone in pipeclose for it, and until it has been there
\* the end is open.
LastCloses ==
  \A e \in Ends : \A p \in Closers(e) : Holders(e) = {} /\ Closers(e) = {p}
EndsOpen ==
  /\ readopen <=> (Holders("r") # {} \/ Closers("r") # {})
  /\ writeopen <=> (Holders("w") # {} \/ Closers("w") # {})
Freed == freed = IF readopen \/ writeopen THEN 0 ELSE 1

RefInv == Refs /\ Attached /\ LastCloses /\ EndsOpen /\ Freed
NeverOverfull == Used <= PIPESIZE

Inv == TypeOK /\ RefInv /\ NeverOverfull /\ SleepersWait

-----------------------------------------------------------------------------
(* Counters that wrap *)

\* What the assumption says about the constants.
LEMMA ConstFacts ==
  /\ PIPESIZE \in Nat /\ W \in Nat /\ PIPESIZE > 0 /\ PIPESIZE < W /\ W > 0 /\ W % PIPESIZE = 0
  /\ "r" \in Ends /\ "w" \in Ends /\ First \in Procs
  BY PipeAssumption DEF Ends

\* Counters that wrap at W count the bytes between them, as long as these are at most PIPESIZE.
LEMMA Wraps ==
  ASSUME NEW w \in 0..(W - 1), NEW r \in 0..(W - 1), NEW u \in Int, u = (w - r) % W, u <= PIPESIZE
  PROVE  /\ u \in 0..PIPESIZE /\ (w = r + u \/ w = r + u - W)
         /\ (r + PIPESIZE - w) % W = PIPESIZE - u
         /\ \A k \in Nat : u + k <= PIPESIZE => ((w + k) % W) \in 0..(W - 1) /\ (((w + k) % W) - r) % W = u + k
         /\ \A k \in Nat : k <= u => ((r + k) % W) \in 0..(W - 1) /\ (w - ((r + k) % W)) % W = u - k
         /\ \A k \in Nat : k <= u => (r + k) % W = r + k \/ (r + k) % W = r + k - W
  <1>1. w - r \in Int /\ -W <= w - r /\ w - r < W
    BY ConstFacts
  <1>2. \/ 0 <= w - r /\ u = w - r
        \/ w - r < 0 /\ u = w - r + W
    BY <1>1, ConstFacts, ModSmall
  <1>3. u \in 0..PIPESIZE /\ (w = r + u \/ w = r + u - W)
    BY <1>1, <1>2, ConstFacts
  <1>4. (r + PIPESIZE - w) % W = PIPESIZE - u
    <2>1. r + PIPESIZE - w \in Int
      BY ConstFacts
    <2>2. CASE w = r + u
      <3>1. r + PIPESIZE - w = PIPESIZE - u /\ 0 <= PIPESIZE - u /\ PIPESIZE - u < W
        BY <1>3, <2>2, ConstFacts
      <3> QED BY <2>1, <3>1, ConstFacts, ModSmall
    <2>3. CASE w = r + u - W
      <3>1. r + PIPESIZE - w = PIPESIZE - u + W /\ W <= r + PIPESIZE - w /\ r + PIPESIZE - w < 2 * W
        BY <1>3, <2>3, ConstFacts
      <3>2. (r + PIPESIZE - w) % W = r + PIPESIZE - w - W
        BY <2>1, <3>1, ConstFacts, ModSmall
      <3> QED BY <1>3, <3>1, <3>2, ConstFacts
    <2> QED BY <1>3, <2>2, <2>3
  <1>5. ASSUME NEW x \in 0..(W - 1), NEW y \in 0..(W - 1), NEW v \in 0..PIPESIZE,
               x = y + v \/ x = y + v - W
        PROVE  (x - y) % W = v
    <2>1. x - y \in Int /\ v < W /\ 0 <= v
      BY ConstFacts
    <2>2. CASE x = y + v
      <3>1. x - y = v
        BY <2>2
      <3> QED BY <2>1, <3>1, ConstFacts, ModSmall
    <2>3. CASE x = y + v - W
      <3>1. -W <= x - y /\ x - y < 0 /\ x - y + W = v
        BY <2>1, <2>3, ConstFacts
      <3> QED BY <2>1, <3>1, ConstFacts, ModSmall
    <2> QED BY <1>5, <2>2, <2>3
  <1>6. ASSUME NEW x \in 0..(W - 1), NEW k \in 0..PIPESIZE
        PROVE  ((x + k) % W) \in 0..(W - 1) /\ ((x + k) % W = x + k \/ (x + k) % W = x + k - W)
    <2>1. x + k \in Int /\ 0 <= x + k /\ x + k < 2 * W
      BY ConstFacts
    <2>2. ((x + k) % W) \in 0..(W - 1)
      BY <2>1, ConstFacts, ModRange
    <2>3. (x + k) % W = x + k \/ (x + k) % W = x + k - W
      BY <2>1, ConstFacts, ModSmall
    <2> QED BY <2>2, <2>3
  <1>7. ASSUME NEW k \in Nat, u + k <= PIPESIZE
        PROVE  ((w + k) % W) \in 0..(W - 1) /\ (((w + k) % W) - r) % W = u + k
    <2>0. k \in 0..PIPESIZE
      BY <1>3, <1>7, ConstFacts
    <2>1. PICK x \in 0..(W - 1) : x = (w + k) % W /\ (x = w + k \/ x = w + k - W)
      BY <1>6, <2>0
    <2>2. x = r + (u + k) \/ x = r + (u + k) - W
      BY <1>3, <1>7, <2>1, ConstFacts
    <2>3. (x - r) % W = u + k
      BY <1>3, <1>5, <1>7, <2>2, ConstFacts
    <2> QED BY <2>1, <2>3
  <1>8. ASSUME NEW k \in Nat, k <= u
        PROVE  /\ ((r + k) % W) \in 0..(W - 1) /\ (w - ((r + k) % W)) % W = u - k
               /\ (r + k) % W = r + k \/ (r + k) % W = r + k - W
    <2>0. k \in 0..PIPESIZE
      BY <1>3, <1>8, ConstFacts
    <2>1. PICK x \in 0..(W - 1) : x = (r + k) % W /\ (x = r + k \/ x = r + k - W)
      BY <1>6, <2>0
    <2>2. w = x + (u - k) \/ w = x + (u - k) - W
      BY <1>3, <1>8, <2>1, ConstFacts
    <2>3. (w - x) % W = u - k
      BY <1>3, <1>5, <1>8, <2>2, ConstFacts
    <2> QED BY <2>1, <2>3
  <1> QED BY <1>3, <1>4, <1>7, <1>8

-----------------------------------------------------------------------------
(* What the invariant says *)

\* The types of the variables.
LEMMA TypeFacts ==
  ASSUME Inv
  PROVE  /\ data \in [0..(PIPESIZE - 1) -> Bytes]
         /\ nread \in 0..(W - 1) /\ nwrite \in 0..(W - 1)
         /\ readopen \in BOOLEAN /\ writeopen \in BOOLEAN /\ freed \in Nat
         /\ ref \in [Ends -> Nat] /\ ofile \in [Procs -> SUBSET Ends]
         /\ pc \in [Procs -> Points] /\ left \in [Procs -> Nat]
         /\ exiting \in [Procs -> BOOLEAN] /\ killed \in [Procs -> BOOLEAN]
  BY DEF Inv, TypeOK

\* The invariant's part about descriptors.
LEMMA RefFacts ==
  ASSUME Inv
  PROVE  /\ Refs /\ Attached /\ LastCloses /\ EndsOpen /\ Freed
         /\ \A e \in Ends : IsFiniteSet(Holders(e))
  <1>1. \A e \in Ends : Holders(e) \subseteq Procs
    BY DEF Holders
  <1>2. \A e \in Ends : IsFiniteSet(Holders(e))
    BY <1>1, PipeAssumption, FS_Subset
  <1> QED BY <1>2 DEF Inv, RefInv

\* The bytes in the pipe and the room left add up to PIPESIZE.
LEMMA RoomFacts ==
  ASSUME Inv
  PROVE  Used \in 0..PIPESIZE /\ Room = PIPESIZE - Used
  <1>1. PICK u \in Int : u = Used
    <2>1. nwrite - nread \in Int
      BY TypeFacts
    <2>2. (nwrite - nread) % W \in 0..(W - 1)
      BY <2>1, ConstFacts, ModRange
    <2> QED BY <2>2 DEF Used
  <1>2. u = (nwrite - nread) % W /\ u <= PIPESIZE
    BY <1>1 DEF Used, Inv, NeverOverfull
  <1> QED BY <1>1, <1>2, TypeFacts, Wraps DEF Room

\* Inside a call the pipe is open at that end.
LEMMA InsideOpen ==
  ASSUME Inv, NEW p \in Procs
  PROVE  /\ pc[p] \in {"write", "wsleep"} => writeopen
         /\ pc[p] \in {"read", "rsleep"} => readopen
  BY RefFacts DEF Attached, EndsOpen, Holders

\* The bytes pipewrite stores fit, and nothing else about the pipe changes.
LEMMA StoreFits ==
  ASSUME Inv, NEW p \in Procs, Store(p), UNCHANGED nread
  PROVE  \E k \in Nat : /\ k = Least(left[p], Room) /\ Used + k <= PIPESIZE
                        /\ Used' = Used + k /\ nwrite' \in 0..(W - 1) /\ nwrite' = (nwrite + k) % W
                        /\ data' \in [0..(PIPESIZE - 1) -> Bytes]
                        /\ k = 0 => data' = data /\ nwrite' = nwrite
  <1>1. PICK u \in 0..PIPESIZE : u = Used /\ u = (nwrite - nread) % W /\ Room = PIPESIZE - u
    BY RoomFacts DEF Used
  <1>2. PICK k \in Nat : k = Least(left[p], Room) /\ u + k <= PIPESIZE
    <2>1. PICK n \in Nat : n = left[p]
      BY TypeFacts
    <2>2. PICK r \in Nat : r = Room /\ u + r = PIPESIZE
      BY <1>1, ConstFacts
    <2>3. Least(n, r) \in Nat /\ Least(n, r) <= r
      BY DEF Least
    <2>4. u + Least(n, r) <= PIPESIZE
      BY <2>2, <2>3, ConstFacts
    <2> QED BY <2>1, <2>2, <2>3, <2>4
  <1>3. /\ nwrite' = (nwrite + k) % W
        /\ \E s \in [0..(k - 1) -> Bytes] :
             data' = [i \in DOMAIN data |->
                        IF \E j \in 0..(k - 1) : (nwrite + j) % PIPESIZE = i
                          THEN s[CHOOSE j \in 0..(k - 1) : (nwrite + j) % PIPESIZE = i]
                          ELSE data[i]]
    BY <1>2 DEF Store
  <1>4. nwrite' \in 0..(W - 1) /\ Used' = u + k
    <2>1. PICK w, r \in 0..(W - 1) : w = nwrite /\ r = nread
      BY TypeFacts
    <2>2. u \in Int /\ u = (w - r) % W /\ u <= PIPESIZE
      BY <1>1, <2>1, ConstFacts
    <2>3. ((w + k) % W) \in 0..(W - 1) /\ (((w + k) % W) - r) % W = u + k
      BY <1>2, <2>2, Wraps
    <2>4. nwrite' = (w + k) % W /\ nread' = r
      BY <1>3, <2>1
    <2> QED BY <2>3, <2>4 DEF Used
  <1>5. PICK s \in [0..(k - 1) -> Bytes] :
             data' = [i \in DOMAIN data |->
                        IF \E j \in 0..(k - 1) : (nwrite + j) % PIPESIZE = i
                          THEN s[CHOOSE j \in 0..(k - 1) : (nwrite + j) % PIPESIZE = i]
                          ELSE data[i]]
    BY <1>3
  <1>6. data' \in [0..(PIPESIZE - 1) -> Bytes]
    <2>1. \A i \in 0..(PIPESIZE - 1) : (\E j \in 0..(k - 1) : (nwrite + j) % PIPESIZE = i) =>
            s[CHOOSE j \in 0..(k - 1) : (nwrite + j) % PIPESIZE = i] \in Bytes
      OBVIOUS
    <2> QED BY <1>5, <2>1, TypeFacts
  <1>7. ASSUME k = 0 PROVE data' = data /\ nwrite' = nwrite
    <2>1. 0..(k - 1) = {}
      BY <1>7
    <2>2. data' = [i \in DOMAIN data |-> data[i]]
      BY <1>5, <2>1
    <2>3. (nwrite + k) % W = nwrite
      <3>0. nwrite \in 0..(W - 1) /\ W \in Nat
        BY TypeFacts, PipeAssumption
      <3>1. nwrite \in Int /\ nwrite + k = nwrite /\ 0 <= nwrite /\ nwrite < W
        BY <1>7, <3>0
      <3> QED BY <3>1, ConstFacts, ModSmall
    <2> QED BY <1>3, <2>2, <2>3, TypeFacts
  <1> QED BY <1>1, <1>2, <1>3, <1>4, <1>6, <1>7

-----------------------------------------------------------------------------
(* The references *)

\* Steps that open, close and leave nothing.
LEMMA RefsSteady ==
  ASSUME Inv, UNCHANGED <<ref, ofile, readopen, writeopen, freed>>,
         \A q \in Procs :
           \/ pc'[q] = pc[q]
           \/ /\ pc[q] \notin {"close_r", "close_w"} /\ pc'[q] \notin {"close_r", "close_w", "unborn"}
              /\ pc'[q] = "dead" => ofile[q] = {}
              /\ pc'[q] \in {"write", "wsleep"} => "w" \in ofile[q]
              /\ pc'[q] \in {"read", "rsleep"} => "r" \in ofile[q]
  PROVE  RefInv'
  <1>1. \A e \in Ends : Holders(e)' = Holders(e) /\ Closers(e)' = Closers(e)
    BY DEF Holders, Closers, CloseAt
  <1>2. Refs' /\ LastCloses' /\ EndsOpen' /\ Freed'
    BY <1>1, RefFacts, ConstFacts DEF Refs, LastCloses, EndsOpen, Freed
  <1>3. Attached'
    BY RefFacts DEF Attached
  <1> QED BY <1>2, <1>3 DEF RefInv

\* fileclose drops a descriptor; the last of an end goes on to pipeclose.
LEMMA FileCloseRefs ==
  ASSUME Inv, NEW p \in Procs, NEW e \in Ends, FileClose(p, e)
  PROVE  RefInv'
  <1>1. /\ pc[p] = "user" /\ e \in ofile[p] /\ UNCHANGED <<readopen, writeopen, freed>>
        /\ ofile' = [ofile EXCEPT ![p] = @ \ {e}] /\ ref' = [ref EXCEPT ![e] = @ - 1]
    BY DEF FileClose, pipeVars
  <1>2. \A q \in Procs, f \in Ends : f \in ofile'[q] <=> f \in ofile[q] /\ ~(q = p /\ f = e)
    BY <1>1, TypeFacts
  <1>3. /\ Holders(e)' = Holders(e) \ {p} /\ \A f \in Ends : f # e => Holders(f)' = Holders(f)
    BY <1>2 DEF Holders
  <1>4. p \in Holders(e) /\ Closers(e) = {}
    BY <1>1, RefFacts DEF Holders, LastCloses
  <1>5. /\ Cardinality(Holders(e)') = Cardinality(Holders(e)) - 1 /\ IsFiniteSet(Holders(e)')
    BY <1>3, <1>4, RefFacts, FS_RemoveElement
  <1>6. ref[e] = Cardinality(Holders(e)) /\ ref[e] \in Nat
    BY RefFacts, TypeFacts DEF Refs
  <1>7. Refs'
    BY <1>1, <1>3, <1>5, <1>6, RefFacts, TypeFacts DEF Refs
  <1>8. ref[e] > 1 <=> Holders(e)' # {}
    <2>1. Cardinality(Holders(e)') = 0 <=> Holders(e)' = {}
      BY <1>5, FS_EmptySet
    <2>2. Cardinality(Holders(e)') \in Nat
      BY <1>5, FS_CardinalityType
    <2> QED BY <1>5, <1>6, <2>1, <2>2
  <1>9. CASE ref[e] > 1
    <2>1. UNCHANGED pc
      BY <1>9 DEF FileClose
    <2>2. \A f \in Ends : Closers(f)' = Closers(f)
      BY <2>1 DEF Closers
    <2>3. Attached'
      BY <1>1, <1>2, <2>1, RefFacts, TypeFacts, ConstFacts DEF Attached
    <2>4. LastCloses'
      BY <1>3, <1>4, <2>2, RefFacts DEF LastCloses
    <2>5. Holders(e) # {} /\ Holders(e)' # {}
      BY <1>4, <1>8, <1>9
    <2>6. EndsOpen' /\ Freed'
      BY <1>1, <1>3, <2>2, <2>5, RefFacts, ConstFacts DEF EndsOpen, Freed
    <2> QED BY <1>7, <2>3, <2>4, <2>6 DEF RefInv
  <1>10. CASE ~(ref[e] > 1)
    <2>1. pc' = [pc EXCEPT ![p] = CloseAt(e)]
      BY <1>10 DEF FileClose, Go, CloseAt
    <2>2. \A q \in Procs : pc'[q] = IF q = p THEN CloseAt(e) ELSE pc[q]
      BY <2>1, TypeFacts
    <2>3. Closers(e)' = {p} /\ \A f \in Ends : f # e => Closers(f)' = Closers(f)
      <3>1. \A f \in Ends : CloseAt(f) # "user" /\ (f # e => CloseAt(f) # CloseAt(e))
        BY DEF Ends, CloseAt
      <3> HIDE DEF CloseAt
      <3> QED BY <1>1, <1>4, <2>2, <3>1 DEF Closers
    <2>4. Attached'
      BY <1>1, <1>2, <2>2, RefFacts, TypeFacts, ConstFacts DEF Attached, CloseAt
    <2>5. Holders(e)' = {}
      BY <1>8, <1>10
    <2>6. LastCloses'
      BY <1>3, <2>3, <2>5, RefFacts DEF LastCloses
    <2>7. EndsOpen' /\ Freed'
      BY <1>1, <1>3, <1>4, <2>3, RefFacts, ConstFacts DEF EndsOpen, Freed
    <2> QED BY <1>7, <2>4, <2>6, <2>7 DEF RefInv
  <1> QED BY <1>9, <1>10

\* pipeclose closes an end once, and frees the page with the second.
LEMMA PipeCloseRefs ==
  ASSUME Inv, NEW p \in Procs, PipeClose(p)
  PROVE  RefInv' /\ freed' \in Nat
  <1>1. UNCHANGED <<ref, ofile>> /\ freed' = IF readopen' \/ writeopen' THEN freed ELSE freed + 1
    BY DEF PipeClose
  <1>2. \A e \in Ends : Holders(e)' = Holders(e)
    BY <1>1 DEF Holders
  <1>3. Refs'
    BY <1>1, <1>2, RefFacts DEF Refs
  <1>4. CASE /\ pc[p] = "close_w" /\ writeopen' = FALSE /\ UNCHANGED readopen
             /\ GoWaking(p, "user", "rsleep", "read")
    <2>1. \A q \in Procs : pc'[q] = IF q = p THEN "user" ELSE IF pc[q] = "rsleep" THEN "read" ELSE pc[q]
      BY <1>4 DEF GoWaking
    <2>2. Holders("w") = {} /\ Closers("w") = {p}
      BY <1>4, RefFacts, ConstFacts DEF LastCloses, Closers, CloseAt
    <2>3. Closers("w")' = {} /\ Closers("r")' = Closers("r")
      BY <1>4, <2>1, <2>2 DEF Closers, CloseAt
    <2>4. Attached'
      BY <1>1, <2>1, RefFacts DEF Attached
    <2>5. LastCloses'
      BY <1>2, <2>3, RefFacts DEF LastCloses, Ends
    <2>6. EndsOpen'
      BY <1>2, <1>4, <2>2, <2>3, RefFacts, ConstFacts DEF EndsOpen
    <2>7. freed = 0
      BY <2>2, RefFacts DEF EndsOpen, Freed
    <2> QED BY <1>1, <1>3, <2>4, <2>5, <2>6, <2>7 DEF RefInv, Freed
  <1>5. CASE /\ pc[p] = "close_r" /\ readopen' = FALSE /\ UNCHANGED writeopen
             /\ GoWaking(p, "user", "wsleep", "write")
    <2>1. \A q \in Procs : pc'[q] = IF q = p THEN "user" ELSE IF pc[q] = "wsleep" THEN "write" ELSE pc[q]
      BY <1>5 DEF GoWaking
    <2>2. Holders("r") = {} /\ Closers("r") = {p}
      BY <1>5, RefFacts, ConstFacts DEF LastCloses, Closers, CloseAt
    <2>3. Closers("r")' = {} /\ Closers("w")' = Closers("w")
      BY <1>5, <2>1, <2>2 DEF Closers, CloseAt
    <2>4. Attached'
      BY <1>1, <2>1, RefFacts DEF Attached
    <2>5. LastCloses'
      BY <1>2, <2>3, RefFacts DEF LastCloses, Ends
    <2>6. EndsOpen'
      BY <1>2, <1>5, <2>2, <2>3, RefFacts, ConstFacts DEF EndsOpen
    <2>7. freed = 0
      BY <2>2, RefFacts DEF EndsOpen, Freed
    <2> QED BY <1>1, <1>3, <2>4, <2>5, <2>6, <2>7 DEF RefInv, Freed
  <1> QED BY <1>4, <1>5 DEF PipeClose

\* fork duplicates the descriptors.
LEMMA ForkRefs ==
  ASSUME Inv, NEW p \in Procs, NEW q \in Procs, Fork(p, q)
  PROVE  RefInv'
  <1>1. /\ pc[p] = "user" /\ pc[q] = "unborn" /\ pc' = [pc EXCEPT ![q] = "user"]
        /\ UNCHANGED <<readopen, writeopen, freed>> /\ ofile' = [ofile EXCEPT ![q] = ofile[p]]
        /\ ref' = [e \in Ends |-> IF e \in ofile[p] THEN ref[e] + 1 ELSE ref[e]]
    BY DEF Fork, Go, pipeVars
  <1>2. ofile[q] = {} /\ q # p
    BY <1>1, RefFacts DEF Attached
  <1>3. \A x \in Procs : /\ ofile'[x] = IF x = q THEN ofile[p] ELSE ofile[x]
                         /\ pc'[x] = IF x = q THEN "user" ELSE pc[x]
    BY <1>1, TypeFacts
  <1>4. \A e \in Ends : Closers(e)' = Closers(e)
    BY <1>1, <1>3 DEF Closers, CloseAt
  <1>5. \A e \in Ends : /\ e \in ofile[p] => Holders(e)' = Holders(e) \cup {q} /\ Holders(e) # {}
                        /\ e \notin ofile[p] => Holders(e)' = Holders(e)
                        /\ q \notin Holders(e)
    BY <1>2, <1>3 DEF Holders
  <1>6. Refs'
    <2> SUFFICES ASSUME NEW e \in Ends PROVE ref'[e] = Cardinality(Holders(e)')
      BY DEF Refs
    <2>1. ref[e] = Cardinality(Holders(e))
      BY RefFacts DEF Refs
    <2>2. CASE e \in ofile[p]
      <3>1. Cardinality(Holders(e) \cup {q}) = Cardinality(Holders(e)) + 1
        BY <1>5, RefFacts, FS_AddElement
      <3> QED BY <1>1, <1>5, <2>1, <2>2, <3>1
    <2>3. CASE e \notin ofile[p]
      BY <1>1, <1>5, <2>1, <2>3
    <2> QED BY <2>2, <2>3
  <1>7. Attached'
    BY <1>1, <1>3, RefFacts DEF Attached
  <1>8. LastCloses'
    BY <1>4, <1>5, RefFacts DEF LastCloses
  <1>9. EndsOpen' /\ Freed'
    BY <1>1, <1>4, <1>5, RefFacts, ConstFacts DEF EndsOpen, Freed
  <1> QED BY <1>6, <1>7, <1>8, <1>9 DEF RefInv

-----------------------------------------------------------------------------
(* Inv is inductive *)

\* A new pipe has one descriptor per end and no bytes.
LEMMA InitInv == Init => Inv
  <1> SUFFICES ASSUME Init PROVE Inv
    OBVIOUS
  <1>1. TypeOK
    BY ConstFacts DEF Init, TypeOK, Points
  <1>2. /\ nread = 0 /\ nwrite = 0 /\ readopen = TRUE /\ writeopen = TRUE /\ freed = 0
        /\ ref = [e \in Ends |-> 1] /\ ofile = [p \in Procs |-> IF p = First THEN Ends ELSE {}]
        /\ pc = [p \in Procs |-> IF p = First THEN "user" ELSE "unborn"]
    BY DEF Init
  <1> HIDE DEF Init
  <1>3. \A e \in Ends : Holders(e) = {First} /\ Closers(e) = {}
    BY <1>2, ConstFacts DEF Holders, Closers, CloseAt
  <1>4. Refs
    <2>1. Cardinality({First}) = 1
      BY FS_Singleton
    <2> QED BY <1>2, <1>3, <2>1 DEF Refs
  <1>5. Attached /\ LastCloses /\ EndsOpen /\ Freed
    BY <1>2, <1>3, ConstFacts DEF Attached, LastCloses, EndsOpen, Freed
  <1>6. Used = 0
    <2>1. (0 - 0) % W = 0
      BY ConstFacts, ModSmall
    <2> QED BY <1>2, <2>1 DEF Used
  <1>7. NeverOverfull /\ SleepersWait
    BY <1>2, <1>6, ConstFacts DEF NeverOverfull, SleepersWait
  <1> QED BY <1>1, <1>4, <1>5, <1>7 DEF Inv, RefInv

\* The bytes stay, and nobody goes to sleep.
LEMMA SleepersSteady ==
  ASSUME Inv, UNCHANGED <<nread, nwrite, readopen, writeopen>>,
         \A q \in Procs : pc'[q] \in {"rsleep", "wsleep"} => pc'[q] = pc[q],
         \A q \in Procs : killed[q] => killed'[q]
  PROVE  NeverOverfull' /\ SleepersWait'
  <1>1. Used' = Used
    BY DEF Used
  <1> QED BY <1>1 DEF Inv, NeverOverfull, SleepersWait

\* Calls of read, write and close.
LEMMA CallsInv ==
  ASSUME Inv, NEW p \in Procs, Calls(p)
  PROVE  Inv'
  <1>1. PICK n \in Nat, at \in {"read", "write"} :
          /\ left' = [left EXCEPT ![p] = n] /\ pc' = [pc EXCEPT ![p] = at]
          /\ UNCHANGED <<pipeVars, ref, ofile, exiting, killed>> /\ pc[p] = "user"
          /\ (IF at = "read" THEN "r" ELSE "w") \in ofile[p]
    BY PipeAssumption DEF Calls, CallRead, CallWrite, Enters, Go
  <1>2. \A q \in Procs : pc'[q] = IF q = p THEN at ELSE pc[q]
    BY <1>1, TypeFacts
  <1>3. TypeOK'
    BY <1>1, TypeFacts DEF TypeOK, Points, pipeVars
  <1>4. RefInv'
    BY <1>1, <1>2, RefsSteady DEF pipeVars
  <1>5. NeverOverfull' /\ SleepersWait'
    BY <1>1, <1>2, SleepersSteady DEF pipeVars
  <1> QED BY <1>3, <1>4, <1>5 DEF Inv

\* pipewrite's loop, its sleep and its return.
LEMMA WritingInv ==
  ASSUME Inv, NEW p \in Procs, Writing(p)
  PROVE  Inv'
  <1>1. /\ Store(p) /\ pc[p] = "write"
        /\ UNCHANGED <<nread, readopen, writeopen, freed, ref, ofile, exiting, killed>>
    BY DEF Writing, WriteReturns, WriteFails, WriteSleeps
  <1>2. PICK k \in Nat : /\ k = Least(left[p], Room) /\ Used + k <= PIPESIZE
                         /\ Used' = Used + k /\ nwrite' \in 0..(W - 1)
                         /\ data' \in [0..(PIPESIZE - 1) -> Bytes]
    BY <1>1, StoreFits
  <1>3. Used \in 0..PIPESIZE /\ Room \in Nat /\ Room = PIPESIZE - Used /\ left[p] \in Nat
    BY RoomFacts, TypeFacts, ConstFacts
  <1>4. NeverOverfull'
    BY <1>2, <1>3 DEF NeverOverfull
  <1>5. "w" \in ofile[p]
    BY <1>1, RefFacts DEF Attached
  <1>6. \A q \in Procs : pc[q] = "wsleep" => Used' = PIPESIZE
    BY <1>2, <1>3, ConstFacts DEF Inv, SleepersWait
  <1>7. CASE WriteReturns(p)
    <2>1. /\ left' = [left EXCEPT ![p] = 0]
          /\ pc' = [q \in Procs |-> IF q = p THEN "user" ELSE IF pc[q] = "rsleep" THEN "read" ELSE pc[q]]
      BY <1>7 DEF WriteReturns, GoWaking
    <2>2. \A q \in Procs : pc'[q] = IF q = p THEN "user" ELSE IF pc[q] = "rsleep" THEN "read" ELSE pc[q]
      BY <2>1
    <2>3. TypeOK'
      BY <1>1, <1>2, <2>1, TypeFacts DEF TypeOK, Points
    <2>4. RefInv'
      BY <1>1, <2>2, RefsSteady, RefFacts DEF Attached
    <2>5. SleepersWait'
      BY <1>1, <1>6, <2>2 DEF Inv, SleepersWait
    <2> QED BY <1>4, <2>3, <2>4, <2>5 DEF Inv
  <1>8. CASE WriteFails(p)
    <2>1. /\ left' = [left EXCEPT ![p] = 0] /\ pc' = [pc EXCEPT ![p] = "user"]
          /\ ~readopen \/ killed[p]
      BY <1>8 DEF WriteFails, Go
    <2>2. \A q \in Procs : pc'[q] = IF q = p THEN "user" ELSE pc[q]
      BY <2>1, TypeFacts
    <2>3. TypeOK'
      BY <1>1, <1>2, <2>1, TypeFacts DEF TypeOK, Points
    <2>4. RefInv'
      BY <1>1, <2>2, RefsSteady
    <2>5. \A q \in Procs : pc[q] = "rsleep" => killed[p]
      BY <2>1, InsideOpen
    <2>6. SleepersWait'
      BY <1>1, <1>6, <2>2, <2>5 DEF Inv, SleepersWait
    <2> QED BY <1>4, <2>3, <2>4, <2>6 DEF Inv
  <1>9. CASE WriteSleeps(p)
    <2>1. /\ left' = [left EXCEPT ![p] = @ - Room] /\ left[p] > Room /\ readopen
          /\ pc' = [q \in Procs |-> IF q = p THEN "wsleep" ELSE IF pc[q] = "rsleep" THEN "read" ELSE pc[q]]
      BY <1>9 DEF WriteSleeps, GoWaking
    <2>2. \A q \in Procs : pc'[q] = IF q = p THEN "wsleep" ELSE IF pc[q] = "rsleep" THEN "read" ELSE pc[q]
      BY <2>1
    <2>3. left[p] - Room \in Nat /\ left' \in [Procs -> Nat]
      BY <1>3, <2>1, TypeFacts
    <2>4. TypeOK'
      BY <1>1, <1>2, <2>1, <2>3, TypeFacts DEF TypeOK, Points
    <2>5. RefInv'
      BY <1>1, <1>5, <2>2, RefsSteady, RefFacts DEF Attached
    <2>6. Used' = PIPESIZE
      BY <1>2, <1>3, <2>1, ConstFacts DEF Least
    <2>7. SleepersWait'
      BY <1>1, <2>1, <2>2, <2>6 DEF Inv, SleepersWait
    <2> QED BY <1>4, <2>4, <2>5, <2>7 DEF Inv
  <1> QED BY <1>7, <1>8, <1>9 DEF Writing

\* piperead takes no more than there is.
LEMMA TakeFits ==
  ASSUME Inv, NEW p \in Procs, ReadReturns(p)
  PROVE  \E k \in Nat : /\ k = Least(left[p], Used) /\ k <= Used
                        /\ nread' = (nread + k) % W /\ nread' \in 0..(W - 1) /\ Used' = Used - k
  <1>1. PICK u \in 0..PIPESIZE : u = Used /\ u = (nwrite - nread) % W
    BY RoomFacts DEF Used
  <1>2. PICK k \in Nat : k = Least(left[p], Used) /\ k <= u
    <2>1. PICK n \in Nat : n = left[p]
      BY TypeFacts
    <2>2. Least(n, u) \in Nat /\ Least(n, u) <= u
      BY DEF Least
    <2> QED BY <1>1, <2>1, <2>2
  <1>3. nread' = (nread + k) % W /\ UNCHANGED nwrite
    BY <1>2 DEF ReadReturns
  <1>4. nread' \in 0..(W - 1) /\ Used' = u - k
    BY <1>1, <1>2, <1>3, TypeFacts, Wraps DEF Used
  <1> QED BY <1>1, <1>2, <1>3, <1>4

\* piperead's loop, its sleep and its return.
LEMMA ReadingInv ==
  ASSUME Inv, NEW p \in Procs, Reading(p)
  PROVE  Inv'
  <1>1. Used \in 0..PIPESIZE
    BY RoomFacts
  <1>2. CASE ReadReturns(p)
    <2>1. /\ pc[p] = "read" /\ left' = [left EXCEPT ![p] = 0]
          /\ pc' = [q \in Procs |-> IF q = p THEN "user" ELSE IF pc[q] = "wsleep" THEN "write" ELSE pc[q]]
          /\ UNCHANGED <<data, nwrite, readopen, writeopen, freed, ref, ofile, exiting, killed>>
      BY <1>2 DEF ReadReturns, GoWaking
    <2>2. \A q \in Procs : pc'[q] = IF q = p THEN "user" ELSE IF pc[q] = "wsleep" THEN "write" ELSE pc[q]
      BY <2>1
    <2>3. PICK k \in Nat : k <= Used /\ nread' \in 0..(W - 1) /\ Used' = Used - k
      BY <1>2, TakeFits
    <2>4. TypeOK'
      BY <2>1, <2>3, TypeFacts DEF TypeOK, Points
    <2>5. RefInv'
      BY <2>1, <2>2, RefsSteady, RefFacts DEF Attached
    <2>6. NeverOverfull' /\ (Used = 0 => Used' = 0)
      BY <1>1, <2>3, ConstFacts DEF NeverOverfull
    <2>7. SleepersWait'
      BY <2>1, <2>2, <2>6 DEF Inv, SleepersWait
    <2> QED BY <2>4, <2>5, <2>6, <2>7 DEF Inv
  <1>3. CASE ReadFails(p)
    <2>1. /\ pc[p] = "read" /\ left' = [left EXCEPT ![p] = 0] /\ pc' = [pc EXCEPT ![p] = "user"]
          /\ UNCHANGED <<pipeVars, ref, ofile, exiting, killed>>
      BY <1>3 DEF ReadFails, Go
    <2>2. \A q \in Procs : pc'[q] = IF q = p THEN "user" ELSE pc[q]
      BY <2>1, TypeFacts
    <2>3. TypeOK'
      BY <2>1, TypeFacts DEF TypeOK, Points, pipeVars
    <2>4. RefInv'
      BY <2>1, <2>2, RefsSteady DEF pipeVars
    <2>5. NeverOverfull' /\ SleepersWait'
      BY <2>1, <2>2, SleepersSteady DEF pipeVars
    <2> QED BY <2>3, <2>4, <2>5 DEF Inv
  <1>4. CASE ReadSleeps(p)
    <2>1. /\ pc[p] = "read" /\ Used = 0 /\ writeopen /\ pc' = [pc EXCEPT ![p] = "rsleep"]
          /\ UNCHANGED <<pipeVars, ref, ofile, left, exiting, killed>>
      BY <1>4 DEF ReadSleeps, Go
    <2>2. \A q \in Procs : pc'[q] = IF q = p THEN "rsleep" ELSE pc[q]
      BY <2>1, TypeFacts
    <2>3. TypeOK'
      BY <2>1, TypeFacts DEF TypeOK, Points, pipeVars
    <2>4. RefInv'
      BY <2>1, <2>2, RefsSteady, RefFacts DEF pipeVars, Attached
    <2>5. Used' = Used
      BY <2>1 DEF Used, pipeVars
    <2>6. NeverOverfull' /\ SleepersWait'
      BY <2>1, <2>2, <2>5 DEF Inv, NeverOverfull, SleepersWait, pipeVars
    <2> QED BY <2>3, <2>4, <2>6 DEF Inv
  <1> QED BY <1>2, <1>3, <1>4 DEF Reading

\* fileclose and pipeclose.
LEMMA ClosingInv ==
  ASSUME Inv, NEW p \in Procs, Closing(p)
  PROVE  Inv'
  <1>1. ASSUME NEW e \in Ends, FileClose(p, e) PROVE Inv'
    <2>1. /\ pc[p] = "user" /\ e \in ofile[p] /\ UNCHANGED <<pipeVars, left, exiting, killed>>
          /\ ofile' = [ofile EXCEPT ![p] = @ \ {e}] /\ ref' = [ref EXCEPT ![e] = @ - 1]
          /\ UNCHANGED pc \/ pc' = [pc EXCEPT ![p] = CloseAt(e)]
      BY <1>1 DEF FileClose, Go, CloseAt
    <2>2. CloseAt(e) \in {"close_r", "close_w"}
      BY DEF CloseAt
    <2>3. \A q \in Procs : pc'[q] = pc[q] \/ pc'[q] \in {"close_r", "close_w"}
      BY <2>1, <2>2, TypeFacts
    <2>4. ref[e] - 1 \in Nat
      <3>1. Holders(e) # {}
        BY <2>1 DEF Holders
      <3>2. ref[e] = Cardinality(Holders(e)) /\ ref[e] \in Nat
        BY RefFacts, TypeFacts DEF Refs
      <3>3. Cardinality(Holders(e)) # 0
        BY <3>1, RefFacts, FS_EmptySet
      <3> QED BY <3>2, <3>3
    <2>5. ref' \in [Ends -> Nat]
      BY <2>1, <2>4, TypeFacts
    <2>6. pc' \in [Procs -> Points]
      BY <2>1, <2>2, TypeFacts DEF Points
    <2>7. TypeOK'
      BY <2>1, <2>5, <2>6, TypeFacts DEF TypeOK, pipeVars
    <2>8. NeverOverfull' /\ SleepersWait'
      BY <2>1, <2>3, SleepersSteady DEF pipeVars
    <2> QED BY <1>1, <2>7, <2>8, FileCloseRefs DEF Inv
  <1>2. CASE PipeClose(p)
    <2>1. RefInv' /\ freed' \in Nat
      BY <1>2, PipeCloseRefs
    <2>2. UNCHANGED <<data, nread, nwrite, ref, ofile, left, exiting, killed>>
      BY <1>2 DEF PipeClose
    <2>3. Used' = Used
      BY <2>2 DEF Used
    <2>4. CASE /\ pc[p] = "close_w" /\ writeopen' = FALSE /\ UNCHANGED readopen
               /\ pc' = [q \in Procs |-> IF q = p THEN "user" ELSE IF pc[q] = "rsleep" THEN "read" ELSE pc[q]]
      <3>1. TypeOK'
        BY <2>1, <2>2, <2>4, TypeFacts DEF TypeOK, Points
      <3>2. \A q \in Procs : pc'[q] # "rsleep" /\ (pc'[q] = "wsleep" => pc[q] = "wsleep")
        BY <2>4
      <3>3. NeverOverfull' /\ SleepersWait'
        BY <2>3, <2>4, <3>2 DEF Inv, NeverOverfull, SleepersWait
      <3> QED BY <2>1, <3>1, <3>3 DEF Inv
    <2>5. CASE /\ pc[p] = "close_r" /\ readopen' = FALSE /\ UNCHANGED writeopen
               /\ pc' = [q \in Procs |-> IF q = p THEN "user" ELSE IF pc[q] = "wsleep" THEN "write" ELSE pc[q]]
      <3>1. TypeOK'
        BY <2>1, <2>2, <2>5, TypeFacts DEF TypeOK, Points
      <3>2. \A q \in Procs : pc'[q] # "wsleep" /\ (pc'[q] = "rsleep" => pc[q] = "rsleep")
        BY <2>5
      <3>3. NeverOverfull' /\ SleepersWait'
        BY <2>2, <2>3, <2>5, <3>2 DEF Inv, NeverOverfull, SleepersWait
      <3> QED BY <2>1, <3>1, <3>3 DEF Inv
    <2> QED BY <1>2, <2>4, <2>5 DEF PipeClose, GoWaking
  <1> QED BY <1>1, <1>2 DEF Closing

\* fork, exit and kill.
LEMMA LifeInv ==
  ASSUME Inv, NEW p \in Procs, (\E q \in Procs : Fork(p, q)) \/ Exit(p) \/ ExitDone(p) \/ Kill(p)
  PROVE  Inv'
  <1>1. ASSUME NEW q \in Procs, Fork(p, q) PROVE Inv'
    <2>1. /\ pc[q] = "unborn" /\ pc' = [pc EXCEPT ![q] = "user"]
          /\ UNCHANGED <<pipeVars, left, exiting, killed>> /\ ofile' = [ofile EXCEPT ![q] = ofile[p]]
          /\ ref' = [e \in Ends |-> IF e \in ofile[p] THEN ref[e] + 1 ELSE ref[e]]
      BY <1>1 DEF Fork, Go
    <2>2. \A x \in Procs : pc'[x] = IF x = q THEN "user" ELSE pc[x]
      BY <2>1, TypeFacts
    <2>3. TypeOK'
      BY <2>1, TypeFacts DEF TypeOK, Points, pipeVars
    <2>4. NeverOverfull' /\ SleepersWait'
      BY <2>1, <2>2, SleepersSteady DEF pipeVars
    <2> QED BY <1>1, <2>3, <2>4, ForkRefs DEF Inv
  <1>2. CASE Exit(p)
    <2>1. UNCHANGED <<pipeVars, ref, ofile, pc, left, killed>> /\ exiting' = [exiting EXCEPT ![p] = TRUE]
      BY <1>2 DEF Exit
    <2>2. TypeOK'
      BY <2>1, TypeFacts DEF TypeOK, pipeVars
    <2> QED BY <2>1, <2>2, RefsSteady, SleepersSteady DEF Inv, pipeVars
  <1>3. CASE ExitDone(p)
    <2>1. /\ pc[p] = "user" /\ ofile[p] = {} /\ pc' = [pc EXCEPT ![p] = "dead"]
          /\ UNCHANGED <<pipeVars, ref, ofile, left, exiting, killed>>
      BY <1>3 DEF ExitDone, Go
    <2>2. \A q \in Procs : pc'[q] = IF q = p THEN "dead" ELSE pc[q]
      BY <2>1, TypeFacts
    <2>3. TypeOK'
      BY <2>1, TypeFacts DEF TypeOK, Points, pipeVars
    <2> QED BY <2>1, <2>2, <2>3, RefsSteady, SleepersSteady DEF Inv, pipeVars
  <1>4. CASE Kill(p)
    <2> DEFINE at == CASE pc[p] = "rsleep" -> "read" [] pc[p] = "wsleep" -> "write" [] OTHER -> pc[p]
    <2>1. /\ pc' = [pc EXCEPT ![p] = at] /\ killed' = [killed EXCEPT ![p] = TRUE]
          /\ UNCHANGED <<pipeVars, ref, ofile, left, exiting>>
      BY <1>4 DEF Kill, Go
    <2>2. \/ pc[p] = "rsleep" /\ at = "read"
          \/ pc[p] = "wsleep" /\ at = "write"
          \/ pc[p] \notin {"rsleep", "wsleep"} /\ at = pc[p]
      OBVIOUS
    <2> HIDE DEF at
    <2>3. \A q \in Procs : pc'[q] = IF q = p THEN at ELSE pc[q]
      BY <2>1, TypeFacts
    <2>4. pc' \in [Procs -> Points] /\ killed' \in [Procs -> BOOLEAN]
      BY <2>1, <2>2, TypeFacts DEF Points
    <2>5. TypeOK'
      BY <2>1, <2>4, TypeFacts DEF TypeOK, pipeVars
    <2>6. \A q \in Procs : killed[q] => killed'[q]
      BY <2>1, TypeFacts
    <2>7. RefInv'
      BY <2>1, <2>2, <2>3, RefsSteady, RefFacts DEF Attached, pipeVars
    <2>8. NeverOverfull' /\ SleepersWait'
      BY <2>1, <2>2, <2>3, <2>6, SleepersSteady DEF pipeVars
    <2> QED BY <2>5, <2>7, <2>8 DEF Inv
  <1> QED BY <1>1, <1>2, <1>3, <1>4

\* Every step preserves the invariant.
LEMMA NextInv == Inv /\ [Next]_vars => Inv'
  <1> SUFFICES ASSUME Inv, [Next]_vars PROVE Inv'
    OBVIOUS
  <1>1. CASE UNCHANGED vars
    <2>1. UNCHANGED <<data, nread, nwrite, readopen, writeopen, freed, ref, ofile, pc, left, exiting, killed>>
      BY <1>1 DEF vars, pipeVars
    <2>2. TypeOK'
      BY <2>1, TypeFacts DEF TypeOK
    <2> QED BY <2>1, <2>2, RefsSteady, SleepersSteady DEF Inv
  <1>2. CASE Next
    BY <1>2, CallsInv, WritingInv, ReadingInv, ClosingInv, LifeInv DEF Next
  <1> QED BY <1>1, <1>2

\* Every variable keeps its type; the counters stay below the modulus.
THEOREM TypeCorrect == Spec => []TypeOK
  <1>1. Inv => TypeOK
    BY DEF Inv
  <1> QED BY <1>1, InitInv, NextInv, PTL DEF Spec

\* pipewrite, piperead, pipeclose and kill: a writer sleeps only on a full pipe that somebody
\* may read, a reader only on a pipe somebody may write, empty unless a process was killed.
THEOREM SleepersHaveReason == Spec => []SleepersWait
  <1>1. Inv => SleepersWait
    BY DEF Inv
  <1> QED BY <1>1, InitInv, NextInv, PTL DEF Spec

\* The descriptors and the flags decide how often the page was freed.
LEMMA FreedExactly ==
  ASSUME Inv PROVE FreedOnce
  <1>1. freed <= 1 /\ (freed = 1 <=> ~readopen /\ ~writeopen)
    BY RefFacts DEF Freed
  <1>2. (\A p \in Procs : ofile[p] = {} /\ pc[p] \in {"unborn", "user", "dead"}) => ~readopen /\ ~writeopen
    BY RefFacts DEF EndsOpen, Holders, Closers, CloseAt
  <1>3. ASSUME ~readopen, ~writeopen, NEW p \in Procs
        PROVE  ofile[p] = {} /\ pc[p] \in {"unborn", "user", "dead"}
    <2>1. \A e \in Ends : p \notin Holders(e) /\ p \notin Closers(e)
      BY <1>3, RefFacts DEF EndsOpen, Ends
    <2>2. \A e \in Ends : e \notin ofile[p] /\ pc[p] # CloseAt(e)
      BY <2>1 DEF Holders, Closers
    <2>3. ofile[p] = {} /\ pc[p] \in Points
      BY <2>2, TypeFacts
    <2>4. pc[p] # "close_r" /\ pc[p] # "close_w"
      BY <2>2, ConstFacts DEF CloseAt
    <2> QED BY <2>3, <2>4, RefFacts DEF Attached, Points
  <1> QED BY <1>1, <1>2, <1>3 DEF FreedOnce

\* fileclose and pipeclose: the pipe's page is freed once, exactly when the last descriptor of
\* both ends is gone and nobody is at work on the pipe.
THEOREM PageFreedOnce == Spec => []FreedOnce
  BY FreedExactly, InitInv, NextInv, PTL DEF Spec

-----------------------------------------------------------------------------
(* The ring buffer is a queue *)

\* The bytes underway, as the refinement mapping of Pipe reads them.
Queue == [i \in 1..Used |-> data[(nread + i - 1) % PIPESIZE]]

\* A counter names a byte of the buffer.
LEMMA SlotRange ==
  ASSUME NEW x \in Int PROVE x % PIPESIZE \in 0..(PIPESIZE - 1)
  BY ConstFacts, ModRange

\* The bytes between nread and nwrite, in order.
LEMMA QueueFacts ==
  ASSUME Inv
  PROVE  /\ Queue \in Seq(Bytes) /\ Len(Queue) = Used
         /\ \A i \in 1..Used : Queue[i] = data[(nread + i - 1) % PIPESIZE]
  <1>1. Used \in Nat /\ nread \in Int
    BY RoomFacts, TypeFacts, ConstFacts
  <1>2. ASSUME NEW i \in 1..Used PROVE data[(nread + i - 1) % PIPESIZE] \in Bytes
    <2>1. nread + i - 1 \in Int
      BY <1>1
    <2> QED BY <2>1, SlotRange, TypeFacts
  <1>3. Queue \in [1..Used -> Bytes]
    BY <1>2 DEF Queue
  <1> QED BY <1>1, <1>3, FunctionIsSeq DEF Queue

\* The same after a step.
LEMMA QueueNext == Inv' => (Queue \in Seq(Bytes) /\ Len(Queue) = Used)'
  <1>1. Inv => Queue \in Seq(Bytes) /\ Len(Queue) = Used
    BY QueueFacts
  <1> QED BY <1>1, PTL

\* A counter that has wrapped names the same bytes of the buffer.
LEMMA WrappedSlot ==
  ASSUME NEW a \in Int, NEW b \in Int, NEW c \in Int, a = b \/ a = b - W
  PROVE  (a + c) % PIPESIZE = (b + c) % PIPESIZE
  <1>1. PIPESIZE \in Nat /\ PIPESIZE > 0 /\ W \in Nat /\ W % PIPESIZE = 0
    BY ConstFacts
  <1>2. \A x \in Int : (x - W) % PIPESIZE = x % PIPESIZE
    BY <1>1, SameSlot
  <1>3. CASE a = b
    BY <1>3
  <1>4. CASE a = b - W
    <2>1. PICK x \in Int : x = b + c
      OBVIOUS
    <2>2. a + c = x - W
      BY <1>1, <1>4, <2>1
    <2>3. (x - W) % PIPESIZE = x % PIPESIZE
      BY <1>2
    <2> QED BY <2>1, <2>2, <2>3
  <1> QED BY <1>3, <1>4

\* piperead takes the oldest bytes.
LEMMA TakeSeen ==
  ASSUME Inv, Inv', NEW p \in Procs, ReadReturns(p)
  PROVE  Fifo!Take \/ UNCHANGED <<Queue, writeopen, readopen>>
  <1>1. PICK k \in Nat : /\ k <= Used /\ nread' = (nread + k) % W /\ Used' = Used - k
    BY TakeFits
  <1>2. UNCHANGED <<data, readopen, writeopen>> /\ readopen
    BY InsideOpen DEF ReadReturns
  <1>3. PICK u \in 0..PIPESIZE : u = Used /\ u = (nwrite - nread) % W
    BY RoomFacts DEF Used
  <1>4. nread' = nread + k \/ nread' = nread + k - W
    BY <1>1, <1>3, TypeFacts, Wraps
  <1>5. nread \in Int /\ nread' \in Int /\ u \in Nat
    BY <1>3, TypeFacts, ConstFacts DEF Inv, TypeOK
  <1>6. ASSUME NEW i \in 1..(u - k) PROVE Queue'[i] = Queue[k + i]
    <2>1. nread + k \in Int /\ i - 1 \in Int /\ k + i \in 1..u
      BY <1>1, <1>3, <1>5
    <2>2. (nread' + (i - 1)) % PIPESIZE = ((nread + k) + (i - 1)) % PIPESIZE
      <3>1. PICK a, b, c \in Int : a = nread' /\ b = nread + k /\ c = i - 1
        BY <1>5, <2>1
      <3>2. a = b \/ a = b - W
        BY <1>4, <1>5, <3>1, ConstFacts
      <3>3. (a + c) % PIPESIZE = (b + c) % PIPESIZE
        BY <3>2, WrappedSlot
      <3> QED BY <3>1, <3>3
    <2>3. nread' + (i - 1) = nread' + i - 1 /\ (nread + k) + (i - 1) = nread + (k + i) - 1
      BY <1>5, <2>1
    <2>4. Queue'[i] = data'[(nread' + i - 1) % PIPESIZE]
      BY <1>1, <1>3 DEF Queue
    <2>5. Queue[k + i] = data[(nread + (k + i) - 1) % PIPESIZE]
      BY <1>3, <2>1, QueueFacts
    <2> QED BY <1>2, <2>2, <2>3, <2>4, <2>5
  <1>7. Queue' \in Seq(Bytes) /\ Len(Queue') = u - k
    <2>1. Queue' \in Seq(Bytes) /\ Len(Queue') = Used'
      BY QueueNext
    <2> QED BY <1>1, <1>3, <2>1
  <1>8. Queue \in Seq(Bytes) /\ Len(Queue) = u
    BY <1>3, QueueFacts
  <1>9. Queue' = SubSeq(Queue, k + 1, Len(Queue))
    <2>1. \A i \in (k + 1)..u : Queue[i] \in Bytes
      BY <1>8, ElementOfSeq
    <2>2. k + 1 \in Int /\ u \in Int
      BY <1>5
    <2>3. /\ SubSeq(Queue, k + 1, u) \in Seq(Bytes)
          /\ Len(SubSeq(Queue, k + 1, u)) = IF k + 1 <= u THEN u - (k + 1) + 1 ELSE 0
          /\ \A i \in 1..(u - (k + 1) + 1) : SubSeq(Queue, k + 1, u)[i] = Queue[(k + 1) + i - 1]
      BY <2>1, <2>2, SubSeqProperties
    <2>4. u - (k + 1) + 1 = u - k /\ Len(SubSeq(Queue, k + 1, u)) = u - k
      BY <1>1, <1>3, <2>3
    <2>5. \A i \in 1..(u - k) : SubSeq(Queue, k + 1, u)[i] = Queue[k + i]
      <3>1. \A i \in Int : (k + 1) + i - 1 = k + i
        OBVIOUS
      <3> QED BY <2>3, <2>4, <3>1
    <2>6. Queue' = SubSeq(Queue, k + 1, u)
      BY <1>6, <1>7, <2>3, <2>4, <2>5, SeqEqual
    <2> QED BY <1>8, <2>6
  <1>10. CASE k = 0
    <2>1. \A i \in 1..u : Queue'[i] = Queue[i]
      BY <1>6, <1>10
    <2>2. Queue' = Queue
      BY <1>7, <1>8, <1>10, <2>1, SeqEqual
    <2> QED BY <1>2, <2>2
  <1>11. CASE k # 0
    <2>1. k \in 1..Len(Queue)
      BY <1>1, <1>3, <1>8, <1>11
    <2> QED BY <1>2, <1>9, <2>1 DEF Fifo!Take, Queue
  <1> QED BY <1>10, <1>11

\* pipewrite adds its bytes at the end and overwrites none that has not been read.
LEMMA PutSeen ==
  ASSUME Inv, Inv', NEW p \in Procs, Writing(p)
  PROVE  Fifo!Put \/ UNCHANGED <<Queue, writeopen, readopen>>
  <1>1. Store(p) /\ pc[p] = "write" /\ UNCHANGED <<nread, readopen, writeopen>>
    BY DEF Writing, WriteReturns, WriteFails, WriteSleeps
  <1>2. writeopen
    BY <1>1, InsideOpen
  <1>3. PICK k \in Nat : /\ k = Least(left[p], Room) /\ Used + k <= PIPESIZE /\ Used' = Used + k
                         /\ k = 0 => data' = data /\ nwrite' = nwrite
    BY <1>1, StoreFits
  <1>4. PICK u \in 0..PIPESIZE : u = Used /\ u = (nwrite - nread) % W
    BY RoomFacts DEF Used
  <1>5. nread \in Int /\ nwrite \in Int /\ u \in Nat /\ nread + u \in Int
    BY <1>4, TypeFacts, ConstFacts
  <1>6. nwrite = nread + u \/ nwrite = nread + u - W
    <2>1. PICK w, r \in 0..(W - 1) : w = nwrite /\ r = nread
      BY TypeFacts
    <2>2. u \in Int /\ u <= PIPESIZE /\ u = (w - r) % W
      BY <1>4, <2>1, ConstFacts
    <2>3. w = r + u \/ w = r + u - W
      BY <2>2, Wraps
    <2> QED BY <2>1, <2>3
  <1>7. \A j \in Int : (nwrite + j) % PIPESIZE = ((nread + u) + j) % PIPESIZE
    <2>1. PICK a, b \in Int : a = nwrite /\ b = nread + u
      BY <1>5
    <2>2. a = b \/ a = b - W
      BY <1>5, <1>6, <2>1, ConstFacts
    <2>3. \A j \in Int : (a + j) % PIPESIZE = (b + j) % PIPESIZE
      BY <2>2, WrappedSlot
    <2> QED BY <2>1, <2>3
  <1>8. PICK s \in [0..(k - 1) -> Bytes] :
             data' = [i \in DOMAIN data |->
                        IF \E j \in 0..(k - 1) : (nwrite + j) % PIPESIZE = i
                          THEN s[CHOOSE j \in 0..(k - 1) : (nwrite + j) % PIPESIZE = i]
                          ELSE data[i]]
    BY <1>1, <1>3 DEF Store
  <1>9. Queue \in Seq(Bytes) /\ Len(Queue) = u
    BY <1>4, QueueFacts
  <1>10. Queue' \in Seq(Bytes) /\ Len(Queue') = u + k
    <2>1. Queue' \in Seq(Bytes) /\ Len(Queue') = Used'
      BY QueueNext
    <2> QED BY <1>3, <1>4, <2>1
  <1>11. \A i \in 1..(u + k) : Queue'[i] = data'[(nread + i - 1) % PIPESIZE]
    BY <1>1, <1>3, <1>4 DEF Queue
  <1>12. ASSUME NEW i \in 1..u PROVE Queue'[i] = Queue[i]
    <2>1. nread + i - 1 \in Int /\ i \in 1..(u + k)
      BY <1>5
    <2>2. ASSUME NEW j \in 0..(k - 1) PROVE (nwrite + j) % PIPESIZE # (nread + i - 1) % PIPESIZE
      <3>1. (nread + u) + j \in Int
        BY <1>5
      <3>2. /\ (nread + u) + j # nread + i - 1 /\ ((nread + u) + j) - (nread + i - 1) < PIPESIZE
            /\ (nread + i - 1) - ((nread + u) + j) < PIPESIZE
        BY <1>3, <1>4, <1>5, ConstFacts
      <3>3. ((nread + u) + j) % PIPESIZE # (nread + i - 1) % PIPESIZE
        BY <2>1, <3>1, <3>2, SlotsDiffer, ConstFacts
      <3> QED BY <1>7, <3>3
    <2>3. (nread + i - 1) % PIPESIZE \in DOMAIN data
      BY <2>1, SlotRange, TypeFacts
    <2>4. data'[(nread + i - 1) % PIPESIZE] = data[(nread + i - 1) % PIPESIZE]
      BY <1>8, <2>2, <2>3
    <2> QED BY <1>4, <1>11, <2>1, <2>4, QueueFacts
  <1>13. ASSUME NEW j \in 0..(k - 1) PROVE Queue'[u + j + 1] = s[j]
    <2>1. u + j + 1 \in 1..(u + k) /\ nread + (u + j + 1) - 1 = (nread + u) + j /\ (nread + u) + j \in Int
      BY <1>5
    <2> DEFINE slot == ((nread + u) + j) % PIPESIZE
    <2>2. slot \in DOMAIN data /\ (nwrite + j) % PIPESIZE = slot
      <3>1. slot \in 0..(PIPESIZE - 1)
        BY <2>1, SlotRange
      <3>2. slot \in DOMAIN data
        BY <3>1, TypeFacts
      <3> QED BY <1>7, <3>2
    <2>3. ASSUME NEW x \in 0..(k - 1), (nwrite + x) % PIPESIZE = slot PROVE x = j
      <3>1. ((nread + u) + x) % PIPESIZE = ((nread + u) + j) % PIPESIZE
        BY <1>7, <2>3
      <3>2. /\ (nread + u) + x \in Int /\ ((nread + u) + x) - ((nread + u) + j) < PIPESIZE
            /\ ((nread + u) + j) - ((nread + u) + x) < PIPESIZE
        BY <1>3, <1>4, <1>5, ConstFacts
      <3>3. (nread + u) + x = (nread + u) + j
        BY <2>1, <3>1, <3>2, SlotsDiffer, ConstFacts
      <3> QED BY <1>5, <3>3
    <2> HIDE DEF slot
    <2>4. (CHOOSE x \in 0..(k - 1) : (nwrite + x) % PIPESIZE = slot) = j
      BY <2>2, <2>3
    <2>5. data'[slot] = s[j]
      BY <1>8, <2>2, <2>4
    <2> QED BY <1>11, <2>1, <2>5 DEF slot
  <1>14. CASE k = 0
    <2>1. Queue' = Queue
      BY <1>1, <1>3, <1>14 DEF Queue, Used
    <2> QED BY <1>1, <2>1
  <1>15. CASE k # 0
    <2> DEFINE t == [i \in 1..k |-> s[i - 1]]
    <2>1. t \in [1..k -> Bytes]
      BY <1>15
    <2>2. t \in Seq(Bytes) /\ Len(t) = k
      BY <2>1, FunctionIsSeq
    <2>3. ASSUME NEW i \in 1..(u + k) PROVE Queue'[i] = IF i <= u THEN Queue[i] ELSE t[i - u]
      <3>1. CASE i <= u
        BY <1>12, <3>1
      <3>2. CASE i > u
        <4>1. i - u - 1 \in 0..(k - 1) /\ u + (i - u - 1) + 1 = i /\ i - u \in 1..k /\ (i - u) - 1 = i - u - 1
          BY <1>5, <3>2
        <4>2. Queue'[i] = s[i - u - 1]
          BY <1>13, <4>1
        <4> QED BY <1>5, <3>2, <4>1, <4>2
      <3> QED BY <1>5, <3>1, <3>2
    <2> HIDE DEF t
    <2>4. /\ Queue \o t \in Seq(Bytes) /\ Len(Queue \o t) = u + k
          /\ \A i \in 1..(u + k) : (Queue \o t)[i] = IF i <= u THEN Queue[i] ELSE t[i - u]
      BY <1>9, <2>2, ConcatProperties
    <2>5. Queue' = Queue \o t
      BY <1>10, <2>3, <2>4, SeqEqual
    <2>6. k \in 1..(PIPESIZE - Len(Queue))
      BY <1>3, <1>4, <1>9, <1>15, ConstFacts
    <2> QED BY <1>1, <1>2, <2>1, <2>5, <2>6 DEF Fifo!Put, Queue
  <1> QED BY <1>14, <1>15

\* Every step is a step of the queue, or leaves it alone.
LEMMA NextSeen ==
  ASSUME Inv, Inv', [Next]_vars
  PROVE  Fifo!Next \/ UNCHANGED <<Queue, writeopen, readopen>>
  <1>1. ASSUME UNCHANGED pipeVars PROVE UNCHANGED <<Queue, writeopen, readopen>>
    BY <1>1 DEF Queue, Used, pipeVars
  <1>2. CASE UNCHANGED vars
    BY <1>1, <1>2 DEF vars
  <1>3. ASSUME NEW p \in Procs, Calls(p) \/ Exit(p) \/ ExitDone(p) \/ Kill(p) \/ (\E q \in Procs : Fork(p, q))
        PROVE  UNCHANGED pipeVars
    BY <1>3 DEF Calls, CallRead, CallWrite, Exit, ExitDone, Kill, Fork
  <1>4. ASSUME NEW p \in Procs, Writing(p) PROVE Fifo!Put \/ UNCHANGED <<Queue, writeopen, readopen>>
    BY <1>4, PutSeen
  <1>5. ASSUME NEW p \in Procs, Reading(p) PROVE Fifo!Take \/ UNCHANGED <<Queue, writeopen, readopen>>
    <2>1. CASE ReadReturns(p)
      BY <2>1, TakeSeen
    <2>2. CASE ReadFails(p) \/ ReadSleeps(p)
      BY <1>1, <2>2 DEF ReadFails, ReadSleeps
    <2> QED BY <1>5, <2>1, <2>2 DEF Reading
  <1>6. ASSUME NEW p \in Procs, PipeClose(p) PROVE Fifo!Close
    <2>1. UNCHANGED <<data, nread, nwrite>> /\ (writeopen' => writeopen) /\ (readopen' => readopen)
      BY <1>6 DEF PipeClose
    <2>2. UNCHANGED Queue
      BY <2>1 DEF Queue, Used
    <2> QED BY <2>1, <2>2 DEF Fifo!Close, Queue
  <1>7. ASSUME NEW p \in Procs, NEW e \in Ends, FileClose(p, e) PROVE UNCHANGED pipeVars
    BY <1>7 DEF FileClose
  <1>8. CASE Next
    BY <1>1, <1>3, <1>4, <1>5, <1>6, <1>7, <1>8 DEF Next, Closing, Fifo!Next
  <1> QED BY <1>2, <1>8

\* A new pipe is an empty queue.
LEMMA InitSeen == Init => Fifo!Init
  <1> SUFFICES ASSUME Init PROVE Fifo!Init
    OBVIOUS
  <1>1. Inv
    BY InitInv
  <1>2. Used = 0 /\ writeopen = TRUE /\ readopen = TRUE
    <2>1. (0 - 0) % W = 0
      BY ConstFacts, ModSmall
    <2> QED BY <2>1 DEF Used, Init
  <1>3. Queue \in Seq(Bytes) /\ Len(Queue) = 0
    BY <1>1, <1>2, QueueFacts
  <1>4. Queue = <<>>
    BY <1>3, EmptySeq
  <1> QED BY <1>2, <1>4 DEF Fifo!Init, Queue

\* pipewrite and piperead: bytes come out in the order they went in, each once, none lost or
\* overwritten, and only while the ends are open, for any number of readers and writers and
\* however often the counters wrap.
THEOREM PipeImplementsFifo == Spec => ImplementsFifo
  <1>1. Inv /\ Inv' /\ [Next]_vars => [Fifo!Next]_<<Queue, writeopen, readopen>>
    BY NextSeen
  <1> QED BY <1>1, InitInv, NextInv, InitSeen, PTL DEF Spec, ImplementsFifo, Fifo!Spec, Queue

=============================================================================
