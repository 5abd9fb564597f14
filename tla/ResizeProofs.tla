---------------------------- MODULE ResizeProofs ----------------------------
(***************************************************************************)
(* Theorems about Resize, for every number of dimensions, every chunk      *)
(* shape, every bound and every content of the chunks.                     *)
(***************************************************************************)
EXTENDS Resize, GeometryProofs, SequenceTheorems

-----------------------------------------------------------------------------
(* What the super-chunk operations do to a list of chunks. *)

\* Deleting the k-th element moves the ones behind it up by one.
LEMMA RemoveAtFacts ==
    ASSUME NEW S, NEW s \in Seq(S), NEW k \in 1..Len(s)
    PROVE  /\ RemoveAt(s, k) \in Seq(S)
           /\ Len(RemoveAt(s, k)) = Len(s) - 1
           /\ \A m \in 1..Len(s) - 1 :
                 RemoveAt(s, k)[m] = IF m < k THEN s[m] ELSE s[m + 1]
<1> DEFINE front == SubSeq(s, 1, k - 1)
           back  == SubSeq(s, k + 1, Len(s))
<1>1. Len(s) \in Nat /\ k \in Int /\ \A m \in 1..Len(s) : s[m] \in S
  BY LenProperties, ElementOfSeq
<1>2. /\ front \in Seq(S)
      /\ Len(front) = k - 1
      /\ \A m \in 1..k - 1 : front[m] = s[m]
  BY <1>1, SubSeqProperties
<1>3. /\ back \in Seq(S)
      /\ Len(back) = Len(s) - k
      /\ \A m \in 1..Len(s) - k : back[m] = s[k + m]
  <2>1. \A m \in k + 1..Len(s) : s[m] \in S
    BY <1>1
  <2>2. k + 1 \in Int
    BY <1>1
  <2>3. /\ back \in Seq(S)
        /\ Len(back) = IF k + 1 <= Len(s) THEN Len(s) - (k + 1) + 1 ELSE 0
        /\ \A m \in 1..Len(s) - (k + 1) + 1 : back[m] = s[(k + 1) + m - 1]
    BY <1>1, <2>1, <2>2, SubSeqProperties
  <2> HIDE DEF back
  <2> QED BY <1>1, <2>3
<1> HIDE DEF front, back
<1> DEFINE joined == front \o back
<1>4. /\ joined \in Seq(S)
      /\ Len(joined) = Len(front) + Len(back)
      /\ \A m \in 1..Len(front) + Len(back) :
            joined[m] = IF m <= Len(front) THEN front[m] ELSE back[m - Len(front)]
  BY <1>2, <1>3, ConcatProperties
<1>5. RemoveAt(s, k) = joined
  BY DEF RemoveAt, front, back
<1> HIDE DEF joined
<1>6. /\ Len(joined) = Len(s) - 1
      /\ \A m \in 1..Len(s) - 1 :
            joined[m] = IF m <= k - 1 THEN front[m] ELSE back[m - (k - 1)]
  <2>1. Len(front) + Len(back) = Len(s) - 1
    BY <1>1, <1>2, <1>3
  <2> QED BY <1>2, <1>4, <2>1
<1>7. ASSUME NEW m \in 1..Len(s) - 1
      PROVE  joined[m] = IF m < k THEN s[m] ELSE s[m + 1]
  <2>1. CASE m < k
    BY <1>1, <1>2, <1>6, <2>1
  <2>2. CASE k <= m
    <3>1. joined[m] = back[m - (k - 1)]
      BY <1>1, <1>6, <2>2
    <3>2. m - (k - 1) \in 1..Len(s) - k /\ k + (m - (k - 1)) = m + 1
      BY <1>1, <2>2
    <3>3. back[m - (k - 1)] = s[m + 1]
      BY <1>3, <3>2
    <3> QED BY <1>1, <2>2, <3>1, <3>3
  <2> QED BY <1>1, <2>1, <2>2
<1> QED BY <1>4, <1>5, <1>6, <1>7

\* Inserting at position k moves what was there, and all behind it, down by one.
LEMMA InsertAtFacts ==
    ASSUME NEW S, NEW s \in Seq(S), NEW k \in 1..Len(s) + 1, NEW e \in S
    PROVE  /\ InsertAt(s, k, e) \in Seq(S)
           /\ Len(InsertAt(s, k, e)) = Len(s) + 1
           /\ \A m \in 1..Len(s) + 1 :
                 InsertAt(s, k, e)[m] = IF m < k THEN s[m]
                                        ELSE IF m = k THEN e ELSE s[m - 1]
<1> DEFINE front == SubSeq(s, 1, k - 1)
           back  == SubSeq(s, k, Len(s))
           begin == front \o <<e>>
<1>1. Len(s) \in Nat /\ k \in Int /\ \A m \in 1..Len(s) : s[m] \in S
  BY LenProperties, ElementOfSeq
<1>2. /\ front \in Seq(S)
      /\ Len(front) = k - 1
      /\ \A m \in 1..k - 1 : front[m] = s[m]
  BY <1>1, SubSeqProperties
<1>3. /\ back \in Seq(S)
      /\ Len(back) = Len(s) - k + 1
      /\ \A m \in 1..Len(s) - k + 1 : back[m] = s[k + m - 1]
  <2>1. \A m \in k..Len(s) : s[m] \in S
    BY <1>1
  <2> QED BY <1>1, <2>1, SubSeqProperties
<1>4. /\ begin \in Seq(S)
      /\ Len(begin) = k
      /\ \A m \in 1..k : begin[m] = IF m = k THEN e ELSE s[m]
  <2>1. <<e>> \in Seq(S) /\ Len(<<e>>) = 1 /\ <<e>>[1] = e
    OBVIOUS
  <2> HIDE DEF front
  <2>2. /\ begin \in Seq(S)
        /\ Len(begin) = Len(front) + 1
        /\ \A m \in 1..Len(front) + 1 :
              begin[m] = IF m <= Len(front) THEN front[m] ELSE <<e>>[m - Len(front)]
    BY <1>2, <2>1, ConcatProperties
  <2> HIDE DEF begin
  <2> QED BY <1>1, <1>2, <2>1, <2>2
<1> HIDE DEF front, back, begin
<1>5. /\ begin \o back \in Seq(S)
      /\ Len(begin \o back) = Len(begin) + Len(back)
      /\ \A m \in 1..Len(begin) + Len(back) :
            (begin \o back)[m] = IF m <= Len(begin) THEN begin[m]
                                 ELSE back[m - Len(begin)]
  BY <1>3, <1>4, ConcatProperties
<1>6. InsertAt(s, k, e) = begin \o back
  BY DEF InsertAt, front, back, begin
<1> QED BY <1>1, <1>3, <1>4, <1>5, <1>6

-----------------------------------------------------------------------------
(* Types. *)

\* A shape within a bound is a function from dimensions to naturals.
LEMMA ShapesType ==
    /\ Shapes \subseteq [Dims -> Nat]
    /\ Starts \subseteq [Dims -> Nat]
<1>1. ASSUME NEW limit \in [Dims -> Nat], NEW s \in UpTo(limit)
      PROVE  s \in [Dims -> Nat]
  BY <1>1 DEF UpTo
<1>2. [j \in Dims |-> MaxExtent[j] + 1] \in [Dims -> Nat]
  BY MaxExtentAssumption
<1> QED BY <1>1, <1>2, MaxExtentAssumption DEF Shapes, Starts

\* A shape may be a start.
LEMMA ShapesInStarts == Shapes \subseteq Starts
<1> SUFFICES ASSUME NEW s \in Shapes PROVE s \in Starts
  OBVIOUS
<1> DEFINE limit == [j \in Dims |-> MaxExtent[j] + 1]
           U == UNION {0..limit[j] : j \in Dims}
<1>1. s \in [Dims -> Nat] /\ \A j \in Dims : s[j] <= MaxExtent[j]
  BY ShapesType DEF Shapes, UpTo
<1>2. \A j \in Dims : s[j] \in 0..limit[j]
  BY <1>1, MaxExtentAssumption
<1>3. \A j \in Dims : s[j] <= limit[j]
  BY <1>1, MaxExtentAssumption
<1> HIDE DEF limit
<1>4. s \in [Dims -> U]
  BY <1>1, <1>2
<1>5. Starts = UpTo(limit)
  BY DEF Starts, limit
<1> QED BY <1>3, <1>4, <1>5 DEF UpTo

\* A new array, as the creation functions leave it, is well typed.
LEMMA InitType == Init => TypeOK
<1> SUFFICES ASSUME Init PROVE TypeOK
  OBVIOUS
<1>1. NumChunks(shape) \in Nat
  BY ShapesType, NumChunksType DEF Init
<1>2. sc \in Seq(Contents)
  BY <1>1, SeqDef DEF Init
<1>3. << >> \in Seq(Contents)
  BY EmptySeq
<1>4. call \in [new : Shapes \cup {NULL}, start : Starts \cup {NULL}]
  BY DEF Init, NoCall
<1>5. /\ pc \notin Running
      /\ pc \in Running \cup {"idle", "closed"}
      /\ ret \in {"SUCCEED", "INVALID_ARGUMENT", "BLOSC_FAILED"}
  BY DEF Init, Running
<1>6. shape \in Shapes /\ meta \in Shapes /\ old \in Shapes /\ nchunks \in Nat
  BY <1>1 DEF Init
<1>7. src \in Seq(Contents)
  BY <1>3, Zenon DEF Init
<1>8. cur \in Int
  BY DEF Init
<1>9. damaged \in BOOLEAN
  BY Zenon DEF Init
<1> QED BY <1>2, <1>4, <1>5, <1>6, <1>7, <1>8, <1>9 DEF TypeOK

\* What a call leaves of its arguments and locals when it returns.
LEMMA ForgetType ==
    ASSUME Forget, shape' \in Shapes
    PROVE  /\ call' \in [new : Shapes \cup {NULL}, start : Starts \cup {NULL}]
           /\ old' \in Shapes
           /\ cur' \in Int
           /\ src' \in Seq(Contents)
<1>1. << >> \in Seq(Contents)
  BY EmptySeq
<1>2. src' \in Seq(Contents)
  BY <1>1, Zenon DEF Forget
<1> QED BY <1>2 DEF Forget, NoCall

\* A call that returns leaves a well typed state, given that the storage is.
LEMMA ReturnType ==
    ASSUME NEW code \in {"SUCCEED", "INVALID_ARGUMENT", "BLOSC_FAILED"},
           Return(code), shape' \in Shapes
    PROVE  /\ call' \in [new : Shapes \cup {NULL}, start : Starts \cup {NULL}]
           /\ old' \in Shapes
           /\ cur' \in Int
           /\ src' \in Seq(Contents)
           /\ pc' \in Running \cup {"idle", "closed"}
           /\ pc' \notin Running
           /\ ret' \in {"SUCCEED", "INVALID_ARGUMENT", "BLOSC_FAILED"}
BY ForgetType DEF Return, Running

\* The shape both halves aim at.
LEMMA TargetType ==
    ASSUME TypeOK, pc \in Running
    PROVE  /\ call.new \in Shapes
           /\ ShrinkedShape \in Shapes
<1>1. call.new \in Shapes
  BY DEF TypeOK
<1>2. ASSUME NEW limit \in [Dims -> Nat], NEW s \in UpTo(limit), NEW t \in UpTo(limit)
      PROVE  [j \in Dims |-> IF s[j] <= t[j] THEN s[j] ELSE t[j]] \in UpTo(limit)
  BY DEF UpTo
<1> QED BY <1>1, <1>2, MaxExtentAssumption DEF ShrinkedShape, TypeOK, Shapes

\* A deletion is a resize with a shape and a start within the bounds.
LEMMA DeleteEnters ==
    ASSUME TypeOK, Delete
    PROVE  /\ pc = "idle"
           /\ \E new \in Shapes, start \in Starts \cup {NULL} : EnterResize(new, start)
<1>0. PICK axis \in Dims :
          \E first \in 0..MaxExtent[axis] + 1, len \in 0..shape[axis] :
             LET new == [shape EXCEPT ![axis] = @ - len]
                 start == [j \in Dims |-> IF j = axis THEN first ELSE 0]
             IN  EnterResize(new, IF first = shape[axis] - len THEN NULL ELSE start)
  BY DEF Delete
<1>1. PICK first \in 0..MaxExtent[axis] + 1, len \in 0..shape[axis] :
          LET new == [shape EXCEPT ![axis] = @ - len]
              start == [j \in Dims |-> IF j = axis THEN first ELSE 0]
          IN  EnterResize(new, IF first = shape[axis] - len THEN NULL ELSE start)
  BY <1>0
<1> DEFINE new == [shape EXCEPT ![axis] = @ - len]
           start == [j \in Dims |-> IF j = axis THEN first ELSE 0]
<1>2. new \in Shapes
  <2>1. \A j \in Dims : shape[j] \in Nat /\ shape[j] <= MaxExtent[j]
    BY ShapesType DEF TypeOK, Shapes, UpTo
  <2>2. \A j \in Dims : new[j] \in 0..MaxExtent[j]
    BY <2>1, MaxExtentAssumption, ShapesType DEF TypeOK
  <2>3. DOMAIN new = Dims
    BY ShapesType DEF TypeOK
  <2>4. new = [j \in Dims |-> new[j]]
    BY <2>3, ShapesType DEF TypeOK
  <2> HIDE DEF new
  <2> QED BY <2>2, <2>4, MaxExtentAssumption DEF Shapes, UpTo
<1>3. start \in Starts
  BY MaxExtentAssumption DEF Starts, UpTo
<1>4. pc = "idle"
  BY DEF Delete
<1> HIDE DEF new, start
<1> QED BY <1>1, <1>2, <1>3, <1>4 DEF new, start

\* Every step keeps the types: the shape stays within the bounds the callers
\* keep, the chunk list a list of chunks, the chunk count a natural number.
LEMMA TypeStep == TypeOK /\ [Next]_vars => TypeOK'
<1> SUFFICES ASSUME TypeOK, [Next]_vars PROVE TypeOK'
  OBVIOUS
<1>1. ASSUME NEW new \in Shapes, NEW start \in Starts \cup {NULL},
             pc = "idle", EnterResize(new, start)
      PROVE  TypeOK'
  <2>1. CASE Accepted(new, start)
    BY <1>1, <2>1 DEF EnterResize, TypeOK, Running
  <2>2. CASE ~Accepted(new, start)
    BY <1>1, <2>2 DEF EnterResize, TypeOK, Running
  <2> QED BY <2>1, <2>2
<1>2. CASE Resize
  BY <1>1, <1>2 DEF Resize
<1>3. CASE Delete
  BY <1>1, <1>3, DeleteEnters
<1>4. CASE Close
  BY <1>4, ForgetType DEF Close, TypeOK, Running
<1>5. CASE Open
  <2>1. NumChunks(meta) \in Nat
    BY NumChunksType, ShapesType DEF TypeOK
  <2> QED BY <1>5, <2>1, ReturnType DEF Open, TypeOK
<1>6. CASE Reject
  BY <1>6, ReturnType DEF Reject, TypeOK
<1>7. CASE ShrinkNothing
  BY <1>7 DEF ShrinkNothing, TypeOK, Running
<1>8. CASE ShrinkBegin
  BY <1>8, TargetType DEF ShrinkBegin, UpdateShape, TypeOK, Running
<1>9. CASE ShrinkStep
  <2>1. sc' \in Seq(Contents)
    BY <1>9, RemoveAtFacts DEF ShrinkStep, DeleteChunk, HasChunk, TypeOK
  <2> QED BY <1>9, <2>1 DEF ShrinkStep, TypeOK, Running
<1>10. CASE ShrinkEnd
  <2>1. Len(sc) \in Nat /\ << >> \in Seq(Contents)
    BY LenProperties, EmptySeq DEF TypeOK
  <2>2. src' \in Seq(Contents)
    BY <1>10, <2>1, Zenon DEF ShrinkEnd
  <2> QED BY <1>10, <2>1, <2>2 DEF ShrinkEnd, TypeOK, Running
<1>11. CASE ExtendNothing
  BY <1>11, ReturnType DEF ExtendNothing, TypeOK
<1>12. CASE ExtendBegin
  BY <1>12, TargetType DEF ExtendBegin, UpdateShape, TypeOK, Running
<1>13. CASE ExtendStep
  <2>1. sc' \in Seq(Contents)
    <3>1. CASE Fresh(cur)
      <4>1. cur + 1 \in 1..Len(sc) + 1
        BY <1>13, <3>1, LenProperties DEF ExtendStep, TypeOK
      <4>2. sc \in Seq(Contents)
        BY DEF TypeOK
      <4>3. InsertAt(sc, cur + 1, Zero) \in Seq(Contents)
        BY <4>1, <4>2, InsertAtFacts, ZeroAssumption
      <4> QED BY <1>13, <3>1, <4>3 DEF ExtendStep, InsertChunk
    <3>2. CASE ~Fresh(cur)
      BY <1>13, <3>2 DEF ExtendStep, TypeOK
    <3> QED BY <3>1, <3>2
  <2> QED BY <1>13, <2>1 DEF ExtendStep, TypeOK, Running
<1>14. CASE ExtendEnd
  <2>1. Len(sc) \in Nat
    BY LenProperties DEF TypeOK
  <2> QED BY <1>14, <2>1, ReturnType DEF ExtendEnd, TypeOK
<1>15. CASE UpdateShapeFails
  <2>1. shape' \in Shapes
    BY <1>15, TargetType DEF UpdateShapeFails, Running
  <2> QED BY <1>15, <2>1, ReturnType DEF UpdateShapeFails, TypeOK
<1>16. CASE ChunkFails
  BY <1>16, ReturnType DEF ChunkFails, TypeOK
<1>17. CASE NoSuchAxis \/ UNCHANGED vars
  BY <1>17 DEF NoSuchAxis, vars, TypeOK
<1> QED
  BY <1>2, <1>3, <1>4, <1>5, <1>6, <1>7, <1>8, <1>9, <1>10, <1>11, <1>12, <1>13,
     <1>14, <1>15, <1>16, <1>17 DEF Next, Proceed

\* The type invariant.
THEOREM TypeCorrect == Spec => []TypeOK
BY InitType, TypeStep, PTL DEF Spec

-----------------------------------------------------------------------------
(* One turn of each loop, on lists. *)

\* List t is list s after its chunks lo, ..., n - 1 have been visited from the
\* last one down and those in D deleted.
DeletedDown(s, t, D, n, lo) ==
    /\ \A k \in 0..lo - 1 : k < Len(s) => k < Len(t) /\ t[k + 1] = s[k + 1]
    /\ \A k \in lo..n - 1 :
           k < Len(s) /\ k \notin D =>
              /\ k - Count(D, lo, k) \in 0..Len(t) - 1
              /\ t[k - Count(D, lo, k) + 1] = s[k + 1]
    /\ Len(t) = Len(s) - Count(D, lo, n)

\* List t is list s after the places 0, ..., hi - 1 have been visited from the
\* first one up and e inserted at those in D.
InsertedUp(s, t, e, D, hi) ==
    /\ \A k \in 0..hi - 1 :
           k < Len(t) => t[k + 1] = IF k \in D THEN e ELSE s[k - Count(D, 0, k) + 1]
    /\ \A k \in hi..Len(t) - 1 : t[k + 1] = s[k - Count(D, 0, hi) + 1]
    /\ Len(t) = Len(s) + Count(D, 0, hi)

\* Deleting chunk c, the highest doomed one not yet visited, keeps the survivors
\* in place.
LEMMA DeleteOne ==
    ASSUME NEW S, NEW s \in Seq(S), NEW t \in Seq(S), NEW u \in Seq(S), NEW D,
           NEW n \in Nat, NEW c \in 0..n - 1,
           DeletedDown(s, t, D, n, c + 1),
           c \in D, c < Len(t),
           Len(u) = Len(t) - 1,
           \A m \in 1..Len(t) - 1 : u[m] = IF m < c + 1 THEN t[m] ELSE t[m + 1]
    PROVE  DeletedDown(s, u, D, n, c)
<1> /\ \A k \in 0..c : k < Len(s) => k < Len(t) /\ t[k + 1] = s[k + 1]
    /\ \A k \in c + 1..n - 1 :
           k < Len(s) /\ k \notin D =>
              /\ k - Count(D, c + 1, k) \in 0..Len(t) - 1
              /\ t[k - Count(D, c + 1, k) + 1] = s[k + 1]
    /\ Len(t) = Len(s) - Count(D, c + 1, n)
  BY DEF DeletedDown
<1>1. Len(s) \in Nat /\ Len(t) \in Nat
  BY LenProperties
<1>2. /\ Len(u) = Len(t) - 1
      /\ \A m \in 1..Len(t) - 1 : u[m] = IF m < c + 1 THEN t[m] ELSE t[m + 1]
  OBVIOUS
<1>3. ASSUME NEW k \in 0..c - 1, k < Len(s)
      PROVE  k < Len(u) /\ u[k + 1] = s[k + 1]
  BY <1>1, <1>2, <1>3
<1>4. ASSUME NEW k \in c..n - 1, k < Len(s), k \notin D
      PROVE  /\ k - Count(D, c, k) \in 0..Len(u) - 1
             /\ u[k - Count(D, c, k) + 1] = s[k + 1]
  <2>1. k \in c + 1..n - 1
    BY <1>4
  <2>2. Count(D, c, k) = Count(D, c + 1, k) + 1
    BY <2>1, CountBelow
  <2> DEFINE p == k - Count(D, c + 1, k)
  <2>3. Count(D, c + 1, k) \in 0..k - (c + 1)
    <3>1. c + 1 \in Int /\ k \in Int /\ c + 1 <= k
      BY <2>1
    <3> QED BY <3>1, CountBounds
  <2>4. p \in c + 1..Len(t) - 1 /\ t[p + 1] = s[k + 1]
    BY <1>1, <1>4, <2>1, <2>3
  <2>5. k - Count(D, c, k) = p - 1
    BY <2>1, <2>2, <2>3
  <2> HIDE DEF p
  <2>6. u[p] = t[p + 1]
    BY <1>1, <1>2, <2>4
  <2> QED BY <1>1, <1>2, <2>4, <2>5, <2>6
<1>5. Len(u) = Len(s) - Count(D, c, n)
  <2>1. Count(D, c, n) = Count(D, c + 1, n) + 1
    BY CountBelow
  <2>2. Count(D, c + 1, n) \in Nat
    <3>1. c + 1 \in Int
      OBVIOUS
    <3> QED BY <3>1, CountBounds
  <2> QED BY <1>1, <1>2, <2>1, <2>2
<1> QED BY <1>3, <1>4, <1>5 DEF DeletedDown

\* The same of the list RemoveAt returns.
LEMMA RemoveAtOne ==
    ASSUME NEW S, NEW s \in Seq(S), NEW t \in Seq(S), NEW D,
           NEW n \in Nat, NEW c \in 0..n - 1,
           DeletedDown(s, t, D, n, c + 1),
           c \in D, c < Len(t)
    PROVE  DeletedDown(s, RemoveAt(t, c + 1), D, n, c)
<1> DEFINE k == c + 1
           u == RemoveAt(t, k)
<1>1. k \in 1..Len(t)
  BY LenProperties
<1> HIDE DEF k
<1>2. /\ RemoveAt(t, k) \in Seq(S)
      /\ Len(RemoveAt(t, k)) = Len(t) - 1
      /\ \A m \in 1..Len(t) - 1 :
            RemoveAt(t, k)[m] = IF m < k THEN t[m] ELSE t[m + 1]
  BY <1>1, RemoveAtFacts
<1> HIDE DEF u
<1>3. /\ u \in Seq(S)
      /\ Len(u) = Len(t) - 1
      /\ \A m \in 1..Len(t) - 1 : u[m] = IF m < c + 1 THEN t[m] ELSE t[m + 1]
  BY <1>2 DEF u, k
<1>4. DeletedDown(s, u, D, n, c)
  BY <1>3, DeleteOne
<1> QED BY <1>4 DEF u, k

\* Passing chunk c without deleting it changes nothing but the counter.
LEMMA KeepOne ==
    ASSUME NEW S, NEW s \in Seq(S), NEW t \in Seq(S), NEW D,
           NEW n \in Nat, NEW c \in 0..n - 1,
           DeletedDown(s, t, D, n, c + 1),
           c \notin D
    PROVE  DeletedDown(s, t, D, n, c)
<1> /\ \A k \in 0..c : k < Len(s) => k < Len(t) /\ t[k + 1] = s[k + 1]
    /\ \A k \in c + 1..n - 1 :
           k < Len(s) /\ k \notin D =>
              /\ k - Count(D, c + 1, k) \in 0..Len(t) - 1
              /\ t[k - Count(D, c + 1, k) + 1] = s[k + 1]
    /\ Len(t) = Len(s) - Count(D, c + 1, n)
  BY DEF DeletedDown
<1>1. ASSUME NEW k \in c..n - 1, k < Len(s), k \notin D
      PROVE  /\ k - Count(D, c, k) \in 0..Len(t) - 1
             /\ t[k - Count(D, c, k) + 1] = s[k + 1]
  <2>1. CASE k = c
    <3>1. Count(D, c, c) = 0
      BY CountBounds
    <3> QED BY <1>1, <2>1, <3>1, LenProperties
  <2>2. CASE k # c
    <3>1. Count(D, c, k) = Count(D, c + 1, k)
      <4>1. Count(D, c + 1, k) \in Nat
        <5>1. c + 1 \in Int /\ k \in Int
          OBVIOUS
        <5> QED BY <5>1, CountBounds
      <4> QED BY <2>2, <4>1, CountBelow
    <3> QED BY <1>1, <2>2, <3>1
  <2> QED BY <2>1, <2>2
<1>2. Count(D, c, n) = Count(D, c + 1, n)
  <2>1. Count(D, c + 1, n) \in Nat
    <3>1. c + 1 \in Int
      OBVIOUS
    <3> QED BY <3>1, CountBounds
  <2> QED BY <2>1, CountBelow
<1>3. \A k \in 0..c - 1 : k < Len(s) => k < Len(t) /\ t[k + 1] = s[k + 1]
  OBVIOUS
<1> QED BY <1>1, <1>2, <1>3 DEF DeletedDown

\* Inserting chunk e at c, the lowest place not yet visited, and passing c by.
LEMMA InsertOne ==
    ASSUME NEW S, NEW s \in Seq(S), NEW t \in Seq(S), NEW u \in Seq(S), NEW e,
           NEW D, NEW c \in Nat,
           InsertedUp(s, t, e, D, c),
           c \in D, c <= Len(t),
           Len(u) = Len(t) + 1,
           \A m \in 1..Len(t) + 1 :
               u[m] = IF m < c + 1 THEN t[m] ELSE IF m = c + 1 THEN e ELSE t[m - 1]
    PROVE  InsertedUp(s, u, e, D, c + 1)
<1> /\ \A k \in 0..c - 1 :
           k < Len(t) => t[k + 1] = IF k \in D THEN e ELSE s[k - Count(D, 0, k) + 1]
    /\ \A k \in c..Len(t) - 1 : t[k + 1] = s[k - Count(D, 0, c) + 1]
    /\ Len(t) = Len(s) + Count(D, 0, c)
  BY DEF InsertedUp
<1>1. Len(s) \in Nat /\ Len(t) \in Nat
  BY LenProperties
<1>2. /\ Len(u) = Len(t) + 1
      /\ \A m \in 1..Len(t) + 1 :
            u[m] = IF m < c + 1 THEN t[m] ELSE IF m = c + 1 THEN e ELSE t[m - 1]
  OBVIOUS
<1>3. Count(D, 0, c + 1) = Count(D, 0, c) + 1 /\ Count(D, 0, c) \in Nat
  BY CountAbove, CountBounds
<1>4. ASSUME NEW k \in 0..c, k < Len(u)
      PROVE  u[k + 1] = IF k \in D THEN e ELSE s[k - Count(D, 0, k) + 1]
  <2>1. CASE k = c
    BY <1>1, <1>2, <2>1
  <2>2. CASE k < c
    <3>1. k < Len(t) /\ k \in 0..c - 1
      BY <1>1, <2>2
    <3>2. u[k + 1] = t[k + 1]
      BY <1>1, <1>2, <2>2, <3>1
    <3> QED BY <3>1, <3>2
  <2> QED BY <2>1, <2>2
<1>5. ASSUME NEW k \in c + 1..Len(u) - 1
      PROVE  u[k + 1] = s[k - Count(D, 0, c + 1) + 1]
  <2>1. u[k + 1] = t[k]
    BY <1>1, <1>2
  <2>2. k - 1 \in c..Len(t) - 1
    BY <1>1, <1>2
  <2>3. t[(k - 1) + 1] = s[(k - 1) - Count(D, 0, c) + 1]
    BY <2>2
  <2>4. k \in Int /\ (k - 1) + 1 = k
        /\ (k - 1) - Count(D, 0, c) + 1 = k - Count(D, 0, c + 1) + 1
    BY <1>1, <1>2, <1>3
  <2> QED BY <2>1, <2>3, <2>4
<1>6. Len(u) = Len(s) + Count(D, 0, c + 1)
  BY <1>1, <1>2, <1>3
<1>7. (c + 1) - 1 = c
  OBVIOUS
<1> QED BY <1>4, <1>5, <1>6, <1>7 DEF InsertedUp

\* The same of the list InsertAt returns.
LEMMA InsertAtOne ==
    ASSUME NEW S, NEW s \in Seq(S), NEW t \in Seq(S), NEW e \in S,
           NEW D, NEW c \in Nat,
           InsertedUp(s, t, e, D, c),
           c \in D, c <= Len(t)
    PROVE  InsertedUp(s, InsertAt(t, c + 1, e), e, D, c + 1)
<1> DEFINE k == c + 1
           u == InsertAt(t, k, e)
<1>1. k \in 1..Len(t) + 1
  BY LenProperties
<1> HIDE DEF k
<1>2. /\ InsertAt(t, k, e) \in Seq(S)
      /\ Len(InsertAt(t, k, e)) = Len(t) + 1
      /\ \A m \in 1..Len(t) + 1 :
            InsertAt(t, k, e)[m] = IF m < k THEN t[m]
                                   ELSE IF m = k THEN e ELSE t[m - 1]
  BY <1>1, InsertAtFacts
<1> HIDE DEF u
<1>3. /\ u \in Seq(S)
      /\ Len(u) = Len(t) + 1
      /\ \A m \in 1..Len(t) + 1 :
            u[m] = IF m < c + 1 THEN t[m] ELSE IF m = c + 1 THEN e ELSE t[m - 1]
  BY <1>2 DEF u, k
<1>4. InsertedUp(s, u, e, D, c + 1)
  BY <1>3, InsertOne
<1> QED BY <1>4 DEF u, k

\* Passing place c without inserting anything changes nothing but the counter.
LEMMA SkipOne ==
    ASSUME NEW S, NEW s \in Seq(S), NEW t \in Seq(S), NEW e, NEW D, NEW c \in Nat,
           InsertedUp(s, t, e, D, c),
           c \notin D
    PROVE  InsertedUp(s, t, e, D, c + 1)
<1> /\ \A k \in 0..c - 1 :
           k < Len(t) => t[k + 1] = IF k \in D THEN e ELSE s[k - Count(D, 0, k) + 1]
    /\ \A k \in c..Len(t) - 1 : t[k + 1] = s[k - Count(D, 0, c) + 1]
    /\ Len(t) = Len(s) + Count(D, 0, c)
  BY DEF InsertedUp
<1>1. Len(s) \in Nat /\ Len(t) \in Nat
  BY LenProperties
<1>2. Count(D, 0, c + 1) = Count(D, 0, c) /\ Count(D, 0, c) \in Nat
  BY CountAbove, CountBounds
<1>3. ASSUME NEW k \in 0..c, k < Len(t)
      PROVE  t[k + 1] = IF k \in D THEN e ELSE s[k - Count(D, 0, k) + 1]
  <2>1. CASE k = c
    BY <1>1, <1>3, <2>1
  <2>2. CASE k < c
    <3>1. k \in 0..c - 1
      BY <2>2
    <3> QED BY <1>3, <3>1
  <2> QED BY <2>1, <2>2
<1>4. (c + 1) - 1 = c
  OBVIOUS
<1> QED BY <1>1, <1>2, <1>3, <1>4 DEF InsertedUp

\* Where each survivor is, wherever the loop that deletes is interrupted, and how many
\* chunks there are then.
LEMMA DeletedSome ==
    ASSUME NEW s, NEW t, NEW D, NEW n \in Nat, NEW lo \in 0..n,
           Len(s) = n, Len(t) \in Nat, DeletedDown(s, t, D, n, lo)
    PROVE  /\ n - Count(D, 0, n) <= Len(t)
           /\ \A k \in 0..n - 1 : k \notin D =>
                 \E m \in k - Count(D, 0, k)..k : m < Len(t) /\ t[m + 1] = s[k + 1]
<1>1. lo \in Int /\ 0 <= lo /\ lo <= n /\ n \in Int
  OBVIOUS
<1>2. ASSUME NEW k \in Int, lo <= k
      PROVE  /\ Count(D, 0, k) \in Nat /\ Count(D, lo, k) \in Nat
             /\ Count(D, lo, k) <= Count(D, 0, k)
  <2>1. Count(D, 0, k) = Count(D, 0, lo) + Count(D, lo, k)
    BY <1>1, <1>2, CountSplit
  <2>2. Count(D, 0, k) \in Nat /\ Count(D, lo, k) \in Nat /\ Count(D, 0, lo) \in Nat
    BY <1>1, <1>2, CountBounds
  <2> QED BY <2>1, <2>2
<1>3. n - Count(D, 0, n) <= Len(t)
  <2>1. Len(t) = n - Count(D, lo, n)
    BY DEF DeletedDown
  <2>2. /\ Count(D, 0, n) \in Nat /\ Count(D, lo, n) \in Nat
        /\ Count(D, lo, n) <= Count(D, 0, n)
    BY <1>1, <1>2
  <2> QED BY <2>1, <2>2
<1>4. ASSUME NEW k \in 0..n - 1, k \notin D
      PROVE  \E m \in k - Count(D, 0, k)..k : m < Len(t) /\ t[m + 1] = s[k + 1]
  <2>1. k \in Int /\ Count(D, 0, k) \in Nat
    BY CountBounds
  <2>2. CASE k < lo
    <3>1. k < Len(t) /\ t[k + 1] = s[k + 1]
      BY <1>1, <2>2 DEF DeletedDown
    <3>2. k \in k - Count(D, 0, k)..k
      BY <2>1
    <3> QED BY <3>1, <3>2
  <2>3. CASE lo <= k
    <3> DEFINE m == k - Count(D, lo, k)
    <3>1. m \in 0..Len(t) - 1 /\ t[m + 1] = s[k + 1]
      BY <1>1, <1>4, <2>3 DEF DeletedDown
    <3>2. m \in k - Count(D, 0, k)..k
      BY <1>2, <2>1, <2>3
    <3>3. m < Len(t)
      BY <3>1
    <3> HIDE DEF m
    <3> QED BY <3>1, <3>2, <3>3
  <2> QED BY <1>1, <2>1, <2>2, <2>3
<1> QED BY <1>3, <1>4

\* The loop that inserts has come to hi, on its way to a list with a chunk for each of
\* the n places.
Inserted(s, t, e, D, n, hi) ==
    /\ n \in Nat /\ hi \in 0..n
    /\ Len(s) = n - Count(D, 0, n) /\ Len(t) \in Nat
    /\ InsertedUp(s, t, e, D, hi)

\* Where each old chunk is, wherever that loop is interrupted, and how many chunks there
\* are then.
LEMMA InsertedSome ==
    ASSUME NEW s, NEW t, NEW e, NEW D, NEW n, NEW hi, Inserted(s, t, e, D, n, hi)
    PROVE  /\ Len(t) <= n
           /\ \A k \in 0..n - 1 : k \notin D =>
                 \E m \in k - Count(D, 0, k)..k :
                    m < Len(t) /\ t[m + 1] = s[k - Count(D, 0, k) + 1]
<1>0. Len(s) = n - Count(D, 0, n) /\ Len(t) \in Nat /\ InsertedUp(s, t, e, D, hi)
  BY DEF Inserted
<1>1. hi \in Int /\ 0 <= hi /\ hi <= n /\ n \in Int
  BY DEF Inserted
<1>2. ASSUME NEW k \in Int, hi <= k
      PROVE  /\ Count(D, 0, k) = Count(D, 0, hi) + Count(D, hi, k)
             /\ Count(D, 0, k) \in Nat /\ Count(D, hi, k) \in Nat /\ Count(D, 0, hi) \in Nat
             /\ Count(D, hi, k) <= k - hi
  <2>1. Count(D, 0, k) = Count(D, 0, hi) + Count(D, hi, k)
    BY <1>1, <1>2, CountSplit
  <2>2. /\ Count(D, 0, k) \in Nat /\ Count(D, hi, k) \in Nat /\ Count(D, 0, hi) \in Nat
        /\ Count(D, hi, k) <= (IF k <= hi THEN 0 ELSE k - hi)
    BY <1>1, <1>2, CountBounds
  <2> QED BY <1>1, <1>2, <2>1, <2>2
<1>3. Len(t) = n - Count(D, hi, n) /\ hi <= Len(t) /\ Len(t) <= n
  <2>1. Len(t) = Len(s) + Count(D, 0, hi)
    BY <1>0 DEF InsertedUp
  <2>2. /\ Count(D, 0, n) = Count(D, 0, hi) + Count(D, hi, n)
        /\ Count(D, 0, n) \in Nat /\ Count(D, hi, n) \in Nat /\ Count(D, 0, hi) \in Nat
        /\ Count(D, hi, n) <= n - hi
    BY <1>1, <1>2
  <2> QED BY <1>0, <1>1, <2>1, <2>2
<1>4. ASSUME NEW k \in 0..n - 1, k \notin D
      PROVE  \E m \in k - Count(D, 0, k)..k :
                m < Len(t) /\ t[m + 1] = s[k - Count(D, 0, k) + 1]
  <2>1. k \in Int /\ Count(D, 0, k) \in Nat
    BY CountBounds
  <2>2. CASE k < hi
    <3>1. k < Len(t)
      BY <1>1, <1>3, <2>2
    <3>2. t[k + 1] = s[k - Count(D, 0, k) + 1]
      BY <1>0, <1>1, <1>4, <2>2, <3>1 DEF InsertedUp
    <3>3. k \in k - Count(D, 0, k)..k
      BY <2>1
    <3> QED BY <3>1, <3>2, <3>3
  <2>3. CASE hi <= k
    <3> DEFINE m == k - Count(D, hi, k)
    <3>1. /\ Count(D, 0, k) = Count(D, 0, hi) + Count(D, hi, k)
          /\ Count(D, hi, k) \in Nat /\ Count(D, 0, hi) \in Nat
          /\ Count(D, hi, k) <= k - hi
      BY <1>2, <2>1, <2>3
    <3>2. hi <= m /\ m \in k - Count(D, 0, k)..k
      BY <1>1, <2>1, <3>1
    <3>3. Count(D, hi, n) = Count(D, hi, k) + Count(D, k, n)
      BY <1>1, <2>1, <2>3, CountSplit
    <3>4. Count(D, k, n) = Count(D, k + 1, n)
      <4>1. Count(D, k, n) = Count(D, k + 1, n) + (IF k \in D THEN 1 ELSE 0)
        BY <1>1, <2>1, CountBelow
      <4>2. k + 1 \in Int
        BY <2>1
      <4>3. Count(D, k + 1, n) \in Nat
        BY <1>1, <4>2, CountBounds
      <4> QED BY <1>4, <4>1, <4>3
    <3>5. Count(D, k + 1, n) \in Nat /\ Count(D, k + 1, n) <= n - (k + 1)
      <4>1. k + 1 \in Int /\ k + 1 <= n
        BY <1>1, <2>1
      <4>2. /\ Count(D, k + 1, n) \in Nat
            /\ Count(D, k + 1, n) <= (IF n <= k + 1 THEN 0 ELSE n - (k + 1))
        BY <1>1, <4>1, CountBounds
      <4> QED BY <1>1, <4>1, <4>2
    <3>6. m < Len(t)
      BY <1>1, <1>3, <2>1, <3>1, <3>3, <3>4, <3>5
    <3>7. m \in hi..Len(t) - 1
      BY <1>1, <1>3, <2>1, <3>1, <3>2, <3>6
    <3>8. t[m + 1] = s[m - Count(D, 0, hi) + 1]
      <4> HIDE DEF m
      <4> QED BY <1>0, <3>7 DEF InsertedUp
    <3>9. m - Count(D, 0, hi) = k - Count(D, 0, k)
      BY <2>1, <3>1
    <3> HIDE DEF m
    <3> QED BY <3>2, <3>6, <3>8, <3>9
  <2> QED BY <1>1, <2>1, <2>2, <2>3
<1> QED BY <1>3, <1>4

-----------------------------------------------------------------------------
(* The two loops. *)

CutSet   == {k \in Int : CutOff(k)}
FreshSet == {k \in Int : Fresh(k)}

\* The counts of the two invariants in terms of CutSet and FreshSet.
LEMMA LoopCounts ==
    ASSUME NEW lo \in Int, NEW hi \in Int
    PROVE  /\ NumCutOff(lo, hi) = Count(CutSet, lo, hi)
           /\ NumFresh(lo, hi) = Count(FreshSet, lo, hi)
<1>1. {k \in lo..hi - 1 : CutOff(k)} = {k \in lo..hi - 1 : k \in CutSet}
  BY DEF CutSet
<1>2. {k \in lo..hi - 1 : Fresh(k)} = {k \in lo..hi - 1 : k \in FreshSet}
  BY DEF FreshSet
<1> QED BY <1>1, <1>2 DEF NumCutOff, NumFresh, Count

\* The inductive form of the two invariants: each loop has turned src into sc so
\* far as its counter has come.
DeletePass ==
    pc = "deleting" =>
        /\ cur \in -1..nchunks - 1
        /\ DeletedDown(src, sc, CutSet, nchunks, cur + 1)

InsertPass ==
    pc = "inserting" => InsertedUp(src, sc, Zero, FreshSet, cur)

\* The inductive form says what the invariant says.
LEMMA DeletePassMeaning == TypeOK /\ DeletePass => DeletionKeepsSurvivors
<1> SUFFICES ASSUME TypeOK, DeletePass, pc = "deleting" PROVE DeletionKeepsSurvivors
  BY DEF DeletionKeepsSurvivors
<1>1. nchunks \in Int /\ cur \in Int /\ cur + 1 \in Int /\ (cur + 1) - 1 = cur
  BY DEF TypeOK
<1>2. ASSUME NEW k \in cur + 1..nchunks - 1
      PROVE  /\ NumCutOff(cur + 1, k) = Count(CutSet, cur + 1, k)
             /\ ~CutOff(k) => k \notin CutSet
  BY <1>1, LoopCounts DEF CutSet
<1>3. NumCutOff(cur + 1, nchunks) = Count(CutSet, cur + 1, nchunks)
  BY <1>1, LoopCounts
<1> QED BY <1>1, <1>2, <1>3 DEF DeletePass, DeletedDown, DeletionKeepsSurvivors

\* The same for the other loop.
LEMMA InsertPassMeaning == TypeOK /\ InsertPass => InsertionKeepsOldChunks
<1> SUFFICES ASSUME TypeOK, InsertPass, pc = "inserting" PROVE InsertionKeepsOldChunks
  BY DEF InsertionKeepsOldChunks
<1>1. cur \in Int
  BY DEF TypeOK
<1>2. ASSUME NEW k \in Int
      PROVE  /\ NumFresh(0, k) = Count(FreshSet, 0, k)
             /\ Fresh(k) <=> k \in FreshSet
  BY LoopCounts DEF FreshSet
<1> QED BY <1>1, <1>2 DEF InsertPass, InsertedUp, InsertionKeepsOldChunks

-----------------------------------------------------------------------------
(* Preservation. *)

\* Only entering a loop and going through it bring a call into the loop.
LEMMA LoopSteps ==
    ASSUME [Next]_vars
    PROVE  /\ pc' = "deleting" => ShrinkBegin \/ ShrinkStep \/ UNCHANGED vars
           /\ pc' = "inserting" => ExtendBegin \/ ExtendStep \/ UNCHANGED vars
<1>1. CASE Resize
  BY <1>1 DEF Resize, EnterResize
<1>2. CASE Delete \/ NoSuchAxis
  BY <1>2 DEF Delete, NoSuchAxis, EnterResize
<1>3. CASE Close \/ Open
  BY <1>3 DEF Close, Open, Return
<1>4. CASE Reject \/ UpdateShapeFails \/ ChunkFails
  BY <1>4 DEF Reject, UpdateShapeFails, ChunkFails, Return
<1>5. CASE ShrinkNothing \/ ShrinkEnd
  BY <1>5 DEF ShrinkNothing, ShrinkEnd
<1>6. CASE ExtendNothing \/ ExtendEnd
  BY <1>6 DEF ExtendNothing, ExtendEnd, Return
<1>7. CASE ShrinkBegin \/ ShrinkStep
  BY <1>7 DEF ShrinkBegin, ShrinkStep
<1>8. CASE ExtendBegin \/ ExtendStep
  BY <1>8 DEF ExtendBegin, ExtendStep
<1> QED
  BY <1>1, <1>2, <1>3, <1>4, <1>5, <1>6, <1>7, <1>8 DEF Next, Proceed

\* The range being removed or added does not change while its loop runs.
LEMMA SameSets ==
    ASSUME UNCHANGED <<shape, call, old>>
    PROVE  CutSet' = CutSet /\ FreshSet' = FreshSet
BY DEF CutSet, FreshSet, CutOff, Fresh

\* No step takes DeletePass away.
LEMMA DeletePassStep == TypeOK /\ DeletePass /\ [Next]_vars => DeletePass'
<1> SUFFICES ASSUME TypeOK, DeletePass, [Next]_vars, pc' = "deleting"
             PROVE  DeletePass'
  BY DEF DeletePass
<1>1. CASE ShrinkBegin
  <2>1. /\ sc' = sc /\ src' = sc /\ nchunks' = nchunks
        /\ cur' = nchunks - 1 /\ nchunks \in Nat /\ sc \in Seq(Contents)
    BY <1>1 DEF ShrinkBegin, TypeOK
  <2>2. Len(sc) \in Nat
    BY <2>1, LenProperties
  <2>3. cur' + 1 = nchunks /\ Count(CutSet', nchunks, nchunks) = 0
    <3>1. nchunks \in Int
      BY <2>1
    <3> QED BY <2>1, <3>1, CountBounds
  <2>4. DeletedDown(sc, sc, CutSet', nchunks, nchunks)
    BY <2>1, <2>2, <2>3 DEF DeletedDown
  <2> QED BY <2>1, <2>3, <2>4 DEF DeletePass
<1>2. CASE ShrinkStep
  <2>1. /\ pc = "deleting" /\ cur \in 0..nchunks - 1 /\ nchunks \in Nat
        /\ src \in Seq(Contents) /\ sc \in Seq(Contents)
    BY <1>2 DEF ShrinkStep, DeletePass, TypeOK
  <2>2. /\ cur' = cur - 1 /\ nchunks' = nchunks /\ src' = src
        /\ CutSet' = CutSet
    BY <1>2, SameSets DEF ShrinkStep
  <2>3. DeletedDown(src, sc, CutSet, nchunks, cur + 1)
    BY <2>1 DEF DeletePass
  <2>4. DeletedDown(src, sc', CutSet, nchunks, cur)
    <3>1. CASE CutOff(cur)
      <4>1. cur \in CutSet /\ cur < Len(sc) /\ sc' = RemoveAt(sc, cur + 1)
        BY <1>2, <2>1, <3>1, LenProperties
           DEF ShrinkStep, DeleteChunk, HasChunk, CutSet
      <4>2. DeletedDown(src, RemoveAt(sc, cur + 1), CutSet, nchunks, cur)
        BY <2>1, <2>3, <4>1, RemoveAtOne
      <4> QED BY <4>1, <4>2
    <3>2. CASE ~CutOff(cur)
      <4>1. cur \notin CutSet /\ sc' = sc
        BY <1>2, <3>2 DEF ShrinkStep, CutSet
      <4>2. DeletedDown(src, sc, CutSet, nchunks, cur)
        BY <2>1, <2>3, <4>1, KeepOne
      <4> QED BY <4>1, <4>2
    <3> QED BY <3>1, <3>2
  <2>5. cur' \in -1..nchunks' - 1 /\ cur' + 1 = cur
    BY <2>1, <2>2
  <2> QED BY <2>2, <2>4, <2>5 DEF DeletePass
<1>3. CASE UNCHANGED vars
  <2>1. CutSet' = CutSet
    BY <1>3, SameSets DEF vars
  <2> QED BY <1>3, <2>1 DEF vars, DeletePass
<1> QED BY <1>1, <1>2, <1>3, LoopSteps

\* No step takes InsertPass away.
LEMMA InsertPassStep == TypeOK /\ InsertPass /\ [Next]_vars => InsertPass'
<1> SUFFICES ASSUME TypeOK, InsertPass, [Next]_vars, pc' = "inserting"
             PROVE  InsertPass'
  BY DEF InsertPass
<1>1. CASE ExtendBegin
  <2>1. sc' = sc /\ src' = sc /\ cur' = 0 /\ sc \in Seq(Contents)
    BY <1>1 DEF ExtendBegin, TypeOK
  <2>2. Count(FreshSet', 0, 0) = 0
    BY CountBounds
  <2>3. Len(sc) \in Nat
    BY <2>1, LenProperties
  <2>4. InsertedUp(sc, sc, Zero, FreshSet', 0)
    BY <2>1, <2>2, <2>3 DEF InsertedUp
  <2> QED BY <2>1, <2>4 DEF InsertPass
<1>2. CASE ExtendStep
  <2>1. /\ pc = "inserting" /\ cur \in Nat
        /\ src \in Seq(Contents) /\ sc \in Seq(Contents)
    BY <1>2 DEF ExtendStep, TypeOK
  <2>2. cur' = cur + 1 /\ src' = src /\ FreshSet' = FreshSet
    BY <1>2, SameSets DEF ExtendStep
  <2>3. InsertedUp(src, sc, Zero, FreshSet, cur)
    BY <2>1 DEF InsertPass
  <2>4. InsertedUp(src, sc', Zero, FreshSet, cur + 1)
    <3>1. CASE Fresh(cur)
      <4>1. cur \in FreshSet /\ cur <= Len(sc) /\ sc' = InsertAt(sc, cur + 1, Zero)
        BY <1>2, <2>1, <3>1 DEF ExtendStep, InsertChunk, FreshSet
      <4>2. InsertedUp(src, InsertAt(sc, cur + 1, Zero), Zero, FreshSet, cur + 1)
        BY <2>1, <2>3, <4>1, ZeroAssumption, InsertAtOne
      <4> QED BY <4>1, <4>2
    <3>2. CASE ~Fresh(cur)
      <4>1. cur \notin FreshSet /\ sc' = sc
        BY <1>2, <3>2 DEF ExtendStep, FreshSet
      <4>2. InsertedUp(src, sc, Zero, FreshSet, cur + 1)
        BY <2>1, <2>3, <4>1, SkipOne
      <4> QED BY <4>1, <4>2
    <3> QED BY <3>1, <3>2
  <2> QED BY <2>2, <2>4 DEF InsertPass
<1>3. CASE UNCHANGED vars
  <2>1. FreshSet' = FreshSet
    BY <1>3, SameSets DEF vars
  <2> QED BY <1>3, <2>1 DEF vars, InsertPass
<1> QED BY <1>1, <1>2, <1>3, LoopSteps

\* shrink_shape never loses a chunk it is to keep, nor moves one out of order
\* (caterva.c:1355-1369), whatever range is removed and in whatever state of the
\* handle the loop was entered.
THEOREM DeletionCorrect == Spec => []DeletionKeepsSurvivors
<1>1. Init => DeletePass
  BY DEF Init, DeletePass
<1> QED BY <1>1, TypeCorrect, DeletePassStep, DeletePassMeaning, PTL DEF Spec

\* Nor does extend_shape lose, overwrite or reorder an old chunk, or put a zero
\* chunk anywhere but where the new grid has a new chunk (caterva.c:1280-1303).
THEOREM InsertionCorrect == Spec => []InsertionKeepsOldChunks
<1>1. Init => InsertPass
  BY DEF Init, InsertPass
<1> QED BY <1>1, TypeCorrect, InsertPassStep, InsertPassMeaning, PTL DEF Spec

-----------------------------------------------------------------------------
(* Between the loops: whole grids, and calls that fit. *)

\* Where the range begins for a half that takes s when the caller gives no start.
StartOr(s) == IF call.start = NULL THEN s ELSE call.start

\* The inductive form of GridIsFull and HandleMatchesStorage: between two loops the
\* list has a chunk for each place of the grid, and each loop began with such a list.
StoredWhole ==
    ~damaged =>
        /\ pc \in {"idle", "shrink", "extend"} =>
              meta = shape /\ nchunks = NumChunks(shape) /\ Len(sc) = NumChunks(shape)
        /\ pc = "closed" => Len(sc) = NumChunks(meta)
        /\ InLoop => meta = shape /\ nchunks = NumChunks(old) /\ Len(src) = NumChunks(old)
        /\ pc = "extended" => NumChunks(shape) = NumChunks(old) /\ sc = src

\* What the tests at the beginning of a call, and its caller, still guarantee at each
\* of its steps.
CallFits ==
    /\ pc = "shrink" => /\ Accepted(call.new, call.start)
                        /\ RemovesItsOwnItems(call.new, call.start)
    /\ pc = "deleting" => shape # old /\ IsCutOf(old, shape, StartOr(shape))
    /\ pc \in {"deleting", "extend"} =>
          /\ IsCutOf(call.new, shape, StartOr(shape))
          /\ \A j \in Dims : shape[j] = 0 => call.new[j] = 0
    /\ pc \in {"inserting", "extended"} =>
          /\ shape # old
          /\ IsCutOf(shape, old, StartOr(old))
          /\ \A j \in Dims : old[j] > 0
    /\ pc = "inserting" => cur <= NumChunks(shape)

\* An accepted call cuts from the old shape, and adds to the shrinked one, only ranges
\* that fit.
LEMMA AcceptedFits ==
    ASSUME TypeOK, pc = "shrink", CallFits
    PROVE  /\ IsCutOf(shape, ShrinkedShape, StartOr(ShrinkedShape))
           /\ IsCutOf(call.new, ShrinkedShape, StartOr(ShrinkedShape))
<1> DEFINE new == call.new
           low == ShrinkedShape
           start == StartOr(low)
<1>1. /\ pc \in Running
      /\ call.start \in Starts \cup {NULL}
  BY DEF Running, TypeOK
<1>2. new \in [Dims -> Nat] /\ shape \in [Dims -> Nat] /\ low \in [Dims -> Nat]
  BY <1>1, TargetType, ShapesType DEF TypeOK
<1>3. start \in [Dims -> Nat]
  BY <1>1, <1>2, ShapesType DEF StartOr
<1>4. \A j \in Dims : low[j] = IF new[j] <= shape[j] THEN new[j] ELSE shape[j]
  BY DEF ShrinkedShape
<1>5. \/ start = low
      \/ /\ Aligned(shape, new, start)
         /\ \A j \in Dims : start[j] <= shape[j]
         /\ \A j \in Dims : new[j] < shape[j] => start[j] <= new[j]
  BY DEF CallFits, Accepted, RemovesItsOwnItems, StartOr
<1> HIDE DEF new, low, start
<1>6. ASSUME NEW j \in Dims
      PROVE  /\ low[j] <= shape[j] /\ low[j] <= new[j]
             /\ FitsDim(ChunkShape[j], shape[j], low[j], start[j])
             /\ FitsDim(ChunkShape[j], new[j], low[j], start[j])
  <2> DEFINE s == ChunkShape[j]
             f == shape[j]
             n == new[j]
             t == low[j]
             a == start[j]
  <2>1. s \in Nat \ {0} /\ f \in Nat /\ n \in Nat /\ t \in Nat /\ a \in Nat
    BY <1>2, <1>3, ChunkShapeAssumption
  <2>2. t = IF n <= f THEN n ELSE f
    BY <1>4
  <2>3. \/ a = t
        \/ /\ \/ n = f
              \/ n > f /\ a = f
              \/ n < f /\ a + f - n = f
              \/ (a % s) = 0 /\ ((n - f) % s) = 0
           /\ a <= f
           /\ n < f => a <= n
    BY <1>5 DEF Aligned
  <2>4. ((n - f) % s) = 0 => ((f - n) % s) = 0
    <3>1. n - f \in Int /\ f - n \in Int /\ f - n = -(n - f)
      BY <2>1
    <3> QED BY <2>1, <3>1, NegativeRest
  <2> HIDE DEF s, f, n, t, a
  <2>5. t <= f /\ t <= n /\ FitsDim(s, f, t, a) /\ FitsDim(s, n, t, a)
    <3>1. CASE n < f
      BY <2>1, <2>2, <2>3, <2>4, <3>1 DEF FitsDim
    <3>2. CASE n = f
      BY <2>1, <2>2, <3>2 DEF FitsDim
    <3>3. CASE n > f
      BY <2>1, <2>2, <2>3, <3>3 DEF FitsDim
    <3> QED BY <2>1, <3>1, <3>2, <3>3
  <2> QED BY <2>5 DEF s, f, n, t, a
<1>7. ASSUME NEW big \in [Dims -> Nat],
             \A j \in Dims : low[j] <= big[j]
                             /\ FitsDim(ChunkShape[j], big[j], low[j], start[j])
      PROVE  IsCutOf(big, low, start)
  BY <1>2, <1>3, <1>7 DEF IsCutOf, Fits, FitsDim, Length
<1>8. IsCutOf(shape, low, start) /\ IsCutOf(new, low, start)
  BY <1>2, <1>6, <1>7
<1> QED BY <1>8 DEF new, low, start

\* The chunks the loops delete and insert are those the range covers.
LEMMA LoopSets ==
    /\ CutSet = Covered(old, shape, StartOr(shape))
    /\ FreshSet = Covered(shape, old, StartOr(old))
<1>1. ASSUME NEW k \in Int
      PROVE  /\ CutOff(k) <=> Covers(StartOr(shape), Length(old, shape), PlaceIn(old, k))
             /\ Fresh(k) <=> Covers(StartOr(old), Length(shape, old), PlaceIn(shape, k))
  <2> DEFINE c == UnidimToMultidim(ChunksInArray(old), k)
             d == UnidimToMultidim(ChunksInArray(shape), k)
  <2>1. ASSUME NEW start, NEW len, NEW p
        PROVE  Covers(start, len, p) <=>
                 \E j \in Dims : /\ start[j] <= ChunkShape[j] * p[j]
                                 /\ ChunkShape[j] * p[j] < start[j] + len[j]
    BY DEF Covers
  <2>2. CutOff(k) <=> Covers(StartOr(shape), Length(old, shape), c)
    BY <2>1 DEF CutOff, Touched, StartOr, Length
  <2>3. Fresh(k) <=> Covers(StartOr(old), Length(shape, old), d)
    BY <2>1 DEF Fresh, Touched, StartOr, Length
  <2> QED BY <2>2, <2>3 DEF PlaceIn
<1> QED BY <1>1 DEF CutSet, FreshSet, Covered

\* When its loop has ended, shrink_shape has left one chunk for each place.
LEMMA DeletionEnds ==
    ASSUME TypeOK, StoredWhole, CallFits, DeletePass,
           ~damaged, pc = "deleting", cur < 0
    PROVE  Len(sc) = NumChunks(shape)
<1>1. /\ nchunks = NumChunks(old) /\ Len(src) = NumChunks(old)
      /\ IsCutOf(old, shape, StartOr(shape))
  BY DEF StoredWhole, CallFits, InLoop
<1>2. cur + 1 = 0 /\ DeletedDown(src, sc, CutSet, nchunks, cur + 1)
  BY DEF DeletePass, TypeOK
<1>3. Len(sc) = Len(src) - Count(CutSet, 0, nchunks)
  BY <1>2 DEF DeletedDown
<1>4. NumChunks(shape) = NumChunks(old) - Count(CutSet, 0, NumChunks(old))
  BY <1>1, LoopSets, Renumbering
<1> QED BY <1>1, <1>3, <1>4

\* When its loop has ended, extend_shape has made one chunk for each place.
LEMMA InsertionEnds ==
    ASSUME TypeOK, StoredWhole, CallFits, InsertPass,
           ~damaged,
           pc = "extended" \/ (pc = "inserting" /\ cur >= NumChunks(shape))
    PROVE  Len(sc) = NumChunks(shape)
<1>1. /\ Len(src) = NumChunks(old)
      /\ pc = "extended" => NumChunks(shape) = NumChunks(old) /\ sc = src
      /\ IsCutOf(shape, old, StartOr(old))
      /\ pc = "inserting" => cur <= NumChunks(shape)
  BY DEF StoredWhole, CallFits, InLoop
<1>2. CASE pc = "extended"
  BY <1>1, <1>2
<1>3. CASE pc = "inserting"
  <2>1. NumChunks(shape) \in Nat /\ NumChunks(old) \in Nat /\ cur \in Int
    BY NumChunksType, ShapesType DEF TypeOK
  <2>2. cur = NumChunks(shape)
    BY <1>1, <1>3, <2>1
  <2>3. Len(sc) = Len(src) + Count(FreshSet, 0, cur)
    BY <1>3 DEF InsertPass, InsertedUp
  <2>4. NumChunks(old) = NumChunks(shape) - Count(FreshSet, 0, NumChunks(shape))
    BY <1>1, LoopSets, Renumbering
  <2>5. Count(FreshSet, 0, cur) \in Nat
    BY <2>1, CountBounds
  <2> QED BY <1>1, <2>1, <2>2, <2>3, <2>4, <2>5
<1> QED BY <1>2, <1>3

\* A new array is whole.
LEMMA StoredInit == Init => StoredWhole /\ CallFits
<1> SUFFICES ASSUME Init PROVE StoredWhole /\ CallFits
  OBVIOUS
<1>1. NumChunks(shape) \in Nat /\ sc \in [1..NumChunks(shape) -> Contents]
  BY ShapesType, NumChunksType DEF Init
<1>2. Len(sc) = NumChunks(shape)
  BY <1>1
<1>3. /\ meta = shape /\ nchunks = NumChunks(shape) /\ pc = "idle"
  BY DEF Init
<1> QED BY <1>2, <1>3 DEF StoredWhole, CallFits, InLoop

\* No step takes CallFits away, as long as callers remove only what is there.
LEMMA CallFitsStep ==
    ASSUME InRange, TypeOK, CallFits, [Next]_vars
    PROVE  CallFits'
<1>1. ASSUME NEW new \in Shapes, NEW start \in Starts \cup {NULL},
             pc = "idle", EnterResize(new, start)
      PROVE  CallFits'
  <2>1. CASE Accepted(new, start)
    <3>1. /\ pc' = "shrink" /\ call'.new = new /\ call'.start = start /\ shape' = shape
          /\ RemovesItsOwnItems(new, start)
      BY <1>1, <2>1 DEF EnterResize
    <3>2. Accepted(new, start)' /\ RemovesItsOwnItems(new, start)'
      BY <2>1, <3>1 DEF Accepted, RemovesItsOwnItems
    <3> QED BY <3>1, <3>2 DEF CallFits, Accepted, RemovesItsOwnItems
  <2>2. CASE ~Accepted(new, start)
    BY <1>1, <2>2 DEF EnterResize, CallFits
  <2> QED BY <2>1, <2>2
<1>2. CASE Resize
  BY <1>1, <1>2 DEF Resize
<1>3. CASE Delete
  BY <1>1, <1>3, DeleteEnters
<1>4. CASE Close \/ Open \/ Reject \/ ExtendNothing \/ ExtendEnd \/ UpdateShapeFails
           \/ ChunkFails
  <2>1. pc' \in {"idle", "closed"}
    BY <1>4 DEF Close, Open, Reject, ExtendNothing, ExtendEnd, UpdateShapeFails,
                ChunkFails, Return
  <2> QED BY <2>1 DEF CallFits
<1>5. CASE ShrinkNothing
  <2>1. /\ pc = "shrink" /\ pc' = "extend" /\ ShrinkedShape = shape /\ ~HasEmptyDim
        /\ UNCHANGED <<shape, call>>
    BY <1>5 DEF ShrinkNothing
  <2>2. IsCutOf(call.new, shape, StartOr(shape))
    BY <2>1, AcceptedFits
  <2>3. StartOr(shape)' = StartOr(shape)
    BY <2>1 DEF StartOr
  <2> QED BY <2>1, <2>2, <2>3 DEF CallFits, HasEmptyDim
<1>6. CASE ShrinkBegin
  <2>1. /\ pc = "shrink" /\ pc' = "deleting" /\ ~HasEmptyDim /\ ShrinkedShape # shape
        /\ shape' = ShrinkedShape /\ old' = shape /\ call' = call
    BY <1>6 DEF ShrinkBegin, UpdateShape
  <2>2. /\ IsCutOf(shape, ShrinkedShape, StartOr(ShrinkedShape))
        /\ IsCutOf(call.new, ShrinkedShape, StartOr(ShrinkedShape))
    BY <2>1, AcceptedFits
  <2>3. StartOr(shape)' = StartOr(ShrinkedShape)
    BY <2>1 DEF StartOr
  <2>4. \A j \in Dims : ShrinkedShape[j] = 0 => call.new[j] = 0
    BY <2>1 DEF ShrinkedShape, HasEmptyDim
  <2> QED BY <2>1, <2>2, <2>3, <2>4 DEF CallFits
<1>7. CASE ShrinkStep
  <2>1. pc = "deleting" /\ pc' = pc /\ UNCHANGED <<shape, call, old>>
    BY <1>7 DEF ShrinkStep
  <2>2. StartOr(shape)' = StartOr(shape)
    BY <2>1 DEF StartOr
  <2> QED BY <2>1, <2>2 DEF CallFits
<1>8. CASE ShrinkEnd
  <2>1. pc = "deleting" /\ pc' = "extend" /\ UNCHANGED <<shape, call>>
    BY <1>8 DEF ShrinkEnd
  <2>2. StartOr(shape)' = StartOr(shape)
    BY <2>1 DEF StartOr
  <2> QED BY <2>1, <2>2 DEF CallFits
<1>9. CASE ExtendBegin
  <2>1. /\ pc = "extend" /\ pc' \in {"inserting", "extended"} /\ ~HasEmptyDim
        /\ call.new # shape /\ shape' = call.new /\ old' = shape /\ call' = call
        /\ cur' = 0
    BY <1>9 DEF ExtendBegin, UpdateShape
  <2>2. StartOr(old)' = StartOr(shape)
    BY <2>1 DEF StartOr
  <2>3. IsCutOf(call.new, shape, StartOr(shape))
    BY <2>1 DEF CallFits
  <2>4. \A j \in Dims : shape[j] > 0
    BY <2>1, ShapesType DEF HasEmptyDim, TypeOK
  <2>5. NumChunks(call.new) \in Nat
    BY <2>3, NumChunksType DEF IsCutOf
  <2>6. NumChunks(shape)' = NumChunks(call.new)
    BY <2>1
  <2> QED BY <2>1, <2>2, <2>3, <2>4, <2>5, <2>6 DEF CallFits
<1>10. CASE ExtendStep
  <2>1. /\ pc = "inserting" /\ pc' = pc /\ UNCHANGED <<shape, call, old>>
        /\ cur < NumChunks(shape) /\ cur' = cur + 1
    BY <1>10 DEF ExtendStep
  <2>2. StartOr(old)' = StartOr(old)
    BY <2>1 DEF StartOr
  <2>3. NumChunks(shape) \in Nat /\ cur \in Int
    BY NumChunksType, ShapesType DEF TypeOK
  <2>4. cur' <= NumChunks(shape)'
    BY <2>1, <2>3
  <2> QED BY <2>1, <2>2, <2>4 DEF CallFits
<1>11. CASE NoSuchAxis \/ UNCHANGED vars
  BY <1>11 DEF NoSuchAxis, vars, CallFits, StartOr, Accepted, RemovesItsOwnItems
<1> QED BY <1>2, <1>3, <1>4, <1>5, <1>6, <1>7, <1>8, <1>9, <1>10, <1>11
        DEF Next, Proceed

\* No step takes StoredWhole away.
LEMMA StoredWholeStep ==
    ASSUME TypeOK, DeletePass, InsertPass, StoredWhole, CallFits, [Next]_vars
    PROVE  StoredWhole'
<1>1. ASSUME NEW new \in Shapes, NEW start \in Starts \cup {NULL},
             pc = "idle", EnterResize(new, start)
      PROVE  StoredWhole'
  <2>1. /\ pc' \in {"idle", "shrink"}
        /\ UNCHANGED <<shape, nchunks, meta, sc, damaged>>
    BY <1>1 DEF EnterResize
  <2> QED BY <1>1, <2>1 DEF StoredWhole, InLoop
<1>2. CASE Resize
  BY <1>1, <1>2 DEF Resize
<1>3. CASE Delete
  BY <1>1, <1>3, DeleteEnters
<1>4. CASE Close
  <2>1. /\ pc # "closed" /\ pc' = "closed" /\ UNCHANGED <<meta, sc>>
        /\ ~damaged' => ~damaged /\ pc \notin {"deleting", "inserting"}
    BY <1>4 DEF Close
  <2>2. pc \in {"idle", "shrink", "extend", "extended", "deleting", "inserting"}
    BY <2>1 DEF TypeOK, Running
  <2>3. ASSUME ~damaged' PROVE Len(sc) = NumChunks(meta)
    BY <2>1, <2>2, <2>3 DEF StoredWhole, InLoop
  <2> QED BY <2>1, <2>3 DEF StoredWhole, InLoop
<1>5. CASE Open
  <2>1. /\ pc = "closed" /\ pc' = "idle" /\ shape' = meta /\ nchunks' = NumChunks(meta)
        /\ UNCHANGED <<meta, sc, damaged>>
    BY <1>5 DEF Open, Return
  <2> QED BY <2>1 DEF StoredWhole, InLoop
<1>6. CASE Reject \/ ExtendNothing
  <2>1. /\ pc \in {"shrink", "extend"} /\ pc' = "idle"
        /\ UNCHANGED <<shape, nchunks, meta, sc, damaged>>
    BY <1>6 DEF Reject, ExtendNothing, Return
  <2> QED BY <2>1 DEF StoredWhole, InLoop
<1>7. CASE ShrinkNothing
  <2>1. /\ pc = "shrink" /\ pc' = "extend"
        /\ UNCHANGED <<shape, nchunks, meta, sc, damaged>>
    BY <1>7 DEF ShrinkNothing
  <2> QED BY <2>1 DEF StoredWhole, InLoop
<1>8. CASE ShrinkBegin
  <2>1. /\ pc = "shrink" /\ pc' = "deleting" /\ old' = shape /\ meta' = shape' /\ src' = sc
        /\ UNCHANGED <<nchunks, damaged>>
    BY <1>8 DEF ShrinkBegin, UpdateShape
  <2> QED BY <2>1 DEF StoredWhole, InLoop
<1>9. CASE ShrinkStep
  <2>1. pc = "deleting" /\ UNCHANGED <<shape, nchunks, meta, pc, old, src, damaged>>
    BY <1>9 DEF ShrinkStep
  <2> QED BY <2>1 DEF StoredWhole, InLoop
<1>10. CASE ShrinkEnd
  <2>1. /\ pc = "deleting" /\ cur < 0 /\ pc' = "extend" /\ nchunks' = Len(sc)
        /\ UNCHANGED <<shape, meta, sc, damaged>>
    BY <1>10 DEF ShrinkEnd
  <2>2. ~damaged => Len(sc) = NumChunks(shape)
    BY <2>1, DeletionEnds
  <2> QED BY <2>1, <2>2 DEF StoredWhole, InLoop
<1>11. CASE ExtendBegin
  <2>1. /\ pc = "extend" /\ old' = shape /\ shape' = call.new /\ meta' = call.new
        /\ src' = sc
        /\ pc' = IF NumChunks(call.new) # nchunks THEN "inserting" ELSE "extended"
        /\ UNCHANGED <<nchunks, sc, damaged>>
    BY <1>11 DEF ExtendBegin, UpdateShape
  <2> QED BY <2>1 DEF StoredWhole, InLoop
<1>12. CASE ExtendStep
  <2>1. pc = "inserting" /\ UNCHANGED <<shape, nchunks, meta, pc, old, src, damaged>>
    BY <1>12 DEF ExtendStep
  <2> QED BY <2>1 DEF StoredWhole, InLoop
<1>13. CASE ExtendEnd
  <2>1. /\ pc = "extended" \/ (pc = "inserting" /\ cur >= NumChunks(shape))
        /\ pc' = "idle" /\ nchunks' = Len(sc)
        /\ UNCHANGED <<shape, meta, sc, damaged>>
    BY <1>13 DEF ExtendEnd, Return
  <2>2. ~damaged => Len(sc) = NumChunks(shape)
    BY <2>1, InsertionEnds
  <2> QED BY <2>1, <2>2 DEF StoredWhole, InLoop
<1>14. CASE UpdateShapeFails \/ ChunkFails
  <2>1. damaged' = TRUE
    BY <1>14 DEF UpdateShapeFails, ChunkFails
  <2> QED BY <2>1 DEF StoredWhole
<1>15. CASE NoSuchAxis \/ UNCHANGED vars
  BY <1>15 DEF NoSuchAxis, vars, StoredWhole, InLoop
<1> QED BY <1>2, <1>3, <1>4, <1>5, <1>6, <1>7, <1>8, <1>9, <1>10, <1>11, <1>12, <1>13,
           <1>14, <1>15 DEF Next, Proceed

\* What holds in every state of a program whose callers remove only what is there.
Whole == TypeOK /\ DeletePass /\ InsertPass /\ StoredWhole /\ CallFits

\* It is an invariant.
LEMMA AlwaysWhole == ASSUME InRange PROVE Spec => []Whole
<1>1. Init => Whole
  BY InitType, StoredInit DEF Whole, Init, DeletePass, InsertPass
<1>2. Whole /\ [Next]_vars => Whole'
  <2> SUFFICES ASSUME Whole, [Next]_vars PROVE Whole'
    OBVIOUS
  <2>1. TypeOK /\ DeletePass /\ InsertPass /\ StoredWhole /\ CallFits
    BY DEF Whole
  <2>2. TypeOK' /\ DeletePass' /\ InsertPass'
    BY <2>1, TypeStep, DeletePassStep, InsertPassStep
  <2>3. StoredWhole' /\ CallFits'
    BY <2>1, StoredWholeStep, CallFitsStep
  <2> QED BY <2>2, <2>3 DEF Whole
<1> QED BY <1>1, <1>2, PTL DEF Spec

\* Between calls a handle that no fault has hit agrees with what is stored
\* (caterva.c:1301, 1371): its shape is the one of the metalayer, its chunk count
\* that of the super-chunk.
THEOREM HandleCorrect == ASSUME InRange PROVE Spec => []HandleMatchesStorage
<1>1. Whole => HandleMatchesStorage
  BY DEF Whole, StoredWhole, HandleMatchesStorage
<1> QED BY <1>1, AlwaysWhole, PTL

\* Between calls, and in the file, there is exactly one chunk for each place of the
\* grid: the loops of shrink_shape and extend_shape delete and insert as many chunks
\* as the change of shape takes.
THEOREM GridFull == ASSUME InRange PROVE Spec => []GridIsFull
<1>1. Whole => GridIsFull
  BY DEF Whole, StoredWhole, GridIsFull
<1> QED BY <1>1, AlwaysWhole, PTL

\* A call that its second half refuses, having changed the array, is one that empties
\* a dimension, and it leaves a whole array of the smaller shape.
THEOREM RefusedLate == ASSUME InRange PROVE Spec => LateRefusal
<1>1. ASSUME Whole, [Next]_vars,
             pc = "extend", pc' = "idle", ret' = "INVALID_ARGUMENT"
      PROVE  /\ \E j \in Dims : call.new[j] = 0
             /\ damaged \/ (Len(sc') = NumChunks(shape') /\ nchunks' = Len(sc'))
  <2>1. Reject
    <3>1. ~(Resize \/ Delete \/ NoSuchAxis \/ Close \/ Open \/ ShrinkNothing \/ ShrinkBegin
            \/ ShrinkStep \/ ShrinkEnd \/ ExtendStep \/ ExtendEnd \/ ChunkFails)
      BY <1>1 DEF Resize, Delete, NoSuchAxis, Close, Open, ShrinkNothing, ShrinkBegin, ShrinkStep,
                  ShrinkEnd, ExtendStep, ExtendEnd, ChunkFails
    <3>2. ~(ExtendNothing \/ ExtendBegin \/ UpdateShapeFails)
      BY <1>1 DEF ExtendNothing, ExtendBegin, UpdateShapeFails, Return
    <3>3. ~ UNCHANGED vars
      BY <1>1 DEF vars
    <3> QED BY <1>1, <3>1, <3>2, <3>3 DEF Next, Proceed
  <2>2. PICK j \in Dims : shape[j] = 0
    BY <2>1 DEF Reject, HasEmptyDim
  <2>3. call.new[j] = 0
    BY <1>1, <2>2 DEF Whole, CallFits
  <2>4. UNCHANGED <<shape, nchunks, sc>>
    BY <2>1 DEF Reject
  <2>5. ~damaged => Len(sc) = NumChunks(shape) /\ nchunks = Len(sc)
    BY <1>1 DEF Whole, StoredWhole
  <2> QED BY <2>3, <2>4, <2>5
<1>2. Whole /\ [Next]_vars =>
        [pc = "extend" /\ pc' = "idle" /\ ret' = "INVALID_ARGUMENT"
           => /\ \E j \in Dims : call.new[j] = 0
              /\ damaged \/ (Len(sc') = NumChunks(shape') /\ nchunks' = Len(sc'))]_vars
  BY <1>1
<1> QED BY <1>2, AlwaysWhole, PTL DEF Spec, LateRefusal

\* Only three steps are faults, and none of them touches metalayer or chunks.
LEMMA FaultSteps ==
    ASSUME ~damaged, damaged', [Next]_vars
    PROVE  UNCHANGED <<meta, sc>>
BY DEF Next, Proceed, Resize, Delete, NoSuchAxis, EnterResize, Close, Open, Reject,
       ShrinkNothing, ShrinkBegin, ShrinkStep, ShrinkEnd, ExtendNothing, ExtendBegin,
       ExtendStep, ExtendEnd, UpdateShapeFails, ChunkFails, vars

\* What a fault leaves.
LEMMA Leftovers ==
    ASSUME Whole, ~damaged, damaged', [Next]_vars
    PROVE  /\ pc \in {"shrink", "extend"} => Len(sc') = NumChunks(meta')
           /\ pc = "deleting" =>
                 /\ NumChunks(meta') <= Len(sc')
                 /\ \A k \in 0..nchunks - 1 : ~CutOff(k) =>
                       \E m \in k - NumCutOff(0, k)..k :
                           m < Len(sc') /\ sc'[m + 1] = src[k + 1]
           /\ pc = "inserting" =>
                 /\ Len(sc') <= NumChunks(meta')
                 /\ \A k \in 0..NumChunks(shape) - 1 : ~Fresh(k) =>
                       LET o == k - NumFresh(0, k)
                       IN  \E m \in o..k : m < Len(sc') /\ sc'[m + 1] = src[o + 1]
<1>1. UNCHANGED <<meta, sc>>
  BY FaultSteps
<1>2. TypeOK /\ DeletePass /\ InsertPass /\ StoredWhole /\ CallFits
  BY DEF Whole
<1>3. Len(sc) \in Nat /\ cur \in Int /\ nchunks \in Nat
  BY <1>2, LenProperties DEF TypeOK
<1>4. pc \in {"shrink", "extend"} => Len(sc) = NumChunks(meta)
  BY <1>2 DEF StoredWhole
<1>5. CASE pc = "deleting"
  <2>1. /\ meta = shape /\ nchunks = NumChunks(old) /\ Len(src) = nchunks
        /\ IsCutOf(old, shape, StartOr(shape))
    BY <1>2, <1>5 DEF StoredWhole, CallFits, InLoop
  <2>2. cur + 1 \in 0..nchunks /\ DeletedDown(src, sc, CutSet, nchunks, cur + 1)
    BY <1>2, <1>3, <1>5 DEF DeletePass
  <2>3. NumChunks(shape) = nchunks - Count(CutSet, 0, nchunks)
    BY <2>1, LoopSets, Renumbering
  <2>4. /\ nchunks - Count(CutSet, 0, nchunks) <= Len(sc)
        /\ \A k \in 0..nchunks - 1 : k \notin CutSet =>
              \E m \in k - Count(CutSet, 0, k)..k : m < Len(sc) /\ sc[m + 1] = src[k + 1]
    BY <1>3, <2>1, <2>2, DeletedSome
  <2>5. \A k \in 0..nchunks - 1 :
            NumCutOff(0, k) = Count(CutSet, 0, k) /\ (~CutOff(k) => k \notin CutSet)
    BY LoopCounts DEF CutSet
  <2> QED BY <1>1, <1>5, <2>1, <2>3, <2>4, <2>5
<1>6. CASE pc = "inserting"
  <2>1. /\ meta = shape /\ Len(src) = NumChunks(old)
        /\ IsCutOf(shape, old, StartOr(old)) /\ cur <= NumChunks(shape)
    BY <1>2, <1>6 DEF StoredWhole, CallFits, InLoop
  <2>2. NumChunks(shape) \in Nat
    BY <1>2, NumChunksType, ShapesType DEF TypeOK
  <2> DEFINE n == NumChunks(shape)
  <2>3. cur \in 0..n /\ InsertedUp(src, sc, Zero, FreshSet, cur)
    BY <1>2, <1>6, <2>1, <2>2 DEF InsertPass, TypeOK
  <2>4. Len(src) = n - Count(FreshSet, 0, n)
    BY <2>1, LoopSets, Renumbering
  <2> HIDE DEF n
  <2>5. n \in Nat
    BY <2>2 DEF n
  <2>6. /\ Len(sc) <= n
        /\ \A k \in 0..n - 1 : k \notin FreshSet =>
              \E m \in k - Count(FreshSet, 0, k)..k :
                 m < Len(sc) /\ sc[m + 1] = src[k - Count(FreshSet, 0, k) + 1]
    <3>1. Inserted(src, sc, Zero, FreshSet, n, cur)
      BY <1>3, <2>3, <2>4, <2>5 DEF Inserted
    <3> QED BY <3>1, InsertedSome
  <2>7. \A k \in 0..n - 1 :
            NumFresh(0, k) = Count(FreshSet, 0, k) /\ (~Fresh(k) => k \notin FreshSet)
    BY LoopCounts DEF FreshSet
  <2> QED BY <1>1, <1>6, <2>1, <2>6, <2>7 DEF n
<1> QED BY <1>1, <1>4, <1>5, <1>6

\* However a loop is interrupted, by an error of Blosc or by the end of the process, every
\* chunk that was to stay is stored, between its old and its new number, and there are at
\* least (for a shrinking array) or at most (for a growing one) as many chunks as the
\* metalayer describes.
THEOREM InterruptionKeepsChunks == ASSUME InRange PROVE Spec => InterruptionLosesNothing
<1>1. Whole /\ [Next]_vars =>
        [~damaged /\ damaged' =>
            /\ pc \in {"shrink", "extend"} => Len(sc') = NumChunks(meta')
            /\ pc = "deleting" =>
                  /\ NumChunks(meta') <= Len(sc')
                  /\ \A k \in 0..nchunks - 1 : ~CutOff(k) =>
                        \E m \in k - NumCutOff(0, k)..k :
                            m < Len(sc') /\ sc'[m + 1] = src[k + 1]
            /\ pc = "inserting" =>
                  /\ Len(sc') <= NumChunks(meta')
                  /\ \A k \in 0..NumChunks(shape) - 1 : ~Fresh(k) =>
                        LET o == k - NumFresh(0, k)
                        IN  \E m \in o..k : m < Len(sc') /\ sc'[m + 1] = src[o + 1]]_vars
  BY Leftovers
<1> QED BY <1>1, AlwaysWhole, PTL DEF Spec, InterruptionLosesNothing

-----------------------------------------------------------------------------
(* A resize is a Cut and a Grow of module Grid. *)

\* The chunks of a whole array, by coordinates.
LEMMA CellsFacts ==
    ASSUME NEW s \in [Dims -> Nat], NEW chunks \in Seq(Contents),
           Len(chunks) = NumChunks(s)
    PROVE  /\ Cells(s, chunks) \in [GridCoords(s) -> Contents]
           /\ \A c \in GridCoords(s) : Cells(s, chunks)[c] = chunks[NumberIn(s, c) + 1]
<1>1. ASSUME NEW c \in GridCoords(s)
      PROVE  /\ Cells(s, chunks)[c] = chunks[NumberIn(s, c) + 1]
             /\ chunks[NumberIn(s, c) + 1] \in Contents
  <2>1. NumberIn(s, c) \in 0..NumChunks(s) - 1
    BY Numbering
  <2>2. NumChunks(s) \in Nat
    BY NumChunksType
  <2>3. NumberIn(s, c) < Len(chunks) /\ NumberIn(s, c) + 1 \in 1..Len(chunks)
    BY <2>1, <2>2
  <2>4. chunks[NumberIn(s, c) + 1] \in Contents
    BY <2>3, ElementOfSeq
  <2> QED BY <2>3, <2>4 DEF Cells, NumberIn
<1>2. Cells(s, chunks) = [c \in GridCoords(s) |-> Cells(s, chunks)[c]]
  BY DEF Cells
<1> QED BY <1>1, <1>2

\* Deleting the covered chunks cuts the range out of the grid.
LEMMA DeletionIsCut ==
    ASSUME NEW big, NEW small, NEW start, IsCutOf(big, small, start),
           NEW s \in Seq(Contents), NEW t \in Seq(Contents),
           Len(s) = NumChunks(big), Len(t) = NumChunks(small),
           DeletedDown(s, t, Covered(big, small, start), NumChunks(big), 0)
    PROVE  Cells(small, t) = CutCells(Cells(big, s), big, small, start)
<1> DEFINE D == Covered(big, small, start)
           n == NumChunks(big)
<1>1. big \in [Dims -> Nat] /\ small \in [Dims -> Nat]
  BY DEF IsCutOf
<1>2. ASSUME NEW c \in GridCoords(small)
      PROVE  Cells(small, t)[c] = Cells(big, s)[DownFrom(big, small, start, c)]
  <2> DEFINE e == DownFrom(big, small, start, c)
             k == NumberIn(big, e)
  <2>1. k \in 0..n - 1 /\ k \notin D /\ k - Count(D, 0, k) = NumberIn(small, c)
    BY Renumbering
  <2>2. e \in GridCoords(big)
    BY DownFromFacts
  <2>3. Cells(small, t)[c] = t[NumberIn(small, c) + 1]
    BY <1>1, CellsFacts
  <2>4. Cells(big, s)[e] = s[k + 1]
    BY <1>1, <2>2, CellsFacts
  <2>5. \A i \in 0..n - 1 : i < Len(s) /\ i \notin D => t[i - Count(D, 0, i) + 1] = s[i + 1]
    BY DEF DeletedDown
  <2>6. n \in Nat
    BY <1>1, NumChunksType
  <2> HIDE DEF e, k, D, n
  <2>7. k < Len(s)
    BY <2>1, <2>6 DEF n
  <2>8. t[k - Count(D, 0, k) + 1] = s[k + 1]
    BY <2>1, <2>5, <2>7
  <2> QED BY <2>1, <2>3, <2>4, <2>8 DEF e
<1>3. CutCells(Cells(big, s), big, small, start)
        = [c \in GridCoords(small) |-> Cells(big, s)[DownFrom(big, small, start, c)]]
  BY DEF CutCells, DownFrom, Length
<1>4. Cells(small, t) = [c \in GridCoords(small) |-> Cells(small, t)[c]]
  BY DEF Cells
<1> QED BY <1>2, <1>3, <1>4

\* Inserting zeros as the covered chunks puts the range into the grid.
LEMMA InsertionIsGrow ==
    ASSUME NEW big, NEW small, NEW start, IsCutOf(big, small, start),
           NEW s \in Seq(Contents), NEW t \in Seq(Contents),
           Len(s) = NumChunks(small), Len(t) = NumChunks(big),
           InsertedUp(s, t, Zero, Covered(big, small, start), NumChunks(big))
    PROVE  Cells(big, t) = GrownCells(Cells(small, s), small, big, start, Zero)
<1> DEFINE D == Covered(big, small, start)
           n == NumChunks(big)
<1>1. big \in [Dims -> Nat] /\ small \in [Dims -> Nat] /\ n \in Nat
  BY NumChunksType DEF IsCutOf
<1>2. ASSUME NEW e \in GridCoords(big)
      PROVE  Cells(big, t)[e] = IF Covers(start, Length(big, small), e) THEN Zero
                                ELSE Cells(small, s)[UpFrom(big, small, start, e)]
  <2> DEFINE c == UpFrom(big, small, start, e)
             k == NumberIn(big, e)
  <2>1. k \in 0..n - 1 /\ PlaceIn(big, k) = e
    BY <1>1, Numbering
  <2>2. Cells(big, t)[e] = t[k + 1]
    BY <1>1, CellsFacts
  <2>3. t[k + 1] = IF k \in D THEN Zero ELSE s[k - Count(D, 0, k) + 1]
    <3>1. \A i \in 0..n - 1 :
             i < Len(t) => t[i + 1] = IF i \in D THEN Zero ELSE s[i - Count(D, 0, i) + 1]
      BY DEF InsertedUp
    <3> HIDE DEF k, D
    <3> QED BY <1>1, <2>1, <3>1
  <2>4. k \in D <=> Covers(start, Length(big, small), e)
    <3> HIDE DEF k, n
    <3>1. k \in Int
      BY <1>1, <2>1
    <3> QED BY <2>1, <3>1 DEF Covered
  <2>5. ASSUME ~ Covers(start, Length(big, small), e)
        PROVE  s[k - Count(D, 0, k) + 1] = Cells(small, s)[c]
    <3>1. c \in GridCoords(small) /\ DownFrom(big, small, start, c) = e
      BY <2>5, UpFromFacts
    <3> HIDE DEF c
    <3>2. k - Count(D, 0, k) = NumberIn(small, c)
      BY <3>1, Renumbering
    <3>3. Cells(small, s)[c] = s[NumberIn(small, c) + 1]
      BY <1>1, <3>1, CellsFacts
    <3> QED BY <3>2, <3>3
  <2> HIDE DEF c, k, D
  <2> QED BY <2>2, <2>3, <2>4, <2>5 DEF c
<1>3. GrownCells(Cells(small, s), small, big, start, Zero)
        = [e \in GridCoords(big) |->
             IF Covers(start, Length(big, small), e) THEN Zero
             ELSE Cells(small, s)[UpFrom(big, small, start, e)]]
  BY DEF GrownCells, UpFrom, Length
<1>4. Cells(big, t) = [e \in GridCoords(big) |-> Cells(big, t)[e]]
  BY DEF Cells
<1> QED BY <1>2, <1>3, <1>4

\* A range in which no chunk begins needs no insertion.
LEMMA NothingToInsert ==
    ASSUME NEW S, NEW s \in Seq(S), NEW e, NEW D, NEW n \in Nat,
           Len(s) = n, Count(D, 0, n) = 0
    PROVE  InsertedUp(s, s, e, D, n)
<1>1. \A k \in 0..n - 1 : k \notin D
  <2> DEFINE some == {k \in 0..n - 1 : k \in D}
  <2>1. 0 \in Int /\ n \in Int
    OBVIOUS
  <2>2. IsFiniteSet(some) /\ Cardinality(some) = 0
    BY <2>1, CountFinite DEF Count
  <2> HIDE DEF some
  <2>3. some = {}
    BY <2>2, FS_EmptySet
  <2> QED BY <2>3 DEF some
<1>2. ASSUME NEW k \in 0..n
      PROVE  Count(D, 0, k) = 0
  <2>1. {i \in 0..k - 1 : i \in D} = {}
    BY <1>1
  <2> QED BY <2>1, FS_EmptySet DEF Count
<1> QED BY <1>1, <1>2 DEF InsertedUp

\* The array the refinement mapping shows.
GridExtent == IF damaged THEN NULL ELSE IF InLoop THEN old ELSE meta
GridCells  == IF damaged THEN NULL
              ELSE IF InLoop THEN Cells(old, src) ELSE Cells(meta, sc)

\* Module Grid's own copy of the arithmetic is the arithmetic.
LEMMA SameArithmetic ==
    ASSUME NEW s, NEW cells, NEW from, NEW to, NEW start
    PROVE  /\ Ideal!Dims = Dims
           /\ Ideal!GridCoords(s) = GridCoords(s)
           /\ Ideal!CutCells(cells, from, to, start) = CutCells(cells, from, to, start)
           /\ Ideal!GrownCells(cells, from, to, start, Zero)
                = GrownCells(cells, from, to, start, Zero)
<1>1. Ideal!GridCoords(s) = GridCoords(s)
  BY DEF Ideal!GridCoords, Ideal!ChunksInArray, Ideal!ChunkGrid, Ideal!Padded, Ideal!RoundUp, Ideal!Dims,
         GridCoords, ChunksInArray, ChunkGrid, Padded, RoundUp, Dims
<1>2. Ideal!Dims = Dims
  BY DEF Ideal!Dims, Dims
<1>3. Ideal!GridCoords(to) = GridCoords(to)
  BY DEF Ideal!GridCoords, Ideal!ChunksInArray, Ideal!ChunkGrid, Ideal!Padded, Ideal!RoundUp, Ideal!Dims,
         GridCoords, ChunksInArray, ChunkGrid, Padded, RoundUp, Dims
<1>4. Ideal!CutCells(cells, from, to, start) = CutCells(cells, from, to, start)
  BY <1>2, <1>3 DEF Ideal!CutCells, CutCells, Ideal!Shifted, Shifted
<1>5. Ideal!GrownCells(cells, from, to, start, Zero)
        = GrownCells(cells, from, to, start, Zero)
  BY <1>2, <1>3 DEF Ideal!GrownCells, GrownCells, Ideal!Shifted, Shifted,
                   Ideal!Covers, Covers
<1> QED BY <1>1, <1>2, <1>4, <1>5

\* A shape cut out of a larger one, as Cut and Grow ask for it.
LEMMA CutOfIdeal ==
    ASSUME NEW big, NEW small, NEW start, IsCutOf(big, small, start)
    PROVE  /\ \A j \in Ideal!Dims : small[j] <= big[j]
           /\ Ideal!Fits(start, [j \in Ideal!Dims |-> big[j] - small[j]], small, small)
<1>1. Ideal!Dims = Dims
  BY DEF Ideal!Dims, Dims
<1> QED BY <1>1 DEF IsCutOf, Length, Fits, Ideal!Fits

\* What the mapping shows, and that a whole array is not lost.
LEMMA GridOf ==
    ASSUME Whole, ~damaged
    PROVE  /\ GridCells # NULL
           /\ GridExtent \in Shapes
           /\ GridCells \in [GridCoords(GridExtent) -> Contents]
<1>1. /\ old \in Shapes /\ meta \in Shapes /\ sc \in Seq(Contents) /\ src \in Seq(Contents)
      /\ old \in [Dims -> Nat] /\ meta \in [Dims -> Nat]
  BY ShapesType DEF Whole, TypeOK
<1>2. CASE InLoop
  <2>1. Len(src) = NumChunks(old) /\ GridExtent = old /\ GridCells = Cells(old, src)
    BY <1>2 DEF Whole, StoredWhole, GridExtent, GridCells
  <2> QED BY <1>1, <2>1, CellsFacts, NULLAssumption
<1>3. CASE ~InLoop
  <2>1. GridExtent = meta /\ GridCells = Cells(meta, sc)
    BY <1>3 DEF GridExtent, GridCells
  <2>2. pc \in {"idle", "shrink", "extend", "closed"}
    BY <1>3 DEF Whole, TypeOK, Running, InLoop
  <2>3. Len(sc) = NumChunks(meta)
    BY <2>2 DEF Whole, StoredWhole
  <2> QED BY <1>1, <2>1, <2>3, CellsFacts, NULLAssumption
<1> QED BY <1>2, <1>3

\* The end of shrink_shape is a Cut.
LEMMA CutHappens ==
    ASSUME Whole, Whole', ~damaged, ShrinkEnd
    PROVE  Ideal!Next
<1> DEFINE start == StartOr(shape)
<1>1. /\ pc = "deleting" /\ pc' = "extend" /\ cur < 0 /\ damaged' = damaged
      /\ UNCHANGED <<shape, meta, sc>>
  BY DEF ShrinkEnd
<1>2. /\ meta = shape /\ Len(src) = NumChunks(old) /\ nchunks = NumChunks(old)
      /\ shape # old /\ IsCutOf(old, shape, start)
      /\ shape \in Shapes /\ src \in Seq(Contents) /\ sc \in Seq(Contents)
  BY <1>1 DEF Whole, StoredWhole, CallFits, InLoop, TypeOK
<1>3. /\ GridExtent = old /\ GridCells = Cells(old, src)
      /\ GridExtent' = shape /\ GridCells' = Cells(shape, sc)
  <2>1. InLoop /\ ~InLoop'
    BY <1>1 DEF InLoop
  <2>2. Cells(meta, sc)' = Cells(meta, sc)
    BY <1>1 DEF Cells
  <2> QED BY <1>1, <1>2, <2>1, <2>2 DEF GridExtent, GridCells
<1>4. Len(sc) = NumChunks(shape)
  BY <1>1, DeletionEnds DEF Whole
<1>5. DeletedDown(src, sc, Covered(old, shape, start), NumChunks(old), 0)
  <2>1. cur + 1 = 0 /\ DeletedDown(src, sc, CutSet, nchunks, cur + 1)
    BY <1>1 DEF Whole, DeletePass, TypeOK
  <2> QED BY <1>2, <2>1, LoopSets
<1>6. start \in Starts
  <2>1. Shapes \subseteq Starts
    BY ShapesInStarts
  <2> QED BY <1>1, <1>2, <2>1 DEF StartOr, Whole, TypeOK
<1> HIDE DEF start
<1>7. GridCells' = Ideal!CutCells(GridCells, GridExtent, GridExtent', start)
  BY <1>2, <1>3, <1>4, <1>5, DeletionIsCut, SameArithmetic
<1>8. /\ \A j \in Ideal!Dims : shape[j] <= old[j]
      /\ Ideal!Fits(start, [j \in Ideal!Dims |-> old[j] - shape[j]], shape, shape)
  BY <1>2, CutOfIdeal
<1>9. GridCells # NULL
  BY GridOf
<1>10. Ideal!Cut(start)
  BY <1>2, <1>3, <1>7, <1>8, <1>9
     DEF Ideal!Cut, Ideal!Alive, GridExtent, GridCells
<1> QED BY <1>6, <1>10 DEF Ideal!Next

\* The end of extend_shape is a Grow; so is it when the process stops between a growth
\* that needs no chunk and the end of the call.
LEMMA GrowHappens ==
    ASSUME Whole, Whole', ~damaged,
           ExtendEnd \/ (Close /\ pc = "extended")
    PROVE  Ideal!Next
<1> DEFINE start == StartOr(old)
<1>1. /\ pc = "extended" \/ (pc = "inserting" /\ cur >= NumChunks(shape))
      /\ pc' \in {"idle", "closed"} /\ ~damaged'
      /\ UNCHANGED <<shape, meta, sc>>
  <2>1. CASE ExtendEnd
    BY <2>1 DEF ExtendEnd, Return
  <2>2. CASE Close /\ pc = "extended"
    BY <2>2 DEF Close
  <2> QED BY <2>1, <2>2
<1>2. /\ meta = shape /\ Len(src) = NumChunks(old)
      /\ shape # old /\ IsCutOf(shape, old, start) /\ \A j \in Dims : old[j] > 0
      /\ shape \in Shapes /\ src \in Seq(Contents) /\ sc \in Seq(Contents)
  BY <1>1 DEF Whole, StoredWhole, CallFits, InLoop, TypeOK
<1>3. /\ GridExtent = old /\ GridCells = Cells(old, src)
      /\ GridExtent' = shape /\ GridCells' = Cells(shape, sc)
  <2>1. InLoop /\ ~InLoop'
    BY <1>1 DEF InLoop
  <2>2. Cells(meta, sc)' = Cells(meta, sc)
    BY <1>1 DEF Cells
  <2> QED BY <1>1, <1>2, <2>1, <2>2 DEF GridExtent, GridCells
<1>4. Len(sc) = NumChunks(shape)
  BY <1>1, InsertionEnds DEF Whole
<1>5. InsertedUp(src, sc, Zero, Covered(shape, old, start), NumChunks(shape))
  <2>1. NumChunks(shape) \in Nat /\ NumChunks(old) \in Nat
    BY <1>2, NumChunksType DEF IsCutOf
  <2>2. CASE pc = "extended"
    <3>1. NumChunks(shape) = NumChunks(old) /\ sc = src
      BY <2>2 DEF Whole, StoredWhole
    <3>2. NumChunks(old)
            = NumChunks(shape) - Count(Covered(shape, old, start), 0, NumChunks(shape))
      BY <1>2, Renumbering
    <3>3. Count(Covered(shape, old, start), 0, NumChunks(shape)) \in Nat
      BY <2>1, CountBounds
    <3>4. Count(Covered(shape, old, start), 0, NumChunks(shape)) = 0
      BY <2>1, <3>1, <3>2, <3>3
    <3> HIDE DEF start
    <3> QED BY <1>2, <1>4, <2>1, <3>1, <3>4, NothingToInsert
  <2>3. CASE pc = "inserting"
    <3>1. cur <= NumChunks(shape) /\ cur \in Int /\ InsertedUp(src, sc, Zero, FreshSet, cur)
      BY <2>3 DEF Whole, CallFits, InsertPass, TypeOK
    <3>2. cur = NumChunks(shape)
      BY <1>1, <2>1, <2>3, <3>1
    <3> QED BY <3>1, <3>2, LoopSets
  <2> QED BY <1>1, <2>2, <2>3
<1>6. start \in Starts
  BY ShapesInStarts DEF StartOr, Whole, TypeOK
<1> HIDE DEF start
<1>7. GridCells' = Ideal!GrownCells(GridCells, GridExtent, GridExtent', start, Zero)
  <2>1. Cells(shape, sc) = GrownCells(Cells(old, src), old, shape, start, Zero)
    BY <1>2, <1>4, <1>5, InsertionIsGrow
  <2> QED BY <1>3, <2>1, SameArithmetic
<1>8. /\ Ideal!Dims = Dims
      /\ \A j \in Ideal!Dims : old[j] <= shape[j]
      /\ Ideal!Fits(start, [j \in Ideal!Dims |-> shape[j] - old[j]], old, old)
  BY <1>2, CutOfIdeal, SameArithmetic
<1>9. \A j \in Ideal!Dims : shape[j] >= old[j] /\ old[j] > 0
  BY <1>2, <1>8
<1>10. GridCells # NULL
  BY GridOf
<1>11. Ideal!Grow(start)
  BY <1>2, <1>3, <1>7, <1>8, <1>9, <1>10
     DEF Ideal!Grow, Ideal!Alive, GridExtent, GridCells
<1> QED BY <1>6, <1>11 DEF Ideal!Next

\* A fault loses the array; nothing else happens to one that is lost.
LEMMA LossHappens ==
    ASSUME Whole, damaged', [Next]_vars
    PROVE  [Ideal!Next]_(Ideal!vars)
<1>1. CASE damaged
  BY <1>1 DEF Ideal!vars
<1>2. CASE ~damaged
  <2>1. GridCells # NULL
    BY <1>2, GridOf
  <2>2. GridCells' = NULL /\ GridExtent' = NULL
    BY DEF GridCells, GridExtent
  <2>3. Ideal!Lose
    BY <2>1, <2>2 DEF Ideal!Lose, Ideal!Alive, GridCells, GridExtent
  <2> QED BY <2>3 DEF Ideal!Next
<1> QED BY <1>1, <1>2 DEF Whole, TypeOK

\* Every other step leaves the array as it is: the halves work on a copy, so to speak,
\* and entering, refusing, closing and opening change neither metalayer nor chunks.
LEMMA NothingHappens ==
    ASSUME Whole, Whole', ~damaged, ~damaged', [Next]_vars,
           ~ShrinkEnd, ~ExtendEnd, ~(Close /\ pc = "extended")
    PROVE  GridExtent' = GridExtent /\ GridCells' = GridCells
<1>1. ASSUME ~InLoop, ~InLoop', UNCHANGED <<meta, sc>>
      PROVE  GridExtent' = GridExtent /\ GridCells' = GridCells
  BY <1>1 DEF GridExtent, GridCells, Cells
<1>2. ASSUME InLoop, InLoop', UNCHANGED <<old, src>>
      PROVE  GridExtent' = GridExtent /\ GridCells' = GridCells
  BY <1>2 DEF GridExtent, GridCells, Cells
<1>3. ASSUME ~InLoop, InLoop', old' = meta, src' = sc
      PROVE  GridExtent' = GridExtent /\ GridCells' = GridCells
  <2>1. Cells(old, src)' = Cells(meta, sc)
    BY <1>3 DEF Cells
  <2> QED BY <1>3, <2>1 DEF GridExtent, GridCells
<1>4. ASSUME NEW new \in Shapes, NEW start \in Starts \cup {NULL},
             pc = "idle", EnterResize(new, start)
      PROVE  GridExtent' = GridExtent /\ GridCells' = GridCells
  <2>1. pc' \in {"idle", "shrink"} /\ UNCHANGED <<meta, sc>>
    BY <1>4 DEF EnterResize
  <2> QED BY <1>1, <1>4, <2>1 DEF InLoop
<1>5. CASE Resize \/ Delete
  <2>1. \E new \in Shapes, start \in Starts \cup {NULL} : EnterResize(new, start)
    BY <1>5, DeleteEnters DEF Resize, Whole
  <2>2. pc = "idle"
    BY <1>5 DEF Resize, Delete
  <2> QED BY <1>4, <2>1, <2>2
<1>6. CASE Close
  <2>1. pc' = "closed" /\ UNCHANGED <<meta, sc>> /\ pc \notin {"deleting", "inserting"}
    BY <1>6 DEF Close
  <2> QED BY <1>1, <1>6, <2>1 DEF InLoop
<1>7. CASE Open \/ Reject \/ ExtendNothing \/ ShrinkNothing
  <2>1. /\ pc \in {"closed", "shrink", "extend"} /\ pc' \in {"idle", "extend"}
        /\ UNCHANGED <<meta, sc>>
    BY <1>7 DEF Open, Reject, ExtendNothing, ShrinkNothing, Return
  <2> QED BY <1>1, <2>1 DEF InLoop
<1>8. CASE ShrinkBegin \/ ExtendBegin
  <2>1. /\ pc \in {"shrink", "extend"} /\ pc' \in {"deleting", "inserting", "extended"}
        /\ old' = shape /\ src' = sc
    BY <1>8 DEF ShrinkBegin, ExtendBegin, UpdateShape
  <2>2. meta = shape
    BY <2>1 DEF Whole, StoredWhole
  <2> QED BY <1>3, <2>1, <2>2 DEF InLoop
<1>9. CASE ShrinkStep \/ ExtendStep
  <2>1. pc \in {"deleting", "inserting"} /\ UNCHANGED <<pc, old, src>>
    BY <1>9 DEF ShrinkStep, ExtendStep
  <2> QED BY <1>2, <2>1 DEF InLoop
<1>10. ~ UpdateShapeFails /\ ~ ChunkFails
  BY DEF UpdateShapeFails, ChunkFails
<1>11. CASE NoSuchAxis \/ UNCHANGED vars
  BY <1>1, <1>2, <1>11 DEF NoSuchAxis, vars, InLoop
<1> QED BY <1>5, <1>6, <1>7, <1>8, <1>9, <1>10, <1>11 DEF Next, Proceed

\* caterva_resize and caterva_delete implement the resizable grid: whatever calls are
\* made, an array no fault has hit goes through whole shapes only, each half of a
\* resize taking effect at once, and its chunks are where the half's range puts them.
THEOREM ImplementsGrid == ASSUME InRange PROVE Spec => IsResizableGrid
<1>1. Init => Ideal!Init
  <2> SUFFICES ASSUME Init PROVE Ideal!Init
    OBVIOUS
  <2>1. /\ meta \in Shapes /\ meta \in [Dims -> Nat] /\ ~damaged /\ ~InLoop
        /\ meta = shape
    BY ShapesType DEF Init, InLoop
  <2>2. sc \in Seq(Contents) /\ Len(sc) = NumChunks(meta)
    BY InitType, StoredInit DEF Init, TypeOK, StoredWhole
  <2>3. Cells(meta, sc) \in [GridCoords(meta) -> Contents]
    BY <2>1, <2>2, CellsFacts
  <2>4. Cells(meta, sc) \in [Ideal!GridCoords(meta) -> Contents]
    BY <2>3, SameArithmetic
  <2> QED BY <2>1, <2>4 DEF Ideal!Init
<1>2. Whole /\ Whole' /\ [Next]_vars => [Ideal!Next]_(Ideal!vars)
  <2> SUFFICES ASSUME Whole, Whole', [Next]_vars PROVE [Ideal!Next]_(Ideal!vars)
    OBVIOUS
  <2>1. CASE damaged'
    BY <2>1, LossHappens
  <2>2. damaged => damaged'
    BY DEF Next, Proceed, Resize, Delete, NoSuchAxis, EnterResize, Close, Open, Reject,
           ShrinkNothing, ShrinkBegin, ShrinkStep, ShrinkEnd, ExtendNothing, ExtendBegin,
           ExtendStep, ExtendEnd, UpdateShapeFails, ChunkFails, vars
  <2>3. CASE ~damaged' /\ ShrinkEnd
    BY <2>2, <2>3, CutHappens
  <2>4. CASE ~damaged' /\ (ExtendEnd \/ (Close /\ pc = "extended"))
    BY <2>2, <2>4, GrowHappens
  <2>5. CASE ~damaged' /\ ~ShrinkEnd /\ ~ExtendEnd /\ ~(Close /\ pc = "extended")
    <3>1. GridExtent' = GridExtent /\ GridCells' = GridCells
      BY <2>2, <2>5, NothingHappens
    <3> QED BY <3>1 DEF Ideal!vars, GridExtent, GridCells
  <2> QED BY <2>1, <2>3, <2>4, <2>5
<1> QED BY <1>1, <1>2, AlwaysWhole, PTL DEF Spec, IsResizableGrid, Ideal!Spec
=============================================================================
