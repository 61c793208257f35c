----------------------------- MODULE PoolProofs -----------------------------
(***************************************************************************)
(* Theorems about Pool.tla: in every reachable state a slot has at most    *)
(* one owner, is full while it has one, and is on the free stack at most   *)
(* once, empty and nobody's; and the counters add up.  Everything holds    *)
(* for every set of capacities and of holders and for every bound on the   *)
(* slots.                                                                  *)
(*                                                                         *)
(* The inductive invariant says in which of four ways a slot can be taken: *)
(* by a client's handle, by a handle inside another slot's value, by a     *)
(* put_back in progress, or by being on the free stack.  A slot is taken   *)
(* in at most one way and once.  Steps move a slot from one way to another *)
(* (alloc, drop) or drop it from all (forget, a panic).                    *)
(***************************************************************************)
EXTENDS Pool, FiniteSetTheorems, TLAPS

-----------------------------------------------------------------------------
(* The inductive invariant *)

SlotRec == [full : BOOLEAN, owns : Nat]

TypeOK ==
  /\ storage \in Seq(SlotRec) /\ in_use \in Int
  /\ free \in Seq(1..Len(storage)) /\ dropping \in Seq(1..Len(storage))
  /\ handle \in [Holders -> 0..Len(storage)]
  /\ \A j \in 1..Len(storage) : storage[j].owns <= Len(storage)

\* The handle inside the value of slot j is one of slot i.
Inside(j, i) == storage[j].full /\ storage[j].owns = i

\* How slot i can be somebody's, or free.
Held(i) == \E h \in Holders : handle[h] = i
Nested(i) == \E j \in 1..Len(storage) : Inside(j, i)
Dropped(i) == \E k \in 1..Len(dropping) : dropping[k] = i
Listed(i) == \E k \in 1..Len(free) : free[k] = i

\* In each of these ways it is so once at most,
Once(i) ==
  /\ \A g, h \in Holders : handle[g] = i /\ handle[h] = i => g = h
  /\ \A j, k \in 1..Len(storage) : Inside(j, i) /\ Inside(k, i) => j = k
  /\ \A j, k \in 1..Len(dropping) : dropping[j] = i /\ dropping[k] = i => j = k
  /\ \A j, k \in 1..Len(free) : free[j] = i /\ free[k] = i => j = k

\* and in one of them at most; it is full unless it is free.
OneWay(i) ==
  /\ ~(Held(i) /\ Nested(i)) /\ ~(Held(i) /\ Dropped(i)) /\ ~(Nested(i) /\ Dropped(i))
  /\ Held(i) \/ Nested(i) \/ Dropped(i) => storage[i].full
  /\ Listed(i) => ~storage[i].full

SlotsOK == \A i \in 1..Len(storage) : Once(i) /\ OneWay(i)

IInv == TypeOK /\ SlotsOK /\ StatsAddUp

-----------------------------------------------------------------------------
(* Sequences *)

\* What Vec::pop and last leave and return.
LEMMA FrontLast ==
  ASSUME NEW S, NEW s \in Seq(S), s # <<>>
  PROVE  /\ Len(s) \in Nat \ {0} /\ Last(s) = s[Len(s)] /\ Last(s) \in S
         /\ Front(s) \in Seq(S) /\ Len(Front(s)) = Len(s) - 1
         /\ \A k \in 1..Len(Front(s)) : Front(s)[k] = s[k]
<1>1. Len(s) \in Nat /\ DOMAIN s = 1..Len(s) /\ \A k \in 1..Len(s) : s[k] \in S
  OBVIOUS
<1>2. Len(s) # 0
  OBVIOUS
<1>3. Last(s) = s[Len(s)] /\ Last(s) \in S
  BY <1>1, <1>2 DEF Last
<1>4. Front(s) \in Seq(S) /\ Len(Front(s)) = Len(s) - 1
  BY <1>1, <1>2 DEF Front
<1>5. \A k \in 1..Len(Front(s)) : Front(s)[k] = s[k]
  BY <1>1, <1>2 DEF Front
<1> QED
  BY <1>1, <1>2, <1>3, <1>4, <1>5, Zenon

\* What Vec::push makes.
LEMMA AppendFacts ==
  ASSUME NEW S, NEW s \in Seq(S), NEW x \in S
  PROVE  /\ Append(s, x) \in Seq(S) /\ Len(Append(s, x)) = Len(s) + 1
         /\ Len(s) \in Nat
         /\ \A k \in 1..Len(s) : Append(s, x)[k] = s[k]
         /\ Append(s, x)[Len(s) + 1] = x
OBVIOUS

\* A sequence with one element replaced.
LEMMA ReplaceFacts ==
  ASSUME NEW S, NEW s \in Seq(S), NEW i \in 1..Len(s), NEW x \in S
  PROVE  /\ [s EXCEPT ![i] = x] \in Seq(S) /\ Len([s EXCEPT ![i] = x]) = Len(s)
         /\ [s EXCEPT ![i] = x][i] = x
         /\ \A j \in 1..Len(s) \ {i} : [s EXCEPT ![i] = x][j] = s[j]
OBVIOUS

\* A sequence given by its elements.
LEMMA FunctionFacts ==
  ASSUME NEW S, NEW n \in Nat, NEW f, f \in [1..n -> S]
  PROVE  f \in Seq(S) /\ Len(f) = n
OBVIOUS

-----------------------------------------------------------------------------
(* The steps *)

\* with_capacity: every slot is free, once.
LEMMA InitInv ==
  ASSUME Init PROVE IInv
<1>1. PICK capacity \in Capacities :
        /\ storage = [i \in 1..capacity |-> EmptySlot]
        /\ free = InitialFree(capacity)
        /\ in_use = 0 /\ handle = [h \in Holders |-> 0] /\ dropping = <<>>
  BY Zenon DEF Init
<1>2. capacity \in Nat
  BY PoolAssumption, Zenon
<1>3. EmptySlot \in SlotRec /\ EmptySlot.owns = 0 /\ ~EmptySlot.full
  BY Zenon DEF EmptySlot, SlotRec
<1>4. /\ storage \in Seq(SlotRec) /\ Len(storage) = capacity
      /\ \A j \in 1..Len(storage) : storage[j] = EmptySlot
  BY <1>1, <1>2, <1>3, FunctionFacts, Zenon
<1>5. free \in Seq(1..capacity) /\ Len(free) = capacity /\ \A k \in 1..Len(free) : free[k] = k
  BY <1>1, <1>2, FunctionFacts, Zenon DEF InitialFree
<1>6. dropping \in Seq(1..capacity) /\ Len(dropping) = 0
  BY <1>1
<1>7. TypeOK
  BY <1>1, <1>2, <1>3, <1>4, <1>5, <1>6 DEF TypeOK
<1>8. SlotsOK
  <2> SUFFICES ASSUME NEW i \in 1..Len(storage) PROVE Once(i) /\ OneWay(i)
    BY Zenon DEF SlotsOK
  <2>1. ~Held(i) /\ ~Nested(i) /\ ~Dropped(i)
    <3>1. ~Held(i)
      BY <1>1 DEF Held
    <3>2. ~Nested(i)
      BY <1>3, <1>4, Zenon DEF Nested, Inside
    <3>3. ~Dropped(i)
      BY <1>6 DEF Dropped
    <3> QED
      BY <3>1, <3>2, <3>3, Zenon
  <2>2. Once(i)
    BY <2>1, <1>5, Zenon DEF Once, Held, Nested, Dropped
  <2> QED
    BY <2>1, <2>2, <1>3, <1>4, Zenon DEF OneWay
<1> QED
  BY <1>1, <1>2, <1>4, <1>5, <1>7, <1>8 DEF IInv, StatsAddUp

\* What alloc does to the slots: slot n, which nobody has, is taken off the
\* free stack or added to storage, and filled with a value that has `inner`.
Allocates(h, inner, n) ==
  /\ n \in 1..Len(storage')
  /\ storage' \in Seq(SlotRec) /\ Len(storage) <= Len(storage')
  /\ \A j \in 1..Len(storage') \ {n} : j \in 1..Len(storage) /\ storage'[j] = storage[j]
  /\ storage'[n] = [full |-> TRUE, owns |-> inner]
  /\ free' \in Seq(1..Len(storage)) /\ Len(free') <= Len(free)
  /\ \A k \in 1..Len(free') : k \in 1..Len(free) /\ free'[k] = free[k] /\ free'[k] # n
  /\ Len(storage') - Len(free') = Len(storage) - Len(free) + 1
  /\ \A g \in Holders : handle[g] # n
  /\ \A j \in 1..Len(storage) : ~Inside(j, n)
  /\ handle' = [g \in Holders |-> IF g = h THEN n
                                  ELSE IF handle[g] = inner THEN 0 ELSE handle[g]]
  /\ dropping = <<>> /\ dropping' = <<>> /\ in_use' = in_use + 1

\* alloc with a free slot on the stack.
LEMMA AllocPops ==
  ASSUME IInv, NEW h \in Holders, NEW inner \in 0..Len(storage), Alloc(h, inner),
         free # <<>>
  PROVE  \E n \in Nat : Allocates(h, inner, n)
<1> DEFINE n == Last(free)
           x == [full |-> TRUE, owns |-> inner]
<1>0. /\ storage \in Seq(SlotRec) /\ free \in Seq(1..Len(storage))
      /\ Len(storage) \in Nat /\ x \in SlotRec
  BY DEF IInv, TypeOK, SlotRec
<1>1. /\ storage' = [storage EXCEPT ![n] = x]
      /\ handle' = [g \in Holders |-> IF g = h THEN n
                                      ELSE IF handle[g] = inner THEN 0 ELSE handle[g]]
      /\ free' = Front(free) /\ in_use' = in_use + 1
      /\ dropping = <<>> /\ dropping' = <<>>
  BY Zenon DEF Alloc, NextSlot, PoppedFree
<1>2. /\ Len(free) \in Nat \ {0} /\ n = free[Len(free)] /\ n \in 1..Len(storage)
      /\ free' \in Seq(1..Len(storage)) /\ Len(free') = Len(free) - 1
      /\ \A k \in 1..Len(free') : free'[k] = free[k]
  BY <1>0, <1>1, FrontLast, Zenon
<1>3. /\ storage' \in Seq(SlotRec) /\ Len(storage') = Len(storage) /\ storage'[n] = x
      /\ \A j \in 1..Len(storage) \ {n} : storage'[j] = storage[j]
  BY <1>0, <1>1, <1>2, ReplaceFacts
<1>4. Once(n) /\ OneWay(n)
  BY <1>2, Zenon DEF IInv, SlotsOK
<1>5. Len(free) \in 1..Len(free) /\ Len(free) \notin 1..Len(free')
  BY <1>2
<1>6. Listed(n)
  BY <1>2, <1>5, Zenon DEF Listed
<1>7. ~Held(n) /\ ~Nested(n)
  BY <1>4, <1>6, Zenon DEF OneWay
<1>8. \A k \in 1..Len(free') : k \in 1..Len(free)
  BY <1>2
<1>9. \A k \in 1..Len(free') : free'[k] # n
  BY <1>2, <1>4, <1>5, <1>8, Zenon DEF Once
<1>10. n \in Nat /\ Len(storage) <= Len(storage') /\ Len(free') <= Len(free)
       /\ Len(storage') - Len(free') = Len(storage) - Len(free) + 1
  BY <1>0, <1>2, <1>3
<1>11. \A g \in Holders : handle[g] # n
  BY <1>7, Zenon DEF Held
<1>12. \A j \in 1..Len(storage) : ~Inside(j, n)
  BY <1>7, Zenon DEF Nested
<1>13. n \in 1..Len(storage') /\ Len(storage') = Len(storage)
  BY <1>2, <1>3, Zenon
<1> HIDE DEF n
<1>14. Allocates(h, inner, n)
  BY <1>1, <1>2, <1>3, <1>8, <1>9, <1>10, <1>11, <1>12, <1>13, Zenon DEF Allocates
<1> QED
  BY <1>10, <1>14, Zenon

\* alloc with no free slot.
LEMMA AllocGrows ==
  ASSUME IInv, NEW h \in Holders, NEW inner \in 0..Len(storage), Alloc(h, inner),
         free = <<>>
  PROVE  \E n \in Nat : Allocates(h, inner, n)
<1> DEFINE n == Len(storage) + 1
           x == [full |-> TRUE, owns |-> inner]
           grown == Append(storage, EmptySlot)
<1>0. /\ storage \in Seq(SlotRec) /\ free \in Seq(1..Len(storage))
      /\ Len(storage) \in Nat /\ x \in SlotRec /\ EmptySlot \in SlotRec
      /\ Len(free) = 0
  BY DEF IInv, TypeOK, SlotRec, EmptySlot
<1>1. /\ storage' = [grown EXCEPT ![n] = x]
      /\ handle' = [g \in Holders |-> IF g = h THEN n
                                      ELSE IF handle[g] = inner THEN 0 ELSE handle[g]]
      /\ free' = free /\ in_use' = in_use + 1
      /\ dropping = <<>> /\ dropping' = <<>>
  BY Zenon DEF Alloc, NextSlot, PoppedFree
<1>2. /\ grown \in Seq(SlotRec) /\ Len(grown) = n
      /\ \A j \in 1..Len(storage) : grown[j] = storage[j]
  BY <1>0, AppendFacts
<1>3. n \in Nat /\ n \in 1..n /\ 1..n \ {n} = 1..Len(storage) /\ Len(storage) <= n
  BY <1>0
<1> HIDE DEF grown
<1>4. /\ storage' \in Seq(SlotRec) /\ Len(storage') = n /\ storage'[n] = x
      /\ \A j \in 1..n \ {n} : storage'[j] = grown[j]
  BY <1>0, <1>1, <1>2, <1>3, ReplaceFacts
<1>5. \A g \in Holders : handle[g] # n
  BY <1>0 DEF IInv, TypeOK
<1>6. \A j \in 1..Len(storage) : ~Inside(j, n)
  BY <1>0 DEF IInv, TypeOK, Inside
<1>7. 1..Len(free') = {} /\ Len(free') = 0 /\ Len(free') <= Len(free)
  BY <1>0, <1>1
<1>8. Len(storage') - Len(free') = Len(storage) - Len(free) + 1
  BY <1>0, <1>4, <1>7
<1> HIDE DEF n
<1>9. Allocates(h, inner, n)
  BY <1>0, <1>1, <1>2, <1>3, <1>4, <1>5, <1>6, <1>7, <1>8, Zenon DEF Allocates
<1> QED
  BY <1>3, <1>9, Zenon

\* After alloc the new handle is the only one of slot n, `inner` has moved
\* from its holder into slot n, and the other slots are as they were.
LEMMA AllocatesSlots ==
  ASSUME IInv, NEW h \in Holders, NEW inner \in 0..Len(storage),
         inner = 0 \/ Held(inner), NEW n \in Nat, Allocates(h, inner, n),
         NEW i \in 1..Len(storage')
  PROVE  Once(i)' /\ OneWay(i)'
<1>0. i # 0 /\ 1..0 = {}
  OBVIOUS
<1>1. inner # n
  <2>1. CASE inner = 0
    BY <2>1 DEF Allocates
  <2>2. CASE Held(inner)
    BY <2>2, Zenon DEF Allocates, Held
  <2> QED
    BY <2>1, <2>2, Zenon
<1>2. i # n => i \in 1..Len(storage) /\ storage'[i] = storage[i] /\ Once(i) /\ OneWay(i)
  BY Zenon DEF IInv, SlotsOK, Allocates
<1>3. i = inner => Held(i) /\ ~Nested(i)
  BY <1>0, <1>1, <1>2, Zenon DEF OneWay
<1>4. ASSUME NEW g \in Holders, handle'[g] = i
      PROVE  (g = h /\ i = n) \/ (handle[g] = i /\ i # inner /\ i # n)
  BY <1>0, <1>4, Zenon DEF Allocates
<1>5. ASSUME NEW j \in 1..Len(storage'), Inside(j, i)'
      PROVE  \/ j = n /\ i = inner
             \/ j \in 1..Len(storage) /\ Inside(j, i) /\ i # n
  <2>0. storage'[j].owns = i /\ storage'[j].full
    BY <1>5, Zenon DEF Inside
  <2>1. CASE j = n
    BY <2>0, <2>1 DEF Allocates
  <2>2. CASE j # n
    <3>1. j \in 1..Len(storage) /\ storage'[j] = storage[j]
      BY <2>2, Zenon DEF Allocates
    <3>2. Inside(j, i)
      BY <2>0, <3>1, Zenon DEF Inside
    <3> QED
      BY <3>1, <3>2, Zenon DEF Allocates
  <2> QED
    BY <2>1, <2>2, Zenon
<1>6. ASSUME NEW k \in 1..Len(free'), free'[k] = i
      PROVE  k \in 1..Len(free) /\ free[k] = i /\ i # n
  BY <1>6, Zenon DEF Allocates
<1>7. Len(dropping') = 0
  BY Zenon DEF Allocates
<1>8. Once(i)'
  <2>1. \A f, g \in Holders : handle'[f] = i /\ handle'[g] = i => f = g
    BY <1>2, <1>4, Zenon DEF Once
  <2>2. \A j, k \in 1..Len(storage') : Inside(j, i)' /\ Inside(k, i)' => j = k
    BY <1>1, <1>2, <1>3, <1>5, Zenon DEF Once, Nested
  <2>3. \A j, k \in 1..Len(dropping') : dropping'[j] = i /\ dropping'[k] = i => j = k
    BY <1>0, <1>7, Zenon
  <2>4. \A j, k \in 1..Len(free') : free'[j] = i /\ free'[k] = i => j = k
    BY <1>2, <1>6, Zenon DEF Once
  <2> QED
    BY <2>1, <2>2, <2>3, <2>4, Zenon DEF Once
<1>9. ~Dropped(i)'
  BY <1>0, <1>7, Zenon DEF Dropped
<1>10. Held(i)' => i = n \/ (Held(i) /\ i # inner /\ i # n)
  BY <1>4, Zenon DEF Held
<1>11. Nested(i)' => i = inner \/ (Nested(i) /\ i # n)
  BY <1>5, Zenon DEF Nested
<1>12. Listed(i)' => Listed(i) /\ i # n
  BY <1>6, Zenon DEF Listed
<1>13. i = n => storage'[i].full
  BY DEF Allocates
<1>14. OneWay(i)'
  <2>1. ~(Held(i)' /\ Nested(i)')
    BY <1>1, <1>2, <1>10, <1>11, Zenon DEF OneWay
  <2>2. Held(i)' \/ Nested(i)' \/ Dropped(i)' => storage'[i].full
    BY <1>1, <1>2, <1>3, <1>9, <1>10, <1>11, <1>13, Zenon DEF OneWay
  <2>3. Listed(i)' => ~storage'[i].full
    BY <1>2, <1>12, Zenon DEF OneWay
  <2> QED
    BY <1>9, <2>1, <2>2, <2>3, Zenon DEF OneWay
<1> QED
  BY <1>8, <1>14, Zenon

\* Taking a slot, popped or new, keeps the invariant.
LEMMA AllocatesInv ==
  ASSUME IInv, NEW h \in Holders, NEW inner \in 0..Len(storage),
         inner = 0 \/ Held(inner), NEW n \in Nat, Allocates(h, inner, n)
  PROVE  IInv'
<1>1. SlotsOK'
  BY AllocatesSlots, Zenon DEF SlotsOK
<1>2. Len(storage) \in Nat /\ Len(storage') \in Nat /\ Len(free) \in Nat /\ Len(free') \in Nat
  BY DEF IInv, TypeOK, Allocates
<1>3. 1..Len(storage) \subseteq 1..Len(storage') /\ 0..Len(storage) \subseteq 0..Len(storage')
      /\ 1..Len(storage') \subseteq 0..Len(storage') /\ 0 \in 0..Len(storage')
  BY <1>2 DEF Allocates
<1>4. free' \in Seq(1..Len(storage')) /\ dropping' \in Seq(1..Len(storage'))
  BY <1>2, <1>3 DEF Allocates
<1>5. handle' \in [Holders -> 0..Len(storage')]
  BY <1>3, Zenon DEF IInv, TypeOK, Allocates
<1>6. \A j \in 1..Len(storage') : storage'[j].owns <= Len(storage')
  <2> TAKE j \in 1..Len(storage')
  <2>1. CASE j = n
    BY <2>1, <1>2 DEF Allocates
  <2>2. CASE j # n
    <3>1. j \in 1..Len(storage) /\ storage'[j] = storage[j]
      BY <2>2, Zenon DEF Allocates
    <3>2. storage[j].owns <= Len(storage)
      BY <3>1, Zenon DEF IInv, TypeOK
    <3>3. storage[j] \in SlotRec
      BY <3>1 DEF IInv, TypeOK
    <3>4. storage[j].owns \in Nat
      BY <3>3, Zenon DEF SlotRec
    <3> QED
      BY <3>1, <3>2, <3>4, <1>2 DEF Allocates
  <2> QED
    BY <2>1, <2>2, Zenon
<1>7. in_use' \in Int /\ StatsAddUp'
  <2>1. /\ Len(storage') - Len(free') = Len(storage) - Len(free) + 1
        /\ in_use' = in_use + 1
    BY Zenon DEF Allocates
  <2>2. Len(storage) = in_use + Len(free) /\ in_use \in Int
    BY Zenon DEF IInv, TypeOK, StatsAddUp
  <2>3. in_use' \in Int /\ Len(storage') = in_use' + Len(free')
    BY <1>2, <2>1, <2>2
  <2> QED
    BY <2>3, Zenon DEF StatsAddUp
<1>8. TypeOK'
  BY <1>4, <1>5, <1>6, <1>7, Zenon DEF TypeOK, Allocates
<1> QED
  BY <1>1, <1>7, <1>8, Zenon DEF IInv

\* alloc keeps the invariant.
LEMMA AllocInv ==
  ASSUME IInv, NEW h \in Holders, NEW inner \in 0..Len(storage),
         inner = 0 \/ Held(inner), Alloc(h, inner)
  PROVE  IInv'
<1>1. \E n \in Nat : Allocates(h, inner, n)
  BY AllocPops, AllocGrows, Zenon
<1> QED
  BY <1>1, AllocatesInv, Zenon

-----------------------------------------------------------------------------
(* Dropping handles *)

\* The steps of this section add no slot.
Keeps(i) ==
  /\ \A g \in Holders : handle'[g] = i => handle[g] = i
  /\ \A j \in 1..Len(storage') : Inside(j, i)' => j \in 1..Len(storage) /\ Inside(j, i)
  /\ \A k \in 1..Len(dropping') :
       dropping'[k] = i => k \in 1..Len(dropping) /\ dropping[k] = i
  /\ \A k \in 1..Len(free') : free'[k] = i => k \in 1..Len(free) /\ free[k] = i

\* A slot that gets no new owner and is not listed anew stays in order, when
\* it is as full as it was, or is emptied and nobody's.
LEMMA KeptSlot ==
  ASSUME NEW i, Once(i), OneWay(i), Keeps(i),
         \/ storage'[i].full <=> storage[i].full
         \/ ~storage'[i].full /\ ~Held(i)' /\ ~Nested(i)' /\ ~Dropped(i)'
  PROVE  Once(i)' /\ OneWay(i)'
<1>1. Once(i)'
  BY Zenon DEF Once, Keeps
<1>2. Held(i)' => Held(i)
  BY Zenon DEF Held, Keeps
<1>3. Nested(i)' => Nested(i)
  BY Zenon DEF Nested, Keeps
<1>4. Dropped(i)' => Dropped(i)
  BY Zenon DEF Dropped, Keeps
<1>5. Listed(i)' => Listed(i)
  BY Zenon DEF Listed, Keeps
<1> QED
  BY <1>1, <1>2, <1>3, <1>4, <1>5, Zenon DEF OneWay

\* Pooled::drop: the holder's slot becomes the one being put back.
LEMMA DropHandleInv ==
  ASSUME IInv, NEW h \in Holders, DropHandle(h) PROVE IInv'
<1>0. TypeOK /\ SlotsOK /\ StatsAddUp
  BY Zenon DEF IInv
<1>1. PICK s : s = handle[h]
  BY Zenon
<1>2. /\ s # 0 /\ dropping = <<>> /\ dropping' = <<s>>
      /\ handle' = [handle EXCEPT ![h] = 0]
      /\ storage' = storage /\ free' = free /\ in_use' = in_use
  BY <1>1, Zenon DEF DropHandle
<1>3. /\ handle'[h] = 0 /\ (\A g \in Holders : g # h => handle'[g] = handle[g])
      /\ s \in 1..Len(storage) /\ handle' \in [Holders -> 0..Len(storage)]
  BY <1>0, <1>1, <1>2 DEF TypeOK
<1>4. /\ dropping' \in Seq(1..Len(storage)) /\ Len(dropping') = 1
      /\ \A k \in 1..Len(dropping') : k = 1 /\ dropping'[k] = s
  BY <1>2, <1>3
<1>5. TypeOK'
  BY <1>0, <1>2, <1>3, <1>4, Zenon DEF TypeOK
<1>6. ASSUME NEW i \in 1..Len(storage') PROVE Once(i)' /\ OneWay(i)'
  <2>0. i \in 1..Len(storage) /\ i # 0
    BY <1>2
  <2>1. Once(i) /\ OneWay(i)
    BY <2>0, <1>0, Zenon DEF SlotsOK
  <2>2. CASE i # s
    <3>1. Keeps(i)
      BY <2>0, <2>2, <1>2, <1>3, <1>4, Zenon DEF Keeps, Inside
    <3>2. storage'[i].full <=> storage[i].full
      BY <1>2, Zenon
    <3> QED
      BY <2>1, <3>1, <3>2, KeptSlot, Zenon
  <2>3. CASE i = s
    <3>1. Held(i) /\ ~Nested(i) /\ storage[i].full /\ ~Listed(i)
      BY <2>1, <2>3, <1>1, Zenon DEF Held, OneWay
    <3>2. ~Held(i)'
      BY <2>0, <2>1, <2>3, <1>1, <1>3, Zenon DEF Held, Once
    <3>3. ~Nested(i)' /\ ~Listed(i)'
      BY <3>1, <1>2, Zenon DEF Nested, Listed, Inside
    <3>4. Once(i)'
      BY <3>2, <3>3, <1>4, Zenon DEF Once, Held, Nested, Listed
    <3> QED
      BY <3>1, <3>2, <3>3, <3>4, <1>2, Zenon DEF OneWay
  <2> QED
    BY <2>2, <2>3, Zenon
<1>7. SlotsOK' /\ StatsAddUp'
  BY <1>0, <1>2, <1>6, Zenon DEF SlotsOK, StatsAddUp
<1> QED
  BY <1>5, <1>7, Zenon DEF IInv

\* mem::forget: the slot is nobody's, and stays full.
LEMMA ForgetInv ==
  ASSUME IInv, NEW h \in Holders, Forget(h) PROVE IInv'
<1>0. TypeOK /\ SlotsOK /\ StatsAddUp
  BY Zenon DEF IInv
<1>1. /\ handle' = [handle EXCEPT ![h] = 0] /\ dropping' = dropping
      /\ storage' = storage /\ free' = free /\ in_use' = in_use
  BY Zenon DEF Forget
<1>2. /\ handle'[h] = 0 /\ (\A g \in Holders : g # h => handle'[g] = handle[g])
      /\ handle' \in [Holders -> 0..Len(storage)]
  BY <1>0, <1>1 DEF TypeOK
<1>3. TypeOK'
  BY <1>0, <1>1, <1>2, Zenon DEF TypeOK
<1>4. ASSUME NEW i \in 1..Len(storage') PROVE Once(i)' /\ OneWay(i)'
  <2>0. i \in 1..Len(storage) /\ i # 0
    BY <1>1
  <2>1. Once(i) /\ OneWay(i)
    BY <2>0, <1>0, Zenon DEF SlotsOK
  <2>2. Keeps(i) /\ (storage'[i].full <=> storage[i].full)
    BY <2>0, <1>1, <1>2, Zenon DEF Keeps, Inside
  <2> QED
    BY <2>1, <2>2, KeptSlot, Zenon
<1>5. SlotsOK' /\ StatsAddUp'
  BY <1>0, <1>1, <1>4, Zenon DEF SlotsOK, StatsAddUp
<1> QED
  BY <1>3, <1>5, Zenon DEF IInv

\* The slot of the innermost put_back call.
LEMMA Innermost ==
  ASSUME TypeOK, dropping # <<>>
  PROVE  /\ Last(dropping) = dropping[Len(dropping)] /\ Last(dropping) \in 1..Len(storage)
         /\ Len(dropping) \in 1..Len(dropping) /\ Len(dropping) \in Nat
         /\ Dropped(Last(dropping))
<1>1. dropping \in Seq(1..Len(storage))
  BY Zenon DEF TypeOK
<1>2. /\ Last(dropping) = dropping[Len(dropping)] /\ Last(dropping) \in 1..Len(storage)
      /\ Len(dropping) \in Nat \ {0}
  BY <1>1, FrontLast, Zenon
<1>3. Len(dropping) \in 1..Len(dropping)
  BY <1>2
<1> QED
  BY <1>2, <1>3, Zenon DEF Dropped

\* The slots' types, one slot at a time.
LEMMA SlotTypes ==
  ASSUME TypeOK, NEW j \in 1..Len(storage)
  PROVE  /\ storage[j] \in SlotRec /\ storage[j].full \in BOOLEAN
         /\ storage[j].owns \in 0..Len(storage)
<1>1. storage[j] \in SlotRec
  BY DEF TypeOK
<1>2. storage[j].full \in BOOLEAN /\ storage[j].owns \in Nat
  BY <1>1, Zenon DEF SlotRec
<1>3. storage[j].owns <= Len(storage) /\ Len(storage) \in Nat
  BY DEF TypeOK
<1> QED
  BY <1>1, <1>2, <1>3

\* The destructor of the value in slot s drops the handle of slot o in it.
LEMMA DropInnerInv ==
  ASSUME IInv, DropInner PROVE IInv'
<1>0. TypeOK /\ SlotsOK /\ StatsAddUp
  BY Zenon DEF IInv
<1>1. PICK s : s = Last(dropping)
  BY Zenon
<1>2. PICK o : o = storage[s].owns
  BY Zenon
<1>3. /\ dropping # <<>> /\ storage[s].full /\ o # 0
      /\ dropping' = Append(dropping, o) /\ storage' = [storage EXCEPT ![s].owns = 0]
      /\ free' = free /\ in_use' = in_use /\ handle' = handle
  BY <1>1, <1>2, Zenon DEF DropInner
<1>4. s \in 1..Len(storage) /\ s = dropping[Len(dropping)] /\ Dropped(s)
  BY <1>0, <1>1, <1>3, Innermost, Zenon
<1>5. storage[s] \in SlotRec /\ o \in 1..Len(storage)
  BY <1>0, <1>2, <1>3, <1>4, SlotTypes
<1>6. PICK x : x = [storage[s] EXCEPT !.owns = 0]
  BY Zenon
<1>7. x \in SlotRec /\ x.owns = 0 /\ x.full
  BY <1>3, <1>5, <1>6, Zenon DEF SlotRec
<1>8. /\ storage' \in Seq(SlotRec) /\ Len(storage') = Len(storage) /\ storage'[s] = x
      /\ \A j \in 1..Len(storage) \ {s} : storage'[j] = storage[j]
  <2>1. storage' = [storage EXCEPT ![s] = x]
    BY <1>3, <1>6, Zenon
  <2>2. storage \in Seq(SlotRec)
    BY <1>0, Zenon DEF TypeOK
  <2> QED
    BY <2>1, <2>2, <1>4, <1>7, ReplaceFacts
<1>9. /\ dropping' \in Seq(1..Len(storage)) /\ Len(dropping') = Len(dropping) + 1
      /\ (\A k \in 1..Len(dropping) : dropping'[k] = dropping[k])
      /\ dropping'[Len(dropping) + 1] = o /\ Len(dropping) \in Nat
  <2>1. dropping \in Seq(1..Len(storage))
    BY <1>0, Zenon DEF TypeOK
  <2> QED
    BY <2>1, <1>3, <1>5, AppendFacts
<1>10. \A k \in 1..Len(dropping') : k \in 1..Len(dropping) \/ k = Len(dropping) + 1
  BY <1>9
<1>11. TypeOK'
  <2>1. \A j \in 1..Len(storage) : storage'[j].owns <= Len(storage)
    BY <1>0, <1>5, <1>7, <1>8 DEF TypeOK
  <2> QED
    BY <2>1, <1>0, <1>3, <1>8, <1>9, Zenon DEF TypeOK
<1>12. ASSUME NEW i \in 1..Len(storage') PROVE Once(i)' /\ OneWay(i)'
  <2>0. i \in 1..Len(storage) /\ i # 0
    BY <1>8
  <2>1. Once(i) /\ OneWay(i)
    BY <2>0, <1>0, Zenon DEF SlotsOK
  <2>2. ASSUME NEW j \in 1..Len(storage'), Inside(j, i)'
        PROVE  j # s /\ j \in 1..Len(storage) /\ Inside(j, i)
    BY <2>0, <2>2, <1>7, <1>8, Zenon DEF Inside
  <2>3. storage'[i].full <=> storage[i].full
    BY <2>0, <1>3, <1>7, <1>8, Zenon
  <2>4. CASE i # o
    <3>1. Keeps(i)
      BY <2>2, <2>4, <1>3, <1>9, <1>10, Zenon DEF Keeps
    <3> QED
      BY <2>1, <2>3, <3>1, KeptSlot, Zenon
  <2>5. CASE i = o
    <3>1. Inside(s, i)
      BY <2>5, <1>2, <1>3, Zenon DEF Inside
    <3>2. Nested(i)
      BY <3>1, <1>4, Zenon DEF Nested
    <3>3. ~Held(i) /\ ~Dropped(i) /\ storage[i].full /\ ~Listed(i)
      BY <3>2, <2>1, Zenon DEF OneWay
    <3>4. ~Held(i)' /\ ~Listed(i)'
      BY <3>3, <1>3, Zenon DEF Held, Listed
    <3>5. ~Nested(i)'
      BY <3>1, <2>1, <2>2, <1>4, Zenon DEF Nested, Once
    <3>6. \A k \in 1..Len(dropping') : dropping'[k] = i => k = Len(dropping) + 1
      BY <3>3, <1>9, <1>10, Zenon DEF Dropped
    <3>7. Once(i)'
      BY <3>4, <3>5, <3>6, Zenon DEF Once, Held, Nested, Listed
    <3> QED
      BY <3>3, <3>4, <3>5, <3>7, <2>3, Zenon DEF OneWay
  <2> QED
    BY <2>4, <2>5, Zenon
<1>13. SlotsOK' /\ StatsAddUp'
  BY <1>0, <1>3, <1>8, <1>12, Zenon DEF SlotsOK, StatsAddUp
<1> QED
  BY <1>11, <1>13, Zenon DEF IInv

\* The rest of put_back: slot s is emptied, counted and listed.
LEMMA PutBackInv ==
  ASSUME IInv, PutBack PROVE IInv'
<1>0. TypeOK /\ SlotsOK /\ StatsAddUp
  BY Zenon DEF IInv
<1>1. PICK s : s = Last(dropping)
  BY Zenon
<1>2. /\ dropping # <<>> /\ storage[s].full /\ storage[s].owns = 0
      /\ storage' = [storage EXCEPT ![s] = EmptySlot]
      /\ in_use' = in_use - 1 /\ free' = Append(free, s)
      /\ dropping' = Front(dropping) /\ handle' = handle
  BY <1>1, Zenon DEF PutBack
<1>3. s \in 1..Len(storage) /\ s = dropping[Len(dropping)] /\ Dropped(s)
      /\ Len(dropping) \in 1..Len(dropping)
  BY <1>0, <1>1, <1>2, Innermost, Zenon
<1>4. EmptySlot \in SlotRec /\ EmptySlot.owns = 0 /\ ~EmptySlot.full
  BY Zenon DEF EmptySlot, SlotRec
<1>5. /\ storage' \in Seq(SlotRec) /\ Len(storage') = Len(storage)
      /\ storage'[s] = EmptySlot
      /\ \A j \in 1..Len(storage) \ {s} : storage'[j] = storage[j]
  <2>1. storage \in Seq(SlotRec)
    BY <1>0, Zenon DEF TypeOK
  <2> QED
    BY <2>1, <1>2, <1>3, <1>4, ReplaceFacts
<1>6. /\ free' \in Seq(1..Len(storage)) /\ Len(free') = Len(free) + 1
      /\ (\A k \in 1..Len(free) : free'[k] = free[k])
      /\ free'[Len(free) + 1] = s /\ Len(free) \in Nat
  <2>1. free \in Seq(1..Len(storage))
    BY <1>0, Zenon DEF TypeOK
  <2> QED
    BY <2>1, <1>2, <1>3, AppendFacts
<1>7. \A k \in 1..Len(free') : k \in 1..Len(free) \/ k = Len(free) + 1
  BY <1>6
<1>8. /\ dropping' \in Seq(1..Len(storage)) /\ Len(dropping') = Len(dropping) - 1
      /\ \A k \in 1..Len(dropping') : dropping'[k] = dropping[k]
  <2>1. dropping \in Seq(1..Len(storage))
    BY <1>0, Zenon DEF TypeOK
  <2> QED
    BY <2>1, <1>2, FrontLast, Zenon
<1>9. \A k \in 1..Len(dropping') : k \in 1..Len(dropping) /\ k # Len(dropping)
  BY <1>3, <1>8
<1>10. StatsAddUp' /\ in_use' \in Int
  <2>1. Len(storage) = in_use + Len(free) /\ in_use \in Int
    BY <1>0, Zenon DEF StatsAddUp, TypeOK
  <2>2. /\ in_use' = in_use - 1 /\ Len(storage') = Len(storage)
        /\ Len(free') = Len(free) + 1 /\ Len(free) \in Nat
    BY <1>2, <1>5, <1>6, Zenon
  <2>3. in_use' \in Int /\ Len(storage') = in_use' + Len(free')
    BY <2>1, <2>2
  <2> QED
    BY <2>3, Zenon DEF StatsAddUp
<1>11. TypeOK'
  <2>1. \A j \in 1..Len(storage) : storage'[j].owns <= Len(storage)
    <3>1. 0 <= Len(storage)
      BY <1>0 DEF TypeOK
    <3>2. storage'[s].owns <= Len(storage)
      BY <3>1, <1>4, <1>5, Zenon
    <3>3. \A j \in 1..Len(storage) \ {s} : storage'[j].owns <= Len(storage)
      BY <1>0, <1>5, Zenon DEF TypeOK
    <3> QED
      BY <3>2, <3>3, Zenon
  <2> QED
    BY <2>1, <1>0, <1>2, <1>5, <1>6, <1>8, <1>10, Zenon DEF TypeOK
<1>12. ASSUME NEW i \in 1..Len(storage') PROVE Once(i)' /\ OneWay(i)'
  <2>0. i \in 1..Len(storage)
    BY <1>5, Zenon
  <2>1. Once(i) /\ OneWay(i)
    BY <2>0, <1>0, Zenon DEF SlotsOK
  <2>2. ASSUME NEW j \in 1..Len(storage'), Inside(j, i)'
        PROVE  j \in 1..Len(storage) /\ Inside(j, i)
    BY <2>2, <1>4, <1>5, Zenon DEF Inside
  <2>3. CASE i # s
    <3>1. Keeps(i)
      BY <2>2, <2>3, <1>2, <1>6, <1>7, <1>8, <1>9, Zenon DEF Keeps
    <3>2. storage'[i].full <=> storage[i].full
      BY <2>0, <2>3, <1>5, Zenon
    <3> QED
      BY <2>1, <3>1, <3>2, KeptSlot, Zenon
  <2>4. CASE i = s
    <3>1. ~Held(i) /\ ~Nested(i) /\ ~Listed(i)
      BY <2>1, <2>4, <1>2, <1>3, Zenon DEF OneWay
    <3>2. ~Held(i)' /\ ~Nested(i)'
      BY <3>1, <2>2, <1>2, Zenon DEF Held, Nested
    <3>3. ~Dropped(i)'
      BY <2>1, <2>4, <1>3, <1>8, <1>9, Zenon DEF Dropped, Once
    <3>4. \A k \in 1..Len(free') : free'[k] = i => k = Len(free) + 1
      BY <3>1, <1>6, <1>7, Zenon DEF Listed
    <3>5. Once(i)'
      BY <3>2, <3>3, <3>4, Zenon DEF Once, Held, Nested, Dropped
    <3> QED
      BY <3>2, <3>3, <3>5, <2>4, <1>4, <1>5, Zenon DEF OneWay
  <2> QED
    BY <2>3, <2>4, Zenon
<1>13. SlotsOK'
  BY <1>12, Zenon DEF SlotsOK
<1> QED
  BY <1>10, <1>11, <1>13, Zenon DEF IInv

\* A panic unwinds every put_back call: their slots are emptied, and are
\* neither somebody's nor listed.
LEMMA UnwindInv ==
  ASSUME IInv, Unwind PROVE IInv'
<1>0. TypeOK /\ SlotsOK /\ StatsAddUp
  BY Zenon DEF IInv
<1>1. /\ storage' = [i \in DOMAIN storage |->
                       IF \E k \in DOMAIN dropping : dropping[k] = i
                       THEN EmptySlot ELSE storage[i]]
      /\ dropping' = <<>> /\ free' = free /\ in_use' = in_use /\ handle' = handle
  BY Zenon DEF Unwind
<1>2. DOMAIN storage = 1..Len(storage) /\ DOMAIN dropping = 1..Len(dropping)
      /\ Len(storage) \in Nat
  BY <1>0 DEF TypeOK
<1>3. EmptySlot \in SlotRec /\ EmptySlot.owns = 0 /\ ~EmptySlot.full
  BY Zenon DEF EmptySlot, SlotRec
<1>4. \A j \in 1..Len(storage) : storage'[j] = IF Dropped(j) THEN EmptySlot ELSE storage[j]
  BY <1>1, <1>2, Zenon DEF Dropped
<1>5. \A j \in 1..Len(storage) : storage[j] \in SlotRec
  BY <1>0, SlotTypes, Zenon
<1>6. storage' \in [1..Len(storage) -> SlotRec]
  BY <1>1, <1>2, <1>3, <1>5, Zenon
<1>7. storage' \in Seq(SlotRec) /\ Len(storage') = Len(storage)
  BY <1>2, <1>6, FunctionFacts, Zenon
<1>8. dropping' \in Seq(1..Len(storage)) /\ 1..Len(dropping') = {}
  BY <1>1
<1>9. TypeOK'
  <2>1. \A j \in 1..Len(storage) : storage'[j].owns <= Len(storage)
    BY <1>0, <1>2, <1>3, <1>4 DEF TypeOK
  <2> QED
    BY <2>1, <1>0, <1>1, <1>7, <1>8, Zenon DEF TypeOK
<1>10. ASSUME NEW i \in 1..Len(storage') PROVE Once(i)' /\ OneWay(i)'
  <2>0. i \in 1..Len(storage)
    BY <1>7, Zenon
  <2>1. Once(i) /\ OneWay(i)
    BY <2>0, <1>0, Zenon DEF SlotsOK
  <2>2. ASSUME NEW j \in 1..Len(storage'), Inside(j, i)'
        PROVE  j \in 1..Len(storage) /\ Inside(j, i)
    BY <2>2, <1>3, <1>4, <1>7, Zenon DEF Inside
  <2>3. Keeps(i)
    BY <2>2, <1>1, <1>8, Zenon DEF Keeps
  <2>4. CASE Dropped(i)
    <3>1. ~Held(i) /\ ~Nested(i)
      BY <2>1, <2>4, Zenon DEF OneWay
    <3>2. ~Held(i)' /\ ~Nested(i)' /\ ~Dropped(i)'
      BY <3>1, <2>2, <1>1, <1>8, Zenon DEF Held, Nested, Dropped
    <3>3. ~storage'[i].full
      BY <2>0, <2>4, <1>3, <1>4, Zenon
    <3> QED
      BY <2>1, <2>3, <3>2, <3>3, KeptSlot, Zenon
  <2>5. CASE ~Dropped(i)
    <3>1. storage'[i].full <=> storage[i].full
      BY <2>0, <2>5, <1>4, Zenon
    <3> QED
      BY <2>1, <2>3, <3>1, KeptSlot, Zenon
  <2> QED
    BY <2>4, <2>5, Zenon
<1>11. SlotsOK' /\ StatsAddUp'
  BY <1>0, <1>1, <1>7, <1>10, Zenon DEF SlotsOK, StatsAddUp
<1> QED
  BY <1>9, <1>11, Zenon DEF IInv

\* Every step keeps the invariant.
LEMMA NextInv ==
  ASSUME IInv, [Next]_vars PROVE IInv'
<1>1. CASE UNCHANGED vars
  <2>1. /\ storage' = storage /\ free' = free /\ in_use' = in_use
        /\ handle' = handle /\ dropping' = dropping
    BY <1>1, Zenon DEF vars
  <2>2. TypeOK' /\ StatsAddUp'
    BY <2>1, Zenon DEF IInv, TypeOK, StatsAddUp
  <2>3. ASSUME NEW i \in 1..Len(storage) PROVE Once(i)' /\ OneWay(i)'
    <3>1. Keeps(i) /\ (storage'[i].full <=> storage[i].full)
      BY <2>1, Zenon DEF Keeps, Inside
    <3>2. Once(i) /\ OneWay(i)
      BY Zenon DEF IInv, SlotsOK
    <3> QED
      BY <3>1, <3>2, KeptSlot, Zenon
  <2>4. SlotsOK'
    BY <2>1, <2>3, Zenon DEF SlotsOK
  <2> QED
    BY <2>2, <2>4, Zenon DEF IInv
<1>2. ASSUME NEW h \in Holders, Alloc(h, 0) PROVE IInv'
  <2>1. 0 \in 0..Len(storage)
    BY DEF IInv, TypeOK
  <2> QED
    BY <1>2, <2>1, AllocInv, Zenon
<1>3. ASSUME NEW h \in Holders, NEW g \in Holders, Alloc(h, handle[g]) PROVE IInv'
  <2>1. handle[g] \in 0..Len(storage)
    BY Zenon DEF IInv, TypeOK
  <2>2. Held(handle[g])
    BY Zenon DEF Held
  <2> QED
    BY <1>3, <2>1, <2>2, AllocInv, Zenon
<1>4. ASSUME NEW h \in Holders, DropHandle(h) \/ Forget(h) PROVE IInv'
  BY <1>4, DropHandleInv, ForgetInv, Zenon
<1>5. CASE DropInner
  BY <1>5, DropInnerInv, Zenon
<1>6. CASE PutBack
  BY <1>6, PutBackInv, Zenon
<1>7. CASE Unwind
  BY <1>7, UnwindInv, Zenon
<1> QED
  BY <1>1, <1>2, <1>3, <1>4, <1>5, <1>6, <1>7, Zenon DEF Next

\* The invariant holds in every reachable state, for every capacity, number
\* of holders and bound on the slots.
THEOREM SlotInvariance == Spec => []IInv
<1>1. Init => IInv
  BY InitInv, Zenon
<1>2. IInv /\ [Next]_vars => IInv'
  BY NextInv, Zenon
<1> QED
  BY <1>1, <1>2, PTL DEF Spec

\* PoolStats: capacity is in_use plus free, in every state a caller can see and
\* inside every destructor, after panics too.
THEOREM StatsAlwaysAddUp == Spec => []StatsAddUp
<1>1. IInv => StatsAddUp
  BY Zenon DEF IInv
<1> QED
  BY <1>1, SlotInvariance, PTL

\* A set with one element at most.
LEMMA AtMostOne ==
  ASSUME NEW S, \A x, y \in S : x = y
  PROVE  Cardinality(S) \in {0, 1} /\ (Cardinality(S) = 1 <=> S # {})
<1>1. CASE S = {}
  <2>1. Cardinality(S) = 0
    BY <1>1, FS_EmptySet, Zenon
  <2> QED
    BY <1>1, <2>1
<1>2. CASE S # {}
  <2>1. PICK x : S = {x}
    BY <1>2
  <2>2. Cardinality(S) = 1
    BY <2>1, FS_Singleton, Zenon
  <2> QED
    BY <1>2, <2>2, Zenon
<1> QED
  BY <1>1, <1>2, Zenon

\* Counting the owners of a slot.
LEMMA OwnersCounted ==
  ASSUME IInv, NEW i \in 1..Len(storage)
  PROVE  LET listed == Cardinality({k \in DOMAIN free : free[k] = i})
         IN  /\ Owners(i) + listed <= 1
             /\ Owners(i) = 1 => storage[i].full
             /\ listed = 1 => ~storage[i].full
<1> DEFINE A == {h \in Holders : handle[h] = i}
           B == {j \in DOMAIN storage : storage[j].full /\ storage[j].owns = i}
           C == {k \in DOMAIN dropping : dropping[k] = i}
           D == {k \in DOMAIN free : free[k] = i}
<1>1. Once(i) /\ OneWay(i)
  BY Zenon DEF IInv, SlotsOK
<1>2. /\ DOMAIN storage = 1..Len(storage) /\ DOMAIN dropping = 1..Len(dropping)
      /\ DOMAIN free = 1..Len(free)
  BY DEF IInv, TypeOK
<1>3. Cardinality(A) \in {0, 1} /\ (Cardinality(A) = 1 <=> Held(i))
  <2>1. \A x, y \in A : x = y
    BY <1>1, Zenon DEF Once
  <2>2. A # {} <=> Held(i)
    BY Zenon DEF Held
  <2> HIDE DEF A
  <2> QED
    BY <2>1, <2>2, AtMostOne, Zenon
<1>4. Cardinality(B) \in {0, 1} /\ (Cardinality(B) = 1 <=> Nested(i))
  <2>1. \A x, y \in B : x = y
    BY <1>1, <1>2, Zenon DEF Once, Inside
  <2>2. B # {} <=> Nested(i)
    BY <1>2, Zenon DEF Nested, Inside
  <2> HIDE DEF B
  <2> QED
    BY <2>1, <2>2, AtMostOne, Zenon
<1>5. Cardinality(C) \in {0, 1} /\ (Cardinality(C) = 1 <=> Dropped(i))
  <2>1. \A x, y \in C : x = y
    BY <1>1, <1>2, Zenon DEF Once
  <2>2. C # {} <=> Dropped(i)
    BY <1>2, Zenon DEF Dropped
  <2> HIDE DEF C
  <2> QED
    BY <2>1, <2>2, AtMostOne, Zenon
<1>6. Cardinality(D) \in {0, 1} /\ (Cardinality(D) = 1 <=> Listed(i))
  <2>1. \A x, y \in D : x = y
    BY <1>1, <1>2, Zenon DEF Once
  <2>2. D # {} <=> Listed(i)
    BY <1>2, Zenon DEF Listed
  <2> HIDE DEF D
  <2> QED
    BY <2>1, <2>2, AtMostOne, Zenon
<1>7. Owners(i) = Cardinality(A) + Cardinality(B) + Cardinality(C)
  BY Zenon DEF Owners
<1> HIDE DEF A, B, C
<1>8. Owners(i) \in {0, 1} /\ (Owners(i) = 1 <=> Held(i) \/ Nested(i) \/ Dropped(i))
  BY <1>1, <1>3, <1>4, <1>5, <1>7 DEF OneWay
<1>9. ~(Listed(i) /\ (Held(i) \/ Nested(i) \/ Dropped(i)))
  BY <1>1, Zenon DEF OneWay
<1>10. /\ Owners(i) = 1 => storage[i].full
       /\ Cardinality(D) = 1 => ~storage[i].full
  BY <1>1, <1>6, <1>8, Zenon DEF OneWay
<1>11. Owners(i) + Cardinality(D) <= 1
  <2> HIDE DEF D
  <2> QED
    BY <1>6, <1>8, <1>9
<1> QED
  BY <1>10, <1>11, Zenon

\* No two handles share a slot, whoever has them (a client, a pooled value or
\* a put_back in progress), a slot with a handle is full, and a slot on the
\* free stack is there once and empty: neither expect("pooled slot empty") nor
\* alloc's debug_assert can fail, for any nesting of values and any panic.
THEOREM Exclusive == Spec => []HandlesAreExclusive
<1>1. IInv => HandlesAreExclusive
  <2> SUFFICES ASSUME IInv PROVE HandlesAreExclusive
    BY Zenon
  <2>1. DOMAIN storage = 1..Len(storage)
    BY DEF IInv, TypeOK
  <2> QED
    BY <2>1, OwnersCounted, Zenon DEF HandlesAreExclusive
<1> QED
  BY <1>1, SlotInvariance, PTL

=============================================================================
