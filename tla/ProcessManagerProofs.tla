------------------------ MODULE ProcessManagerProofs ------------------------
(***************************************************************************)
(* Proofs about ProcessManager, for any set of threads, any bounds and any *)
(* calls the threads make: the run queue and the slots, and joining.  The  *)
(* first part is about the operators of Containers.                        *)
(***************************************************************************)
EXTENDS ProcessManager, TLAPS, WellFoundedInduction, NaturalsInduction, FiniteSetTheorems

(***************************************************************************)
(* What erase_all returns, for every sequence.  Its kept function is       *)
(* recursive; the induction over its argument is done by looking at the    *)
(* least argument where a claim fails.                                     *)
(***************************************************************************)

\* A nonempty set of natural numbers has a least element.
LEMMA LeastNat ==
  ASSUME NEW T \in SUBSET Nat, T # {}
  PROVE  \E m \in T : \A k \in T : m <= k
<1>1. IsWellFoundedOn(OpToRel(<,Nat), Nat)
  BY NatLessThanWellFounded, Zenon
<1>2. \E m \in T : \A k \in T : ~(<<k,m>> \in OpToRel(<,Nat))
  BY <1>1, WFMin, Zenon
<1>3. \A k, m \in Nat : <<k,m>> \in OpToRel(<,Nat) <=> k < m
  BY Zenon DEF OpToRel
<1>4. PICK m \in T : \A k \in T : ~(k < m)
  BY <1>2, <1>3, Zenon
<1> QED
  BY <1>4

\* Append adds one element, and keeps a sequence free of repetitions when the
\* element is new.
LEMMA AppendElement ==
  ASSUME NEW S, NEW c \in Seq(S), NEW x \in S
  PROVE  /\ Append(c, x) \in Seq(S)
         /\ Range(Append(c, x)) = Range(c) \cup {x}
         /\ IsInjective(c) /\ x \notin Range(c) => IsInjective(Append(c, x))
<1> DEFINE a == Append(c, x)
<1>1. /\ DOMAIN a = 1..(Len(c) + 1) /\ DOMAIN c = 1..Len(c) /\ Len(c) \in Nat
      /\ a[Len(c) + 1] = x /\ \A j \in 1..Len(c) : a[j] = c[j]
      /\ a \in Seq(S)
  OBVIOUS
<1> HIDE DEF a
<1>2. 1..(Len(c) + 1) = (1..Len(c)) \cup {Len(c) + 1}
  BY <1>1
<1>3. {a[j] : j \in DOMAIN a} = {c[j] : j \in DOMAIN c} \cup {x}
  BY <1>1, <1>2
<1>4. IsInjective(c) /\ x \notin Range(c) => IsInjective(a)
  BY <1>1, <1>2 DEF IsInjective, Range
<1> QED BY <1>1, <1>3, <1>4, Zenon DEF Range, a

\* Concatenation of two sequences without common elements.
LEMMA Concatenation ==
  ASSUME NEW S, NEW c \in Seq(S), NEW d \in Seq(S)
  PROVE  /\ c \o d \in Seq(S)
         /\ Range(c \o d) = Range(c) \cup Range(d)
         /\ IsInjective(c) /\ IsInjective(d) /\ Range(c) \cap Range(d) = {} => IsInjective(c \o d)
<1> DEFINE a == c \o d
<1>1. /\ a \in Seq(S) /\ Len(c) \in Nat /\ Len(d) \in Nat
      /\ DOMAIN a = 1..(Len(c) + Len(d)) /\ DOMAIN c = 1..Len(c) /\ DOMAIN d = 1..Len(d)
      /\ \A j \in 1..Len(c) : a[j] = c[j]
      /\ \A j \in (Len(c) + 1)..(Len(c) + Len(d)) : a[j] = d[j - Len(c)]
  OBVIOUS
<1> HIDE DEF a
<1>2. \A j \in DOMAIN a : \/ j \in DOMAIN c /\ a[j] = c[j]
                          \/ j - Len(c) \in DOMAIN d /\ a[j] = d[j - Len(c)] /\ j > Len(c)
  BY <1>1
<1>3. \A j \in DOMAIN d : Len(c) + j \in DOMAIN a /\ a[Len(c) + j] = d[j]
  BY <1>1
<1>4. \A j \in DOMAIN c : j \in DOMAIN a /\ a[j] = c[j]
  BY <1>1
<1>5. Range(a) = Range(c) \cup Range(d)
  BY <1>2, <1>3, <1>4 DEF Range
<1>6. ASSUME IsInjective(c), IsInjective(d), Range(c) \cap Range(d) = {}
      PROVE IsInjective(a)
  <2> SUFFICES ASSUME NEW i \in DOMAIN a, NEW j \in DOMAIN a, a[i] = a[j] PROVE i = j
    BY Zenon DEF IsInjective
  <2>1. CASE i \in DOMAIN c /\ j \in DOMAIN c
    BY <1>4, <1>6, <2>1, Zenon DEF IsInjective
  <2>2. CASE i - Len(c) \in DOMAIN d /\ j - Len(c) \in DOMAIN d /\ i > Len(c) /\ j > Len(c)
    <3>1. d[i - Len(c)] = d[j - Len(c)] BY <1>1, <1>2, <2>2
    <3>2. i - Len(c) = j - Len(c) BY <1>6, <2>2, <3>1, Zenon DEF IsInjective
    <3> QED BY <1>1, <3>2
  <2>3. ASSUME NEW k \in DOMAIN c, NEW l \in DOMAIN d PROVE c[k] # d[l]
    BY <1>6, Zenon DEF Range
  <2> QED BY <1>2, <2>1, <2>2, <2>3, Zenon
<1> QED BY <1>1, <1>5, <1>6, Zenon DEF a

\* The value kept has at i, given its value at i-1.
KeptAt(c, value, f, i) ==
  IF i = 0 THEN <<>> ELSE IF c[i] = value THEN f[i-1] ELSE Append(f[i-1], c[i])

\* The recursion in erase_all defines a function.
LEMMA KeptExists ==
  ASSUME NEW c, NEW value, NEW n \in Nat
  PROVE  \E f : f = [i \in 0..n |-> KeptAt(c, value, f, i)]
<1> DEFINE Ok(m) == \E f : f = [i \in 0..m |-> KeptAt(c, value, f, i)]
           T == {m \in Nat : ~Ok(m)}
<1>1. Ok(0)
  <2> DEFINE g == [i \in 0..0 |-> <<>>]
  <2>1. g = [i \in 0..0 |-> KeptAt(c, value, g, i)]
    BY DEF KeptAt
  <2> QED BY <2>1, Zenon
<1>2. ASSUME NEW m \in Nat, Ok(m) PROVE Ok(m+1)
  <2>1. PICK f : f = [i \in 0..m |-> KeptAt(c, value, f, i)]
    BY <1>2, Zenon
  <2> DEFINE g == [i \in 0..(m+1) |-> IF i = m+1 THEN KeptAt(c, value, f, i) ELSE f[i]]
  <2>2. ASSUME NEW i \in 0..(m+1) PROVE g[i] = KeptAt(c, value, g, i)
    <3>1. CASE i = m+1
      <4>1. g[i] = KeptAt(c, value, f, i) /\ g[i-1] = f[i-1] /\ i # 0
        BY <3>1
      <4> QED BY <4>1, Zenon DEF KeptAt
    <3>2. CASE i = 0
      <4>1. i \in 0..m /\ g[i] = f[i]
        BY <3>2
      <4> QED BY <2>1, <3>2, <4>1, Zenon DEF KeptAt
    <3>3. CASE i # 0 /\ i # m+1
      <4>1. i \in 0..m /\ i-1 \in 0..m /\ i-1 # m+1
        BY <3>3
      <4>2. g[i] = f[i] /\ g[i-1] = f[i-1]
        BY <4>1, <3>3
      <4>3. f[i] = KeptAt(c, value, f, i)
        BY <2>1, <4>1, Zenon
      <4> QED BY <4>2, <4>3, Zenon DEF KeptAt
    <3> QED BY <3>1, <3>2, <3>3, Zenon
  <2>3. g = [i \in 0..(m+1) |-> KeptAt(c, value, g, i)]
    BY <2>2, Zenon
  <2> QED BY <2>3, Zenon
<1> HIDE DEF Ok
<1>3. T = {}
  <2> SUFFICES ASSUME T # {} PROVE FALSE
    BY Zenon
  <2>1. PICK m \in T : \A k \in T : m <= k
    BY LeastNat, Zenon
  <2>2. m # 0 BY <1>1, <2>1, Zenon
  <2>3. m-1 \in Nat /\ m-1 \notin T BY <2>1, <2>2
  <2>4. Ok((m-1)+1) BY <1>2, <2>3, Zenon
  <2> QED BY <2>1, <2>4
<1>4. Ok(n) BY <1>3, Zenon
<1> QED BY <1>4, Zenon DEF Ok

\* erase_all(c, value) has the elements of c other than value, and repeats none
\* that c does not repeat.
LEMMA EraseAll ==
  ASSUME NEW S, NEW c \in Seq(S), NEW value
  PROVE  /\ erase_all(c, value) \in Seq(S)
         /\ Range(erase_all(c, value)) = Range(c) \ {value}
         /\ IsInjective(c) => IsInjective(erase_all(c, value))
<1> DEFINE n == Len(c)
           kept == CHOOSE f : f = [i \in 0..n |-> KeptAt(c, value, f, i)]
<1>0. n \in Nat OBVIOUS
<1>1. kept = [i \in 0..n |-> KeptAt(c, value, kept, i)]
  BY KeptExists, <1>0, ZenonT(60)
<1>2. erase_all(c, value) = kept[n]
  BY Zenon DEF erase_all, KeptAt
<1> HIDE DEF kept
<1> DEFINE P(i) == /\ kept[i] \in Seq(S)
                   /\ Range(kept[i]) = {c[j] : j \in 1..i} \ {value}
                   /\ IsInjective(c) => IsInjective(kept[i])
           T == {i \in 0..n : ~P(i)}
<1>3. 0 \in 0..n => P(0)
  <2>1. kept[0] = <<>> BY <1>0, <1>1 DEF KeptAt
  <2> QED BY <2>1 DEF Range, IsInjective
<1>4. ASSUME NEW i \in 1..n, P(i-1) PROVE P(i)
  <2>0. i \in 0..n /\ i-1 \in Nat /\ c[i] \in S /\ i # 0 BY <1>0
  <2>1. CASE c[i] = value
    <3>1. kept[i] = kept[i-1] BY <1>1, <2>0, <2>1, Zenon DEF KeptAt
    <3>2. {c[j] : j \in 1..i} \ {value} = {c[j] : j \in 1..(i-1)} \ {value}
      BY <2>0, <2>1
    <3> QED BY <1>4, <3>1, <3>2, Zenon
  <2>2. CASE c[i] # value
    <3> DEFINE k == kept[i-1]
    <3>1. kept[i] = Append(k, c[i]) BY <1>1, <2>0, <2>2, Zenon DEF KeptAt
    <3>2. k \in Seq(S) /\ Range(k) = {c[j] : j \in 1..(i-1)} \ {value}
      BY <1>4, Zenon
    <3> HIDE DEF k
    <3>3. Append(k, c[i]) \in Seq(S) BY <2>0, <3>2
    <3>4. Range(Append(k, c[i])) = Range(k) \cup {c[i]}
      BY <2>0, <3>2, AppendElement
    <3>5. {c[j] : j \in 1..i} \ {value} = ({c[j] : j \in 1..(i-1)} \ {value}) \cup {c[i]}
      BY <2>0, <2>2
    <3>6. ASSUME IsInjective(c) PROVE IsInjective(Append(k, c[i]))
      <4>1. IsInjective(k) BY <1>4, <3>6, Zenon DEF k
      <4>2. c[i] \notin Range(k)
        BY <2>0, <3>2, <3>6 DEF IsInjective
      <4> QED BY <2>0, <3>2, <4>1, <4>2, AppendElement, Zenon
    <3> QED BY <3>1, <3>2, <3>3, <3>4, <3>5, <3>6, Zenon
  <2> QED BY <2>1, <2>2, Zenon
<1> HIDE DEF P
<1>5. P(n)
  <2> SUFFICES ASSUME n \in T PROVE FALSE
    BY <1>0
  <2>0. T \in SUBSET Nat /\ T # {} BY <1>0
  <2>1. PICK m \in T : \A k \in T : m <= k
    BY LeastNat, <2>0, Zenon
  <2>2. m # 0 BY <1>0, <1>3, <2>1, Zenon
  <2>3. m \in 1..n /\ m-1 \in 0..n /\ m-1 \notin T BY <1>0, <2>1, <2>2
  <2>4. P(m) BY <1>4, <2>3, Zenon
  <2> QED BY <2>1, <2>4, Zenon
<1>6. Range(c) = {c[j] : j \in 1..n} BY DEF Range
<1> QED BY <1>2, <1>5, <1>6, Zenon DEF P

\* Where x occurs in c.
Occurrences(c, x) == {k \in DOMAIN c : c[k] = x}

LEMMA OccurrencesFinite ==
  ASSUME NEW S, NEW c \in Seq(S), NEW x
  PROVE  /\ IsFiniteSet(Occurrences(c, x))
         /\ Cardinality(Occurrences(c, x)) \in Nat
         /\ Cardinality(Occurrences(c, x)) = 0 <=> x \notin Range(c)
<1>1. DOMAIN c = 1..Len(c) /\ Len(c) \in Int /\ 1 \in Int
  OBVIOUS
<1>2. IsFiniteSet(1..Len(c))
  BY <1>1, FS_Interval, Zenon
<1>3. Occurrences(c, x) \in SUBSET (1..Len(c))
  BY <1>1, Zenon DEF Occurrences
<1>4. IsFiniteSet(Occurrences(c, x))
  BY <1>2, <1>3, FS_Subset, Zenon
<1>5. Occurrences(c, x) = {} <=> x \notin Range(c)
  BY Zenon DEF Occurrences, Range
<1> QED BY <1>4, <1>5, FS_CardinalityType, FS_EmptySet, Zenon

\* Append adds one occurrence, of the element appended.
LEMMA AppendOccurrences ==
  ASSUME NEW S, NEW c \in Seq(S), NEW y \in S, NEW x
  PROVE  Cardinality(Occurrences(Append(c, y), x)) =
           Cardinality(Occurrences(c, x)) + (IF x = y THEN 1 ELSE 0)
<1> DEFINE a == Append(c, y)
<1>1. /\ DOMAIN a = 1..(Len(c) + 1) /\ DOMAIN c = 1..Len(c) /\ Len(c) \in Nat
      /\ a[Len(c) + 1] = y /\ \A j \in 1..Len(c) : a[j] = c[j]
  OBVIOUS
<1> HIDE DEF a
<1>2. 1..(Len(c) + 1) = (1..Len(c)) \cup {Len(c) + 1} /\ Len(c) + 1 \notin 1..Len(c)
  BY <1>1
<1>3. IsFiniteSet(Occurrences(c, x)) /\ Cardinality(Occurrences(c, x)) \in Nat
  BY OccurrencesFinite, Zenon
<1>4. CASE x = y
  <2>1. Occurrences(a, x) = Occurrences(c, x) \cup {Len(c) + 1} /\ Len(c) + 1 \notin Occurrences(c, x)
    BY <1>1, <1>2, <1>4, Zenon DEF Occurrences
  <2>2. Cardinality(Occurrences(a, x)) = Cardinality(Occurrences(c, x)) + 1
    BY <1>3, <2>1, FS_AddElement, Zenon
  <2> QED BY <1>4, <2>2, Zenon DEF a
<1>5. CASE x # y
  <2>1. Occurrences(a, x) = Occurrences(c, x)
    BY <1>1, <1>2, <1>5, Zenon DEF Occurrences
  <2> QED BY <1>3, <1>5, <2>1 DEF a
<1> QED BY <1>4, <1>5, Zenon

\* erase_all keeps every occurrence of the other elements.
LEMMA EraseAllOccurrences ==
  ASSUME NEW S, NEW c \in Seq(S), NEW value, NEW x, x # value
  PROVE  Cardinality(Occurrences(erase_all(c, value), x)) = Cardinality(Occurrences(c, x))
<1> DEFINE n == Len(c)
           kept == CHOOSE f : f = [i \in 0..n |-> KeptAt(c, value, f, i)]
           first(i) == {k \in 1..i : c[k] = x}
<1>0. n \in Nat OBVIOUS
<1>1. kept = [i \in 0..n |-> KeptAt(c, value, kept, i)]
  BY KeptExists, <1>0, ZenonT(60)
<1>2. erase_all(c, value) = kept[n]
  BY Zenon DEF erase_all, KeptAt
<1> HIDE DEF kept
<1> DEFINE P(i) == /\ kept[i] \in Seq(S)
                   /\ Cardinality(Occurrences(kept[i], x)) = Cardinality(first(i))
           T == {i \in 0..n : ~P(i)}
<1>3. P(0)
  <2>1. kept[0] = <<>> BY <1>0, <1>1 DEF KeptAt
  <2>2. Occurrences(<<>>, x) = {} /\ first(0) = {} BY DEF Occurrences
  <2>3. <<>> \in Seq(S) OBVIOUS
  <2> HIDE DEF first
  <2> QED BY <2>1, <2>2, <2>3, Zenon
<1>4. ASSUME NEW i \in 1..n, P(i-1) PROVE P(i)
  <2>0. /\ i \in 0..n /\ i-1 \in Nat /\ c[i] \in S /\ i # 0
        /\ 1..i = (1..(i-1)) \cup {i} /\ i \notin 1..(i-1) /\ 1 \in Int /\ i-1 \in Int
    BY <1>0
  <2>1. CASE c[i] = value
    <3>1. kept[i] = kept[i-1] BY <1>1, <2>0, <2>1, Zenon DEF KeptAt
    <3>2. first(i) = first(i-1) BY <2>0, <2>1, Zenon
    <3> QED BY <1>4, <3>1, <3>2, Zenon
  <2>2. CASE c[i] # value
    <3> DEFINE k == kept[i-1]
    <3>1. kept[i] = Append(k, c[i]) BY <1>1, <2>0, <2>2, Zenon DEF KeptAt
    <3>2. k \in Seq(S) /\ Cardinality(Occurrences(k, x)) = Cardinality(first(i-1))
      BY <1>4, Zenon
    <3> HIDE DEF k
    <3>3. Append(k, c[i]) \in Seq(S) BY <2>0, <3>2
    <3>4. Cardinality(Occurrences(Append(k, c[i]), x)) =
            Cardinality(first(i-1)) + (IF x = c[i] THEN 1 ELSE 0)
      BY <2>0, <3>2, AppendOccurrences
    <3>5. IsFiniteSet(1..(i-1)) BY <2>0, FS_Interval, Zenon
    <3>6. IsFiniteSet(first(i-1)) BY <3>5, FS_Subset, Zenon
    <3>7. Cardinality(first(i-1)) \in Nat BY <3>6, FS_CardinalityType, Zenon
    <3>8. CASE x = c[i]
      <4>1. first(i) = first(i-1) \cup {i} /\ i \notin first(i-1) BY <2>0, <3>8, Zenon
      <4>2. Cardinality(first(i-1) \cup {i}) = Cardinality(first(i-1)) + 1
        <5> HIDE DEF first
        <5> QED BY <3>6, <4>1, FS_AddElement, Zenon
      <4> HIDE DEF first
      <4> QED BY <3>1, <3>3, <3>4, <3>8, <4>1, <4>2, Zenon
    <3>9. CASE x # c[i]
      <4>1. first(i) = first(i-1) BY <2>0, <3>9, Zenon
      <4> HIDE DEF first
      <4> QED BY <3>1, <3>3, <3>4, <3>7, <3>9, <4>1
    <3> QED BY <3>8, <3>9, Zenon
  <2> QED BY <2>1, <2>2, Zenon
<1> HIDE DEF P
<1>5. P(n)
  <2> SUFFICES ASSUME n \in T PROVE FALSE
    BY <1>0
  <2>0. T \in SUBSET Nat /\ T # {} BY <1>0
  <2>1. PICK m \in T : \A k \in T : m <= k
    BY LeastNat, <2>0, Zenon
  <2>2. m # 0 BY <1>0, <1>3, <2>1, Zenon
  <2>3. m \in 1..n /\ m-1 \in 0..n /\ m-1 \notin T BY <1>0, <2>1, <2>2
  <2>4. P(m) BY <1>4, <2>3, Zenon
  <2> QED BY <2>1, <2>4, Zenon
<1>6. Occurrences(c, x) = first(n) BY DEF Occurrences
<1> QED BY <1>2, <1>5, <1>6, Zenon DEF P

LEMMA Singleton ==
  ASSUME NEW x
  PROVE  Range(<<x>>) = {x}
BY DEF Range
-----------------------------------------------------------------------------
(***************************************************************************)
(* The scheduler and the table of threads.                                 *)
(***************************************************************************)

\* The part of the state the scheduler works on: types, the run queue's
\* agreement with running_on, and the idle thread, which is always ready, so
\* that update_this_thread finds a thread.
QueueInv ==
  /\ running_on \in [Threads -> BOOLEAN]
  /\ suspended \in [Threads -> Nat]
  /\ run_queue \in Seq(Threads)
  /\ this_thread \in Threads
  /\ RunQueueExact
  /\ running_on[Idle] /\ suspended[Idle] = 0

\* switch_thread keeps the queue exact and finds a thread to run, from a queue
\* that is exact but for the running thread.
LEMMA SwitchThread ==
  ASSUME NEW rq \in Seq(Threads), NEW ro \in [Threads -> BOOLEAN],
         NEW sus \in [Threads -> Nat], NEW now,
         this_thread \in Threads, IsInjective(rq),
         Range(rq) \ {this_thread} = {t \in Threads : ro[t]} \ {this_thread},
         ro[Idle], sus[Idle] = 0,
         switch_thread(rq, ro, sus, now)
  PROVE  QueueInv' /\ running_on' = ro /\ fatal' = fatal
<1> DEFINE kept == erase_all(rq, this_thread)
           q == IF ro[this_thread] THEN Append(kept, this_thread) ELSE kept
           ready == {i \in DOMAIN q : ~should_skip(q[i], sus, now)}
<1>1. kept \in Seq(Threads) /\ Range(kept) = Range(rq) \ {this_thread} /\ IsInjective(kept)
  BY EraseAll, Zenon
<1> HIDE DEF kept
<1>2. q \in Seq(Threads) /\ IsInjective(q) /\ Range(q) = {t \in Threads : ro[t]}
  <2>1. CASE ro[this_thread]
    <3>1. this_thread \notin Range(kept) BY <1>1, Zenon
    <3>2. /\ Append(kept, this_thread) \in Seq(Threads)
          /\ Range(Append(kept, this_thread)) = Range(kept) \cup {this_thread}
          /\ IsInjective(Append(kept, this_thread))
      BY <1>1, <3>1, AppendElement
    <3> QED BY <1>1, <2>1, <3>2, Zenon
  <2>2. CASE ~ro[this_thread]
    BY <1>1, <2>2, Zenon
  <2> QED BY <2>1, <2>2, Zenon
<1>3. /\ run_queue' = q
      /\ running_on' = ro
      /\ IF ready = {}
         THEN /\ fatal' = "run queue empty"
              /\ suspended' = sus
              /\ this_thread' = this_thread
         ELSE \E i \in ready :
                /\ \A j \in ready : i <= j
                /\ this_thread' = q[i]
                /\ suspended' = [sus EXCEPT ![q[i]] = 0]
                /\ fatal' = fatal
  BY Zenon DEF switch_thread, kept
<1> HIDE DEF q
<1>4. ready # {}
  <2>1. PICK i \in DOMAIN q : q[i] = Idle
    BY <1>2, ConstantsAssumption DEF Range
  <2>2. ~should_skip(q[i], sus, now)
    BY <2>1 DEF should_skip
  <2> QED BY <2>2, Zenon
<1>5. PICK i \in ready : /\ this_thread' = q[i]
                         /\ suspended' = [sus EXCEPT ![q[i]] = 0]
                         /\ fatal' = fatal
  BY <1>3, <1>4, Zenon
<1>6. q[i] \in Threads /\ ro[q[i]]
  BY <1>2, <1>5, Zenon DEF Range
<1>7. suspended' \in [Threads -> Nat] /\ suspended'[Idle] = 0
  BY <1>5, <1>6, ConstantsAssumption, Zenon
<1> QED BY <1>2, <1>3, <1>5, <1>6, <1>7, Zenon DEF QueueInv, RunQueueExact

\* The running thread goes to sleep.
LEMMA SleepThis ==
  ASSUME QueueInv, this_thread # Idle, sleep_this
  PROVE  /\ QueueInv' /\ fatal' = fatal
         /\ running_on' = [running_on EXCEPT ![this_thread] = FALSE]
<1> DEFINE ro == [running_on EXCEPT ![this_thread] = FALSE]
<1>1. ro \in [Threads -> BOOLEAN] /\ ro[Idle]
      /\ Range(run_queue) \ {this_thread} = {t \in Threads : ro[t]} \ {this_thread}
  BY ConstantsAssumption, Zenon DEF QueueInv, RunQueueExact
<1>2. switch_thread(run_queue, ro, suspended, tick)
  BY Zenon DEF sleep_this
<1> HIDE DEF ro
<1>3. QueueInv' /\ running_on' = ro /\ fatal' = fatal
  BY <1>1, <1>2, SwitchThread, Zenon DEF QueueInv, RunQueueExact
<1> QED BY <1>3, Zenon DEF ro

\* Waking the threads of a list queues those of them that were asleep.
LEMMA WakeupThreads ==
  ASSUME QueueInv, NEW list \in Seq(Threads), wakeup_threads(list),
         UNCHANGED <<suspended, this_thread>>
  PROVE  /\ QueueInv'
         /\ running_on' = [t \in Threads |-> running_on[t] \/ t \in Range(list)]
<1> DEFINE asleep == {t \in Range(list) : ~running_on[t]}
<1>0. PICK n \in 0..Len(list) : \E order \in [1..n -> asleep] :
        /\ IsWakeOrder(order, list)
        /\ run_queue' = run_queue \o order
        /\ running_on' = [t \in Threads |-> running_on[t] \/ t \in asleep]
  BY Zenon DEF wakeup_threads
<1>1. PICK order \in [1..n -> asleep] :
        /\ IsWakeOrder(order, list)
        /\ run_queue' = run_queue \o order
        /\ running_on' = [t \in Threads |-> running_on[t] \/ t \in asleep]
  BY <1>0, Zenon
<1>2. Range(list) \subseteq Threads
  BY DEF Range
<1>3. order \in [1..n -> Threads] /\ n \in Nat
  BY <1>1, <1>2
<1>4. order \in Seq(Threads) /\ IsInjective(order) /\ Range(order) = asleep
  <2>1. order \in Seq(Threads) BY <1>3
  <2> QED BY <1>1, <2>1, Zenon DEF IsWakeOrder
<1>5. Range(run_queue) \cap Range(order) = {}
  BY <1>4, Zenon DEF QueueInv, RunQueueExact
<1>6. /\ run_queue' \in Seq(Threads) /\ IsInjective(run_queue')
      /\ Range(run_queue') = Range(run_queue) \cup asleep
  BY <1>1, <1>4, <1>5, Concatenation DEF QueueInv, RunQueueExact
<1>7. running_on' = [t \in Threads |-> running_on[t] \/ t \in Range(list)]
  <2>1. \A t \in Threads : (running_on[t] \/ t \in asleep) = (running_on[t] \/ t \in Range(list))
    BY Zenon DEF QueueInv
  <2> QED BY <1>1, <2>1, Zenon
<1>8. Range(run_queue') = {t \in Threads : running_on'[t]}
  BY <1>1, <1>2, <1>6, Zenon DEF QueueInv, RunQueueExact
<1> QED BY <1>6, <1>7, <1>8, ConstantsAssumption, Zenon DEF QueueInv, RunQueueExact

\* migrate_threads only reorders the queue of a single processor.
LEMMA MigrateThreads ==
  ASSUME NEW rq \in Seq(Threads), IsInjective(rq)
  PROVE  /\ migrate_threads(rq) \in Seq(Threads) /\ IsInjective(migrate_threads(rq))
         /\ Range(migrate_threads(rq)) = Range(rq)
<1> DEFINE movable == {i \in DOMAIN rq : rq[i] \notin {Kernel, Idle, this_thread}}
           first == CHOOSE i \in movable : \A j \in movable : i <= j
           t == rq[first]
<1>1. CASE movable = {}
  BY <1>1, Zenon DEF migrate_threads
<1>2. CASE movable # {}
  <2>1. movable \in SUBSET Nat
    OBVIOUS
  <2>2. \E i \in movable : \A j \in movable : i <= j
    BY <1>2, <2>1, LeastNat, Zenon
  <2>3. first \in movable
    BY <2>2, Zenon
  <2>4. migrate_threads(rq) = Append(erase_all(rq, t), t)
    BY <1>2, Zenon DEF migrate_threads
  <2> HIDE DEF first
  <2>5. t \in Threads /\ t \in Range(rq)
    BY <2>3 DEF Range
  <2> HIDE DEF t
  <2>6. /\ erase_all(rq, t) \in Seq(Threads) /\ Range(erase_all(rq, t)) = Range(rq) \ {t}
        /\ IsInjective(erase_all(rq, t))
    BY EraseAll, Zenon
  <2>7. /\ Append(erase_all(rq, t), t) \in Seq(Threads)
        /\ Range(Append(erase_all(rq, t), t)) = Range(erase_all(rq, t)) \cup {t}
        /\ IsInjective(Append(erase_all(rq, t), t))
    BY <2>5, <2>6, AppendElement
  <2> QED BY <2>4, <2>5, <2>6, <2>7, Zenon
<1> QED BY <1>1, <1>2, Zenon

\* A tick keeps the queue exact, wakes nobody but the kernel thread and puts
\* nobody to sleep.
LEMMA TimerTick ==
  ASSUME QueueInv, tick \in 0..MigratePeriod, NEW message \in BOOLEAN, timer_tick(message)
  PROVE  /\ QueueInv' /\ fatal' = fatal
         /\ tick' \in 0..MigratePeriod
         /\ running_on' = [running_on EXCEPT ![Kernel] = @ \/ message]
<1> DEFINE woken == message /\ ~running_on[Kernel]
           rq == IF woken THEN Append(run_queue, Kernel) ELSE run_queue
           ro == [running_on EXCEPT ![Kernel] = @ \/ message]
           mq == IF NextTick = MigratePeriod THEN migrate_threads(rq) ELSE rq
<1>1. /\ tick' = NextTick
      /\ switch_thread(mq, ro, elapse, NextTick)
  BY Zenon DEF timer_tick
<1>2. ro \in [Threads -> BOOLEAN] /\ ro[Idle]
  BY ConstantsAssumption, Zenon DEF QueueInv
<1>3. elapse \in [Threads -> Nat] /\ elapse[Idle] = 0
  BY ConstantsAssumption DEF QueueInv, elapse
<1>4. rq \in Seq(Threads) /\ IsInjective(rq) /\ Range(rq) = {t \in Threads : ro[t]}
  <2>1. CASE woken
    <3>1. Kernel \in Threads /\ Kernel \notin Range(run_queue)
      BY <2>1, ConstantsAssumption, Zenon DEF QueueInv, RunQueueExact
    <3>2. /\ Append(run_queue, Kernel) \in Seq(Threads)
          /\ Range(Append(run_queue, Kernel)) = Range(run_queue) \cup {Kernel}
          /\ IsInjective(Append(run_queue, Kernel))
      BY <3>1, AppendElement DEF QueueInv, RunQueueExact
    <3> QED BY <2>1, <3>1, <3>2, Zenon DEF QueueInv, RunQueueExact
  <2>2. CASE ~woken
    <3>1. \A t \in Threads : ro[t] = running_on[t]
      BY <2>2, ConstantsAssumption, Zenon DEF QueueInv
    <3> QED BY <2>2, <3>1, Zenon DEF QueueInv, RunQueueExact
  <2> QED BY <2>1, <2>2, Zenon
<1> HIDE DEF rq
<1>5. mq \in Seq(Threads) /\ IsInjective(mq) /\ Range(mq) = {t \in Threads : ro[t]}
  BY <1>4, MigrateThreads, Zenon
<1> HIDE DEF mq
<1>6. this_thread \in Threads
  BY Zenon DEF QueueInv
<1>7. QueueInv' /\ running_on' = ro /\ fatal' = fatal
  <2> HIDE DEF ro
  <2> QED BY <1>1, <1>2, <1>3, <1>5, <1>6, SwitchThread, Zenon
<1>8. NextTick \in 0..MigratePeriod
  BY ConstantsAssumption DEF NextTick
<1> QED BY <1>1, <1>7, <1>8, Zenon

\* The inductive invariant behind RunQueueExact.
Inv == TypeOK /\ QueueInv /\ pc[Idle] = "run" /\ fatal # "run queue empty"

\* The conjuncts of TypeOK that QueueInv does not already state.
Types ==
  /\ processes \subseteq Pids
  /\ threads \in [Pids -> [Tids -> Threads \cup {None}]]
  /\ created \subseteq Threads
  /\ zombie \in [Threads -> BOOLEAN]
  /\ waiting \in [Threads -> [Eids -> Nat]]
  /\ events \in [Eids -> {None} \cup Seq(Threads)]
  /\ tick \in 0..MigratePeriod
  /\ mutex \in {0, 1}
  /\ pc \in [Threads -> PCs]
  /\ arg \in [Threads -> [pid : Pids, tid : Tids, eids : SUBSET Eids]]
  /\ fatal \in {"none", "unknown event_id"}
  /\ pc[Idle] = "run"

LEMMA InvParts == Inv <=> QueueInv /\ Types
  BY Zenon DEF Inv, QueueInv, Types, TypeOK

LEMMA InvPartsNext == Inv' <=> QueueInv' /\ Types'
  BY Zenon DEF Inv, QueueInv, Types, TypeOK

LEMMA InvInit == Init => Inv
<1> SUFFICES ASSUME Init PROVE QueueInv /\ Types
  BY InvParts, Zenon
<1>1. Types
  <2>1. 0 \in Pids /\ 0 \in Tids
    BY ConstantsAssumption DEF Pids, Tids
  <2>2. processes \subseteq Pids /\ created \subseteq Threads
    BY <2>1, ConstantsAssumption, Zenon DEF Init, kernel_pid
  <2>3. threads \in [Pids -> [Tids -> Threads \cup {None}]]
    <3>1. \A p \in Pids, i \in Tids :
            (IF p = kernel_pid /\ i = 0 THEN Kernel
             ELSE IF p = kernel_pid /\ i = 1 THEN Idle ELSE None) \in Threads \cup {None}
      BY ConstantsAssumption, Zenon
    <3> QED BY <3>1, Zenon DEF Init
  <2>4. zombie \in [Threads -> BOOLEAN]
    BY Zenon DEF Init
  <2>5. waiting \in [Threads -> [Eids -> Nat]]
    BY Zenon DEF Init
  <2>6. events \in [Eids -> {None} \cup Seq(Threads)]
    <3>1. <<>> \in {None} \cup Seq(Threads) OBVIOUS
    <3> QED BY <3>1, Zenon DEF Init
  <2>7. pc \in [Threads -> PCs] /\ pc[Idle] = "run"
    BY ConstantsAssumption, Zenon DEF Init, PCs
  <2>8. arg \in [Threads -> [pid : Pids, tid : Tids, eids : SUBSET Eids]]
    BY <2>1, Zenon DEF Init, NoArg, Arg
  <2>9. tick \in 0..MigratePeriod /\ mutex \in {0, 1} /\ fatal \in {"none", "unknown event_id"}
    BY ConstantsAssumption DEF Init
  <2> QED BY <2>2, <2>3, <2>4, <2>5, <2>6, <2>7, <2>8, <2>9, Zenon DEF Types
<1>2. QueueInv
  <2>1. run_queue \in Seq(Threads) /\ IsInjective(run_queue) /\ Range(run_queue) = {Kernel, Idle}
    BY ConstantsAssumption DEF Init, IsInjective, Range
  <2>2. {t \in Threads : running_on[t]} = {Kernel, Idle}
    BY ConstantsAssumption, Zenon DEF Init
  <2>3. running_on \in [Threads -> BOOLEAN] /\ running_on[Kernel] /\ running_on[Idle]
    <3>1. running_on = [t \in Threads |-> t \in {Kernel, Idle}]
      BY Zenon DEF Init
    <3>2. running_on \in [Threads -> BOOLEAN]
      <4>1. \A t \in Threads : (t \in {Kernel, Idle}) \in BOOLEAN
        OBVIOUS
      <4> QED BY <3>1, <4>1, Zenon
    <3>3. Kernel \in Threads /\ Idle \in Threads
      BY ConstantsAssumption, Zenon
    <3> QED BY <3>1, <3>2, <3>3, Zenon
  <2>4. suspended \in [Threads -> Nat] /\ suspended[Idle] = 0 /\ this_thread = Kernel
    BY ConstantsAssumption, Zenon DEF Init
  <2> QED BY <2>1, <2>2, <2>3, <2>4, ConstantsAssumption, Zenon DEF QueueInv, RunQueueExact
<1> QED BY <1>1, <1>2, Zenon

\* Event lists and Thread::events keep their types when a thread registers.
LEMMA RegisterTypes ==
  ASSUME Types, NEW t \in Threads, NEW es, NEW n, register(t, es, n)
  PROVE  /\ events' \in [Eids -> {None} \cup Seq(Threads)]
         /\ waiting' \in [Threads -> [Eids -> Nat]]
<1> DEFINE ids == {es[k] : k \in 1..n}
<1>1. /\ \A e \in ids : events[e] # None
      /\ events' = [e \in Eids |-> IF e \in ids THEN Append(events[e], t) ELSE events[e]]
      /\ waiting' = [waiting EXCEPT ![t] =
                       [e \in Eids |-> IF e \in ids THEN waiting[t][e] + 1 ELSE waiting[t][e]]]
  BY Zenon DEF register
<1> HIDE DEF ids
<1>2. \A e \in Eids \cap ids : Append(events[e], t) \in Seq(Threads)
  BY <1>1, AppendElement, Zenon DEF Types
<1>3. events' \in [Eids -> {None} \cup Seq(Threads)]
  BY <1>1, <1>2, Zenon DEF Types
<1>4. [e \in Eids |-> IF e \in ids THEN waiting[t][e] + 1 ELSE waiting[t][e]] \in [Eids -> Nat]
  <2>1. waiting \in [Threads -> [Eids -> Nat]]
    BY Zenon DEF Types
  <2>2. \A e \in Eids : waiting[t][e] \in Nat
    BY <2>1, Zenon
  <2> QED BY <2>2
<1>5. waiting' \in [Threads -> [Eids -> Nat]]
  BY <1>1, <1>4, Zenon DEF Types
<1> QED BY <1>3, <1>5, Zenon

\* ... and when an event is notified.
LEMMA NotifyTypes ==
  ASSUME Types, NEW e \in Eids, notify(e)
  PROVE  /\ events[e] \in Seq(Threads)
         /\ events' \in [Eids -> {None} \cup Seq(Threads)]
         /\ waiting' \in [Threads -> [Eids -> Nat]]
<1>1. events[e] \in Seq(Threads)
  BY Zenon DEF Types, notify
<1>2. events' \in [Eids -> {None} \cup Seq(Threads)]
  <2>1. <<>> \in {None} \cup Seq(Threads) OBVIOUS
  <2> QED BY <2>1, Zenon DEF Types, notify
<1>3. \A x \in Threads : [waiting[x] EXCEPT ![e] = 0] \in [Eids -> Nat] /\ waiting[x] \in [Eids -> Nat]
  BY Zenon DEF Types
<1>4. waiting' \in [Threads -> [Eids -> Nat]]
  BY <1>3, Zenon DEF notify
<1> QED BY <1>1, <1>2, <1>4, Zenon

\* The running thread t ends up at a label with an argument of the right type.
LEMMA GotoTypes ==
  ASSUME Types, NEW t \in Threads \ {Idle}, NEW l \in PCs,
         NEW x \in [pid : Pids, tid : Tids, eids : SUBSET Eids], Goto(t, l, x)
  PROVE  /\ pc' \in [Threads -> PCs] /\ pc'[Idle] = "run"
         /\ arg' \in [Threads -> [pid : Pids, tid : Tids, eids : SUBSET Eids]]
BY ConstantsAssumption, Zenon DEF Types, Goto

LEMMA ArgType ==
  /\ 0 \in Pids /\ 0 \in Tids /\ 0 \in Eids
  /\ NoArg \in [pid : Pids, tid : Tids, eids : SUBSET Eids]
  /\ \A p \in Pids, i \in Tids, S \in SUBSET Eids :
       Arg(p, i, S) \in [pid : Pids, tid : Tids, eids : SUBSET Eids]
BY ConstantsAssumption DEF NoArg, Arg, Pids, Tids, Eids

LEMMA ReturnTypes ==
  ASSUME Types, NEW t \in Threads \ {Idle}, Return(t)
  PROVE  /\ pc' \in [Threads -> PCs] /\ pc'[Idle] = "run"
         /\ arg' \in [Threads -> [pid : Pids, tid : Tids, eids : SUBSET Eids]]
<1>1. "run" \in PCs /\ NoArg \in [pid : Pids, tid : Tids, eids : SUBSET Eids]
  BY ArgType, Zenon DEF PCs
<1> QED BY <1>1, GotoTypes, Zenon DEF Return

LEMMA QueueUnchanged == QueueInv /\ UNCHANGED queue => QueueInv'
  BY Zenon DEF QueueInv, RunQueueExact, queue

\* A call is made by a thread other than Idle.
LEMMA CallerNotIdle ==
  ASSUME QueueInv, Types, NEW t \in Threads
  PROVE  /\ \A op : Call(t, op) => t = this_thread /\ t \in Threads \ {Idle}
         /\ \A label : Resume(t, label) /\ label # "run" => t = this_thread /\ t \in Threads \ {Idle}
BY Zenon DEF Call, Resume, Types

LEMMA SlotType ==
  ASSUME Types, NEW p \in Pids, NEW i \in Tids
  PROVE  threads[p][i] \in Threads \cup {None}
<1>1. threads \in [Pids -> [Tids -> Threads \cup {None}]]
  BY Zenon DEF Types
<1> QED BY <1>1, Zenon

LEMMA SpanIds ==
  ASSUME NEW es \in Spans
  PROVE  Len(es) \in Nat /\ DOMAIN es = 1..Len(es) /\ \A k \in 1..Len(es) : es[k] \in UserEids
<1>1. PICK n \in 1..2 : es \in [1..n -> UserEids]
  BY Zenon DEF Spans
<1>2. es \in Seq(UserEids)
  BY <1>1
<1> QED BY <1>2

\* The manager's own step from a state of the invariant: calls that end in the
\* same step.
LEMMA InvCalls ==
  ASSUME QueueInv, Types, NEW t \in Threads
  PROVE  /\ create_process(t) => QueueInv' /\ Types'
         /\ \A p \in Pids : create_thread(t, p) => QueueInv' /\ Types'
         /\ \A p \in Pids, i \in Tids : wakeup_thread(t, p, i) => QueueInv' /\ Types'
         /\ sleep_this_thread(t) => QueueInv' /\ Types'
         /\ \A n \in 1..MaxSuspend : suspend_this_thread(t, n) => QueueInv' /\ Types'
<1>1. ASSUME create_process(t) PROVE QueueInv' /\ Types'
  <2>1. QueueInv' BY <1>1, QueueUnchanged, Zenon DEF create_process
  <2>2. Types' BY <1>1, Zenon DEF create_process, IsEmptySlot, control, Types
  <2> QED BY <2>1, <2>2, Zenon
<1>2. ASSUME NEW p \in Pids, create_thread(t, p) PROVE QueueInv' /\ Types'
  <2>1. QueueInv' BY <1>2, QueueUnchanged, Zenon DEF create_thread
  <2>2. PICK x \in Threads, i \in Tids :
          threads' = [threads EXCEPT ![p][i] = x] /\ created' = created \cup {x}
    BY <1>2, Zenon DEF create_thread
  <2>3. threads' \in [Pids -> [Tids -> Threads \cup {None}]]
    BY <2>2, Zenon DEF Types
  <2>4. Types' BY <1>2, <2>2, <2>3, Zenon DEF create_thread, control, Types
  <2> QED BY <2>1, <2>4, Zenon
<1>3. ASSUME NEW p \in Pids, NEW i \in Tids, wakeup_thread(t, p, i) PROVE QueueInv' /\ Types'
  <2>1. threads[p][i] \in Threads
    BY <1>3, SlotType, Zenon DEF wakeup_thread
  <2>2. <<threads[p][i]>> \in Seq(Threads)
    BY <2>1
  <2>3. QueueInv' BY <1>3, <2>2, WakeupThreads, Zenon DEF wakeup_thread
  <2>4. Types' BY <1>3, Zenon DEF wakeup_thread, tables, control, Types
  <2> QED BY <2>3, <2>4, Zenon
<1>4. ASSUME sleep_this_thread(t) PROVE QueueInv' /\ Types'
  <2>1. this_thread # Idle
    BY <1>4, CallerNotIdle, Zenon DEF sleep_this_thread
  <2>2. QueueInv' /\ fatal' = fatal
    BY <1>4, <2>1, SleepThis, Zenon DEF sleep_this_thread
  <2>3. Types' BY <1>4, <2>2, Zenon DEF sleep_this_thread, tables, control, Types
  <2> QED BY <2>2, <2>3, Zenon
<1>5. ASSUME NEW n \in 1..MaxSuspend, suspend_this_thread(t, n) PROVE QueueInv' /\ Types'
  <2>1. t # Idle /\ t = this_thread
    BY <1>5, CallerNotIdle, Zenon DEF suspend_this_thread
  <2> DEFINE sus == [suspended EXCEPT ![t] = n]
  <2>2. sus \in [Threads -> Nat] /\ sus[Idle] = 0
    BY <2>1, ConstantsAssumption DEF QueueInv
  <2>3. switch_thread(run_queue, running_on, sus, tick)
    BY <1>5, Zenon DEF suspend_this_thread
  <2> HIDE DEF sus
  <2>4. QueueInv' /\ fatal' = fatal
    BY <2>2, <2>3, SwitchThread, Zenon DEF QueueInv, RunQueueExact
  <2>5. Types' BY <1>5, <2>4, Zenon DEF suspend_this_thread, tables, control, Types
  <2> QED BY <2>4, <2>5, Zenon
<1> QED BY <1>1, <1>2, <1>3, <1>4, <1>5, Zenon

\* ... calls on events.
LEMMA InvEvents ==
  ASSUME QueueInv, Types, NEW t \in Threads
  PROVE  /\ \A es \in Spans : wait_events(t, es) => QueueInv' /\ Types'
         /\ wait_events_return(t) => QueueInv' /\ Types'
         /\ \A es \in Spans : unwait_events(t, es) => QueueInv' /\ Types'
         /\ \A e \in UserEids : notify_event(t, e) => QueueInv' /\ Types'
         /\ create_event(t) => QueueInv' /\ Types'
         /\ create_event_emplace(t) => QueueInv' /\ Types'
         /\ \A e \in UserEids : delete_event(t, e) => QueueInv' /\ Types'
         /\ delete_event_reset(t) => QueueInv' /\ Types'
<1>1. ASSUME NEW es \in Spans, wait_events(t, es) PROVE QueueInv' /\ Types'
  <2>1. t # Idle /\ t = this_thread /\ t \in Threads \ {Idle}
    BY <1>1, CallerNotIdle, Zenon DEF wait_events
  <2>2. PICK n \in 0..Len(es) :
          /\ register(t, es, n)
          /\ IF n = Len(es)
             THEN sleep_this /\ Goto(t, "wait_events", Arg(0, 0, {es[k] : k \in 1..n}))
             ELSE UNCHANGED <<queue, fatal, control>>
    BY <1>1, Zenon DEF wait_events
  <2>3. events' \in [Eids -> {None} \cup Seq(Threads)] /\ waiting' \in [Threads -> [Eids -> Nat]]
    BY <2>2, RegisterTypes, Zenon
  <2>4. UNCHANGED <<tables, zombie, tick, mutex>>
    BY <1>1, Zenon DEF wait_events
  <2>5. CASE n = Len(es)
    <3>1. {es[k] : k \in 1..n} \in SUBSET Eids
      BY <2>5, SpanIds, Zenon DEF UserEids
    <3>2. Arg(0, 0, {es[k] : k \in 1..n}) \in [pid : Pids, tid : Tids, eids : SUBSET Eids]
      BY <3>1, ArgType, Zenon
    <3>3. QueueInv' /\ fatal' = fatal
      BY <2>1, <2>2, <2>5, SleepThis, Zenon
    <3>4. /\ pc' \in [Threads -> PCs] /\ pc'[Idle] = "run"
          /\ arg' \in [Threads -> [pid : Pids, tid : Tids, eids : SUBSET Eids]]
      <4>1. "wait_events" \in PCs BY Zenon DEF PCs
      <4> QED BY <2>1, <2>2, <2>5, <3>2, <4>1, GotoTypes, ZenonT(60)
    <3> QED BY <2>3, <2>4, <3>3, <3>4, Zenon DEF Types, tables
  <2>6. CASE n # Len(es)
    <3>1. UNCHANGED <<queue, fatal, control>> BY <2>2, <2>6, Zenon
    <3>2. QueueInv' BY <3>1, QueueUnchanged, Zenon
    <3> QED BY <2>3, <2>4, <3>1, <3>2, Zenon DEF Types, tables, control
  <2> QED BY <2>5, <2>6, Zenon
<1>2. ASSUME wait_events_return(t) PROVE QueueInv' /\ Types'
  <2>1. t \in Threads \ {Idle}
    BY <1>2, CallerNotIdle, Zenon DEF wait_events_return
  <2>3. /\ pc' \in [Threads -> PCs] /\ pc'[Idle] = "run"
        /\ arg' \in [Threads -> [pid : Pids, tid : Tids, eids : SUBSET Eids]]
    BY <1>2, <2>1, ReturnTypes, Zenon DEF wait_events_return
  <2>4. QueueInv' BY <1>2, QueueUnchanged, Zenon DEF wait_events_return
  <2> QED BY <1>2, <2>3, <2>4, Zenon DEF wait_events_return, Types, tables
<1>3. ASSUME NEW es \in Spans, unwait_events(t, es) PROVE QueueInv' /\ Types'
  <2>1. PICK n \in 0..Len(es) :
          /\ \A k \in 1..n : events[es[k]] # None
          /\ events' = [e \in Eids |-> IF e \in {es[k] : k \in 1..n} THEN erase_all(events[e], t) ELSE events[e]]
          /\ waiting' = [waiting EXCEPT ![t] =
                           [e \in Eids |-> IF e \in {es[k] : k \in 1..n} THEN 0 ELSE waiting[t][e]]]
    BY <1>3, Zenon DEF unwait_events
  <2> DEFINE ids == {es[k] : k \in 1..n}
  <2>2. \A e \in ids : events[e] # None
    BY <2>1, Zenon
  <2> HIDE DEF ids
  <2>3. events' \in [Eids -> {None} \cup Seq(Threads)]
    <3>1. \A e \in Eids \cap ids : erase_all(events[e], t) \in Seq(Threads)
      BY <2>2, EraseAll, Zenon DEF Types
    <3> QED BY <2>1, <3>1, Zenon DEF Types, ids
  <2>4. waiting' \in [Threads -> [Eids -> Nat]]
    <3>1. waiting \in [Threads -> [Eids -> Nat]] BY Zenon DEF Types
    <3>2. \A e \in Eids : waiting[t][e] \in Nat BY <3>1, Zenon
    <3>3. [e \in Eids |-> IF e \in ids THEN 0 ELSE waiting[t][e]] \in [Eids -> Nat]
      BY <3>2, Zenon
    <3> QED BY <2>1, <3>1, <3>3, Zenon DEF ids
  <2>5. QueueInv' BY <1>3, QueueUnchanged, Zenon DEF unwait_events
  <2> QED BY <1>3, <2>3, <2>4, <2>5, ZenonT(60) DEF unwait_events, Types, tables, control
<1>4. ASSUME NEW e \in UserEids, notify_event(t, e) PROVE QueueInv' /\ Types'
  <2>1. e \in Eids BY Zenon DEF UserEids
  <2>2. /\ events[e] \in Seq(Threads)
        /\ events' \in [Eids -> {None} \cup Seq(Threads)]
        /\ waiting' \in [Threads -> [Eids -> Nat]]
    BY <1>4, <2>1, NotifyTypes, Zenon DEF notify_event
  <2>3. QueueInv' BY <1>4, <2>2, WakeupThreads, Zenon DEF notify_event, notify
  <2> QED BY <1>4, <2>2, <2>3, Zenon DEF notify_event, Types, tables, control
<1>5. ASSUME create_event(t) PROVE QueueInv' /\ Types'
  <2>1. t \in Threads \ {Idle}
    BY <1>5, CallerNotIdle, Zenon DEF create_event
  <2>2. PICK e \in Eids : Goto(t, "create_event", Arg(0, 0, {e}))
    BY <1>5, Zenon DEF create_event
  <2>3. "create_event" \in PCs /\ Arg(0, 0, {e}) \in [pid : Pids, tid : Tids, eids : SUBSET Eids]
    BY ArgType, Zenon DEF PCs
  <2>4. /\ pc' \in [Threads -> PCs] /\ pc'[Idle] = "run"
        /\ arg' \in [Threads -> [pid : Pids, tid : Tids, eids : SUBSET Eids]]
    BY <2>1, <2>2, <2>3, GotoTypes, ZenonT(60)
  <2>5. QueueInv' BY <1>5, QueueUnchanged, ZenonT(60) DEF create_event
  <2> QED BY <1>5, <2>4, <2>5, Zenon DEF create_event, Types, tables
<1>6. ASSUME create_event_emplace(t) PROVE QueueInv' /\ Types'
  <2>1. t \in Threads \ {Idle}
    BY <1>6, CallerNotIdle, Zenon DEF create_event_emplace
  <2>3. /\ pc' \in [Threads -> PCs] /\ pc'[Idle] = "run"
        /\ arg' \in [Threads -> [pid : Pids, tid : Tids, eids : SUBSET Eids]]
    BY <1>6, <2>1, ReturnTypes, ZenonT(60) DEF create_event_emplace
  <2>4. events' \in [Eids -> {None} \cup Seq(Threads)]
    <3>1. <<>> \in {None} \cup Seq(Threads) OBVIOUS
    <3> QED BY <1>6, <3>1, Zenon DEF create_event_emplace, Types
  <2>5. QueueInv' BY <1>6, QueueUnchanged, Zenon DEF create_event_emplace
  <2> QED BY <1>6, <2>3, <2>4, <2>5, ZenonT(60) DEF create_event_emplace, Types, tables
<1>7. ASSUME NEW e \in UserEids, delete_event(t, e) PROVE QueueInv' /\ Types'
  <2>1. t \in Threads \ {Idle}
    BY <1>7, CallerNotIdle, Zenon DEF delete_event
  <2>2. /\ "delete_event" \in PCs
        /\ Arg(0, 0, {e}) \in [pid : Pids, tid : Tids, eids : SUBSET Eids]
    BY ArgType, Zenon DEF PCs, UserEids
  <2>3. /\ pc' \in [Threads -> PCs] /\ pc'[Idle] = "run"
        /\ arg' \in [Threads -> [pid : Pids, tid : Tids, eids : SUBSET Eids]]
    BY <1>7, <2>1, <2>2, GotoTypes, Zenon DEF delete_event
  <2>4. QueueInv' BY <1>7, QueueUnchanged, Zenon DEF delete_event
  <2> QED BY <1>7, <2>3, <2>4, ZenonT(60) DEF delete_event, Types, tables
<1>8. ASSUME delete_event_reset(t) PROVE QueueInv' /\ Types'
  <2>1. t \in Threads \ {Idle}
    BY <1>8, CallerNotIdle, ZenonT(60) DEF delete_event_reset
  <2>3. /\ pc' \in [Threads -> PCs] /\ pc'[Idle] = "run"
        /\ arg' \in [Threads -> [pid : Pids, tid : Tids, eids : SUBSET Eids]]
    BY <1>8, <2>1, ReturnTypes, ZenonT(60) DEF delete_event_reset
  <2>4. events' \in [Eids -> {None} \cup Seq(Threads)]
    BY <1>8, Zenon DEF delete_event_reset, Types
  <2>5. QueueInv' BY <1>8, QueueUnchanged, Zenon DEF delete_event_reset
  <2> QED BY <1>8, <2>3, <2>4, <2>5, ZenonT(60) DEF delete_event_reset, Types, tables
<1> QED BY <1>1, <1>2, <1>3, <1>4, <1>5, <1>6, <1>7, <1>8, ZenonT(60)

\* ... exiting and joining.
LEMMA InvJoin ==
  ASSUME QueueInv, Types, NEW t \in Threads
  PROVE  /\ exit_this_thread(t) => QueueInv' /\ Types'
         /\ exit_notify(t) => QueueInv' /\ Types'
         /\ exit_sleep(t) => QueueInv' /\ Types'
         /\ \A p \in Pids, i \in Tids : wait_thread(t, p, i) => QueueInv' /\ Types'
         /\ \A p \in Pids : wait_process(t, p) => QueueInv' /\ Types'
<1>1. ASSUME exit_this_thread(t) PROVE QueueInv' /\ Types'
  <2>1. t \in Threads \ {Idle}
    BY <1>1, CallerNotIdle, Zenon DEF exit_this_thread, cancel_events_of_thread
  <2>2. "exit_notify" \in PCs /\ NoArg \in [pid : Pids, tid : Tids, eids : SUBSET Eids]
    BY ArgType, Zenon DEF PCs
  <2>3. /\ pc' \in [Threads -> PCs] /\ pc'[Idle] = "run"
        /\ arg' \in [Threads -> [pid : Pids, tid : Tids, eids : SUBSET Eids]]
    BY <1>1, <2>1, <2>2, GotoTypes, ZenonT(60) DEF exit_this_thread, cancel_events_of_thread
  <2>4. zombie' \in [Threads -> BOOLEAN] /\ mutex' \in {0, 1}
    BY <1>1, Zenon DEF exit_this_thread, cancel_events_of_thread, Types
  <2>5. /\ events' \in [Eids -> {None} \cup Seq(Threads)]
        /\ fatal' \in {"none", "unknown event_id"}
    <3>1. CASE \E e \in Eids : waiting[t][e] > 0 /\ events[e] = None
      BY <1>1, <3>1, Zenon DEF exit_this_thread, cancel_events_of_thread, Types
    <3>2. CASE ~ \E e \in Eids : waiting[t][e] > 0 /\ events[e] = None
      <4>1. /\ events' = [e \in Eids |-> IF waiting[t][e] > 0 THEN erase_all(events[e], t) ELSE events[e]]
            /\ fatal' = fatal
        BY <1>1, <3>2, ZenonT(60) DEF exit_this_thread, cancel_events_of_thread
      <4>2. \A e \in Eids : waiting[t][e] > 0 => erase_all(events[e], t) \in Seq(Threads)
        BY <3>2, EraseAll, ZenonT(60) DEF Types
      <4> QED BY <4>1, <4>2, ZenonT(60) DEF Types
    <3> QED BY <3>1, <3>2, Zenon
  <2>6. QueueInv' BY <1>1, QueueUnchanged, Zenon DEF exit_this_thread, cancel_events_of_thread
  <2> QED BY <1>1, <2>3, <2>4, <2>5, <2>6, ZenonT(60) DEF exit_this_thread, cancel_events_of_thread, Types, tables
<1>2. ASSUME exit_notify(t) PROVE QueueInv' /\ Types'
  <2>1. t \in Threads \ {Idle} /\ thread_joined_event \in Eids
    BY <1>2, CallerNotIdle, ArgType, Zenon DEF exit_notify, thread_joined_event
  <2>2. "exit_sleep" \in PCs /\ NoArg \in [pid : Pids, tid : Tids, eids : SUBSET Eids]
    BY ArgType, Zenon DEF PCs
  <2>3. /\ pc' \in [Threads -> PCs] /\ pc'[Idle] = "run"
        /\ arg' \in [Threads -> [pid : Pids, tid : Tids, eids : SUBSET Eids]]
    BY <1>2, <2>1, <2>2, GotoTypes, Zenon DEF exit_notify
  <2>4. /\ events[thread_joined_event] \in Seq(Threads)
        /\ events' \in [Eids -> {None} \cup Seq(Threads)]
        /\ waiting' \in [Threads -> [Eids -> Nat]]
    BY <1>2, <2>1, NotifyTypes, Zenon DEF exit_notify
  <2>5. QueueInv' BY <1>2, <2>4, WakeupThreads, Zenon DEF exit_notify, notify
  <2> QED BY <1>2, <2>3, <2>4, <2>5, ZenonT(60) DEF exit_notify, Types, tables
<1>3. ASSUME exit_sleep(t) PROVE QueueInv' /\ Types'
  <2>1. this_thread # Idle
    BY <1>3, CallerNotIdle, Zenon DEF exit_sleep
  <2>2. QueueInv' /\ fatal' = fatal
    BY <1>3, <2>1, SleepThis, Zenon DEF exit_sleep
  <2> QED BY <1>3, <2>2, Zenon DEF exit_sleep, Types, tables, control
<1>4. ASSUME NEW p \in Pids, NEW i \in Tids, wait_thread(t, p, i) PROVE QueueInv' /\ Types'
  <2>1. t \in Threads \ {Idle} /\ t = this_thread
    BY <1>4, CallerNotIdle, Zenon DEF wait_thread
  <2>2. UNCHANGED <<processes, created, zombie, tick, mutex>>
    BY <1>4, Zenon DEF wait_thread
  <2>3. CASE Return(t) /\ UNCHANGED <<threads, queue, waiting, events, fatal>>
    BY <2>1, <2>2, <2>3, QueueUnchanged, ReturnTypes, Zenon DEF Types
  <2>4. CASE wait_joined(t) /\ Goto(t, "wait_thread", Arg(p, i, {})) /\ UNCHANGED threads
    <3>1. QueueInv' /\ fatal' = fatal
      BY <2>1, <2>4, SleepThis, Zenon DEF wait_joined
    <3>2. events' \in [Eids -> {None} \cup Seq(Threads)] /\ waiting' \in [Threads -> [Eids -> Nat]]
      BY <2>4, RegisterTypes, Zenon DEF wait_joined
    <3>3. "wait_thread" \in PCs /\ Arg(p, i, {}) \in [pid : Pids, tid : Tids, eids : SUBSET Eids]
      BY ArgType, Zenon DEF PCs
    <3>4. /\ pc' \in [Threads -> PCs] /\ pc'[Idle] = "run"
          /\ arg' \in [Threads -> [pid : Pids, tid : Tids, eids : SUBSET Eids]]
      BY <2>1, <2>4, <3>3, GotoTypes, Zenon
    <3> QED BY <2>2, <2>4, <3>1, <3>2, <3>4, ZenonT(60) DEF Types
  <2>5. CASE /\ threads' = [threads EXCEPT ![p][i] = None]
             /\ Return(t) /\ UNCHANGED <<queue, waiting, events, fatal>>
    <3>1. threads' \in [Pids -> [Tids -> Threads \cup {None}]]
      BY <2>5, Zenon DEF Types
    <3> QED BY <2>1, <2>2, <2>5, <3>1, QueueUnchanged, ReturnTypes, ZenonT(60) DEF Types
  <2> QED BY <1>4, <2>3, <2>4, <2>5, Zenon DEF wait_thread
<1>5. ASSUME NEW p \in Pids, wait_process(t, p) PROVE QueueInv' /\ Types'
  <2>1. t \in Threads \ {Idle} /\ t = this_thread
    BY <1>5, CallerNotIdle, Zenon DEF wait_process
  <2>2. UNCHANGED <<threads, created, zombie, tick, mutex>>
    BY <1>5, Zenon DEF wait_process
  <2>3. CASE /\ Return(t) /\ UNCHANGED <<queue, waiting, events, fatal>>
             /\ processes' = processes \/ processes' = processes \ {p}
    BY <2>1, <2>2, <2>3, QueueUnchanged, ReturnTypes, ZenonT(60) DEF Types
  <2>4. CASE wait_joined(t) /\ Goto(t, "wait_process", Arg(p, 0, {})) /\ UNCHANGED processes
    <3>1. QueueInv' /\ fatal' = fatal
      BY <2>1, <2>4, SleepThis, Zenon DEF wait_joined
    <3>2. events' \in [Eids -> {None} \cup Seq(Threads)] /\ waiting' \in [Threads -> [Eids -> Nat]]
      BY <2>4, RegisterTypes, Zenon DEF wait_joined
    <3>3. "wait_process" \in PCs /\ Arg(p, 0, {}) \in [pid : Pids, tid : Tids, eids : SUBSET Eids]
      BY ArgType, Zenon DEF PCs
    <3>4. /\ pc' \in [Threads -> PCs] /\ pc'[Idle] = "run"
          /\ arg' \in [Threads -> [pid : Pids, tid : Tids, eids : SUBSET Eids]]
      BY <2>1, <2>4, <3>3, GotoTypes, Zenon
    <3> QED BY <2>2, <2>4, <3>1, <3>2, <3>4, Zenon DEF Types
  <2> QED BY <1>5, <2>3, <2>4, Zenon DEF wait_process
<1> QED BY <1>1, <1>2, <1>3, <1>4, <1>5, ZenonT(60)

\* ... interrupts.
LEMMA InvInterrupts ==
  ASSUME QueueInv, Types
  PROVE  /\ Tick => QueueInv' /\ Types'
         /\ timer_tick_missed => QueueInv' /\ Types'
         /\ device_interrupt => QueueInv' /\ Types'
<1>1. ASSUME NEW message \in BOOLEAN, timer_tick(message) PROVE QueueInv' /\ Types'
  <2>1. QueueInv' /\ fatal' = fatal /\ tick' \in 0..MigratePeriod
    BY <1>1, TimerTick, Zenon DEF Types
  <2> QED BY <1>1, <2>1, Zenon DEF timer_tick, Types, tables, control
<1>2. ASSUME timer_tick_missed PROVE QueueInv' /\ Types'
  <2>1. elapse \in [Threads -> Nat] /\ elapse[Idle] = 0
    BY ConstantsAssumption DEF QueueInv, elapse
  <2>2. QueueInv'
    BY <1>2, <2>1, Zenon DEF timer_tick_missed, QueueInv, RunQueueExact
  <2>3. tick' \in 0..MigratePeriod
    <3>1. tick \in 0..MigratePeriod /\ tick' = NextTick
      BY <1>2, Zenon DEF timer_tick_missed, Types
    <3> QED BY <3>1, ConstantsAssumption DEF NextTick
  <2> QED BY <1>2, <2>2, <2>3, Zenon DEF timer_tick_missed, Types, tables, control
<1>3. ASSUME device_interrupt PROVE QueueInv' /\ Types'
  <2>1. <<Kernel>> \in Seq(Threads)
    BY ConstantsAssumption
  <2>2. QueueInv' BY <1>3, <2>1, WakeupThreads, Zenon DEF device_interrupt
  <2> QED BY <1>3, <2>2, Zenon DEF device_interrupt, Types, tables, control
<1> QED BY <1>1, <1>2, <1>3, Zenon DEF Tick

\* Every step keeps the invariant.
LEMMA InvNext == Inv /\ [Next]_vars => Inv'
<1> SUFFICES ASSUME QueueInv, Types, [Next]_vars PROVE QueueInv' /\ Types'
  BY InvParts, InvPartsNext, Zenon
<1>1. ASSUME NEW t \in Threads, Begin(t) PROVE QueueInv' /\ Types'
  <2>1. CASE create_process(t) \/ sleep_this_thread(t) \/ exit_this_thread(t) \/ create_event(t)
    BY <2>1, InvCalls, InvJoin, InvEvents, ZenonT(60)
  <2>2. CASE \E p \in Pids : create_thread(t, p) \/ (pc[t] = "run" /\ wait_process(t, p))
    BY <2>2, InvCalls, InvJoin, Zenon
  <2>3. CASE \E p \in Pids, i \in Tids :
               wakeup_thread(t, p, i) \/ (pc[t] = "run" /\ wait_thread(t, p, i))
    BY <2>3, InvCalls, InvJoin, ZenonT(60)
  <2>4. CASE \E n \in 1..MaxSuspend : suspend_this_thread(t, n)
    BY <2>4, InvCalls, Zenon
  <2>5. CASE \E es \in Spans : wait_events(t, es) \/ unwait_events(t, es)
    BY <2>5, InvEvents, ZenonT(60)
  <2>6. CASE \E e \in UserEids : notify_event(t, e) \/ delete_event(t, e)
    BY <2>6, InvEvents, ZenonT(60)
  <2> QED BY <1>1, <2>1, <2>2, <2>3, <2>4, <2>5, <2>6, ZenonT(60) DEF Begin
<1>2. ASSUME NEW t \in Threads, Continue(t) PROVE QueueInv' /\ Types'
  <2>1. arg[t].pid \in Pids /\ arg[t].tid \in Tids
    BY Zenon DEF Types
  <2> QED BY <1>2, <2>1, InvJoin, InvEvents, ZenonT(60) DEF Continue
<1>3. CASE Tick \/ timer_tick_missed \/ device_interrupt
  BY <1>3, InvInterrupts, Zenon
<1>4. CASE UNCHANGED vars
  BY <1>4, QueueUnchanged, Zenon DEF vars, tables, control, Types
<1> QED BY <1>1, <1>2, <1>3, <1>4, Zenon DEF Next, Stopped

\* The inductive invariant holds throughout.
THEOREM Invariance == Spec => []Inv
  BY InvInit, InvNext, PTL DEF Spec

\* Every variable keeps its type, whatever calls the threads make.
THEOREM TypeCorrect == Spec => []TypeOK
<1>1. Inv => TypeOK
  BY Zenon DEF Inv
<1> QED BY <1>1, Invariance, PTL

\* update_this_thread, wakeup_thread, migrate_threads and the tick together
\* never queue a thread twice, lose one, or run one that is not queued, for any
\* number of threads.
THEOREM RunQueueIsExact == Spec => []RunQueueExact
<1>1. Inv => RunQueueExact
  BY Zenon DEF Inv, QueueInv
<1> QED BY <1>1, Invariance, PTL

\* fatal_error("kernel: run queue empty") in update_this_thread is unreachable:
\* the idle thread neither sleeps nor suspends.
THEOREM RunQueueNeverEmpty == Spec => [](fatal # "run queue empty")
<1>1. Inv => fatal # "run queue empty"
  BY Zenon DEF Inv
<1> QED BY <1>1, Invariance, PTL
-----------------------------------------------------------------------------
(***************************************************************************)
(* Joining: no exit goes unnoticed by a thread that waits for it, and no   *)
(* thread that has exited comes back. The argument is the invariant        *)
(* JoinInvariant below, on top of Inv.                                     *)
(***************************************************************************)

\* thread_joined_event always exists: create_event and delete_event never
\* touch it.
JoinedEventExists ==
  /\ events[thread_joined_event] # None
  /\ \A t \in Threads : pc[t] \in {"create_event", "delete_event"} =>
       thread_joined_event \notin arg[t].eids

\* A thread that has set zombie but not notified still holds the lock, so it is
\* the running one.
NotifierRuns ==
  \A t \in Threads : pc[t] = "exit_notify" => t = this_thread /\ mutex = 1

\* The zombies are the threads inside or past exit_thread.
ZombiesExit ==
  /\ \A t \in Threads : zombie[t] <=> pc[t] \in {"exit_notify", "exit_sleep"}
  /\ ~zombie[Kernel]

\* A registered thread knows of its registration (so that
\* cancel_events_of_thread finds it) and is not a zombie.
RegisteredKnown ==
  \A t \in Threads, e \in Eids :
    events[e] # None /\ t \in Range(events[e]) => waiting[t][e] > 0 /\ ~zombie[t]

\* A thread asleep in wait_thread is registered, for a target that is still to
\* notify its exit.
SleeperRegistered ==
  \A t \in Threads : pc[t] = "wait_thread" /\ ~running_on[t] =>
    /\ t \in Range(events[thread_joined_event])
    /\ Target(t) # None
    /\ zombie[Target(t)] => pc[Target(t)] = "exit_notify"

JoinInv == JoinedEventExists /\ NotifierRuns /\ ZombiesExit /\ RegisteredKnown /\ SleeperRegistered

LEMMA JoinInit == Init => JoinInv
<1> SUFFICES ASSUME Init PROVE JoinInv
  BY Zenon
<1>0. thread_joined_event \in Eids
  BY ArgType, Zenon DEF thread_joined_event
<1>1. JoinedEventExists
  <2>1. <<>> \in Seq(Threads) OBVIOUS
  <2> QED BY <1>0, <2>1, ConstantsAssumption, ZenonT(60) DEF Init, JoinedEventExists
<1>2. NotifierRuns BY Zenon DEF Init, NotifierRuns
<1>3. ZombiesExit BY ConstantsAssumption, Zenon DEF Init, ZombiesExit
<1>4. RegisteredKnown
  <2>1. \A e \in Eids : events[e] # None => events[e] = <<>>
    BY Zenon DEF Init
  <2>2. Range(<<>>) = {} BY DEF Range
  <2> QED BY <2>1, <2>2, Zenon DEF RegisteredKnown
<1>5. SleeperRegistered BY Zenon DEF Init, SleeperRegistered
<1> QED BY <1>1, <1>2, <1>3, <1>4, <1>5, ZenonT(60) DEF JoinInv

\* A step that leaves threads, registrations and positions alone, takes no
\* thread in wait_thread off the queue, and leaves a notifier running.
LEMMA JoinFrame ==
  ASSUME Inv, JoinInv, UNCHANGED <<threads, zombie, waiting, events, mutex, pc, arg>>,
         \A t \in Threads : pc[t] = "wait_thread" /\ running_on[t] => running_on'[t],
         \A t \in Threads : pc[t] = "exit_notify" => this_thread' = this_thread
  PROVE  JoinInv'
<1>1. JoinedEventExists' BY Zenon DEF JoinInv, JoinedEventExists
<1>2. NotifierRuns' BY Zenon DEF JoinInv, NotifierRuns
<1>3. ZombiesExit' BY Zenon DEF JoinInv, ZombiesExit
<1>4. RegisteredKnown' BY Zenon DEF JoinInv, RegisteredKnown
<1>5. SleeperRegistered' BY Zenon DEF JoinInv, SleeperRegistered, Target
<1> QED BY <1>1, <1>2, <1>3, <1>4, <1>5, ZenonT(60) DEF JoinInv

\* Steps that only schedule.
LEMMA JoinScheduling ==
  ASSUME Inv, JoinInv, NEW t \in Threads
  PROVE  /\ create_process(t) => JoinInv'
         /\ \A p \in Pids, i \in Tids : wakeup_thread(t, p, i) => JoinInv'
         /\ sleep_this_thread(t) => JoinInv'
         /\ \A n \in 1..MaxSuspend : suspend_this_thread(t, n) => JoinInv'
         /\ exit_sleep(t) => JoinInv'
         /\ Tick => JoinInv'
         /\ timer_tick_missed => JoinInv'
         /\ device_interrupt => JoinInv'
<1>0. QueueInv /\ Types BY InvParts, Zenon
<1>1. ASSUME create_process(t) PROVE JoinInv'
  BY <1>1, JoinFrame, Zenon DEF create_process, control, queue
<1>2. ASSUME NEW p \in Pids, NEW i \in Tids, wakeup_thread(t, p, i) PROVE JoinInv'
  <2>0. threads[p][i] \in Threads
    <3>1. threads[p][i] # None BY <1>2, Zenon DEF wakeup_thread
    <3> QED BY <1>0, <3>1, SlotType, ZenonT(60)
  <2>1. <<threads[p][i]>> \in Seq(Threads) BY <2>0
  <2>2. running_on' = [x \in Threads |-> running_on[x] \/ x \in Range(<<threads[p][i]>>)]
    BY <1>0, <1>2, <2>1, WakeupThreads, ZenonT(60) DEF wakeup_thread
  <2> QED BY <1>2, <2>2, JoinFrame, ZenonT(60) DEF wakeup_thread, control, tables
<1>3. ASSUME sleep_this_thread(t) PROVE JoinInv'
  <2>1. t = this_thread /\ t # Idle /\ pc[t] = "run"
    BY <1>3, Zenon DEF sleep_this_thread, Call
  <2>2. running_on' = [running_on EXCEPT ![this_thread] = FALSE]
    BY <1>0, <1>3, <2>1, SleepThis, Zenon DEF sleep_this_thread
  <2>3. \A x \in Threads : pc[x] # "exit_notify"
    BY <2>1, Zenon DEF JoinInv, NotifierRuns
  <2>4. \A x \in Threads : pc[x] = "wait_thread" /\ running_on[x] => running_on'[x]
    BY <2>1, <2>2
  <2> QED BY <1>3, <2>3, <2>4, JoinFrame, ZenonT(60) DEF sleep_this_thread, control, tables
<1>4. ASSUME NEW n \in 1..MaxSuspend, suspend_this_thread(t, n) PROVE JoinInv'
  <2>1. t = this_thread /\ t # Idle /\ pc[t] = "run"
    BY <1>4, Zenon DEF suspend_this_thread, Call
  <2>2. running_on' = running_on
    BY <1>4, Zenon DEF suspend_this_thread, switch_thread
  <2>3. \A x \in Threads : pc[x] # "exit_notify"
    BY <2>1, Zenon DEF JoinInv, NotifierRuns
  <2> QED BY <1>4, <2>2, <2>3, JoinFrame, ZenonT(60) DEF suspend_this_thread, control, tables
<1>5. ASSUME exit_sleep(t) PROVE JoinInv'
  <2>1. t = this_thread /\ t # Idle /\ pc[t] = "exit_sleep"
    BY <1>0, <1>5, CallerNotIdle, Zenon DEF exit_sleep, Resume
  <2>2. running_on' = [running_on EXCEPT ![this_thread] = FALSE]
    BY <1>0, <1>5, <2>1, SleepThis, Zenon DEF exit_sleep
  <2>3. \A x \in Threads : pc[x] # "exit_notify"
    BY <2>1, Zenon DEF JoinInv, NotifierRuns
  <2>4. \A x \in Threads : pc[x] = "wait_thread" /\ running_on[x] => running_on'[x]
    BY <2>1, <2>2
  <2> QED BY <1>5, <2>3, <2>4, JoinFrame, Zenon DEF exit_sleep, control, tables
<1>6. ASSUME NEW message \in BOOLEAN, timer_tick(message) PROVE JoinInv'
  <2>1. running_on' = [running_on EXCEPT ![Kernel] = @ \/ message]
    BY <1>0, <1>6, TimerTick, Zenon DEF Types
  <2>2. \A x \in Threads : running_on[x] => running_on'[x]
    BY <1>0, <2>1, Zenon DEF QueueInv
  <2>3. \A x \in Threads : pc[x] # "exit_notify"
    BY <1>6 DEF JoinInv, NotifierRuns, timer_tick
  <2> QED BY <1>6, <2>2, <2>3, JoinFrame, Zenon DEF timer_tick, control, tables
<1>7. ASSUME timer_tick_missed PROVE JoinInv'
  BY <1>7, JoinFrame, Zenon DEF timer_tick_missed, control, tables
<1>8. ASSUME device_interrupt PROVE JoinInv'
  <2>1. <<Kernel>> \in Seq(Threads)
    BY ConstantsAssumption
  <2>2. running_on' = [x \in Threads |-> running_on[x] \/ x \in Range(<<Kernel>>)]
    BY <1>0, <1>8, <2>1, WakeupThreads, Zenon DEF device_interrupt
  <2> QED BY <1>8, <2>2, JoinFrame, Zenon DEF device_interrupt, control, tables
<1> QED BY <1>1, <1>2, <1>3, <1>4, <1>5, <1>6, <1>7, <1>8, ZenonT(60) DEF Tick

\* Registering the running thread t: its entry is the only one that changes.
LEMMA RegisterKnown ==
  ASSUME Inv, JoinInv, NEW t \in Threads, NEW es, NEW n, register(t, es, n),
         ~zombie[t], UNCHANGED zombie
  PROVE  /\ RegisteredKnown'
         /\ events'[thread_joined_event] # None
         /\ \A e \in Eids : events[e] # None => Range(events[e]) \subseteq Range(events'[e])
         /\ \A k \in 1..n : es[k] \in Eids => t \in Range(events'[es[k]])
<1> DEFINE ids == {es[k] : k \in 1..n}
<1>0. QueueInv /\ Types /\ thread_joined_event \in Eids
  BY InvParts, ArgType, Zenon DEF thread_joined_event
<1>1. /\ \A e \in ids : events[e] # None
      /\ events' = [e \in Eids |-> IF e \in ids THEN Append(events[e], t) ELSE events[e]]
      /\ waiting' = [waiting EXCEPT ![t] =
                       [e \in Eids |-> IF e \in ids THEN waiting[t][e] + 1 ELSE waiting[t][e]]]
  BY Zenon DEF register
<1>2. \A k \in 1..n : es[k] \in ids
  BY Zenon
<1> HIDE DEF ids
<1>3. ASSUME NEW e \in Eids \cap ids
      PROVE  /\ Append(events[e], t) \in Seq(Threads)
             /\ Range(Append(events[e], t)) = Range(events[e]) \cup {t}
  <2>1. events[e] \in Seq(Threads)
    BY <1>0, <1>1, Zenon DEF Types
  <2> QED BY <2>1, AppendElement
<1>4. \A e \in Eids : events'[e] # None =>
        events[e] # None /\ Range(events'[e]) = IF e \in ids THEN Range(events[e]) \cup {t}
                                               ELSE Range(events[e])
  BY <1>1, <1>3, Zenon
<1>5. \A x \in Threads, e \in Eids :
        waiting'[x][e] = IF x = t /\ e \in ids THEN waiting[x][e] + 1 ELSE waiting[x][e]
  <2>1. waiting \in [Threads -> [Eids -> Nat]] BY <1>0, Zenon DEF Types
  <2> QED BY <1>1, <2>1, Zenon
<1>6. \A x \in Threads, e \in Eids : waiting[x][e] \in Nat
  <2>1. waiting \in [Threads -> [Eids -> Nat]] BY <1>0, Zenon DEF Types
  <2> QED BY <2>1, Zenon
<1>7. RegisteredKnown'
  <2> SUFFICES ASSUME NEW x \in Threads, NEW e \in Eids, events'[e] # None, x \in Range(events'[e])
               PROVE  waiting'[x][e] > 0 /\ ~zombie'[x]
    BY Zenon DEF RegisteredKnown
  <2>1. CASE x = t /\ e \in ids
    BY <1>5, <1>6, <2>1
  <2>2. CASE ~(x = t /\ e \in ids)
    <3>1. events[e] # None /\ x \in Range(events[e])
      BY <1>4, <2>2, Zenon
    <3> QED BY <1>5, <2>2, <3>1, Zenon DEF JoinInv, RegisteredKnown
  <2> QED BY <2>1, <2>2, Zenon
<1>8. \A e \in Eids : events[e] # None => events'[e] # None
  BY <1>1, <1>3, ConstantsAssumption, ZenonT(60)
<1> QED BY <1>0, <1>1, <1>2, <1>3, <1>4, <1>7, <1>8, ZenonT(60) DEF JoinInv, JoinedEventExists

LEMMA TargetType ==
  ASSUME Types, NEW t \in Threads
  PROVE  Target(t) \in Threads \cup {None}
<1>1. arg[t].pid \in Pids /\ arg[t].tid \in Tids BY Zenon DEF Types
<1> QED BY <1>1, SlotType, Zenon DEF Target

\* A step of the running thread t, which is not exiting: it may register or
\* unregister t, wake threads, and change slots nobody asleep waits for.
LEMMA JoinOwnStep ==
  ASSUME Inv, JoinInv, NEW t \in Threads, t = this_thread,
         pc[t] \notin {"exit_notify", "exit_sleep"},
         UNCHANGED zombie,
         \A x \in Threads \ {t} : pc'[x] = pc[x] /\ arg'[x] = arg[x] /\ (running_on[x] => running_on'[x]),
         \A x \in Threads \ {t} : pc[x] = "wait_thread" /\ ~running_on[x] => Target(x)' = Target(x),
         pc'[t] \notin {"exit_notify", "exit_sleep"},
         pc'[t] \in {"create_event", "delete_event"} => thread_joined_event \notin arg'[t].eids,
         pc'[t] = "wait_thread" => /\ t \in Range(events'[thread_joined_event])
                                  /\ Target(t)' # None /\ ~zombie[Target(t)'],
         RegisteredKnown', events'[thread_joined_event] # None,
         Range(events[thread_joined_event]) \ {t} \subseteq Range(events'[thread_joined_event])
  PROVE  JoinInv'
<1>0. QueueInv /\ Types BY InvParts, Zenon
<1>1. \A x \in Threads : pc[x] # "exit_notify"
  BY Zenon DEF JoinInv, NotifierRuns
<1>2. JoinedEventExists'
  BY Zenon DEF JoinInv, JoinedEventExists
<1>3. NotifierRuns'
  BY <1>1, Zenon DEF NotifierRuns
<1>4. ZombiesExit'
  BY Zenon DEF JoinInv, ZombiesExit
<1>5. SleeperRegistered'
  <2> SUFFICES ASSUME NEW x \in Threads, pc'[x] = "wait_thread", ~running_on'[x]
               PROVE /\ x \in Range(events'[thread_joined_event])
                     /\ Target(x)' # None
                     /\ ~zombie'[Target(x)']
    BY Zenon DEF SleeperRegistered
  <2>1. CASE x = t
    BY <2>1, Zenon
  <2>2. CASE x # t
    <3>1. pc[x] = "wait_thread" /\ ~running_on[x] /\ Target(x)' = Target(x)
      BY <2>2, Zenon
    <3>2. x \in Range(events[thread_joined_event]) /\ Target(x) # None /\ ~zombie[Target(x)]
      BY <1>0, <1>1, <3>1, TargetType, ZenonT(60) DEF JoinInv, SleeperRegistered
    <3> QED BY <2>2, <3>1, <3>2, ZenonT(60)
  <2> QED BY <2>1, <2>2, Zenon
<1> QED BY <1>2, <1>3, <1>4, <1>5, ZenonT(60) DEF JoinInv

\* Calls on events.
LEMMA JoinEvents ==
  ASSUME Inv, JoinInv, NEW t \in Threads
  PROVE  /\ \A es \in Spans : wait_events(t, es) => JoinInv'
         /\ wait_events_return(t) => JoinInv'
         /\ \A es \in Spans : unwait_events(t, es) => JoinInv'
         /\ \A e \in UserEids : notify_event(t, e) => JoinInv'
         /\ create_event(t) => JoinInv'
         /\ create_event_emplace(t) => JoinInv'
         /\ \A e \in UserEids : delete_event(t, e) => JoinInv'
         /\ delete_event_reset(t) => JoinInv'
<1>0. QueueInv /\ Types /\ thread_joined_event \in Eids
  BY InvParts, ArgType, Zenon DEF thread_joined_event
<1>1. ASSUME NEW es \in Spans, wait_events(t, es) PROVE JoinInv'
  <2>1. t = this_thread /\ t # Idle /\ pc[t] = "run"
    BY <1>1, Zenon DEF wait_events, Call
  <2>2. PICK n \in 0..Len(es) :
          /\ register(t, es, n)
          /\ IF n = Len(es)
             THEN sleep_this /\ Goto(t, "wait_events", Arg(0, 0, {es[k] : k \in 1..n}))
             ELSE UNCHANGED <<queue, fatal, control>>
    BY <1>1, Zenon DEF wait_events
  <2>3. UNCHANGED <<threads, zombie>>
    BY <1>1, Zenon DEF wait_events, tables
  <2>4. ~zombie[t]
    BY <2>1, Zenon DEF JoinInv, ZombiesExit
  <2>5. /\ RegisteredKnown'
        /\ events'[thread_joined_event] # None
        /\ Range(events[thread_joined_event]) \subseteq Range(events'[thread_joined_event])
    BY <1>0, <2>2, <2>3, <2>4, RegisterKnown, ZenonT(60) DEF JoinInv, JoinedEventExists
  <2>6. /\ \A x \in Threads \ {t} : pc'[x] = pc[x] /\ arg'[x] = arg[x] /\ (running_on[x] => running_on'[x])
        /\ pc'[t] \in {"run", "wait_events"}
    <3>1. CASE n = Len(es)
      <4>1. running_on' = [running_on EXCEPT ![this_thread] = FALSE]
        BY <1>0, <2>1, <2>2, <3>1, SleepThis, ZenonT(60)
      <4> QED BY <1>0, <2>1, <2>2, <3>1, <4>1, ZenonT(60) DEF Goto, Types, QueueInv
    <3>2. CASE n # Len(es)
      BY <2>1, <2>2, <3>2, ZenonT(60) DEF queue, control
    <3> QED BY <3>1, <3>2, ZenonT(60)
  <2> QED BY <2>1, <2>3, <2>5, <2>6, JoinOwnStep, ZenonT(60) DEF Target
<1>2. ASSUME wait_events_return(t) PROVE JoinInv'
  <2>1. t = this_thread /\ pc[t] = "wait_events"
    BY <1>2, Zenon DEF wait_events_return, Resume
  <2>2. /\ UNCHANGED <<threads, zombie, running_on, events, waiting>>
        /\ \A x \in Threads \ {t} : pc'[x] = pc[x] /\ arg'[x] = arg[x]
        /\ pc'[t] = "run"
    BY <1>0, <1>2, Zenon DEF wait_events_return, tables, queue, Return, Goto, Types
  <2>3. RegisteredKnown' BY <2>2, Zenon DEF JoinInv, RegisteredKnown
  <2> QED BY <2>1, <2>2, <2>3, JoinOwnStep, ZenonT(60) DEF Target, JoinInv, JoinedEventExists
<1>3. ASSUME NEW es \in Spans, unwait_events(t, es) PROVE JoinInv'
  <2>1. t = this_thread /\ pc[t] = "run"
    BY <1>3, Zenon DEF unwait_events, Call
  <2>2. PICK n \in 0..Len(es) :
          /\ \A k \in 1..n : events[es[k]] # None
          /\ events' = [e \in Eids |-> IF e \in {es[k] : k \in 1..n} THEN erase_all(events[e], t) ELSE events[e]]
          /\ waiting' = [waiting EXCEPT ![t] =
                           [e \in Eids |-> IF e \in {es[k] : k \in 1..n} THEN 0 ELSE waiting[t][e]]]
    BY <1>3, Zenon DEF unwait_events
  <2> DEFINE ids == {es[k] : k \in 1..n}
  <2>3. thread_joined_event \notin ids /\ \A e \in ids : events[e] # None
    <3>1. n <= Len(es) BY <2>2, SpanIds
    <3>2. \A k \in 1..n : es[k] \in UserEids BY <3>1, SpanIds
    <3> QED BY <2>2, <3>2, ZenonT(60) DEF UserEids
  <2> HIDE DEF ids
  <2>4. ASSUME NEW e \in Eids \cap ids
        PROVE  Range(erase_all(events[e], t)) = Range(events[e]) \ {t}
    <3>1. events[e] \in Seq(Threads) BY <1>0, <2>3, Zenon DEF Types
    <3> QED BY <3>1, EraseAll, Zenon
  <2>5. RegisteredKnown'
    <3> SUFFICES ASSUME NEW x \in Threads, NEW e \in Eids, events'[e] # None, x \in Range(events'[e])
                 PROVE  waiting'[x][e] > 0 /\ ~zombie'[x]
      BY Zenon DEF RegisteredKnown
    <3>1. events[e] # None /\ x \in Range(events[e]) /\ ~(x = t /\ e \in ids)
      BY <2>2, <2>3, <2>4, Zenon DEF ids
    <3>2. waiting'[x][e] = waiting[x][e]
      <4>1. waiting \in [Threads -> [Eids -> Nat]] BY <1>0, Zenon DEF Types
      <4> QED BY <2>2, <3>1, <4>1, Zenon DEF ids
    <3>3. zombie' = zombie BY <1>3, Zenon DEF unwait_events
    <3> QED BY <3>1, <3>2, <3>3, ZenonT(60) DEF JoinInv, RegisteredKnown
  <2>6. events'[thread_joined_event] = events[thread_joined_event]
    BY <1>0, <2>2, <2>3, ZenonT(60) DEF ids
  <2>7. UNCHANGED <<threads, zombie, running_on, pc, arg>>
    BY <1>3, Zenon DEF unwait_events, tables, queue, control
  <2> QED BY <2>1, <2>5, <2>6, <2>7, JoinOwnStep, ZenonT(60) DEF Target, JoinInv, JoinedEventExists
<1>4. ASSUME NEW e \in UserEids, notify_event(t, e) PROVE JoinInv'
  <2>1. t = this_thread /\ pc[t] = "run" /\ e \in Eids /\ e # thread_joined_event
    BY <1>4, Zenon DEF notify_event, Call, UserEids
  <2>2. events[e] \in Seq(Threads)
    BY <1>0, <1>4, <2>1, NotifyTypes, ZenonT(60) DEF notify_event
  <2>3. running_on' = [x \in Threads |-> running_on[x] \/ x \in Range(events[e])]
    BY <1>0, <1>4, <2>2, WakeupThreads, ZenonT(60) DEF notify_event, notify
  <2>4. /\ UNCHANGED <<threads, zombie, pc, arg>>
        /\ events' = [events EXCEPT ![e] = <<>>]
        /\ waiting' = [x \in Threads |-> IF x \in Range(events[e])
                                    THEN [waiting[x] EXCEPT ![e] = 0] ELSE waiting[x]]
    BY <1>4, Zenon DEF notify_event, notify, tables, control
  <2>5. events'[e] = <<>> /\ Range(<<>>) = {} /\ \A d \in Eids \ {e} : events'[d] = events[d]
    <3>1. Range(<<>>) = {} BY DEF Range
    <3>2. DOMAIN events = Eids BY <1>0, Zenon DEF Types
    <3> QED BY <2>1, <2>4, <3>1, <3>2, ZenonT(60)
  <2>6. \A x \in Threads, d \in Eids \ {e} : waiting'[x][d] = waiting[x][d]
    <3>1. waiting \in [Threads -> [Eids -> Nat]] BY <1>0, Zenon DEF Types
    <3> QED BY <2>4, <3>1, Zenon
  <2>7. RegisteredKnown'
    BY <2>4, <2>5, <2>6, ZenonT(60) DEF JoinInv, RegisteredKnown
  <2> QED BY <1>0, <2>1, <2>3, <2>4, <2>5, <2>7, JoinOwnStep, ZenonT(60) DEF Target, JoinInv, JoinedEventExists
<1>5. ASSUME create_event(t) PROVE JoinInv'
  <2>1. t = this_thread /\ pc[t] = "run"
    BY <1>5, Zenon DEF create_event, Call
  <2>2. PICK e \in Eids : events[e] = None /\ Goto(t, "create_event", Arg(0, 0, {e}))
    BY <1>5, Zenon DEF create_event, IsEmptySlot
  <2>3. e # thread_joined_event
    BY <2>2, Zenon DEF JoinInv, JoinedEventExists
  <2>4. /\ UNCHANGED <<threads, zombie, running_on, events, waiting>>
        /\ \A x \in Threads \ {t} : pc'[x] = pc[x] /\ arg'[x] = arg[x]
        /\ pc'[t] = "create_event" /\ arg'[t].eids = {e}
    BY <1>0, <1>5, <2>2, ZenonT(60) DEF create_event, tables, queue, Goto, Arg, Types
  <2>5. RegisteredKnown' BY <2>4, Zenon DEF JoinInv, RegisteredKnown
  <2> QED BY <2>1, <2>3, <2>4, <2>5, JoinOwnStep, ZenonT(60) DEF Target, JoinInv, JoinedEventExists
<1>6. ASSUME create_event_emplace(t) PROVE JoinInv'
  <2>1. t = this_thread /\ pc[t] = "create_event" /\ thread_joined_event \notin arg[t].eids
    BY <1>6, Zenon DEF create_event_emplace, Resume, JoinInv, JoinedEventExists
  <2>2. /\ UNCHANGED <<threads, zombie, running_on, waiting>>
        /\ \A x \in Threads \ {t} : pc'[x] = pc[x] /\ arg'[x] = arg[x]
        /\ pc'[t] = "run"
        /\ events' = [e \in Eids |-> IF e \in arg[t].eids THEN <<>> ELSE events[e]]
    BY <1>0, <1>6, Zenon DEF create_event_emplace, tables, queue, Return, Goto, Types
  <2>3. Range(<<>>) = {} BY DEF Range
  <2>4. RegisteredKnown' BY <2>2, <2>3, Zenon DEF JoinInv, RegisteredKnown
  <2> QED BY <1>0, <2>1, <2>2, <2>4, JoinOwnStep, ZenonT(60) DEF Target, JoinInv, JoinedEventExists
<1>7. ASSUME NEW e \in UserEids, delete_event(t, e) PROVE JoinInv'
  <2>1. t = this_thread /\ pc[t] = "run" /\ e # thread_joined_event
    BY <1>7, Zenon DEF delete_event, Call, UserEids
  <2>2. /\ UNCHANGED <<threads, zombie, running_on, events, waiting>>
        /\ \A x \in Threads \ {t} : pc'[x] = pc[x] /\ arg'[x] = arg[x]
        /\ pc'[t] = "delete_event" /\ arg'[t].eids = {e}
    BY <1>0, <1>7, Zenon DEF delete_event, tables, queue, Goto, Arg, Types
  <2>3. RegisteredKnown' BY <2>2, Zenon DEF JoinInv, RegisteredKnown
  <2> QED BY <2>1, <2>2, <2>3, JoinOwnStep, ZenonT(60) DEF Target, JoinInv, JoinedEventExists
<1>8. ASSUME delete_event_reset(t) PROVE JoinInv'
  <2>1. t = this_thread /\ pc[t] = "delete_event" /\ thread_joined_event \notin arg[t].eids
    BY <1>8, Zenon DEF delete_event_reset, Resume, JoinInv, JoinedEventExists
  <2>2. /\ UNCHANGED <<threads, zombie, running_on, waiting>>
        /\ \A x \in Threads \ {t} : pc'[x] = pc[x] /\ arg'[x] = arg[x]
        /\ pc'[t] = "run"
        /\ events' = [e \in Eids |-> IF e \in arg[t].eids THEN None ELSE events[e]]
    BY <1>0, <1>8, Zenon DEF delete_event_reset, tables, queue, Return, Goto, Types
  <2>3. RegisteredKnown' BY <2>2, Zenon DEF JoinInv, RegisteredKnown
  <2> QED BY <1>0, <2>1, <2>2, <2>3, JoinOwnStep, ZenonT(60) DEF Target, JoinInv, JoinedEventExists
<1> QED BY <1>1, <1>2, <1>3, <1>4, <1>5, <1>6, <1>7, <1>8, ZenonT(60)

\* Creating and joining threads, and waiting for processes.
LEMMA JoinTables ==
  ASSUME Inv, JoinInv, NEW t \in Threads
  PROVE  /\ \A p \in Pids : create_thread(t, p) => JoinInv'
         /\ \A p \in Pids, i \in Tids : wait_thread(t, p, i) => JoinInv'
         /\ \A p \in Pids : wait_process(t, p) => JoinInv'
<1>0. QueueInv /\ Types /\ thread_joined_event \in Eids
  BY InvParts, ArgType, Zenon DEF thread_joined_event
<1>a. \A x \in Threads : arg[x].pid \in Pids /\ arg[x].tid \in Tids
  BY <1>0, Zenon DEF Types
<1>b. \A q \in Pids : threads[q] \in [Tids -> Threads \cup {None}] /\ DOMAIN threads = Pids
  BY <1>0, Zenon DEF Types
<1>1. ASSUME NEW p \in Pids, create_thread(t, p) PROVE JoinInv'
  <2>1. t = this_thread /\ pc[t] = "run"
    BY <1>1, Zenon DEF create_thread, Call
  <2>2. PICK x \in Threads, i \in Tids : threads[p][i] = None /\ threads' = [threads EXCEPT ![p][i] = x]
    BY <1>1, Zenon DEF create_thread, IsEmptySlot
  <2>3. UNCHANGED <<zombie, running_on, events, waiting, pc, arg>>
    BY <1>1, Zenon DEF create_thread, queue, control
  <2>4. \A y \in Threads : pc[y] = "wait_thread" /\ ~running_on[y] => Target(y)' = Target(y)
    <3> SUFFICES ASSUME NEW y \in Threads, pc[y] = "wait_thread", ~running_on[y]
                 PROVE  Target(y)' = Target(y)
      BY Zenon
    <3>1. Target(y) # None BY Zenon DEF JoinInv, SleeperRegistered
    <3>2. ~(arg[y].pid = p /\ arg[y].tid = i) BY <2>2, <3>1, Zenon DEF Target
    <3> QED BY <1>a, <1>b, <2>2, <2>3, <3>2, ZenonT(60) DEF Target
  <2>5. RegisteredKnown' BY <2>3, Zenon DEF JoinInv, RegisteredKnown
  <2> QED BY <2>1, <2>3, <2>4, <2>5, JoinOwnStep, ZenonT(60) DEF JoinInv, JoinedEventExists
<1>2. ASSUME NEW p \in Pids, NEW i \in Tids, wait_thread(t, p, i) PROVE JoinInv'
  <2>1. t = this_thread /\ pc[t] \in {"run", "wait_thread"} /\ t # Idle /\ UNCHANGED zombie
    BY <1>0, <1>2, CallerNotIdle, ZenonT(60) DEF wait_thread, Call, Resume
  <2>2. ASSUME Return(t)
        PROVE  /\ \A x \in Threads \ {t} : pc'[x] = pc[x] /\ arg'[x] = arg[x]
               /\ pc'[t] = "run"
    BY <1>0, <2>2, Zenon DEF Return, Goto, Types
  <2>3. CASE Return(t) /\ UNCHANGED <<threads, queue, waiting, events, fatal>>
    <3>1. RegisteredKnown' BY <2>1, <2>3, ZenonT(60) DEF JoinInv, RegisteredKnown
    <3> QED BY <2>1, <2>2, <2>3, <3>1, JoinOwnStep, ZenonT(60) DEF queue, Target, JoinInv, JoinedEventExists
  <2>4. CASE /\ threads[p][i] # None /\ ~zombie[threads[p][i]]
             /\ wait_joined(t) /\ Goto(t, "wait_thread", Arg(p, i, {})) /\ UNCHANGED threads
    <3>1. ~zombie[t] BY <2>1, ZenonT(60) DEF JoinInv, ZombiesExit
    <3>2. /\ RegisteredKnown'
          /\ events'[thread_joined_event] # None
          /\ Range(events[thread_joined_event]) \subseteq Range(events'[thread_joined_event])
          /\ t \in Range(events'[thread_joined_event])
      <4>1. register(t, <<thread_joined_event>>, 1) BY <2>4, ZenonT(60) DEF wait_joined
      <4>2. /\ RegisteredKnown'
            /\ events'[thread_joined_event] # None
            /\ \A e \in Eids : events[e] # None => Range(events[e]) \subseteq Range(events'[e])
            /\ \A k \in 1..1 : <<thread_joined_event>>[k] \in Eids =>
                 t \in Range(events'[<<thread_joined_event>>[k]])
        BY <2>1, <3>1, <4>1, RegisterKnown, ZenonT(60)
      <4>3. 1 \in 1..1 /\ <<thread_joined_event>>[1] = thread_joined_event OBVIOUS
      <4>4. t \in Range(events'[thread_joined_event]) BY <1>0, <4>2, <4>3, ZenonT(60)
      <4>5. events[thread_joined_event] # None BY Zenon DEF JoinInv, JoinedEventExists
      <4> QED BY <1>0, <4>2, <4>4, <4>5, ZenonT(60)
    <3>3. running_on' = [running_on EXCEPT ![this_thread] = FALSE]
      BY <1>0, <2>1, <2>4, SleepThis, ZenonT(60) DEF wait_joined
    <3>4. /\ \A x \in Threads \ {t} : pc'[x] = pc[x] /\ arg'[x] = arg[x] /\ running_on'[x] = running_on[x]
          /\ pc'[t] = "wait_thread" /\ arg'[t].pid = p /\ arg'[t].tid = i
      BY <1>0, <2>1, <2>4, <3>3, ZenonT(60) DEF Goto, Arg, Types, QueueInv
    <3> QED BY <2>1, <2>4, <3>2, <3>4, JoinOwnStep, ZenonT(60) DEF Target
  <2>5. CASE /\ threads[p][i] # None /\ zombie[threads[p][i]]
             /\ threads' = [threads EXCEPT ![p][i] = None]
             /\ Return(t) /\ UNCHANGED <<queue, waiting, events, fatal>>
    <3>1. RegisteredKnown' BY <2>1, <2>5, Zenon DEF JoinInv, RegisteredKnown
    <3>2. \A y \in Threads \ {t} : pc[y] = "wait_thread" /\ ~running_on[y] => Target(y)' = Target(y)
      <4> SUFFICES ASSUME NEW y \in Threads \ {t}, pc[y] = "wait_thread", ~running_on[y]
                   PROVE  Target(y)' = Target(y)
        BY Zenon
      <4>1. \A x \in Threads : pc[x] # "exit_notify"
        BY <2>1, Zenon DEF JoinInv, NotifierRuns
      <4>2. Target(y) \in Threads /\ ~zombie[Target(y)]
        BY <1>0, <4>1, TargetType, ZenonT(60) DEF JoinInv, SleeperRegistered
      <4>3. ~(arg[y].pid = p /\ arg[y].tid = i) BY <2>5, <4>2, Zenon DEF Target
      <4>4. arg'[y] = arg[y] BY <2>2, <2>5, Zenon
      <4> QED BY <1>a, <1>b, <2>5, <4>3, <4>4, ZenonT(60) DEF Target
    <3> QED BY <2>1, <2>2, <2>5, <3>1, <3>2, JoinOwnStep, ZenonT(60) DEF queue, JoinInv, JoinedEventExists
  <2> QED BY <1>2, <2>3, <2>4, <2>5, ZenonT(60) DEF wait_thread
<1>3. ASSUME NEW p \in Pids, wait_process(t, p) PROVE JoinInv'
  <2>1. t = this_thread /\ pc[t] \in {"run", "wait_process"} /\ t # Idle /\ UNCHANGED <<zombie, threads>>
    BY <1>0, <1>3, CallerNotIdle, ZenonT(60) DEF wait_process, Call, Resume
  <2>2. CASE Return(t) /\ UNCHANGED <<queue, waiting, events, fatal>>
    <3>1. RegisteredKnown' BY <2>1, <2>2, Zenon DEF JoinInv, RegisteredKnown
    <3>2. /\ \A x \in Threads \ {t} : pc'[x] = pc[x] /\ arg'[x] = arg[x]
          /\ pc'[t] = "run"
      BY <1>0, <2>2, Zenon DEF Return, Goto, Types
    <3> QED BY <2>1, <2>2, <3>1, <3>2, JoinOwnStep, ZenonT(60) DEF queue, Target, JoinInv, JoinedEventExists
  <2>3. CASE wait_joined(t) /\ Goto(t, "wait_process", Arg(p, 0, {}))
    <3>1. ~zombie[t] BY <2>1, Zenon DEF JoinInv, ZombiesExit
    <3>2. /\ RegisteredKnown'
          /\ events'[thread_joined_event] # None
          /\ Range(events[thread_joined_event]) \subseteq Range(events'[thread_joined_event])
      BY <1>0, <2>1, <2>3, <3>1, RegisterKnown, ZenonT(60) DEF wait_joined, JoinInv, JoinedEventExists
    <3>3. running_on' = [running_on EXCEPT ![this_thread] = FALSE]
      BY <1>0, <2>1, <2>3, SleepThis, ZenonT(60) DEF wait_joined
    <3>4. /\ \A x \in Threads \ {t} : pc'[x] = pc[x] /\ arg'[x] = arg[x] /\ running_on'[x] = running_on[x]
          /\ pc'[t] = "wait_process"
      BY <1>0, <2>1, <2>3, <3>3, ZenonT(60) DEF Goto, Types, QueueInv
    <3> QED BY <2>1, <3>2, <3>4, JoinOwnStep, ZenonT(60) DEF Target
  <2> QED BY <1>3, <2>2, <2>3, ZenonT(60) DEF wait_process
<1> QED BY <1>1, <1>2, <1>3, ZenonT(60)

\* The invariant of joining.  A fatal error in cancel_events_of_thread leaves the
\* zombie on the lists; the machine has stopped then.
JoinInvariant ==
  /\ JoinedEventExists /\ NotifierRuns /\ ZombiesExit /\ SleeperRegistered
  /\ fatal = "none" => RegisteredKnown

\* Exiting: up to the notification, the lock is held.
LEMMA JoinExit ==
  ASSUME Inv, JoinInv, NEW t \in Threads, exit_this_thread(t)
  PROVE  JoinInvariant'
<1>0. QueueInv /\ Types /\ thread_joined_event \in Eids
  BY InvParts, ArgType, Zenon DEF thread_joined_event
<1>1. t = this_thread /\ pc[t] = "run" /\ t # Kernel
  BY Zenon DEF exit_this_thread, cancel_events_of_thread, Call
<1>2. /\ UNCHANGED <<threads, running_on, this_thread, waiting>> /\ mutex' = 1
      /\ zombie' = [zombie EXCEPT ![t] = TRUE]
      /\ \A x \in Threads \ {t} : pc'[x] = pc[x] /\ arg'[x] = arg[x] /\ zombie'[x] = zombie[x]
      /\ pc'[t] = "exit_notify" /\ zombie'[t]
  BY <1>0, Zenon DEF exit_this_thread, cancel_events_of_thread, tables, queue, Goto, Types
<1>3. \A x \in Threads : pc[x] # "exit_notify"
  BY <1>1, Zenon DEF JoinInv, NotifierRuns
<1>4. /\ events'[thread_joined_event] # None
      /\ \A e \in Eids : events[e] # None => Range(events[e]) \ {t} \subseteq Range(events'[e])
      /\ fatal' = "none" => \A e \in Eids : events'[e] # None =>
           events[e] # None /\ Range(events'[e]) \subseteq Range(events[e]) /\ t \notin Range(events'[e])
  <2>1. CASE \E e \in Eids : waiting[t][e] > 0 /\ events[e] = None
    BY <2>1, Zenon DEF exit_this_thread, cancel_events_of_thread, JoinInv, JoinedEventExists
  <2>2. CASE ~ \E e \in Eids : waiting[t][e] > 0 /\ events[e] = None
    <3>1. events' = [e \in Eids |-> IF waiting[t][e] > 0 THEN erase_all(events[e], t) ELSE events[e]]
      BY <2>2, Zenon DEF exit_this_thread, cancel_events_of_thread
    <3>2. ASSUME NEW e \in Eids, waiting[t][e] > 0
          PROVE  erase_all(events[e], t) \in Seq(Threads) /\ Range(erase_all(events[e], t)) = Range(events[e]) \ {t}
      <4>1. events[e] \in Seq(Threads) BY <1>0, <2>2, <3>2, ZenonT(60) DEF Types
      <4> QED BY <4>1, EraseAll, Zenon
    <3>3. ASSUME NEW e \in Eids, events'[e] # None
          PROVE  events[e] # None /\ Range(events'[e]) \subseteq Range(events[e]) /\ t \notin Range(events'[e])
      <4>1. CASE waiting[t][e] > 0
        BY <2>2, <3>1, <3>2, <4>1, ZenonT(60)
      <4>2. CASE ~(waiting[t][e] > 0)
        BY <3>1, <3>3, <4>2, ZenonT(60) DEF JoinInv, RegisteredKnown
      <4> QED BY <4>1, <4>2, ZenonT(60)
    <3>4. \A e \in Eids : events[e] # None => /\ events'[e] # None
                                            /\ Range(events[e]) \ {t} \subseteq Range(events'[e])
      BY <3>1, <3>2, ConstantsAssumption, ZenonT(60)
    <3> QED BY <1>0, <3>3, <3>4, ZenonT(60) DEF JoinInv, JoinedEventExists
  <2> QED BY <2>1, <2>2, Zenon
<1>5. JoinedEventExists'
  BY <1>2, <1>4, Zenon DEF JoinInv, JoinedEventExists
<1>6. NotifierRuns'
  BY <1>1, <1>2, <1>3, Zenon DEF NotifierRuns
<1>7. ZombiesExit'
  BY <1>1, <1>2, ConstantsAssumption, Zenon DEF JoinInv, ZombiesExit
<1>8. SleeperRegistered'
  <2> SUFFICES ASSUME NEW x \in Threads, pc'[x] = "wait_thread", ~running_on'[x]
               PROVE /\ x \in Range(events'[thread_joined_event])
                     /\ Target(x)' # None
                     /\ zombie'[Target(x)'] => pc'[Target(x)'] = "exit_notify"
    BY Zenon DEF SleeperRegistered
  <2>1. x # t /\ pc[x] = "wait_thread" /\ ~running_on[x] /\ Target(x)' = Target(x)
    BY <1>2, Zenon DEF Target
  <2>2. x \in Range(events[thread_joined_event]) /\ Target(x) \in Threads /\ ~zombie[Target(x)]
    BY <1>0, <1>3, <2>1, TargetType, ZenonT(60) DEF JoinInv, SleeperRegistered
  <2>3. x \in Range(events'[thread_joined_event])
    BY <1>0, <1>4, <2>1, <2>2, ZenonT(60) DEF JoinInv, JoinedEventExists
  <2> QED BY <1>2, <2>1, <2>2, <2>3, ConstantsAssumption, ZenonT(60)
<1>9. fatal' = "none" => RegisteredKnown'
  BY <1>2, <1>4, ZenonT(60) DEF JoinInv, RegisteredKnown
<1> QED BY <1>5, <1>6, <1>7, <1>8, <1>9, ZenonT(60) DEF JoinInvariant

\* The notification wakes every thread that waits for an exit.
LEMMA JoinNotify ==
  ASSUME Inv, JoinInv, NEW t \in Threads, exit_notify(t)
  PROVE  JoinInv'
<1>0. QueueInv /\ Types /\ thread_joined_event \in Eids
  BY InvParts, ArgType, Zenon DEF thread_joined_event
<1>1. t = this_thread /\ pc[t] = "exit_notify"
  BY Zenon DEF exit_notify, Resume
<1> DEFINE e == thread_joined_event
<1>2. events[e] \in Seq(Threads)
  BY <1>0, NotifyTypes, Zenon DEF exit_notify
<1>3. running_on' = [x \in Threads |-> running_on[x] \/ x \in Range(events[e])]
  BY <1>0, <1>2, WakeupThreads, ZenonT(60) DEF exit_notify, notify
<1>4. /\ UNCHANGED <<threads, zombie, this_thread>>
      /\ \A x \in Threads \ {t} : pc'[x] = pc[x] /\ arg'[x] = arg[x]
      /\ pc'[t] = "exit_sleep"
      /\ events' = [events EXCEPT ![e] = <<>>]
      /\ waiting' = [x \in Threads |-> IF x \in Range(events[e])
                                  THEN [waiting[x] EXCEPT ![e] = 0] ELSE waiting[x]]
  BY <1>0, Zenon DEF exit_notify, notify, tables, Goto, Types
<1>5. events'[e] = <<>> /\ Range(<<>>) = {} /\ \A d \in Eids \ {e} : events'[d] = events[d]
  <2>1. Range(<<>>) = {} BY DEF Range
  <2>2. DOMAIN events = Eids BY <1>0, Zenon DEF Types
  <2> QED BY <1>0, <1>4, <2>1, <2>2, ZenonT(60)
<1>6. \A x \in Threads, d \in Eids \ {e} : waiting'[x][d] = waiting[x][d]
  <2>1. waiting \in [Threads -> [Eids -> Nat]] BY <1>0, Zenon DEF Types
  <2> QED BY <1>4, <2>1, ZenonT(60)
<1>7. JoinedEventExists'
  <2>1. <<>> \in Seq(Threads) OBVIOUS
  <2> QED BY <1>4, <1>5, <2>1, ConstantsAssumption, ZenonT(60) DEF JoinInv, JoinedEventExists
<1>8. NotifierRuns'
  BY <1>1, <1>4, ZenonT(60) DEF JoinInv, NotifierRuns
<1>9. ZombiesExit'
  BY <1>1, <1>4, ZenonT(60) DEF JoinInv, ZombiesExit
<1>10. RegisteredKnown'
  BY <1>4, <1>5, <1>6, ZenonT(60) DEF JoinInv, RegisteredKnown
<1>11. SleeperRegistered'
  <2> SUFFICES ASSUME NEW x \in Threads, pc'[x] = "wait_thread", ~running_on'[x] PROVE FALSE
    BY Zenon DEF SleeperRegistered
  <2>1. pc[x] = "wait_thread" /\ ~running_on[x] /\ x \notin Range(events[e])
    BY <1>3, <1>4, Zenon
  <2> QED BY <2>1, Zenon DEF JoinInv, SleeperRegistered
<1> QED BY <1>7, <1>8, <1>9, <1>10, <1>11, Zenon DEF JoinInv

LEMMA JoinParts == (JoinInv => JoinInvariant) /\ (JoinInvariant /\ fatal = "none" => JoinInv)
  BY Zenon DEF JoinInv, JoinInvariant

LEMMA JoinPartsNext == JoinInv' => JoinInvariant'
  BY ZenonT(60) DEF JoinInv, JoinInvariant

\* No step is taken after a fatal error.
LEMMA StepsWhileRunning ==
  /\ \A t \in Threads : Begin(t) \/ Continue(t) => fatal = "none"
  /\ Tick \/ timer_tick_missed \/ device_interrupt => fatal = "none"
<1>1. ASSUME NEW t \in Threads, Begin(t) PROVE fatal = "none"
  BY <1>1, ZenonT(60) DEF Begin, Call, Resume, Halted, create_process, sleep_this_thread, exit_this_thread, cancel_events_of_thread,
     create_thread, wait_process, wakeup_thread, wait_thread, suspend_this_thread, wait_events,
     unwait_events, notify_event, delete_event, create_event
<1>2. ASSUME NEW t \in Threads, Continue(t) PROVE fatal = "none"
  BY <1>2, ZenonT(60) DEF Continue, Call, Resume, Halted, exit_notify, exit_sleep, wait_events_return,
     create_event_emplace, delete_event_reset, wait_thread, wait_process
<1>3. Tick \/ timer_tick_missed \/ device_interrupt => fatal = "none"
  BY Zenon DEF Tick, Halted, timer_tick, timer_tick_missed, device_interrupt
<1> QED BY <1>1, <1>2, <1>3, ZenonT(60)

LEMMA JoinNext == Inv /\ JoinInvariant /\ [Next]_vars => JoinInvariant'
<1> SUFFICES ASSUME Inv, JoinInvariant, [Next]_vars PROVE JoinInvariant'
  BY Zenon
<1>0. Types BY InvParts, Zenon
<1>1. ASSUME NEW t \in Threads, Begin(t) PROVE JoinInvariant'
  <2>0. JoinInv BY <1>1, JoinParts, StepsWhileRunning, ZenonT(60)
  <2>1. CASE exit_this_thread(t)
    BY <2>0, <2>1, JoinExit, ZenonT(60)
  <2>2. CASE create_process(t) \/ sleep_this_thread(t) \/ create_event(t)
    BY <2>0, <2>2, JoinScheduling, JoinEvents, JoinPartsNext, ZenonT(60)
  <2>3. CASE \E p \in Pids : create_thread(t, p) \/ (pc[t] = "run" /\ wait_process(t, p))
    BY <2>0, <2>3, JoinTables, JoinPartsNext, ZenonT(60)
  <2>4. CASE \E p \in Pids, i \in Tids :
               wakeup_thread(t, p, i) \/ (pc[t] = "run" /\ wait_thread(t, p, i))
    BY <2>0, <2>4, JoinScheduling, JoinTables, JoinPartsNext, ZenonT(60)
  <2>5. CASE \E n \in 1..MaxSuspend : suspend_this_thread(t, n)
    BY <2>0, <2>5, JoinScheduling, JoinPartsNext, ZenonT(60)
  <2>6. CASE \E es \in Spans : wait_events(t, es) \/ unwait_events(t, es)
    BY <2>0, <2>6, JoinEvents, JoinPartsNext, ZenonT(60)
  <2>7. CASE \E e \in UserEids : notify_event(t, e) \/ delete_event(t, e)
    BY <2>0, <2>7, JoinEvents, JoinPartsNext, ZenonT(60)
  <2> QED BY <1>1, <2>1, <2>2, <2>3, <2>4, <2>5, <2>6, <2>7, ZenonT(60) DEF Begin
<1>2. ASSUME NEW t \in Threads, Continue(t) PROVE JoinInvariant'
  <2>0. JoinInv BY <1>2, JoinParts, StepsWhileRunning, ZenonT(60)
  <2>1. arg[t].pid \in Pids /\ arg[t].tid \in Tids BY <1>0, Zenon DEF Types
  <2>2. CASE exit_notify(t)
    BY <2>0, <2>2, JoinNotify, JoinPartsNext, ZenonT(60)
  <2>3. CASE exit_sleep(t)
    BY <2>0, <2>3, JoinScheduling, JoinPartsNext, ZenonT(60)
  <2>4. CASE wait_events_return(t) \/ create_event_emplace(t) \/ delete_event_reset(t)
    BY <2>0, <2>4, JoinEvents, JoinPartsNext, ZenonT(60)
  <2>5. CASE wait_thread(t, arg[t].pid, arg[t].tid) \/ wait_process(t, arg[t].pid)
    BY <2>0, <2>1, <2>5, JoinTables, JoinPartsNext, ZenonT(60)
  <2> QED BY <1>2, <2>2, <2>3, <2>4, <2>5, ZenonT(60) DEF Continue
<1>3. CASE Tick \/ timer_tick_missed \/ device_interrupt
  <2>0. JoinInv BY <1>3, JoinParts, StepsWhileRunning, ZenonT(60)
  <2> QED BY <1>3, <2>0, JoinScheduling, JoinPartsNext, ConstantsAssumption, ZenonT(60)
<1>4. CASE UNCHANGED vars
  <2>1. UNCHANGED <<threads, zombie, waiting, events, mutex, pc, arg, running_on, this_thread, fatal>>
    BY <1>4, Zenon DEF vars, tables, control, queue
  <2> QED BY <2>1, Zenon DEF JoinInvariant, JoinedEventExists, NotifierRuns, ZombiesExit,
             RegisteredKnown, SleeperRegistered, Target
<1> QED BY <1>1, <1>2, <1>3, <1>4, ZenonT(60) DEF Next, Stopped

\* The invariant of joining holds throughout.
THEOREM JoinInvariance == Spec => [](Inv /\ JoinInvariant)
<1>1. Init => JoinInvariant
  BY JoinInit, JoinParts, ZenonT(60)
<1> QED BY <1>1, JoinNext, Invariance, PTL DEF Spec

\* A thread asleep in wait_thread has not missed its target's exit, however the
\* joiner's registration, the exit and the notification interleave with ticks,
\* spurious wake-ups and other joiners.
THEOREM NoJoinIsLost == Spec => []JoinNotLost
<1>1. JoinInvariant => JoinNotLost
  BY Zenon DEF JoinInvariant, SleeperRegistered, JoinNotLost
<1> QED BY <1>1, JoinInvariance, PTL

\* What a step may not do to a thread that has exited and gone to sleep.
NoRevival == \A x \in Threads : zombie[x] /\ ~running_on[x] => ~running_on'[x]

LEMMA NotifyRevivesNone ==
  ASSUME QueueInv, Types, RegisteredKnown, NEW e \in Eids, notify(e),
         UNCHANGED <<suspended, this_thread>>
  PROVE  NoRevival
<1>1. events[e] \in Seq(Threads) /\ events[e] # None
  BY NotifyTypes, Zenon DEF notify
<1>2. running_on' = [x \in Threads |-> running_on[x] \/ x \in Range(events[e])]
  BY <1>1, WakeupThreads, Zenon DEF notify
<1> QED BY <1>1, <1>2, Zenon DEF RegisteredKnown, NoRevival

LEMMA SleepRevivesNone ==
  ASSUME QueueInv, Types, this_thread # Idle, sleep_this
  PROVE  NoRevival
<1>1. running_on' = [running_on EXCEPT ![this_thread] = FALSE]
  BY SleepThis, Zenon
<1> QED BY <1>1, Zenon DEF NoRevival, QueueInv

LEMMA StepRevivesNone == Inv /\ JoinInvariant /\ [Next]_vars => NoRevival
<1> SUFFICES ASSUME Inv, JoinInvariant, [Next]_vars PROVE NoRevival
  BY Zenon
<1>0. QueueInv /\ Types /\ thread_joined_event \in Eids
  BY InvParts, ArgType, ZenonT(60) DEF thread_joined_event
<1>a. UNCHANGED running_on => NoRevival
  BY Zenon DEF NoRevival
<1>1. ASSUME NEW t \in Threads, Begin(t) PROVE NoRevival
  <2>0. RegisteredKnown BY <1>1, StepsWhileRunning, ZenonT(60) DEF JoinInvariant
  <2>1. CASE create_process(t) \/ exit_this_thread(t) \/ create_event(t)
    BY <1>a, <2>1, ZenonT(60) DEF create_process, exit_this_thread, cancel_events_of_thread, create_event, queue
  <2>2. CASE sleep_this_thread(t)
    BY <1>0, <2>2, SleepRevivesNone, ZenonT(60) DEF sleep_this_thread, Call
  <2>3. CASE \E p \in Pids : create_thread(t, p)
    BY <1>a, <2>3, ZenonT(60) DEF create_thread, queue
  <2>4. CASE \E p \in Pids : pc[t] = "run" /\ wait_process(t, p)
    BY <1>0, <1>a, <2>4, SleepRevivesNone, CallerNotIdle, ZenonT(60)
       DEF wait_process, wait_joined, queue, Call, Resume
  <2>5. CASE \E p \in Pids, i \in Tids : pc[t] = "run" /\ wait_thread(t, p, i)
    BY <1>0, <1>a, <2>5, SleepRevivesNone, CallerNotIdle, ZenonT(60)
       DEF wait_thread, wait_joined, queue, Call, Resume
  <2>6. ASSUME NEW p \in Pids, NEW i \in Tids, wakeup_thread(t, p, i) PROVE NoRevival
    <3>0. threads[p][i] \in Threads /\ ~zombie[threads[p][i]]
      <4>1. threads[p][i] # None /\ ~zombie[threads[p][i]] BY <2>6, Zenon DEF wakeup_thread
      <4> QED BY <1>0, <4>1, SlotType, ZenonT(60)
    <3>1. <<threads[p][i]>> \in Seq(Threads) BY <3>0
    <3>2. running_on' = [x \in Threads |-> running_on[x] \/ x \in Range(<<threads[p][i]>>)]
      BY <1>0, <2>6, <3>1, WakeupThreads, ZenonT(60) DEF wakeup_thread
    <3>3. Range(<<threads[p][i]>>) = {threads[p][i]} BY Singleton, Zenon
    <3> QED BY <3>0, <3>2, <3>3, ZenonT(60) DEF NoRevival
  <2>7. CASE \E n \in 1..MaxSuspend : suspend_this_thread(t, n)
    BY <1>a, <2>7, Zenon DEF suspend_this_thread, switch_thread
  <2>8. CASE \E es \in Spans : wait_events(t, es)
    BY <1>0, <1>a, <2>8, SleepRevivesNone, ZenonT(40) DEF wait_events, queue, Call
  <2>9. CASE \E es \in Spans : unwait_events(t, es)
    BY <1>a, <2>9, ZenonT(60) DEF unwait_events, queue
  <2>10. CASE \E e \in UserEids : notify_event(t, e)
    BY <1>0, <2>0, <2>10, NotifyRevivesNone, ZenonT(60) DEF notify_event, UserEids
  <2>11. CASE \E e \in UserEids : delete_event(t, e)
    BY <1>a, <2>11, ZenonT(60) DEF delete_event, queue
  <2> QED BY <1>1, <2>1, <2>2, <2>3, <2>4, <2>5, <2>6, <2>7, <2>8, <2>9, <2>10, <2>11, ZenonT(60) DEF Begin
<1>2. ASSUME NEW t \in Threads, Continue(t) PROVE NoRevival
  <2>0. RegisteredKnown BY <1>2, StepsWhileRunning, ZenonT(60) DEF JoinInvariant
  <2>1. CASE exit_notify(t)
    BY <1>0, <2>0, <2>1, NotifyRevivesNone, ZenonT(60) DEF exit_notify
  <2>2. CASE exit_sleep(t)
    BY <1>0, <2>2, SleepRevivesNone, CallerNotIdle, ZenonT(60) DEF exit_sleep, Resume
  <2>3. CASE wait_events_return(t) \/ create_event_emplace(t) \/ delete_event_reset(t)
    BY <1>a, <2>3, ZenonT(60) DEF wait_events_return, create_event_emplace, delete_event_reset, queue
  <2>4. CASE pc[t] = "wait_thread" /\ wait_thread(t, arg[t].pid, arg[t].tid)
    BY <1>0, <1>a, <2>4, SleepRevivesNone, CallerNotIdle, ZenonT(60)
       DEF wait_thread, wait_joined, queue, Call, Resume
  <2>5. CASE pc[t] = "wait_process" /\ wait_process(t, arg[t].pid)
    BY <1>0, <1>a, <2>5, SleepRevivesNone, CallerNotIdle, ZenonT(60)
       DEF wait_process, wait_joined, queue, Call, Resume
  <2> QED BY <1>2, <2>1, <2>2, <2>3, <2>4, <2>5, ZenonT(60) DEF Continue
<1>3. ASSUME NEW message \in BOOLEAN, timer_tick(message) PROVE NoRevival
  <2>1. running_on' = [running_on EXCEPT ![Kernel] = @ \/ message]
    BY <1>0, <1>3, TimerTick, ZenonT(60) DEF Types
  <2> QED BY <1>0, <2>1, Zenon DEF NoRevival, JoinInvariant, ZombiesExit, QueueInv
<1>4. CASE timer_tick_missed
  BY <1>a, <1>4, Zenon DEF timer_tick_missed
<1>5. CASE device_interrupt
  <2>1. <<Kernel>> \in Seq(Threads) /\ Range(<<Kernel>>) = {Kernel}
    BY ConstantsAssumption DEF Range
  <2>2. running_on' = [x \in Threads |-> running_on[x] \/ x \in Range(<<Kernel>>)]
    BY <1>0, <1>5, <2>1, WakeupThreads, ZenonT(60) DEF device_interrupt
  <2> QED BY <2>1, <2>2, Zenon DEF NoRevival, JoinInvariant, ZombiesExit
<1>6. CASE UNCHANGED vars
  BY <1>a, <1>6, ZenonT(60) DEF vars, queue
<1> QED BY <1>1, <1>2, <1>3, <1>4, <1>5, <1>6, ZenonT(60) DEF Next, Tick, Stopped

\* wakeup_thread, notify_event, ticks and device interrupts never bring back a
\* thread that has gone to sleep in exit_thread.
THEOREM TheDeadStayAsleep == Spec => DeadStayAsleep
<1>1. NoRevival => [\A t \in Threads : zombie[t] /\ ~running_on[t] => ~running_on'[t]]_vars
  BY Zenon DEF NoRevival
<1> QED BY <1>1, StepRevivesNone, JoinInvariance, PTL DEF Spec, DeadStayAsleep
=============================================================================
