---------------------------- MODULE Drivers_proofs ----------------------------
(***************************************************************************)
(* For every finite set of symbols, every plan, limits, latencies, fees    *)
(* and sequence of records: both drivers of a strategy that acts on market *)
(* events do the same, no order that reduces a position is refused, and    *)
(* the gate measures losses from where they began.  Every strategy hears   *)
(* of its fills once and in order, and the book agrees with them until a   *)
(* short is covered in part.                                               *)
(***************************************************************************)
EXTENDS Drivers, FiniteSetTheorems, SequenceTheorems, TLAPS

-----------------------------------------------------------------------------
(* Natural numbers and finite sets, without operators as parameters. *)

(* A non-empty set of naturals has a least element.                        *)
LEMMA LeastNat ==
  ASSUME NEW T, T \subseteq Nat, T # {}
  PROVE  \E n \in T : \A m \in T : n <= m
<1> DEFINE Below == {0 .. n : n \in T}
           R == StrictSubsetOrdering(Nat)
<1>1. IsWellFoundedOn(R, FiniteSubsetsOf(Nat))
  BY FS_StrictSubsetOrderingWellFounded
<1>2. Below \subseteq FiniteSubsetsOf(Nat) /\ Below # {}
  <2>1. \A n \in T : 0 .. n \in FiniteSubsetsOf(Nat)
    BY FS_Interval DEF FiniteSubsetsOf
  <2>2. PICK t \in T : TRUE
    OBVIOUS
  <2>3. 0 .. t \in Below
    OBVIOUS
  <2> QED BY <2>1, <2>3
<1> HIDE DEF Below, R
<1>3. PICK B \in Below : \A C \in Below : <<C, B>> \notin R
  BY <1>1, <1>2, WFMin
<1>4. PICK n \in T : B = 0 .. n
  BY <1>3 DEF Below
<1>5. ASSUME NEW m \in T, m < n PROVE FALSE
  <2>1. 0 .. m \in Below
    BY DEF Below
  <2>2. n \in 0 .. n /\ n \notin 0 .. m
    BY <1>5
  <2>3. 0 .. m \subseteq 0 .. n /\ 0 .. m # 0 .. n
    BY <1>5, <2>2
  <2>4. <<0 .. m, 0 .. n>> \in R
    BY <2>3 DEF R, StrictSubsetOrdering
  <2> QED BY <1>3, <1>4, <2>1, <2>4
<1>6. \A m \in T : n <= m
  BY <1>5
<1> QED BY <1>6

LEMMA Induction ==
  ASSUME NEW P, 0 \in P, \A n \in Nat : n \in P => n + 1 \in P
  PROVE  \A n \in Nat : n \in P
<1> SUFFICES ASSUME NEW k \in Nat, k \notin P PROVE FALSE
  OBVIOUS
<1> DEFINE T == Nat \ P
<1>1. k \in T /\ T \subseteq Nat
  OBVIOUS
<1> HIDE DEF T
<1>2. PICK n \in T : \A m \in T : n <= m
  BY <1>1, LeastNat
<1>3. n \in Nat /\ n \notin P /\ n # 0
  BY <1>2 DEF T
<1>4. n - 1 \in Nat /\ n - 1 \notin T
  BY <1>1, <1>2, <1>3
<1>5. n - 1 \in P /\ (n - 1) + 1 = n
  BY <1>3, <1>4 DEF T
<1> QED BY <1>3, <1>4, <1>5

(* it[s] is the sum of f over s, whichever element is added last.          *)
Adds(it, f, S) ==
  /\ it[{}] = 0
  /\ \A s \in SUBSET S : it[s] \in Int
  /\ \A s \in SUBSET S : \A x \in s : it[s] = f[x] + it[s \ {x}]

(* SumFunction adds one element after the other, in an order it chooses;   *)
(* the order makes no difference.                                          *)
LEMMA SumUnfolds ==
  ASSUME NEW S, IsFiniteSet(S), NEW f \in [S -> Int]
  PROVE  \E it : Adds(it, f, S) /\ SumFunction(f) = it[S]
<1> DEFINE One(s) == CHOOSE x \in s : TRUE
           Sums(g, D) == /\ DOMAIN g = D
                         /\ \A s \in D : g[s] = IF s = {} THEN 0 ELSE f[One(s)] + g[s \ {One(s)}]
           Upto(n) == {s \in SUBSET S : Cardinality(s) <= n}
           P == {n \in Nat : \E g : Sums(g, Upto(n))}
<1>1. \A s \in SUBSET S : IsFiniteSet(s) /\ Cardinality(s) \in Nat /\ (Cardinality(s) = 0 <=> s = {})
  BY FS_Subset, FS_CardinalityType, FS_EmptySet
<1>2. \A s \in SUBSET S : s # {} => /\ One(s) \in s /\ One(s) \in S /\ s \ {One(s)} \in SUBSET S
                                  /\ Cardinality(s \ {One(s)}) = Cardinality(s) - 1
  BY <1>1, FS_RemoveElement
<1> HIDE DEF One
<1>3. 0 \in P
  <2> DEFINE g == [s \in Upto(0) |-> 0]
  <2>1. \A s \in Upto(0) : s = {}
    BY <1>1
  <2>2. Sums(g, Upto(0))
    BY <2>1
  <2> QED BY <2>2
<1>4. ASSUME NEW n \in Nat, n \in P PROVE n + 1 \in P
  <2>1. PICK g : Sums(g, Upto(n))
    BY <1>4
  <2> DEFINE h == [s \in Upto(n + 1) |-> IF s = {} THEN 0 ELSE f[One(s)] + g[s \ {One(s)}]]
  <2>2. ASSUME NEW s \in Upto(n + 1), s # {}
        PROVE  s \ {One(s)} \in Upto(n)
    BY <1>1, <1>2, <2>2
  <2>3. \A s \in Upto(n) : s \in Upto(n + 1) /\ h[s] = g[s]
    <3> SUFFICES ASSUME NEW s \in Upto(n) PROVE s \in Upto(n + 1) /\ h[s] = g[s]
      OBVIOUS
    <3>1. s \in Upto(n + 1)
      BY <1>1
    <3>2. g[s] = IF s = {} THEN 0 ELSE f[One(s)] + g[s \ {One(s)}]
      BY <2>1
    <3> QED BY <3>1, <3>2
  <2> HIDE DEF Upto
  <2>4. \A s \in Upto(n + 1) : s # {} => h[s \ {One(s)}] = g[s \ {One(s)}]
    BY <2>2, <2>3
  <2>5. Sums(h, Upto(n + 1))
    BY <2>4
  <2> HIDE DEF h, Sums
  <2>6. n + 1 \in Nat /\ \E g1 : Sums(g1, Upto(n + 1))
    BY <2>5
  <2> QED BY <2>6
<1> HIDE DEF P
<1>5. Cardinality(S) \in Nat /\ Cardinality(S) \in P
  BY <1>1, <1>3, <1>4, Induction
<1>6. SUBSET S = Upto(Cardinality(S))
  BY <1>1, FS_Subset
<1>7. \E g : g = [s \in SUBSET S |-> IF s = {} THEN 0 ELSE f[One(s)] + g[s \ {One(s)}]]
  <2>1. PICK g : Sums(g, SUBSET S)
    BY <1>5, <1>6 DEF P
  <2> DEFINE h == [s \in SUBSET S |-> g[s]]
  <2>2. \A s \in SUBSET S : s # {} => h[s \ {One(s)}] = g[s \ {One(s)}]
    BY <1>2
  <2>3. h = [s \in SUBSET S |-> IF s = {} THEN 0 ELSE f[One(s)] + h[s \ {One(s)}]]
    BY <2>1, <2>2
  <2> QED BY <2>3
<1> DEFINE iter == CHOOSE g : g = [s \in SUBSET S |-> IF s = {} THEN 0 ELSE f[One(s)] + g[s \ {One(s)}]]
<1>8. \A s \in SUBSET S : iter[s] = IF s = {} THEN 0 ELSE f[One(s)] + iter[s \ {One(s)}]
  BY <1>7
<1> HIDE DEF iter
<1> DEFINE Q == {n \in Nat : \A s \in SUBSET S : Cardinality(s) = n => iter[s] \in Int}
<1>9. 0 \in Q
  BY <1>1, <1>8
<1>10. ASSUME NEW n \in Nat, n \in Q PROVE n + 1 \in Q
  <2> SUFFICES ASSUME NEW s \in SUBSET S, Cardinality(s) = n + 1 PROVE iter[s] \in Int
    OBVIOUS
  <2>1. s # {} /\ One(s) \in S /\ s \ {One(s)} \in SUBSET S /\ Cardinality(s \ {One(s)}) = n
    BY <1>1, <1>2
  <2>2. iter[s \ {One(s)}] \in Int /\ f[One(s)] \in Int
    BY <1>10, <2>1
  <2> QED BY <1>8, <2>1, <2>2, SMTT(30)
<1> HIDE DEF Q
<1>11. \A s \in SUBSET S : iter[s] \in Int
  <2> SUFFICES ASSUME NEW s \in SUBSET S PROVE iter[s] \in Int
    OBVIOUS
  <2>1. Cardinality(s) \in Nat
    BY <1>1
  <2>2. \A n \in Nat : n \in Q
    BY <1>9, <1>10, Induction
  <2> QED BY <2>1, <2>2 DEF Q
<1> DEFINE R == {n \in Nat : \A s \in SUBSET S : Cardinality(s) = n =>
                               \A x \in s : iter[s] = f[x] + iter[s \ {x}]}
<1>12. 0 \in R
  BY <1>1
<1>13. ASSUME NEW n \in Nat, n \in R PROVE n + 1 \in R
  <2> SUFFICES ASSUME NEW s \in SUBSET S, Cardinality(s) = n + 1, NEW x \in s
               PROVE  iter[s] = f[x] + iter[s \ {x}]
    OBVIOUS
  <2> DEFINE o == One(s)
             r == s \ {o, x}
  <2>1. /\ o \in s /\ s \ {o} \in SUBSET S /\ s \ {x} \in SUBSET S /\ r \in SUBSET S
        /\ iter[s] = f[o] + iter[s \ {o}]
    BY <1>2, <1>8
  <2>2. Cardinality(s \ {o}) = n /\ Cardinality(s \ {x}) = n
    <3>1. IsFiniteSet(s) /\ o \in s
      BY <1>1, <2>1
    <3> HIDE DEF o
    <3>2. Cardinality(s \ {o}) = (n + 1) - 1 /\ Cardinality(s \ {x}) = (n + 1) - 1
      BY <3>1, FS_RemoveElement
    <3> QED BY <3>2
  <2> HIDE DEF o
  <2>3. CASE o = x
    BY <2>1, <2>3
  <2>4. CASE o # x
    <3>1. x \in s \ {o} /\ o \in s \ {x} /\ (s \ {o}) \ {x} = r /\ (s \ {x}) \ {o} = r
      BY <2>1, <2>4
    <3> HIDE DEF r
    <3>2. iter[s \ {o}] = f[x] + iter[r] /\ iter[s \ {x}] = f[o] + iter[r]
      BY <1>13, <2>1, <2>2, <3>1
    <3>3. f[o] \in Int /\ f[x] \in Int /\ iter[r] \in Int
      BY <1>11, <2>1
    <3> QED BY <2>1, <3>2, <3>3
  <2> QED BY <2>3, <2>4
<1> HIDE DEF R
<1>14. \A s \in SUBSET S : \A x \in s : iter[s] = f[x] + iter[s \ {x}]
  <2> SUFFICES ASSUME NEW s \in SUBSET S PROVE \A x \in s : iter[s] = f[x] + iter[s \ {x}]
    OBVIOUS
  <2>1. Cardinality(s) \in Nat
    BY <1>1
  <2>2. \A n \in Nat : n \in R
    BY <1>12, <1>13, Induction
  <2> QED BY <2>1, <2>2 DEF R
<1>15. iter[{}] = 0
  BY <1>8
<1>16. SumFunction(f) = iter[S]
  BY DEF SumFunction, SumFunctionOnSet, FoldFunctionOnSet, MapThenFoldSet, iter, One
<1>17. Adds(iter, f, S)
  BY <1>11, <1>14, <1>15 DEF Adds
<1> QED BY <1>16, <1>17

(* A sum over a finite set of integers is one.                             *)
LEMMA SumIsInt ==
  ASSUME NEW S, IsFiniteSet(S), NEW f \in [S -> Int]
  PROVE  SumFunction(f) \in Int
<1>1. PICK it : Adds(it, f, S) /\ SumFunction(f) = it[S]
  BY SumUnfolds
<1> QED BY <1>1 DEF Adds

(* There is only one way to add up.                                        *)
LEMMA AddsOnce ==
  ASSUME NEW S, IsFiniteSet(S), NEW f \in [S -> Int], NEW a, Adds(a, f, S), NEW b, Adds(b, f, S)
  PROVE  \A s \in SUBSET S : a[s] = b[s]
<1> DEFINE P == {n \in Nat : \A s \in SUBSET S : Cardinality(s) = n => a[s] = b[s]}
<1>1. \A s \in SUBSET S : IsFiniteSet(s) /\ Cardinality(s) \in Nat /\ (Cardinality(s) = 0 <=> s = {})
  BY FS_Subset, FS_CardinalityType, FS_EmptySet
<1>2. 0 \in P
  BY <1>1 DEF Adds
<1>3. ASSUME NEW n \in Nat, n \in P PROVE n + 1 \in P
  <2> SUFFICES ASSUME NEW s \in SUBSET S, Cardinality(s) = n + 1 PROVE a[s] = b[s]
    OBVIOUS
  <2>1. PICK x \in s : TRUE
    BY <1>1
  <2>2. s \ {x} \in SUBSET S /\ Cardinality(s \ {x}) = n
    <3>1. IsFiniteSet(s) /\ x \in s
      BY <1>1, <2>1
    <3>2. Cardinality(s \ {x}) = (n + 1) - 1
      BY <3>1, FS_RemoveElement
    <3> QED BY <3>2
  <2>3. a[s \ {x}] = b[s \ {x}]
    BY <1>3, <2>2
  <2> QED BY <2>3 DEF Adds
<1> HIDE DEF P
<1>4. \A n \in Nat : n \in P
  BY <1>2, <1>3, Induction
<1> QED BY <1>1, <1>4 DEF P

(* One element may be added last.                                          *)
Without(f, x) == [s \in DOMAIN f \ {x} |-> f[s]]

LEMMA SumTakes ==
  ASSUME NEW S, IsFiniteSet(S), NEW f \in [S -> Int], NEW x \in S
  PROVE  SumFunction(f) = f[x] + SumFunction(Without(f, x))
<1> DEFINE T == S \ {x}
           g == [s \in T |-> f[s]]
<1>0. g = Without(f, x)
  BY DEF Without
<1>1. PICK a : Adds(a, f, S) /\ SumFunction(f) = a[S]
  BY SumUnfolds
<1>2. IsFiniteSet(T) /\ g \in [T -> Int]
  BY FS_Subset
<1>3. PICK b : Adds(b, g, T) /\ SumFunction(g) = b[T]
  BY <1>2, SumUnfolds
<1>4. Adds(a, g, T)
  <2>1. \A s \in SUBSET T : s \in SUBSET S /\ \A y \in s : g[y] = f[y]
    OBVIOUS
  <2> HIDE DEF T, g
  <2> QED BY <1>1, <2>1 DEF Adds
<1> HIDE DEF g
<1>5. a[T] = b[T]
  BY <1>2, <1>3, <1>4, AddsOnce
<1>6. a[S] = f[x] + a[T]
  BY <1>1 DEF Adds
<1> QED BY <1>0, <1>1, <1>3, <1>5, <1>6

LEMMA SumOfNone ==
  ASSUME NEW f \in [{} -> Int]
  PROVE  SumFunction(f) = 0
<1>1. PICK it : Adds(it, f, {}) /\ SumFunction(f) = it[{}]
  BY SumUnfolds, FS_EmptySet
<1> QED BY <1>1 DEF Adds

(* Two sums that differ in one entry.                                      *)
LEMMA SumChanges ==
  ASSUME NEW S, IsFiniteSet(S), NEW f \in [S -> Int], NEW g \in [S -> Int], NEW x \in S,
         \A s \in S : s # x => g[s] = f[s]
  PROVE  SumFunction(g) = SumFunction(f) + g[x] - f[x]
<1> DEFINE r == Without(f, x)
<1>1. Without(g, x) = r
  BY DEF Without
<1>2. SumFunction(f) = f[x] + SumFunction(r)
  BY SumTakes
<1>3. SumFunction(g) = g[x] + SumFunction(Without(g, x))
  BY SumTakes
<1>4. SumFunction(r) \in Int
  <2>1. IsFiniteSet(S \ {x}) /\ r \in [S \ {x} -> Int]
    BY FS_Subset DEF Without
  <2> QED BY <2>1, SumIsInt
<1> HIDE DEF r
<1>5. f[x] \in Int /\ g[x] \in Int
  OBVIOUS
<1> QED BY <1>1, <1>2, <1>3, <1>4, <1>5

-----------------------------------------------------------------------------
(* A run takes its happenings one after the other. *)

Turn(d, h, what, driver) == IF h.what = what THEN Happen(d, h, driver) ELSE d

(* f is the run's states, the first one d. *)
Turns(f, d, hs, what, driver) ==
  /\ DOMAIN f = 0 .. Len(hs) /\ f[0] = d
  /\ \A n \in 1 .. Len(hs) : f[n] = Turn(f[n - 1], hs[n], what, driver)

LEMMA RunUnfolds ==
  ASSUME NEW d, NEW hs, Len(hs) \in Nat, NEW what, NEW driver
  PROVE  \E f : Turns(f, d, hs, what, driver) /\ Run(d, hs, what, driver) = f[Len(hs)]
<1> DEFINE L == Len(hs)
           Upto(f, m) == /\ DOMAIN f = 0 .. m
                         /\ f[0] = d
                         /\ \A n \in 1 .. m : f[n] = Turn(f[n - 1], hs[n], what, driver)
           P == {m \in Nat : \E f : Upto(f, m)}
           Rule(f) == [n \in 0 .. L |->
                         IF n = 0 THEN d
                         ELSE IF hs[n].what = what THEN Happen(f[n - 1], hs[n], driver) ELSE f[n - 1]]
<1>1. 0 \in P
  <2> DEFINE g == [n \in 0 .. 0 |-> d]
  <2>1. Upto(g, 0)
    OBVIOUS
  <2> HIDE DEF Upto
  <2> QED BY <2>1
<1>2. ASSUME NEW m \in Nat, m \in P PROVE m + 1 \in P
  <2>1. PICK f : Upto(f, m)
    BY <1>2
  <2> DEFINE g == [n \in 0 .. m + 1 |-> IF n = m + 1 THEN Turn(f[m], hs[n], what, driver) ELSE f[n]]
  <2>2. DOMAIN g = 0 .. m + 1 /\ g[0] = d /\ \A n \in 0 .. m : g[n] = f[n]
    BY <2>1
  <2>3. g[m + 1] = Turn(f[m], hs[m + 1], what, driver)
    OBVIOUS
  <2> HIDE DEF g
  <2>4. ASSUME NEW n \in 1 .. m + 1 PROVE g[n] = Turn(g[n - 1], hs[n], what, driver)
    <3>1. CASE n = m + 1
      BY <2>2, <2>3, <3>1
    <3>2. CASE n # m + 1
      <4>1. n \in 1 .. m /\ n - 1 \in 0 .. m
        BY <3>2
      <4> QED BY <2>1, <2>2, <4>1
    <3> QED BY <3>1, <3>2
  <2>5. Upto(g, m + 1)
    BY <2>2, <2>4
  <2> HIDE DEF Upto
  <2> QED BY <2>5
<1> HIDE DEF P
<1>3. L \in P
  BY <1>1, <1>2, Induction
<1>4. PICK f : Upto(f, L)
  BY <1>3 DEF P
<1> DEFINE h == [n \in 0 .. L |-> f[n]]
<1>5. h = Rule(h)
  <2>1. ASSUME NEW n \in 0 .. L PROVE h[n] = Rule(h)[n]
    <3>1. CASE n = 0
      BY <1>4, <3>1
    <3>2. CASE n # 0
      <4>1. n \in 1 .. L /\ n - 1 \in 0 .. L
        BY <3>2
      <4>2. f[n] = Turn(f[n - 1], hs[n], what, driver) /\ h[n] = f[n] /\ h[n - 1] = f[n - 1]
        BY <1>4, <4>1
      <4> HIDE DEF h
      <4> QED BY <3>2, <4>1, <4>2 DEF Turn
    <3> QED BY <3>1, <3>2
  <2> QED BY <2>1
<1> HIDE DEF h
<1> DEFINE after == CHOOSE g : g = Rule(g)
<1>6. after = Rule(after)
  BY <1>5
<1>7. Run(d, hs, what, driver) = after[L]
  BY DEF Run
<1> HIDE DEF after
<1>8. DOMAIN after = 0 .. L /\ after[0] = d
  BY <1>6
<1>9. ASSUME NEW n \in 1 .. L PROVE after[n] = Turn(after[n - 1], hs[n], what, driver)
  <2>1. n \in 0 .. L /\ n # 0
    OBVIOUS
  <2> QED BY <1>6, <2>1 DEF Turn
<1>10. Turns(after, d, hs, what, driver)
  BY <1>8, <1>9 DEF Turns
<1> QED BY <1>7, <1>10
-----------------------------------------------------------------------------
(* Types, and what each part of a step leaves alone. *)

Fields == {"now", "day", "dayStart", "view", "qty", "last", "known", "cash", "peak", "equity",
           "working", "inbound", "seen", "blotter", "submitted", "rejected", "heard", "refused",
           "navs", "paid", "draws"}

WorkingOrders == [coid : Nat, symbol : Symbols, signed : Int, limit : Nat, effective : Int,
                  cancelAt : Int \union {Never}]
NoteKinds == {"fill", "cancelled", "rejected", "timer"}
Notes == [kind : NoteKinds, n : Int]
Messages == [at : Int, ev : Notes]

(* An order that moves a holding towards flat, without crossing it. *)
MovesTowardsFlat(x) == Abs(x.held + x.signed) < Abs(x.held) /\ x.held * (x.held + x.signed) >= 0

MarketTyped(d) ==
  /\ d.now \in Int /\ d.day \in Int \union {Never}
  /\ d.dayStart \in Int /\ d.peak \in Int /\ d.equity \in Int /\ d.paid \in Int
  /\ d.view \in [Symbols -> Nat] /\ d.last \in [Symbols -> Nat]
  /\ d.navs \in Seq([day : Int, nav : Int])

BookTyped(d) ==
  /\ d.qty \in [Symbols -> Int] /\ d.cash \in Int /\ d.known \subseteq Symbols
  /\ Len(d.blotter) \in Nat

DeskTyped(d) ==
  /\ d.working \in Seq(WorkingOrders) /\ d.submitted \in Nat /\ d.rejected \in Nat
  /\ d.draws \in Nat
  /\ d.refused \subseteq [held : Int, signed : Int]
  /\ \A x \in d.refused : ~MovesTowardsFlat(x)

StrategyTyped(d) == d.inbound \in Seq(Messages) /\ d.seen \in [Kinds -> Nat]

IsDriver(d) ==
  DOMAIN d = Fields /\ MarketTyped(d) /\ BookTyped(d) /\ DeskTyped(d) /\ StrategyTyped(d)

SameMarket(d, e) ==
  /\ e.now = d.now /\ e.day = d.day /\ e.dayStart = d.dayStart /\ e.peak = d.peak
  /\ e.equity = d.equity /\ e.paid = d.paid /\ e.view = d.view /\ e.last = d.last
  /\ e.navs = d.navs
SameBook(d, e) ==
  e.qty = d.qty /\ e.cash = d.cash /\ e.known = d.known /\ e.blotter = d.blotter
(* The desk is the same, but its generator may have drawn in between. *)
SameDesk(d, e) ==
  /\ e.draws \in Nat <=> d.draws \in Nat
  /\ e.working = d.working /\ e.submitted = d.submitted /\ e.rejected = d.rejected
  /\ e.refused = d.refused
SameStrategy(d, e) == e.inbound = d.inbound /\ e.seen = d.seen

LEMMA SameKeepsTypes ==
  ASSUME NEW d, NEW e
  PROVE  /\ MarketTyped(d) /\ SameMarket(d, e) => MarketTyped(e)
         /\ BookTyped(d) /\ SameBook(d, e) => BookTyped(e)
         /\ DeskTyped(d) /\ SameDesk(d, e) => DeskTyped(e)
         /\ StrategyTyped(d) /\ SameStrategy(d, e) => StrategyTyped(e)
BY DEF MarketTyped, SameMarket, BookTyped, SameBook, DeskTyped, SameDesk, StrategyTyped, SameStrategy

IsConfig == cfg \in Configs

LEMMA ConfigTyped ==
  ASSUME IsConfig
  PROVE  /\ cfg.outLatency \in Nat /\ cfg.inLatency \in Nat /\ cfg.fee \in Nat /\ cfg.borrow \in Nat
         /\ \A e \in DOMAIN cfg.plan : cfg.plan[e] \in Actions
         /\ Capital \in Nat \ {0} /\ DayLength \in Nat \ {0} /\ Never \notin Int
         /\ Prices \subseteq Nat \ {0} /\ Steps \subseteq Int
BY DriversAssumption DEF IsConfig

LEMMA OffsetsTyped ==
  ASSUME IsConfig, NEW driver \in {"live", "back"}
  PROVE  /\ Len(cfg.offsets[driver]) \in Nat \ {0}
         /\ cfg.offsets[driver] \in Seq(Int)
BY DriversAssumption DEF IsConfig

(* A latency is never negative, and what it is meant to be without jitter. *)
LEMMA DrawnTyped ==
  ASSUME IsConfig, NEW d, DeskTyped(d), NEW base \in Nat, NEW driver \in {"live", "back"}
  PROVE  /\ Drawn(d, base, driver) \in Nat
         /\ NoJitter(driver) => Drawn(d, base, driver) = base
<1> DEFINE offsets == cfg.offsets[driver]
           i == (d.draws % Len(offsets)) + 1
<1>1. d.draws \in Nat /\ Len(offsets) \in Nat \ {0} /\ offsets \in Seq(Int)
  BY OffsetsTyped DEF DeskTyped
<1>2. i \in 1 .. Len(offsets) /\ DOMAIN offsets = 1 .. Len(offsets)
  <2> DEFINE l == Len(offsets)
  <2>1. DOMAIN offsets = 1 .. l
    BY <1>1
  <2> HIDE DEF offsets
  <2>2. l \in Nat \ {0}
    BY <1>1
  <2> HIDE DEF l
  <2>3. d.draws % l \in 0 .. l - 1
    BY <1>1, <2>2
  <2> QED BY <2>1, <2>2, <2>3 DEF l
<1>3. offsets[i] \in Int /\ (NoJitter(driver) => offsets[i] = 0)
  <2>1. NoJitter(driver) => \A j \in DOMAIN offsets : offsets[j] = 0
    BY DEF NoJitter
  <2> HIDE DEF offsets, i
  <2> QED BY <1>1, <1>2, <2>1
<1>4. Drawn(d, base, driver) = IF base + offsets[i] < 0 THEN 0 ELSE base + offsets[i]
  BY DEF Drawn
<1> HIDE DEF offsets, i
<1> QED BY <1>3, <1>4

LEMMA DueByTyped ==
  ASSUME NEW d, d.inbound \in Seq(Messages), NEW at
  PROVE  DueBy(d, at) \in 0 .. Len(d.inbound)
<1> DEFINE S == {i \in DOMAIN d.inbound : d.inbound[i].at <= at}
<1>1. S \subseteq 1 .. Len(d.inbound) /\ Len(d.inbound) \in Nat
  OBVIOUS
<1>2. IsFiniteSet(1 .. Len(d.inbound)) /\ Cardinality(1 .. Len(d.inbound)) = Len(d.inbound)
  BY <1>1, FS_Interval
<1> HIDE DEF S
<1>3. Cardinality(S) \in Nat /\ Cardinality(S) <= Len(d.inbound)
  BY <1>1, <1>2, FS_Subset, FS_CardinalityType
<1> QED BY <1>1, <1>3 DEF DueBy, S

(* A message held back is put in its place (Later). *)
LEMMA LaterKeeps ==
  ASSUME NEW d, IsDriver(d), NEW at \in Int, NEW ev \in Notes
  PROVE  LET e == Later(d, at, ev)
         IN  /\ IsDriver(e) /\ SameMarket(d, e) /\ SameBook(d, e) /\ SameDesk(d, e)
             /\ e.seen = d.seen
<1> DEFINE k == DueBy(d, at)
           m == [at |-> at, ev |-> ev]
           e == Later(d, at, ev)
<1>1. d.inbound \in Seq(Messages) /\ m \in Messages
  BY DEF IsDriver, StrategyTyped, Messages
<1>2. k \in 0 .. Len(d.inbound)
  BY <1>1, DueByTyped
<1> HIDE DEF k, m
<1>3. InsertAt(d.inbound, k + 1, m) \in Seq(Messages)
  <2>1. k + 1 \in 1 .. Len(d.inbound) + 1 /\ Len(d.inbound) \in Nat
    BY <1>1, <1>2
  <2>2. SubSeq(d.inbound, 1, k) \in Seq(Messages)
    BY <1>1, <1>2
  <2>3. SubSeq(d.inbound, k + 1, Len(d.inbound)) \in Seq(Messages)
    BY <1>1, <2>1
  <2>4. <<m>> \in Seq(Messages)
    BY <1>1
  <2>5. (k + 1) - 1 = k
    BY <1>2
  <2> QED BY <2>2, <2>3, <2>4, <2>5 DEF InsertAt
<1>4. /\ DOMAIN e = Fields /\ SameMarket(d, e) /\ SameBook(d, e) /\ SameDesk(d, e)
      /\ e.seen = d.seen /\ e.inbound = InsertAt(d.inbound, k + 1, m)
  BY DEF IsDriver, Fields, Later, SameMarket, SameBook, SameDesk, k, m
<1> HIDE DEF e
<1>5. StrategyTyped(e)
  BY <1>3, <1>4 DEF IsDriver, StrategyTyped
<1>6. IsDriver(e)
  BY <1>4, <1>5, SameKeepsTypes DEF IsDriver
<1> QED BY <1>4, <1>6 DEF e
-----------------------------------------------------------------------------
(* The strategy's actions. *)

LEMMA Signs ==
  ASSUME NEW m \in Int, NEW n \in Int
  PROVE  /\ (m > 0 /\ n > 0) \/ (m < 0 /\ n < 0) => m * n > 0
         /\ (m > 0 /\ n < 0) \/ (m < 0 /\ n > 0) => m * n < 0
         /\ m = 0 \/ n = 0 => m * n = 0
OBVIOUS

(* What the gate's exception covers is all that moves towards flat. *)
LEMMA TowardsFlatReduces ==
  ASSUME NEW d, BookTyped(d), NEW o, o.symbol \in Symbols, o.signed \in Int,
         MovesTowardsFlat([held |-> d.qty[o.symbol], signed |-> o.signed])
  PROVE  IsRiskReducing(d, o)
<1> DEFINE h == d.qty[o.symbol]
           s == o.signed
<1>1. h \in Int /\ s \in Int
  BY DEF BookTyped
<1>2. Abs(h + s) < Abs(h) /\ h * (h + s) >= 0
  BY DEF MovesTowardsFlat
<1> HIDE DEF h, s
<1>3. h # 0
  BY <1>1, <1>2 DEF Abs
<1>4. h > 0 => h + s >= 0
  BY <1>1, <1>2, Signs
<1>5. h < 0 => h + s <= 0
  BY <1>1, <1>2, Signs
<1>6. ((h > 0 /\ s < 0) \/ (h < 0 /\ s > 0)) /\ Abs(s) <= Abs(h)
  BY <1>1, <1>2, <1>3, <1>4, <1>5 DEF Abs
<1>7. h * s < 0
  BY <1>1, <1>6, Signs
<1> QED BY <1>6, <1>7 DEF IsRiskReducing, h, s

(* Only the desk and the strategy's own state change. *)
Acted(d, e) == IsDriver(e) /\ SameMarket(d, e) /\ SameBook(d, e)

LEMMA DrawKeeps ==
  ASSUME NEW d, IsDriver(d)
  PROVE  LET e == Draw(d)
         IN  /\ IsDriver(e) /\ SameMarket(d, e) /\ SameBook(d, e) /\ SameDesk(d, e)
             /\ SameStrategy(d, e) /\ e.heard = d.heard /\ e.draws = d.draws + 1
<1> DEFINE e == Draw(d)
<1>1. /\ DOMAIN e = Fields /\ SameMarket(d, e) /\ SameBook(d, e)
      /\ e.working = d.working /\ e.submitted = d.submitted /\ e.rejected = d.rejected
      /\ e.refused = d.refused /\ e.draws = d.draws + 1
      /\ SameStrategy(d, e) /\ e.heard = d.heard
  BY DEF IsDriver, Fields, Draw, SameMarket, SameBook, SameStrategy
<1>2. d.draws \in Nat
  BY DEF IsDriver, DeskTyped
<1> HIDE DEF e
<1>3. SameDesk(d, e)
  BY <1>1, <1>2 DEF SameDesk
<1>4. IsDriver(e)
  BY <1>1, <1>3, SameKeepsTypes DEF IsDriver
<1> QED BY <1>1, <1>3, <1>4 DEF e

LEMMA DelayedKeeps ==
  ASSUME IsConfig, NEW d, IsDriver(d), NEW ev \in Notes
  PROVE  LET e == Delayed(d, ev)
         IN  /\ IsDriver(e) /\ SameMarket(d, e) /\ SameBook(d, e) /\ SameDesk(d, e)
             /\ e.seen = d.seen
<1> DEFINE c == Draw(d)
           at == d.now + Drawn(d, cfg.inLatency, "back")
           e == Later(c, at, ev)
<1>1. /\ IsDriver(c) /\ SameMarket(d, c) /\ SameBook(d, c) /\ SameDesk(d, c)
      /\ SameStrategy(d, c)
  BY DrawKeeps
<1>2. at \in Int
  <2>1. d.now \in Int /\ cfg.inLatency \in Nat /\ DeskTyped(d)
    BY ConfigTyped DEF IsDriver, MarketTyped
  <2> QED BY <2>1, DrawnTyped
<1>3. Delayed(d, ev) = e
  BY DEF Delayed
<1> HIDE DEF c, at
<1>4. /\ IsDriver(e) /\ SameMarket(c, e) /\ SameBook(c, e) /\ SameDesk(c, e)
      /\ e.seen = c.seen
  BY <1>1, <1>2, LaterKeeps
<1> HIDE DEF e
<1> QED BY <1>1, <1>3, <1>4 DEF SameMarket, SameBook, SameDesk, SameStrategy

LEMMA AdmittedKeeps ==
  ASSUME IsConfig, NEW d, IsDriver(d), NEW a \in Actions, a.kind = "submit",
         NEW driver \in {"live", "back"}
  PROVE  Acted(d, Admitted(d, a, driver)) /\ SameStrategy(d, Admitted(d, a, driver))
<1> DEFINE o == [coid |-> a.coid, symbol |-> a.symbol, signed |-> a.signed,
                 limit |-> a.limit, cancelAt |-> Never,
                 effective |-> d.now + Drawn(d, cfg.outLatency, driver)]
           e == Admitted(d, a, driver)
<1>1. o \in WorkingOrders
  <2>1. d.now + Drawn(d, cfg.outLatency, driver) \in Int
    <3>1. d.now \in Int /\ cfg.outLatency \in Nat /\ DeskTyped(d)
      BY ConfigTyped DEF IsDriver, MarketTyped
    <3> QED BY <3>1, DrawnTyped
  <2>2. a.coid \in Nat /\ a.symbol \in Symbols /\ a.signed \in Int /\ a.limit \in Nat
    BY DEF Actions
  <2> QED BY <2>1, <2>2 DEF WorkingOrders
<1> HIDE DEF o
<1>2. /\ DOMAIN e = Fields /\ SameMarket(d, e) /\ SameBook(d, e) /\ SameStrategy(d, e)
      /\ e.working = Append(d.working, o) /\ e.submitted = d.submitted + 1
      /\ e.rejected = d.rejected /\ e.refused = d.refused /\ e.draws = d.draws + 1
  BY DEF IsDriver, Fields, Admitted, Draw, SameMarket, SameBook, SameStrategy, o
<1> HIDE DEF e
<1>3. DeskTyped(e)
  BY <1>1, <1>2, AppendProperties DEF IsDriver, DeskTyped
<1>4. IsDriver(e)
  BY <1>2, <1>3, SameKeepsTypes DEF IsDriver
<1> QED BY <1>2, <1>4 DEF Acted, e

LEMMA RefusedKeeps ==
  ASSUME IsConfig, NEW d, IsDriver(d), NEW a \in Actions, a.kind = "submit", ~Gate(d, a), NEW driver
  PROVE  Acted(d, Refused(d, a, driver))
<1> DEFINE x == [held |-> d.qty[a.symbol], signed |-> a.signed]
           c == [d EXCEPT !.rejected = @ + 1, !.refused = @ \union {x}]
<1>1. a.symbol \in Symbols /\ a.signed \in Int
  BY DEF Actions
<1>2. x \in [held : Int, signed : Int] /\ ~MovesTowardsFlat(x)
  <2>1. ~IsRiskReducing(d, a)
    BY DEF Gate, PassesGate
  <2> QED BY <1>1, <2>1, TowardsFlatReduces DEF IsDriver, BookTyped
<1> HIDE DEF x
<1>3. /\ DOMAIN c = Fields /\ SameMarket(d, c) /\ SameBook(d, c) /\ SameStrategy(d, c)
      /\ c.working = d.working /\ c.submitted = d.submitted /\ c.draws = d.draws
      /\ c.rejected = d.rejected + 1 /\ c.refused = d.refused \union {x}
  BY DEF IsDriver, Fields, SameMarket, SameBook, SameStrategy
<1> HIDE DEF c
<1>4. DeskTyped(c)
  BY <1>2, <1>3 DEF IsDriver, DeskTyped
<1>5. IsDriver(c)
  BY <1>3, <1>4, SameKeepsTypes DEF IsDriver
<1>6. [kind |-> "rejected", n |-> c.rejected] \in Notes
  <2>1. c.rejected \in Nat
    BY <1>5 DEF IsDriver, DeskTyped
  <2> QED BY <2>1 DEF Notes, NoteKinds
<1>7. Acted(c, Delayed(c, [kind |-> "rejected", n |-> c.rejected]))
  BY <1>5, <1>6, DelayedKeeps DEF Acted
<1>8. Refused(d, a, driver) \in {c, Delayed(c, [kind |-> "rejected", n |-> c.rejected])}
  BY DEF Refused, c, x
<1> QED BY <1>3, <1>5, <1>7, <1>8 DEF Acted, SameMarket, SameBook

LEMMA CancelKeeps ==
  ASSUME IsConfig, NEW d, IsDriver(d), NEW a, NEW driver \in {"live", "back"}
  PROVE  LET e == Cancel(d, a, driver)
         IN  Acted(d, e) /\ SameStrategy(d, e) /\ Len(e.working) = Len(d.working)
<1> DEFINE at == d.now + Drawn(d, cfg.outLatency, driver)
           C(o) == IF o.coid = a.coid THEN [o EXCEPT !.cancelAt = at] ELSE o
           ws == [i \in DOMAIN d.working |-> C(d.working[i])]
           e == [Draw(d) EXCEPT !.working = [i \in DOMAIN @ |-> C(@[i])]]
<1>0. at \in Int
  <2>1. d.now \in Int /\ cfg.outLatency \in Nat /\ DeskTyped(d)
    BY ConfigTyped DEF IsDriver, MarketTyped
  <2> QED BY <2>1, DrawnTyped
<1> HIDE DEF at
<1>1. \A o \in WorkingOrders : C(o) \in WorkingOrders
  BY <1>0 DEF WorkingOrders
<1>2. d.working \in Seq(WorkingOrders)
  BY DEF IsDriver, DeskTyped
<1>3. ws \in Seq(WorkingOrders) /\ Len(ws) = Len(d.working)
  <2> HIDE DEF C
  <2>1. /\ Len(d.working) \in Nat /\ DOMAIN d.working = 1 .. Len(d.working)
        /\ \A i \in 1 .. Len(d.working) : d.working[i] \in WorkingOrders
    BY <1>2
  <2>2. ws \in [1 .. Len(d.working) -> WorkingOrders]
    BY <1>1, <2>1
  <2> QED BY <2>1, <2>2
<1>4. /\ DOMAIN e = Fields /\ SameMarket(d, e) /\ SameBook(d, e) /\ SameStrategy(d, e)
      /\ e.working = ws /\ e.draws = d.draws + 1
      /\ e.submitted = d.submitted /\ e.rejected = d.rejected /\ e.refused = d.refused
  BY DEF IsDriver, Fields, Draw, SameMarket, SameBook, SameStrategy
<1>5. Cancel(d, a, driver) \in {d, e}
  BY DEF Cancel, at
<1> HIDE DEF e, ws
<1>6. DeskTyped(e)
  BY <1>3, <1>4 DEF IsDriver, DeskTyped
<1>7. IsDriver(e)
  BY <1>4, <1>6, SameKeepsTypes DEF IsDriver
<1>8. Acted(d, d) /\ SameStrategy(d, d)
  BY DEF Acted, SameMarket, SameBook, SameStrategy
<1> QED BY <1>3, <1>4, <1>5, <1>7, <1>8 DEF Acted

LEMMA AnswerTyped ==
  ASSUME IsConfig, NEW k, NEW n
  PROVE  Answer(k, n) \in Actions \union {Silent}
BY ConfigTyped DEF Answer

LEMMA HandleActionKeeps ==
  ASSUME IsConfig, NEW d, IsDriver(d), NEW a \in Actions \union {Silent},
         NEW driver \in {"live", "back"}
  PROVE  Acted(d, HandleAction(d, a, driver)) /\ HandleAction(d, a, driver).seen = d.seen
<1>0. Acted(d, d)
  BY DEF Acted, SameMarket, SameBook
<1>1. CASE a.kind = "submit"
  <2>1. a \in Actions
    BY <1>1 DEF Silent
  <2>2. HandleAction(d, a, driver) = Submit(d, a, driver)
    BY <1>1 DEF HandleAction
  <2>3. Submit(d, a, driver) = d \/ Submit(d, a, driver) = Admitted(d, a, driver)
          \/ (~Gate(d, a) /\ Submit(d, a, driver) = Refused(d, a, driver))
    BY DEF Submit
  <2>4. CASE ~Gate(d, a) /\ Submit(d, a, driver) = Refused(d, a, driver)
    <3>1. Refused(d, a, driver).seen = d.seen
      BY DEF Refused, Delayed, Draw, Later, IsDriver, Fields
    <3> QED BY <1>1, <2>1, <2>2, <2>4, <3>1, RefusedKeeps
  <2>5. CASE Submit(d, a, driver) = Admitted(d, a, driver)
    BY <1>1, <2>1, <2>2, <2>5, AdmittedKeeps DEF SameStrategy
  <2> QED BY <1>0, <2>2, <2>3, <2>4, <2>5
<1>2. CASE a.kind = "cancel"
  <2>1. HandleAction(d, a, driver) = Cancel(d, a, driver)
    BY <1>2 DEF HandleAction
  <2> QED BY <2>1, CancelKeeps DEF SameStrategy
<1>3. CASE a.kind = "timer" /\ driver = "back"
  <2>1. a \in [kind : {"timer"}, delay : Nat]
    BY <1>3 DEF Silent, Actions
  <2>2. d.now + a.delay \in Int /\ [kind |-> "timer", n |-> d.now + a.delay] \in Notes
    BY <2>1 DEF IsDriver, MarketTyped, Notes, NoteKinds
  <2>3. HandleAction(d, a, driver) = Later(d, d.now + a.delay, [kind |-> "timer", n |-> d.now + a.delay])
    BY <1>3 DEF HandleAction
  <2> QED BY <2>2, <2>3, LaterKeeps DEF Acted
<1>4. CASE a.kind \notin {"submit", "cancel"} /\ ~(a.kind = "timer" /\ driver = "back")
  <2>1. HandleAction(d, a, driver) = d
    BY <1>4 DEF HandleAction
  <2> QED BY <1>0, <2>1
<1> QED BY <1>1, <1>2, <1>3, <1>4

Events == [kind : Kinds, n : Int]

(* The strategy has been told and has not yet acted (Hear). *)
Told(d, ev) ==
  [d EXCEPT !.seen[ev.kind] = d.seen[ev.kind] + 1, !.heard = Append(@, [ev |-> ev, at |-> d.now])]

LEMMA ToldKeeps ==
  ASSUME NEW d, IsDriver(d), NEW ev \in Events
  PROVE  /\ Acted(d, Told(d, ev)) /\ SameDesk(d, Told(d, ev)) /\ Told(d, ev).inbound = d.inbound
         /\ Told(d, ev).seen = [d.seen EXCEPT ![ev.kind] = d.seen[ev.kind] + 1]
<1> DEFINE e == Told(d, ev)
<1>1. /\ DOMAIN e = Fields /\ SameMarket(d, e) /\ SameBook(d, e) /\ SameDesk(d, e)
      /\ e.inbound = d.inbound /\ e.seen = [d.seen EXCEPT ![ev.kind] = d.seen[ev.kind] + 1]
  BY DEF IsDriver, Fields, Told, SameMarket, SameBook, SameDesk
<1> HIDE DEF e
<1>2. e.seen \in [Kinds -> Nat]
  BY <1>1 DEF IsDriver, StrategyTyped, Events
<1>3. IsDriver(e)
  BY <1>1, <1>2, SameKeepsTypes DEF IsDriver, StrategyTyped
<1> QED BY <1>1, <1>3 DEF Acted, e

LEMMA HearIs ==
  ASSUME NEW d, NEW ev, NEW driver
  PROVE  Hear(d, ev, driver) = HandleAction(Told(d, ev), Answer(ev.kind, d.seen[ev.kind] + 1), driver)
BY DEF Hear, Told

LEMMA HearKeeps ==
  ASSUME IsConfig, NEW d, IsDriver(d), NEW ev \in Events, NEW driver \in {"live", "back"}
  PROVE  Acted(d, Hear(d, ev, driver))
<1>1. Acted(d, Told(d, ev))
  BY ToldKeeps
<1>2. Acted(Told(d, ev), Hear(d, ev, driver))
  BY <1>1, HearIs, AnswerTyped, HandleActionKeeps DEF Acted
<1> QED BY <1>1, <1>2 DEF Acted, SameMarket, SameBook

-----------------------------------------------------------------------------
(* Matching. *)

LEMMA BookFillKeeps ==
  ASSUME IsConfig, NEW d, IsDriver(d), NEW o \in WorkingOrders, NEW price \in Nat
  PROVE  LET b == BookFill(d, o, price)
         IN  IsDriver(b) /\ SameMarket(d, b) /\ SameDesk(d, b) /\ SameStrategy(d, b)
<1> DEFINE b == BookFill(d, o, price)
           f == [coid |-> o.coid, symbol |-> o.symbol, signed |-> o.signed, price |-> price]
<1>1. o.symbol \in Symbols /\ o.signed \in Int /\ cfg.fee \in Int
  BY ConfigTyped DEF WorkingOrders
<1>2. /\ DOMAIN b = Fields /\ SameMarket(d, b) /\ SameDesk(d, b) /\ SameStrategy(d, b)
      /\ b.qty = [d.qty EXCEPT ![o.symbol] = AddTrade(@, o.signed)]
      /\ b.cash = d.cash - o.signed * price - cfg.fee
      /\ b.known = d.known \union {o.symbol}
      /\ b.blotter = Append(d.blotter, f)
  BY DEF IsDriver, Fields, BookFill, Trade, SameMarket, SameDesk, SameStrategy
<1> HIDE DEF b, f
<1>3. \A q \in Int : AddTrade(q, o.signed) \in Int
  BY <1>1 DEF AddTrade
<1>4. b.qty \in [Symbols -> Int]
  BY <1>1, <1>2, <1>3 DEF IsDriver, BookTyped
<1>5. b.cash \in Int /\ b.known \subseteq Symbols
  BY <1>1, <1>2 DEF IsDriver, BookTyped
<1>6. Len(b.blotter) \in Nat
  BY <1>2 DEF IsDriver, BookTyped
<1>7. IsDriver(b)
  BY <1>2, <1>4, <1>5, <1>6, SameKeepsTypes DEF IsDriver, BookTyped
<1> QED BY <1>2, <1>7 DEF b
Drivings == {"live", "back", "nobody"}
Happenings ==
  [what : {"works", "filled", "cancelled"}, order : WorkingOrders, price : Nat]
    \union [what : {"message"}, ev : Notes]

(* Time, prices and what the gate remembers stand still. *)
Ran(d, e) == IsDriver(e) /\ SameMarket(d, e)

LEMMA RanOn ==
  ASSUME NEW d, NEW e, NEW f, Ran(d, e), Ran(e, f)
  PROVE  Ran(d, f)
BY DEF Ran, SameMarket

LEMMA NotesAreEvents == Notes \subseteq Events
BY DEF Notes, NoteKinds, Events, Kinds

LEMMA TellKeeps ==
  ASSUME IsConfig, NEW d, IsDriver(d), NEW ev \in Notes, NEW driver \in Drivings
  PROVE  Acted(d, Tell(d, ev, driver))
<1>1. CASE driver = "live"
  <2>1. Tell(d, ev, driver) = Hear(d, ev, "live")
    BY <1>1 DEF Tell
  <2> QED BY <2>1, HearKeeps, NotesAreEvents
<1>2. CASE driver = "back"
  <2>1. Tell(d, ev, driver) = Delayed(d, ev)
    BY <1>2 DEF Tell
  <2> QED BY <2>1, DelayedKeeps DEF Acted
<1>3. CASE driver = "nobody"
  <2>1. Tell(d, ev, driver) = d
    BY <1>3 DEF Tell
  <2> QED BY <2>1 DEF Acted, SameMarket, SameBook
<1> QED BY <1>1, <1>2, <1>3 DEF Drivings

LEMMA FillOfTyped ==
  ASSUME NEW d, IsDriver(d)
  PROVE  FillOf(d) \in Notes
BY DEF FillOf, Notes, NoteKinds, IsDriver, BookTyped

LEMMA CancelOfTyped ==
  ASSUME NEW o \in WorkingOrders
  PROVE  CancelOf(o) \in Notes
BY DEF CancelOf, Notes, NoteKinds, WorkingOrders

(* An order that rests goes back to the working ones. *)
LEMMA RestsKeeps ==
  ASSUME NEW d, IsDriver(d), NEW o \in WorkingOrders
  PROVE  LET e == [d EXCEPT !.working = Append(@, o)]
         IN  /\ IsDriver(e) /\ SameMarket(d, e) /\ SameBook(d, e) /\ SameStrategy(d, e)
             /\ e.working = Append(d.working, o)
             /\ e.submitted = d.submitted /\ e.rejected = d.rejected /\ e.refused = d.refused
             /\ e.draws = d.draws
<1> DEFINE e == [d EXCEPT !.working = Append(@, o)]
<1>1. /\ DOMAIN e = Fields /\ SameMarket(d, e) /\ SameBook(d, e) /\ SameStrategy(d, e)
      /\ e.working = Append(d.working, o) /\ e.draws = d.draws
      /\ e.submitted = d.submitted /\ e.rejected = d.rejected /\ e.refused = d.refused
  BY DEF IsDriver, Fields, SameMarket, SameBook, SameStrategy
<1> HIDE DEF e
<1>2. DeskTyped(e)
  BY <1>1, AppendProperties DEF IsDriver, DeskTyped
<1>3. IsDriver(e)
  BY <1>1, <1>2, SameKeepsTypes DEF IsDriver
<1> QED BY <1>1, <1>3 DEF e

LEMMA HappenKeeps ==
  ASSUME IsConfig, NEW d, IsDriver(d), NEW h \in Happenings, NEW driver \in Drivings,
         h.what = "message" => driver # "nobody"
  PROVE  Ran(d, Happen(d, h, driver))
<1>1. CASE h.what = "works"
  <2>1. h.order \in WorkingOrders
    BY <1>1 DEF Happenings
  <2>2. Happen(d, h, driver) = [d EXCEPT !.working = Append(@, h.order)]
    BY <1>1 DEF Happen
  <2> QED BY <2>1, <2>2, RestsKeeps DEF Ran
<1>2. CASE h.what = "filled"
  <2> DEFINE b == BookFill(d, h.order, h.price)
  <2>1. h.order \in WorkingOrders /\ h.price \in Nat
    BY <1>2 DEF Happenings
  <2>2. Ran(d, b)
    BY <2>1, BookFillKeeps DEF Ran
  <2>3. Happen(d, h, driver) = Tell(b, FillOf(b), driver)
    BY <1>2 DEF Happen
  <2> HIDE DEF b
  <2>4. Ran(b, Tell(b, FillOf(b), driver))
    BY <2>2, FillOfTyped, TellKeeps DEF Ran, Acted
  <2> QED BY <2>2, <2>3, <2>4, RanOn
<1>3. CASE h.what = "cancelled"
  <2>1. h.order \in WorkingOrders
    BY <1>3 DEF Happenings
  <2>2. Happen(d, h, driver) = Tell(d, CancelOf(h.order), driver)
    BY <1>3 DEF Happen
  <2> QED BY <2>1, <2>2, CancelOfTyped, TellKeeps DEF Ran, Acted
<1>4. CASE h.what = "message"
  <2>1. h.ev \in Events
    BY <1>4, NotesAreEvents DEF Happenings
  <2>2. Happen(d, h, driver) = Hear(d, h.ev, driver)
    BY <1>4 DEF Happen
  <2>3. driver \in {"live", "back"}
    BY <1>4 DEF Drivings
  <2> QED BY <2>1, <2>2, <2>3, HearKeeps DEF Acted, Ran
<1> QED BY <1>1, <1>2, <1>3, <1>4 DEF Happenings

LEMMA RunKeeps ==
  ASSUME IsConfig, NEW d, IsDriver(d), NEW hs \in Seq(Happenings), NEW what,
         NEW driver \in Drivings, what = "message" => driver # "nobody"
  PROVE  Ran(d, Run(d, hs, what, driver))
<1>1. Len(hs) \in Nat /\ \A n \in 1 .. Len(hs) : hs[n] \in Happenings
  OBVIOUS
<1>2. PICK f : Turns(f, d, hs, what, driver) /\ Run(d, hs, what, driver) = f[Len(hs)]
  BY <1>1, RunUnfolds
<1> DEFINE P == {n \in Nat : n <= Len(hs) => Ran(d, f[n])}
<1>3. 0 \in P
  BY <1>2 DEF Turns, Ran, SameMarket
<1>4. ASSUME NEW n \in Nat, n \in P PROVE n + 1 \in P
  <2> SUFFICES ASSUME n + 1 <= Len(hs) PROVE Ran(d, f[n + 1])
    OBVIOUS
  <2>1. n + 1 \in 1 .. Len(hs) /\ (n + 1) - 1 = n /\ n <= Len(hs)
    BY <1>1
  <2>2. Ran(d, f[n])
    BY <1>4, <2>1
  <2>3. hs[n + 1] \in Happenings
    BY <1>1, <2>1
  <2>4. f[n + 1] = Turn(f[n], hs[n + 1], what, driver)
    BY <1>2, <2>1 DEF Turns
  <2>5. Ran(f[n], f[n])
    BY <2>2 DEF Ran, SameMarket
  <2>6. Ran(f[n], f[n + 1])
    <3>1. CASE hs[n + 1].what = what
      <4>1. Ran(f[n], Happen(f[n], hs[n + 1], driver))
        BY <2>2, <2>3, <3>1, HappenKeeps DEF Ran
      <4> QED BY <2>4, <3>1, <4>1 DEF Turn
    <3>2. CASE hs[n + 1].what # what
      BY <2>4, <2>5, <3>2 DEF Turn
    <3> QED BY <3>1, <3>2
  <2> QED BY <2>2, <2>6, RanOn
<1> HIDE DEF P
<1>5. Len(hs) \in P
  BY <1>1, <1>3, <1>4, Induction
<1> QED BY <1>1, <1>2, <1>5 DEF P

IsQuote(r) == r.symbol \in Symbols /\ r.price \in Nat
IsRecord(r) == r.symbol \in Symbols /\ r.price \in Nat /\ r.t \in Int

LEMMA RecordsAreQuotes == ASSUME NEW r, IsRecord(r) PROVE IsQuote(r)
BY DEF IsRecord, IsQuote

LEMMA OutcomesTyped ==
  ASSUME NEW d, IsDriver(d), NEW r, IsQuote(r)
  PROVE  Outcomes(d, r) \in Seq(Happenings) /\ Len(Outcomes(d, r)) = Len(d.working)
<1> DEFINE O(i) == [what |-> Outcome(d, d.working[i], r.symbol, r.price),
                    order |-> d.working[i], price |-> r.price]
<1>1. /\ Len(d.working) \in Nat /\ DOMAIN d.working = 1 .. Len(d.working)
      /\ \A i \in 1 .. Len(d.working) : d.working[i] \in WorkingOrders
  BY DEF IsDriver, DeskTyped
<1>2. ASSUME NEW i \in 1 .. Len(d.working) PROVE O(i) \in Happenings
  <2>1. Outcome(d, d.working[i], r.symbol, r.price) \in {"works", "filled", "cancelled"}
    BY DEF Outcome
  <2> QED BY <1>1, <2>1 DEF Happenings, IsQuote
<1> HIDE DEF O
<1>3. [i \in 1 .. Len(d.working) |-> O(i)] \in [1 .. Len(d.working) -> Happenings]
  BY <1>2
<1>4. Outcomes(d, r) = [i \in 1 .. Len(d.working) |-> O(i)]
  BY <1>1 DEF Outcomes, O
<1> QED BY <1>1, <1>3, <1>4

(* All working orders are taken off the table before the pass puts some back. *)
LEMMA ClearedKeeps ==
  ASSUME NEW d, IsDriver(d)
  PROVE  LET e == [d EXCEPT !.working = <<>>]
         IN  /\ IsDriver(e) /\ SameMarket(d, e) /\ SameBook(d, e) /\ SameStrategy(d, e)
             /\ e.working = <<>>
             /\ e.submitted = d.submitted /\ e.rejected = d.rejected /\ e.refused = d.refused
             /\ e.draws = d.draws
<1> DEFINE e == [d EXCEPT !.working = <<>>]
<1>1. /\ DOMAIN e = Fields /\ SameMarket(d, e) /\ SameBook(d, e) /\ SameStrategy(d, e)
      /\ e.working = <<>> /\ e.draws = d.draws
      /\ e.submitted = d.submitted /\ e.rejected = d.rejected /\ e.refused = d.refused
  BY DEF IsDriver, Fields, SameMarket, SameBook, SameStrategy
<1> HIDE DEF e
<1>2. DeskTyped(e)
  BY <1>1 DEF IsDriver, DeskTyped
<1>3. IsDriver(e)
  BY <1>1, <1>2, SameKeepsTypes DEF IsDriver
<1> QED BY <1>1, <1>3 DEF e

LEMMA MatchKeeps ==
  ASSUME IsConfig, NEW d, IsDriver(d), NEW r, IsQuote(r), NEW driver \in Drivings
  PROVE  Ran(d, Match(d, r, driver))
<1> DEFINE hs == Outcomes(d, r)
           d0 == [d EXCEPT !.working = <<>>]
           d1 == Run(d0, hs, "works", driver)
           d2 == Run(d1, hs, "filled", driver)
<1>1. hs \in Seq(Happenings)
  BY OutcomesTyped
<1>2. Ran(d, d0)
  BY ClearedKeeps DEF Ran
<1> HIDE DEF hs, d0
<1>3. Ran(d0, d1)
  BY <1>1, <1>2, RunKeeps DEF Ran
<1> HIDE DEF d1
<1>4. Ran(d1, d2)
  BY <1>1, <1>3, RunKeeps DEF Ran
<1> HIDE DEF d2
<1>5. Ran(d2, Run(d2, hs, "cancelled", driver))
  BY <1>1, <1>4, RunKeeps DEF Ran
<1>6. Match(d, r, driver) = Run(d2, hs, "cancelled", driver)
  BY DEF Match, d2, d1, d0, hs
<1> QED BY <1>2, <1>3, <1>4, <1>5, <1>6, RanOn
-----------------------------------------------------------------------------
(* The rest of a step: what arrives, what is released, what is settled. *)

(* What is due, and what is left when it has been taken. *)
LEMMA DueKept ==
  ASSUME NEW d, IsDriver(d)
  PROVE  LET k == DueBy(d, d.now)
             e == [d EXCEPT !.inbound = SubSeq(@, k + 1, Len(@))]
             M(i) == [what |-> "message", ev |-> d.inbound[i].ev]
         IN  /\ [i \in 1 .. k |-> M(i)] \in Seq(Happenings)
             /\ IsDriver(e) /\ SameMarket(d, e) /\ SameBook(d, e) /\ SameDesk(d, e)
             /\ e.seen = d.seen
<1> DEFINE k == DueBy(d, d.now)
           e == [d EXCEPT !.inbound = SubSeq(@, k + 1, Len(@))]
           M(i) == [what |-> "message", ev |-> d.inbound[i].ev]
           ms == [i \in 1 .. k |-> M(i)]
<1>1. /\ d.inbound \in Seq(Messages) /\ Len(d.inbound) \in Nat
      /\ \A i \in 1 .. Len(d.inbound) : d.inbound[i] \in Messages
  BY DEF IsDriver, StrategyTyped
<1>2. k \in 0 .. Len(d.inbound)
  BY <1>1, DueByTyped
<1> HIDE DEF k
<1>3. ms \in Seq(Happenings)
  <2>1. \A i \in 1 .. k : M(i) \in Happenings
    BY <1>1, <1>2 DEF Messages, Happenings
  <2> HIDE DEF M
  <2>2. ms \in [1 .. k -> Happenings] /\ k \in Nat
    BY <1>2, <2>1
  <2> QED BY <2>2
<1>4. /\ DOMAIN e = Fields /\ SameMarket(d, e) /\ SameBook(d, e) /\ SameDesk(d, e)
      /\ e.seen = d.seen /\ e.inbound = SubSeq(d.inbound, k + 1, Len(d.inbound))
  BY DEF IsDriver, Fields, SameMarket, SameBook, SameDesk
<1> HIDE DEF e
<1>5. e.inbound \in Seq(Messages)
  BY <1>1, <1>2, <1>4
<1>6. StrategyTyped(e)
  BY <1>4, <1>5 DEF IsDriver, StrategyTyped
<1>7. IsDriver(e)
  BY <1>4, <1>6, SameKeepsTypes DEF IsDriver
<1> QED BY <1>3, <1>4, <1>7 DEF e, k

LEMMA ReleaseKeeps ==
  ASSUME IsConfig, NEW d, IsDriver(d)
  PROVE  Ran(d, ReleaseInbound(d))
<1> DEFINE k == DueBy(d, d.now)
           e == [d EXCEPT !.inbound = SubSeq(@, k + 1, Len(@))]
           M(i) == [what |-> "message", ev |-> d.inbound[i].ev]
           ms == [i \in 1 .. k |-> M(i)]
<1>1. ms \in Seq(Happenings)
  BY DueKept
<1>2. IsDriver(e) /\ SameMarket(d, e)
  BY DueKept
<1>3. ReleaseInbound(d) = Run(e, ms, "message", "back")
  BY DEF ReleaseInbound
<1> HIDE DEF e, ms
<1>4. Ran(e, Run(e, ms, "message", "back"))
  BY <1>1, <1>2, RunKeeps DEF Drivings
<1> QED BY <1>2, <1>3, <1>4, RanOn DEF Ran

LEMMA NavIsInt ==
  ASSUME NEW d, IsDriver(d)
  PROVE  Nav(d) \in Int /\ ShortExposure(d) \in Int
<1>1. d.qty \in [Symbols -> Int] /\ d.last \in [Symbols -> Nat] /\ d.cash \in Int
  BY DEF IsDriver, BookTyped, MarketTyped
<1>2. SumFunction([s \in Symbols |-> d.qty[s] * d.last[s]]) \in Int
  <2>1. [s \in Symbols |-> d.qty[s] * d.last[s]] \in [Symbols -> Int]
    BY <1>1
  <2> QED BY <2>1, SymbolsAssumption, SumIsInt
<1>3. ShortExposure(d) \in Int
  <2> DEFINE S == {t \in Symbols : d.qty[t] < 0}
  <2>1. IsFiniteSet(S)
    BY SymbolsAssumption, FS_Subset
  <2>2. \A s \in S : Exposure(d, s) \in Int
    BY <1>1 DEF Exposure, Abs
  <2>3. [s \in S |-> Exposure(d, s)] \in [S -> Int]
    BY <2>2
  <2> HIDE DEF S
  <2>4. SumFunction([s \in S |-> Exposure(d, s)]) \in Int
    BY <2>1, <2>3, SumIsInt
  <2> QED BY <2>4 DEF ShortExposure, S
<1> QED BY <1>1, <1>2, <1>3 DEF Nav

LEMMA DayOfTyped ==
  ASSUME NEW t \in Int
  PROVE  DayOf(t) \in Int
BY DriversAssumption DEF DayOf

LEMMA ArriveKeeps ==
  ASSUME IsConfig, NEW d, IsDriver(d), NEW r, IsRecord(r)
  PROVE  LET e == Arrive(d, r)
         IN  /\ IsDriver(e) /\ SameBook(d, e) /\ SameDesk(d, e) /\ SameStrategy(d, e)
             /\ e.now = r.t /\ e.day = DayOf(r.t) /\ e.dayStart = DayStart(d, r.t)
             /\ e.view = [d.view EXCEPT ![r.symbol] = r.price]
             /\ e.peak = d.peak /\ e.equity = d.equity /\ e.paid = d.paid /\ e.last = d.last
             /\ e.navs = d.navs
<1> DEFINE e == Arrive(d, r)
<1>1. /\ DOMAIN e = Fields /\ SameBook(d, e) /\ SameDesk(d, e) /\ SameStrategy(d, e)
      /\ e.now = r.t /\ e.day = DayOf(r.t) /\ e.dayStart = DayStart(d, r.t)
      /\ e.view = [d.view EXCEPT ![r.symbol] = r.price]
      /\ e.peak = d.peak /\ e.equity = d.equity /\ e.paid = d.paid /\ e.last = d.last
      /\ e.navs = d.navs
  BY DEF IsDriver, Fields, Arrive, SameBook, SameDesk, SameStrategy
<1> HIDE DEF e
<1>2. DayStart(d, r.t) \in Int /\ DayOf(r.t) \in Int
  BY NavIsInt, DayOfTyped DEF DayStart, IsDriver, MarketTyped, IsRecord
<1>3. e.view \in [Symbols -> Nat]
  BY <1>1 DEF IsDriver, MarketTyped, IsRecord
<1>4. MarketTyped(e)
  BY <1>1, <1>2, <1>3 DEF IsDriver, MarketTyped, IsRecord
<1>5. IsDriver(e)
  BY <1>1, <1>4, SameKeepsTypes DEF IsDriver
<1> QED BY <1>1, <1>5 DEF e

LEMMA MarkKeeps ==
  ASSUME NEW d, IsDriver(d), NEW r, IsRecord(r)
  PROVE  LET e == Mark(d, r)
         IN  /\ IsDriver(e) /\ SameBook(d, e) /\ SameDesk(d, e) /\ SameStrategy(d, e)
             /\ e.now = d.now /\ e.day = d.day /\ e.dayStart = d.dayStart /\ e.peak = d.peak
             /\ e.equity = d.equity /\ e.paid = d.paid /\ e.view = d.view /\ e.navs = d.navs
             /\ e.last = IF r.symbol \in d.known THEN [d.last EXCEPT ![r.symbol] = d.view[r.symbol]]
                                                ELSE d.last
<1> DEFINE e == Mark(d, r)
<1>1. /\ DOMAIN e = Fields /\ SameBook(d, e) /\ SameDesk(d, e) /\ SameStrategy(d, e)
      /\ e.now = d.now /\ e.day = d.day /\ e.dayStart = d.dayStart /\ e.peak = d.peak
      /\ e.equity = d.equity /\ e.paid = d.paid /\ e.view = d.view /\ e.navs = d.navs
      /\ e.last = IF r.symbol \in d.known THEN [d.last EXCEPT ![r.symbol] = d.view[r.symbol]]
                                         ELSE d.last
  BY DEF IsDriver, Fields, Mark, SameBook, SameDesk, SameStrategy
<1> HIDE DEF e
<1>2. e.last \in [Symbols -> Nat]
  BY <1>1 DEF IsDriver, MarketTyped, IsRecord
<1>3. MarketTyped(e)
  BY <1>1, <1>2 DEF IsDriver, MarketTyped
<1>4. IsDriver(e)
  BY <1>1, <1>3, SameKeepsTypes DEF IsDriver
<1> QED BY <1>1, <1>4 DEF e

LEMMA SettleKeeps ==
  ASSUME IsConfig, NEW d, IsDriver(d), d.day \in Int, NEW r, IsRecord(r), NEW t0 \in Int
  PROVE  LET m == Mark(d, r)
             e == Settle(d, r, t0)
         IN  /\ IsDriver(e) /\ SameDesk(d, e) /\ SameStrategy(d, e)
             /\ e.qty = d.qty /\ e.known = d.known /\ e.blotter = d.blotter
             /\ e.now = d.now /\ e.day = d.day /\ e.dayStart = d.dayStart /\ e.view = d.view
             /\ e.last = m.last
             /\ e.cash = m.cash - Financing(m, t0) /\ e.paid = m.paid + Financing(m, t0)
             /\ e.equity = Nav(e) /\ e.peak = (IF Nav(e) > d.peak THEN Nav(e) ELSE d.peak)
             /\ e.navs = Append(d.navs, [day |-> d.day, nav |-> Nav(e)])
<1> DEFINE m == Mark(d, r)
           cost == Financing(m, t0)
           c == [m EXCEPT !.cash = @ - cost, !.paid = @ + cost]
           e == Settle(d, r, t0)
<1>1. /\ IsDriver(m) /\ SameBook(d, m) /\ SameDesk(d, m) /\ SameStrategy(d, m)
      /\ m.now = d.now /\ m.day = d.day /\ m.dayStart = d.dayStart /\ m.peak = d.peak
      /\ m.equity = d.equity /\ m.paid = d.paid /\ m.view = d.view /\ m.navs = d.navs
  BY MarkKeeps
<1>2. e = [c EXCEPT !.peak = IF Nav(c) > @ THEN Nav(c) ELSE @,
                    !.equity = Nav(c),
                    !.navs = Append(@, [day |-> c.day, nav |-> Nav(c)])]
  BY DEF Settle
<1>3. cost \in Int
  <2>1. ShortExposure(m) \in Int
    BY <1>1, NavIsInt
  <2>2. cfg.borrow \in Int /\ m.now - t0 \in Int
    BY <1>1, ConfigTyped DEF IsDriver, MarketTyped
  <2> QED BY <2>1, <2>2 DEF Financing
<1> HIDE DEF m, cost, e
<1>4. /\ DOMAIN c = Fields /\ c.cash = m.cash - cost /\ c.paid = m.paid + cost
      /\ c.qty = m.qty /\ c.known = m.known /\ c.blotter = m.blotter
      /\ SameDesk(m, c) /\ SameStrategy(m, c)
      /\ c.now = m.now /\ c.day = m.day /\ c.dayStart = m.dayStart /\ c.peak = m.peak
      /\ c.equity = m.equity /\ c.view = m.view /\ c.last = m.last /\ c.navs = m.navs
  BY <1>1 DEF IsDriver, Fields, SameDesk, SameStrategy
<1> HIDE DEF c
<1>5. IsDriver(c)
  <2>1. c.cash \in Int /\ c.paid \in Int
    BY <1>1, <1>3, <1>4 DEF IsDriver, BookTyped, MarketTyped
  <2>2. MarketTyped(c)
    BY <1>1, <1>4, <2>1 DEF IsDriver, MarketTyped
  <2>3. BookTyped(c)
    BY <1>1, <1>4, <2>1 DEF IsDriver, BookTyped
  <2> QED BY <1>1, <1>4, <2>2, <2>3, SameKeepsTypes DEF IsDriver
<1>6. /\ DOMAIN e = Fields /\ e.equity = Nav(c)
      /\ e.peak = (IF Nav(c) > c.peak THEN Nav(c) ELSE c.peak)
      /\ e.navs = Append(c.navs, [day |-> c.day, nav |-> Nav(c)])
      /\ SameBook(c, e) /\ SameDesk(c, e) /\ SameStrategy(c, e)
      /\ e.now = c.now /\ e.day = c.day /\ e.dayStart = c.dayStart /\ e.paid = c.paid
      /\ e.view = c.view /\ e.last = c.last
  BY <1>2, <1>4 DEF Fields, SameBook, SameDesk, SameStrategy
<1>7. Nav(e) = Nav(c)
  BY <1>6 DEF Nav, SameBook
<1>8. MarketTyped(e)
  <2>1. Nav(c) \in Int /\ c.peak \in Int
    BY <1>5, NavIsInt DEF IsDriver, MarketTyped
  <2>2. [day |-> c.day, nav |-> Nav(c)] \in [day : Int, nav : Int]
    BY <1>1, <1>4, <2>1
  <2>3. e.navs \in Seq([day : Int, nav : Int])
    BY <1>5, <1>6, <2>2, AppendProperties DEF IsDriver, MarketTyped
  <2>4. e.peak \in Int /\ e.equity \in Int
    BY <1>6, <2>1
  <2> QED BY <1>5, <1>6, <2>3, <2>4 DEF IsDriver, MarketTyped
<1>9. IsDriver(e)
  BY <1>5, <1>6, <1>8, SameKeepsTypes DEF IsDriver
<1>10. /\ e.cash = m.cash - cost /\ e.paid = m.paid + cost /\ e.last = m.last
       /\ SameDesk(d, e) /\ SameStrategy(d, e)
       /\ e.qty = d.qty /\ e.known = d.known /\ e.blotter = d.blotter
  BY <1>1, <1>4, <1>6 DEF SameBook, SameDesk, SameStrategy
<1>11. /\ e.now = d.now /\ e.day = d.day /\ e.dayStart = d.dayStart /\ e.view = d.view
       /\ e.equity = Nav(e) /\ e.peak = (IF Nav(e) > d.peak THEN Nav(e) ELSE d.peak)
       /\ e.navs = Append(d.navs, [day |-> d.day, nav |-> Nav(e)])
  BY <1>1, <1>4, <1>6, <1>7
<1> QED BY <1>9, <1>10, <1>11 DEF e, m, cost
-----------------------------------------------------------------------------
(* Why the gate sees the true losses: its peak is one of the NAVs on       *)
(* record and the day opened at the last NAV of another day, which         *)
(* nothing has changed by the time the first record of the day arrives.    *)

LEMMA MaxIs ==
  ASSUME NEW S \in SUBSET Int, NEW m \in S, \A n \in S : n <= m
  PROVE  Max(S) = m
<1>1. Max(S) \in S /\ \A n \in S : Max(S) >= n
  BY DEF Max
<1>2. Max(S) >= m /\ Max(S) <= m /\ Max(S) \in Int /\ m \in Int
  BY <1>1
<1> QED BY <1>2

LEMMA GreatestIndex ==
  ASSUME NEW n \in Nat, NEW S, S \subseteq 1 .. n, S # {}
  PROVE  Max(S) \in S
<1> DEFINE U == {u \in 0 .. n : n - u \in S}
<1>1. PICK s \in S : TRUE
  OBVIOUS
<1>2. n - s \in U /\ U \subseteq Nat
  BY <1>1
<1> HIDE DEF U
<1>3. PICK u \in U : \A v \in U : u <= v
  BY <1>2, LeastNat
<1>4. n - u \in S /\ u \in 0 .. n
  BY <1>3 DEF U
<1>5. ASSUME NEW k \in S PROVE k <= n - u
  <2>1. n - k \in U
    BY <1>5 DEF U
  <2>2. u <= n - k
    BY <1>3, <2>1
  <2> QED BY <1>4, <2>2
<1>6. S \in SUBSET Int
  OBVIOUS
<1> QED BY <1>4, <1>5, <1>6, MaxIs

Navs(d) == {d.navs[i].nav : i \in DOMAIN d.navs}

Losses(d) ==
  /\ d.peak \in {Capital} \union Navs(d)
  /\ \A n \in {Capital} \union Navs(d) : n <= d.peak
  /\ d.navs = <<>> => d.day = Never
  /\ d.navs # <<>> => /\ d.day \in Int /\ d.equity = d.navs[Len(d.navs)].nav
                      /\ d.navs[Len(d.navs)].day = d.day
  /\ d.dayStart = OpenedAt(d)

(* Until the next record the book is worth what was recorded last. *)
Resting(d) ==
  /\ d.day # Never => d.day = DayOf(d.now)
  /\ d.navs # <<>> => Nav(d) = d.navs[Len(d.navs)].nav

LEMMA DriverSteps ==
  ASSUME IsConfig, NEW d, IsDriver(d), Losses(d), Resting(d),
         NEW r, IsRecord(r), NEW m, Ran(Arrive(d, r), m)
  PROVE  LET e == Settle(m, r, FirstTime(d, r))
         IN  /\ IsDriver(e) /\ Losses(e) /\ Resting(e)
             /\ Len(e.navs) = Len(d.navs) + 1
<1> DEFINE a == Arrive(d, r)
           e == Settle(m, r, FirstTime(d, r))
           L == Len(d.navs)
           day == DayOf(r.t)
           x == [day |-> day, nav |-> Nav(e)]
<1>1. /\ d.navs \in Seq([day : Int, nav : Int]) /\ L \in Nat /\ DOMAIN d.navs = 1 .. L
      /\ \A i \in 1 .. L : d.navs[i].day \in Int /\ d.navs[i].nav \in Int
      /\ d.now \in Int /\ d.day \in Int \union {Never} /\ d.dayStart \in Int /\ d.peak \in Int
      /\ r.t \in Int /\ (d.navs = <<>> <=> L = 0)
  <2>1. /\ d.navs \in Seq([day : Int, nav : Int])
        /\ d.now \in Int /\ d.day \in Int \union {Never} /\ d.dayStart \in Int /\ d.peak \in Int
        /\ r.t \in Int
    BY DEF IsDriver, MarketTyped, IsRecord
  <2>2. /\ L \in Nat /\ DOMAIN d.navs = 1 .. L
        /\ \A i \in 1 .. L : d.navs[i] \in [day : Int, nav : Int]
    <3> DEFINE T == [day : Int, nav : Int]
    <3>1. d.navs \in Seq(T)
      BY <2>1
    <3> HIDE DEF T
    <3>2. L \in Nat /\ DOMAIN d.navs = 1 .. L /\ \A i \in 1 .. L : d.navs[i] \in T
      BY <3>1, LenProperties
    <3> QED BY <3>2 DEF T
  <2>3. d.navs = <<>> <=> L = 0
    BY <2>1, EmptySeq
  <2> HIDE DEF L
  <2> QED BY <2>1, <2>2, <2>3
<1>2. day \in Int /\ Never \notin Int
  BY <1>1, DayOfTyped, ConfigTyped
<1>3. /\ IsDriver(m) /\ m.now = r.t /\ m.day = day /\ m.dayStart = DayStart(d, r.t)
      /\ m.peak = d.peak /\ m.navs = d.navs
  <2>1. a.now = r.t
    BY ArriveKeeps, ZenonT(40)
  <2>4. a.day = DayOf(r.t)
    BY ArriveKeeps, ZenonT(40)
  <2>5. a.dayStart = DayStart(d, r.t)
    BY ArriveKeeps, ZenonT(40)
  <2>2. a.peak = d.peak /\ a.navs = d.navs
    BY ArriveKeeps
  <2> HIDE DEF a
  <2>3. Ran(a, m)
    BY DEF a
  <2> QED BY <2>1, <2>2, <2>3, <2>4, <2>5 DEF Ran, SameMarket
<1>4. FirstTime(d, r) \in Int
  BY <1>1 DEF FirstTime
<1>5. /\ IsDriver(e) /\ e.now = r.t /\ e.day = day /\ e.dayStart = DayStart(d, r.t)
      /\ e.equity = Nav(e) /\ e.peak = (IF Nav(e) > d.peak THEN Nav(e) ELSE d.peak)
      /\ e.navs = Append(d.navs, x)
  BY <1>2, <1>3, <1>4, SettleKeeps
<1>6. Nav(e) \in Int
  BY <1>5, NavIsInt
<1> HIDE DEF e, day
<1>7. /\ Len(e.navs) = L + 1 /\ DOMAIN e.navs = 1 .. L + 1 /\ e.navs[L + 1] = x
      /\ \A i \in 1 .. L : e.navs[i] = d.navs[i]
      /\ e.navs # <<>>
  <2>1. x \in [day : Int, nav : Int]
    BY <1>2, <1>6
  <2> HIDE DEF x
  <2> DEFINE T == [day : Int, nav : Int]
  <2>2. d.navs \in Seq(T) /\ x \in T
    BY <1>1, <2>1
  <2> HIDE DEF T
  <2>3. /\ Len(Append(d.navs, x)) = L + 1 /\ DOMAIN Append(d.navs, x) = 1 .. L + 1
        /\ Append(d.navs, x)[L + 1] = x
        /\ \A i \in 1 .. L : Append(d.navs, x)[i] = d.navs[i]
        /\ Append(d.navs, x) # <<>>
    BY <1>1, <2>2, AppendProperties
  <2> QED BY <1>5, <2>3
<1>8. Navs(e) = Navs(d) \union {Nav(e)}
  <2>1. \A i \in 1 .. L + 1 : i \in 1 .. L \/ i = L + 1
    BY <1>1
  <2>2. 1 .. L \subseteq 1 .. L + 1 /\ L + 1 \in 1 .. L + 1
    BY <1>1
  <2>3. x.nav = Nav(e)
    OBVIOUS
  <2> QED BY <1>1, <1>7, <2>1, <2>2, <2>3, ZenonT(40) DEF Navs
<1>9. /\ e.peak \in {Capital} \union Navs(e)
      /\ \A n \in {Capital} \union Navs(e) : n <= e.peak
  <2>1. \A n \in {Capital} \union Navs(d) : n \in Int
    BY <1>1, ConfigTyped DEF Navs
  <2>2. \A n \in {Capital} \union Navs(d) : n <= d.peak
    BY DEF Losses
  <2>3. d.peak \in {Capital} \union Navs(d)
    BY DEF Losses
  <2> DEFINE N == {Capital} \union Navs(d)
  <2>4. {Capital} \union Navs(e) = N \union {Nav(e)}
    BY <1>8
  <2>5. /\ \A n \in N : n \in Int /\ n <= d.peak
        /\ d.peak \in N /\ d.peak \in Int
    BY <2>1, <2>2, <2>3
  <2> HIDE DEF N
  <2>6. CASE Nav(e) > d.peak
    <3>1. e.peak = Nav(e) /\ \A n \in N : n <= Nav(e)
      BY <1>5, <1>6, <2>5, <2>6
    <3> QED BY <1>6, <2>4, <3>1
  <2>7. CASE ~(Nav(e) > d.peak)
    <3>1. e.peak = d.peak /\ Nav(e) <= d.peak
      BY <1>5, <1>6, <2>5, <2>7
    <3> QED BY <2>4, <2>5, <3>1
  <2> QED BY <2>6, <2>7
<1>11. DayStart(d, r.t) = OpenedAt(e)
  <2> DEFINE before == {i \in DOMAIN d.navs : d.navs[i].day # d.day}
             others == {i \in DOMAIN e.navs : e.navs[i].day # e.day}
  <2>1. ASSUME NEW i \in 1 .. L + 1
        PROVE  i \in others <=> i \in 1 .. L /\ d.navs[i].day # day
    BY <1>1, <1>2, <1>5, <1>7
  <2>2. others = {i \in 1 .. L : d.navs[i].day # day}
    BY <1>1, <1>7, <2>1, SMTT(40)
  <2>3. CASE d.navs = <<>>
    <3>1. d.day = Never /\ before = {} /\ others = {}
      BY <1>1, <2>2, <2>3 DEF Losses
    <3>2. d.dayStart = Capital
      BY <3>1 DEF Losses, OpenedAt
    <3> QED BY <3>1, <3>2 DEF DayStart, OpenedAt
  <2>4. CASE d.navs # <<>> /\ d.day = day
    <3>1. DayStart(d, r.t) = d.dayStart
      BY <2>4 DEF DayStart, day
    <3>2. others = before
      BY <1>1, <2>2, <2>4
    <3>3. before # {} => e.navs[Max(before)] = d.navs[Max(before)]
      <4>1. ASSUME before # {} PROVE Max(before) \in before
        <5>1. before \subseteq 1 .. L
          BY <1>1
        <5> HIDE DEF before
        <5> QED BY <1>1, <4>1, <5>1, GreatestIndex
      <4> QED BY <1>1, <1>7, <4>1
    <3> QED BY <3>1, <3>2, <3>3 DEF Losses, OpenedAt
  <2>5. CASE d.navs # <<>> /\ d.day # day
    <3>1. d.day \in Int /\ d.day # Never /\ L \in 1 .. L
      BY <1>1, <1>2, <2>5 DEF Losses
    <3>2. d.navs[L].day # day
      BY <2>5 DEF Losses
    <3>3. L \in others /\ others \subseteq 1 .. L
      BY <2>2, <3>1, <3>2
    <3>4. Max(others) = L
      <4>1. \A n \in 1 .. L : n \in Int /\ n <= L
        BY <1>1
      <4> HIDE DEF others, L
      <4>2. others \in SUBSET Int /\ \A n \in others : n <= L
        BY <3>3, <4>1
      <4> QED BY <3>3, <4>2, MaxIs
    <3>5. DayStart(d, r.t) = Nav(d) /\ Nav(d) = d.navs[L].nav
      BY <2>5, <3>1 DEF DayStart, Resting, day
    <3>6. e.navs[L] = d.navs[L] /\ others # {}
      BY <1>7, <3>1, <3>3
    <3> QED BY <3>4, <3>5, <3>6 DEF OpenedAt
  <2> QED BY <2>3, <2>4, <2>5
<1>12. Losses(e)
  <2>1. e.equity = e.navs[Len(e.navs)].nav /\ e.navs[Len(e.navs)].day = e.day
    BY <1>5, <1>7
  <2> QED BY <1>2, <1>5, <1>7, <1>9, <1>11, <2>1 DEF Losses
<1>13. Resting(e)
  BY <1>5, <1>7 DEF Resting, day
<1> QED BY <1>5, <1>7, <1>12, <1>13 DEF e, L
-----------------------------------------------------------------------------
(* The inductive invariant of both drivers.  What the final pass makes of  *)
(* the book is not part of it.                                             *)

StateTyped ==
  /\ cfg \in Configs /\ fed \in Nat /\ ended \in BOOLEAN
  /\ \A d \in Both : MarketTyped(d) /\ DeskTyped(d)
  /\ ~ended => \A d \in Both : IsDriver(d)

(* The records the backtest has taken, the others were late. *)
Taken == Len(back.navs) \in Nat /\ Len(back.navs) <= fed

IInv ==
  /\ StateTyped /\ Taken
  /\ \A d \in Both : Losses(d)
  /\ ~ended => \A d \in Both : Resting(d)

(* The drivers' handling of a record, up to its settlement. *)
LiveRan(d, r) == Hear(Match(Arrive(d, r), r, "live"), Tick, "live")
BackRan(d, r) == Hear(Match(ReleaseInbound(Arrive(d, r)), r, "back"), Tick, "back")

LEMMA TickIsEvent == Tick \in Events
BY DEF Tick, Events, Kinds

LEMMA LiveRuns ==
  ASSUME IsConfig, NEW d, IsDriver(d), NEW r, IsRecord(r)
  PROVE  Ran(Arrive(d, r), LiveRan(d, r))
<1> DEFINE a == Arrive(d, r)
           m == Match(a, r, "live")
<1>1. IsDriver(a)
  BY ArriveKeeps
<1> HIDE DEF a
<1>2. Ran(a, m)
  BY <1>1, MatchKeeps, RecordsAreQuotes DEF Drivings
<1> HIDE DEF m
<1>3. Ran(m, Hear(m, Tick, "live"))
  BY <1>2, TickIsEvent, HearKeeps DEF Ran, Acted
<1>4. Ran(a, Hear(m, Tick, "live"))
  BY <1>2, <1>3, RanOn
<1> QED BY <1>4 DEF LiveRan, a, m

LEMMA BackRuns ==
  ASSUME IsConfig, NEW d, IsDriver(d), NEW r, IsRecord(r)
  PROVE  Ran(Arrive(d, r), BackRan(d, r))
<1> DEFINE a == Arrive(d, r)
           b == ReleaseInbound(a)
           m == Match(b, r, "back")
<1>1. IsDriver(a)
  BY ArriveKeeps
<1> HIDE DEF a
<1>2. Ran(a, b)
  BY <1>1, ReleaseKeeps
<1> HIDE DEF b
<1>3. Ran(b, m)
  BY <1>2, MatchKeeps, RecordsAreQuotes DEF Ran, Drivings
<1> HIDE DEF m
<1>4. Ran(m, Hear(m, Tick, "back"))
  BY <1>3, TickIsEvent, HearKeeps DEF Ran, Acted
<1>5. Ran(a, Hear(m, Tick, "back"))
  BY <1>2, <1>3, <1>4, RanOn
<1> QED BY <1>5 DEF BackRan, a, b, m

LEMMA StepsAre ==
  ASSUME NEW d, NEW r
  PROVE  /\ LiveStep(d, r) = Settle(LiveRan(d, r), r, FirstTime(d, r))
         /\ BackStep(d, r) = Settle(BackRan(d, r), r, FirstTime(d, r))
BY DEF LiveStep, BackStep, LiveRan, BackRan

(* The end: nothing the gate measures by changes any more. *)
LEMMA FinishKeeps ==
  ASSUME IsConfig, NEW d, IsDriver(d)
  PROVE  \A e \in {LiveFinish(d), BackFinish(d)} : SameMarket(d, e) /\ DeskTyped(e)
<1> DEFINE l == HandleAction(d, Answer("stop", 1), "live")
           b == HandleAction(d, Answer("stop", 1), "back")
           d2 == Flatten(FinalPasses(b))
           e == [b EXCEPT !.qty = d2.qty, !.cash = d2.cash, !.known = d2.known,
                          !.blotter = d2.blotter, !.working = <<>>]
<1>1. Acted(d, l) /\ Acted(d, b)
  BY AnswerTyped, HandleActionKeeps
<1>2. LiveFinish(d) = [l EXCEPT !.working = <<>>] /\ BackFinish(d) = e
  BY DEF LiveFinish, BackFinish
<1> HIDE DEF l, b, d2
<1>3. SameMarket(d, [l EXCEPT !.working = <<>>]) /\ DeskTyped([l EXCEPT !.working = <<>>])
  BY <1>1, ClearedKeeps DEF Acted, SameMarket, IsDriver
<1>4. /\ SameMarket(b, e) /\ e.working = <<>> /\ e.draws = b.draws
      /\ e.submitted = b.submitted /\ e.rejected = b.rejected /\ e.refused = b.refused
  BY <1>1 DEF Acted, IsDriver, Fields, SameMarket
<1> HIDE DEF e
<1>5. SameMarket(d, e)
  BY <1>1, <1>4 DEF Acted, SameMarket
<1>6. DeskTyped(e)
  <2>1. DeskTyped(b) /\ e.draws = b.draws
    BY <1>1, <1>4 DEF Acted, IsDriver
  <2> QED BY <1>4, <2>1 DEF DeskTyped
<1> QED BY <1>2, <1>3, <1>5, <1>6

LEMMA StartOK == IsDriver(Start) /\ Losses(Start) /\ Resting(Start)
<1>1. Capital \in Nat /\ Never \notin Int
  BY DriversAssumption
<1>2. /\ DOMAIN Start = Fields /\ Start.now = 0 /\ Start.day = Never /\ Start.dayStart = Capital
      /\ Start.view = [s \in Symbols |-> 0] /\ Start.qty = [s \in Symbols |-> 0]
      /\ Start.last = [s \in Symbols |-> 0] /\ Start.known = {} /\ Start.cash = Capital
      /\ Start.peak = Capital /\ Start.equity = Capital /\ Start.working = <<>>
      /\ Start.inbound = <<>> /\ Start.seen = [k \in Kinds |-> 0] /\ Start.blotter = <<>>
      /\ Start.submitted = 0 /\ Start.rejected = 0 /\ Start.refused = {}
      /\ Start.navs = <<>> /\ Start.paid = 0 /\ Start.draws = 0
  BY DEF Start, Fields
<1>3. IsDriver(Start)
  BY <1>1, <1>2 DEF IsDriver, MarketTyped, BookTyped, DeskTyped, StrategyTyped
<1>4. Losses(Start) /\ Resting(Start)
  <2>1. DOMAIN Start.navs = {} /\ Navs(Start) = {}
    BY <1>2 DEF Navs
  <2> QED BY <1>1, <1>2, <2>1 DEF Losses, Resting, OpenedAt
<1> QED BY <1>3, <1>4

LEMMA InvInit == Init => IInv
<1> SUFFICES ASSUME Init PROVE IInv
  OBVIOUS
<1>1. cfg \in Configs /\ live = Start /\ back = Start /\ fed = 0 /\ ended = FALSE
  BY DEF Init
<1>2. \A d \in Both : IsDriver(d) /\ Losses(d) /\ Resting(d)
  BY <1>1, StartOK DEF Both
<1>3. \A d \in Both : MarketTyped(d) /\ DeskTyped(d)
  BY <1>2 DEF IsDriver
<1>4. Taken
  <2>1. Start.navs = <<>>
    BY DEF Start
  <2> QED BY <1>1, <2>1 DEF Taken
<1> QED BY <1>1, <1>2, <1>3, <1>4 DEF IInv, StateTyped

LEMMA StepInv ==
  ASSUME IInv, NEW s \in Symbols, NEW p \in Prices, NEW dt \in Steps,
         Step([symbol |-> s, price |-> p, t |-> live.now + dt])
  PROVE  IInv'
<1> DEFINE r == [symbol |-> s, price |-> p, t |-> live.now + dt]
<1>1. IsConfig /\ ~ended /\ fed \in Nat /\ IsDriver(live) /\ IsDriver(back)
      /\ Losses(live) /\ Losses(back) /\ Resting(live) /\ Resting(back)
  BY DEF IInv, StateTyped, IsConfig, Step, Both
<1>2. live.now \in Int /\ p \in Nat /\ dt \in Int
  BY <1>1, ConfigTyped DEF IsDriver, MarketTyped
<1>3. IsRecord(r)
  BY <1>1, <1>2 DEF IsRecord
<1>4. live' = LiveStep(live, r) /\ back' \in {back, BackStep(back, r)} /\ fed' = fed + 1
      /\ cfg' = cfg /\ ended' = ended
  BY DEF Step
<1> HIDE DEF r
<1>5. IsDriver(live') /\ Losses(live') /\ Resting(live')
  BY <1>1, <1>3, <1>4, StepsAre, LiveRuns, DriverSteps
<1>6. IsDriver(back') /\ Losses(back') /\ Resting(back')
  BY <1>1, <1>3, <1>4, StepsAre, BackRuns, DriverSteps
<1>8. Taken'
  <2>1. Len(BackStep(back, r).navs) = Len(back.navs) + 1
    BY <1>1, <1>3, StepsAre, BackRuns, DriverSteps
  <2>2. Len(back.navs) \in Nat /\ Len(back.navs) <= fed
    BY DEF IInv, Taken
  <2>3. Len(back'.navs) \in {Len(back.navs), Len(back.navs) + 1}
    BY <1>4, <2>1
  <2> QED BY <1>1, <1>4, <2>2, <2>3 DEF Taken
<1>7. StateTyped'
  <2>1. MarketTyped(live') /\ DeskTyped(live') /\ MarketTyped(back') /\ DeskTyped(back')
    BY <1>5, <1>6 DEF IsDriver
  <2>2. cfg' \in Configs /\ ended' \in BOOLEAN
    BY <1>4 DEF IInv, StateTyped
  <2>3. fed' \in Nat
    BY <1>1, <1>4
  <2> QED BY <1>5, <1>6, <2>1, <2>2, <2>3 DEF StateTyped, Both
<1> QED BY <1>5, <1>6, <1>7, <1>8 DEF IInv, Both

LEMMA FinishInv == IInv /\ Finish => IInv'
<1> SUFFICES ASSUME IInv, Finish PROVE IInv'
  OBVIOUS
<1>1. IsConfig /\ IsDriver(live) /\ IsDriver(back) /\ Losses(live) /\ Losses(back)
  BY DEF IInv, StateTyped, IsConfig, Finish, Both
<1>2. live' = LiveFinish(live) /\ back' = BackFinish(back) /\ fed' = fed /\ cfg' = cfg /\ ended'
  BY DEF Finish
<1>3. /\ SameMarket(live, live') /\ DeskTyped(live')
      /\ SameMarket(back, back') /\ DeskTyped(back')
  BY <1>1, <1>2, FinishKeeps
<1>4. MarketTyped(live') /\ MarketTyped(back')
  BY <1>1, <1>3, SameKeepsTypes DEF IsDriver
<1>5. Losses(live') /\ Losses(back')
  BY <1>1, <1>3, SMTT(30) DEF Losses, Navs, OpenedAt, SameMarket
<1>6. ended' = TRUE /\ fed' \in Nat /\ cfg' \in Configs
  BY <1>2 DEF IInv, StateTyped, Finish
<1>7. Taken'
  BY <1>2, <1>3 DEF IInv, Taken, SameMarket
<1> QED BY <1>3, <1>4, <1>5, <1>6, <1>7 DEF IInv, StateTyped, Both

LEMMA InvStep == IInv /\ [Next]_vars => IInv'
<1> SUFFICES ASSUME IInv, [Next]_vars PROVE IInv'
  OBVIOUS
<1>1. CASE UNCHANGED vars
  BY <1>1 DEF vars, IInv, StateTyped, Taken, Both, Losses, Resting
<1>2. CASE Finish
  BY <1>2, FinishInv
<1>3. CASE \E s \in Symbols, p \in Prices, dt \in Steps :
             Step([symbol |-> s, price |-> p, t |-> live.now + dt])
  BY <1>3, StepInv
<1> QED BY <1>1, <1>2, <1>3 DEF Next

(* Both drivers are well typed, the peak is a NAV on record and none is    *)
(* higher, and until the next record the book is worth what was recorded   *)
(* last (track_drawdown after every event, the roll before it).            *)
THEOREM DriversInvariant == Spec => []IInv
BY InvInit, InvStep, PTL DEF Spec

(* The gate measures losses from where they began, for every sequence of   *)
(* records across any number of days (Drawdown.Tracker, day_start_nav).    *)
THEOREM GateAlwaysSeesTrueLosses == Spec => []GateSeesTrueLosses
<1>1. IInv => GateSeesTrueLosses
  <2> SUFFICES ASSUME IInv, NEW d \in Both, d.navs # <<>>
               PROVE  /\ d.peak = Highest(d.navs)
                      /\ d.equity = Last(d.navs).nav
                      /\ d.dayStart = OpenedAt(d)
    BY DEF GateSeesTrueLosses
  <2>1. Losses(d) /\ MarketTyped(d)
    BY DEF IInv, StateTyped
  <2>2. Highest(d.navs) = Max({Capital} \union Navs(d))
    BY DEF Highest, Navs
  <2>3. {Capital} \union Navs(d) \in SUBSET Int
    <3> DEFINE T == [day : Int, nav : Int]
    <3>1. d.navs \in Seq(T)
      BY <2>1 DEF MarketTyped
    <3> HIDE DEF T
    <3>2. \A i \in DOMAIN d.navs : d.navs[i] \in T
      BY <3>1
    <3>3. \A i \in DOMAIN d.navs : d.navs[i].nav \in Int
      BY <3>2 DEF T
    <3>4. Capital \in Int
      BY DriversAssumption
    <3> QED BY <3>3, <3>4 DEF Navs
  <2>4. Max({Capital} \union Navs(d)) = d.peak
    <3> DEFINE N == {Capital} \union Navs(d)
    <3>1. d.peak \in N /\ \A n \in N : n <= d.peak
      BY <2>1 DEF Losses
    <3> HIDE DEF N
    <3> QED BY <2>3, <3>1, MaxIs DEF N
  <2> QED BY <2>1, <2>2, <2>4 DEF Losses, Last
<1> QED BY <1>1, DriversInvariant, PTL

(* No order that moves a position towards flat, without crossing it, is    *)
(* ever refused, in either driver, whatever the limits and the losses      *)
(* (is_risk_reducing, pre_trade_check).                                    *)
THEOREM ReducingNeverRefused == Spec => []ReducingIsNeverRefused
<1>1. IInv => ReducingIsNeverRefused
  BY DEF IInv, StateTyped, DeskTyped, MovesTowardsFlat, ReducingIsNeverRefused
<1> QED BY <1>1, DriversInvariant, PTL
-----------------------------------------------------------------------------
(* Parity: for a strategy that acts on market events, and as long as no    *)
(* latency is jittered and no record is late, both drivers are in the same *)
(* state, apart from what it has heard and what is held back.              *)

Alike(a, b) ==
  SameMarket(a, b) /\ SameBook(a, b) /\ SameDesk(a, b) /\ a.seen["tick"] = b.seen["tick"]

LEMMA AlikeIsEquality ==
  ASSUME NEW a, NEW b, NEW c
  PROVE  /\ Alike(a, a)
         /\ Alike(a, b) => Alike(b, a)
         /\ Alike(a, b) /\ Alike(b, c) => Alike(a, c)
BY DEF Alike, SameMarket, SameBook, SameDesk

LEMMA SameNav ==
  ASSUME NEW a, NEW b, a.qty = b.qty, a.last = b.last
  PROVE  /\ ShortExposure(a) = ShortExposure(b) /\ Gross(a) = Gross(b)
         /\ \A s \in Symbols : Exposure(a, s) = Exposure(b, s)
         /\ a.cash = b.cash => Nav(a) = Nav(b)
BY DEF ShortExposure, Gross, Exposure, Nav

(* The strategy makes nothing of a fill, a cancel, a refusal or a timer. *)
LEMMA NotesChangeNothing ==
  ASSUME IsConfig, ActsOnMarketOnly, NEW d, IsDriver(d), NEW ev \in Notes,
         NEW driver \in {"live", "back"}
  PROVE  Alike(d, Hear(d, ev, driver))
<1>1. ev \in Events /\ ev.kind \notin {"tick", "stop"}
  BY NotesAreEvents DEF Notes, NoteKinds
<1>2. Answer(ev.kind, d.seen[ev.kind] + 1) = Silent
  <2> DEFINE e == <<ev.kind, d.seen[ev.kind] + 1>>
  <2>1. e[1] = ev.kind
    OBVIOUS
  <2> HIDE DEF e
  <2>2. e \notin DOMAIN cfg.plan
    BY <1>1, <2>1 DEF ActsOnMarketOnly
  <2> QED BY <2>2 DEF Answer, e
<1>3. HandleAction(Told(d, ev), Silent, driver) = Told(d, ev)
  BY DEF HandleAction, Silent
<1>4. Hear(d, ev, driver) = Told(d, ev)
  BY <1>2, <1>3, HearIs
<1>5. Told(d, ev).seen["tick"] = d.seen["tick"]
  <2>1. Told(d, ev).seen = [d.seen EXCEPT ![ev.kind] = d.seen[ev.kind] + 1]
    BY <1>1, ToldKeeps
  <2>2. d.seen \in [Kinds -> Nat] /\ "tick" \in Kinds
    BY DEF IsDriver, StrategyTyped, Kinds
  <2> QED BY <1>1, <2>1, <2>2
<1>6. SameMarket(d, Told(d, ev)) /\ SameBook(d, Told(d, ev)) /\ SameDesk(d, Told(d, ev))
  BY <1>1, ToldKeeps DEF Acted
<1> QED BY <1>4, <1>5, <1>6 DEF Alike

LEMMA TellingChangesNothing ==
  ASSUME IsConfig, ActsOnMarketOnly, NEW d, IsDriver(d), NEW ev \in Notes, NEW driver \in Drivings
  PROVE  Alike(d, Tell(d, ev, driver))
<1>1. CASE driver = "live"
  BY <1>1, NotesChangeNothing DEF Tell
<1>2. CASE driver = "back"
  <2>1. Tell(d, ev, driver) = Delayed(d, ev)
    BY <1>2 DEF Tell
  <2> QED BY <2>1, DelayedKeeps DEF Alike
<1>3. CASE driver = "nobody"
  BY <1>3, AlikeIsEquality DEF Tell
<1> QED BY <1>1, <1>2, <1>3 DEF Drivings

LEMMA FillsAlike ==
  ASSUME IsConfig, NEW a, IsDriver(a), NEW b, IsDriver(b), Alike(a, b),
         NEW o \in WorkingOrders, NEW price \in Nat
  PROVE  Alike(BookFill(a, o, price), BookFill(b, o, price))
<1> DEFINE x == BookFill(a, o, price)
           y == BookFill(b, o, price)
<1>1. /\ SameMarket(a, x) /\ SameDesk(a, x) /\ SameStrategy(a, x)
      /\ SameMarket(b, y) /\ SameDesk(b, y) /\ SameStrategy(b, y)
  BY BookFillKeeps
<1>2. SameBook(x, y)
  BY DEF Alike, SameBook, BookFill, Trade, IsDriver, Fields
<1> HIDE DEF x, y
<1>3. Alike(x, y)
  BY <1>1, <1>2 DEF Alike, SameMarket, SameDesk, SameStrategy
<1> QED BY <1>3 DEF x, y

LEMMA HappenAlike ==
  ASSUME IsConfig, ActsOnMarketOnly, NEW a, IsDriver(a), NEW b, IsDriver(b), Alike(a, b),
         NEW h \in Happenings, h.what # "message"
  PROVE  Alike(Happen(a, h, "live"), Happen(b, h, "back"))
<1>0. h.order \in WorkingOrders /\ h.price \in Nat /\ h.what \in {"works", "filled", "cancelled"}
  BY DEF Happenings
<1>1. CASE h.what = "works"
  <2> DEFINE x == [a EXCEPT !.working = Append(@, h.order)]
             y == [b EXCEPT !.working = Append(@, h.order)]
  <2>1. Happen(a, h, "live") = x /\ Happen(b, h, "back") = y
    BY <1>1 DEF Happen
  <2>2. /\ SameMarket(a, x) /\ SameBook(a, x) /\ SameStrategy(a, x)
        /\ x.working = Append(a.working, h.order) /\ x.draws = a.draws
        /\ x.submitted = a.submitted /\ x.rejected = a.rejected /\ x.refused = a.refused
    BY <1>0, RestsKeeps
  <2>3. /\ SameMarket(b, y) /\ SameBook(b, y) /\ SameStrategy(b, y)
        /\ y.working = Append(b.working, h.order) /\ y.draws = b.draws
        /\ y.submitted = b.submitted /\ y.rejected = b.rejected /\ y.refused = b.refused
    BY <1>0, RestsKeeps
  <2> HIDE DEF x, y
  <2>4. Alike(x, y)
    BY <2>2, <2>3 DEF Alike, SameMarket, SameBook, SameDesk, SameStrategy
  <2> QED BY <2>1, <2>4
<1>2. CASE h.what = "filled"
  <2> DEFINE x == BookFill(a, h.order, h.price)
             y == BookFill(b, h.order, h.price)
  <2>1. Alike(x, y) /\ IsDriver(x) /\ IsDriver(y)
    BY <1>0, FillsAlike, BookFillKeeps
  <2>2. Happen(a, h, "live") = Tell(x, FillOf(x), "live") /\ Happen(b, h, "back") = Tell(y, FillOf(y), "back")
    BY <1>2 DEF Happen
  <2> HIDE DEF x, y
  <2>3. Alike(x, Tell(x, FillOf(x), "live")) /\ Alike(y, Tell(y, FillOf(y), "back"))
    BY <2>1, FillOfTyped, TellingChangesNothing DEF Drivings
  <2> QED BY <2>1, <2>2, <2>3, AlikeIsEquality
<1>3. CASE h.what = "cancelled"
  <2>1. /\ Happen(a, h, "live") = Tell(a, CancelOf(h.order), "live")
        /\ Happen(b, h, "back") = Tell(b, CancelOf(h.order), "back")
    BY <1>3 DEF Happen
  <2>2. /\ Alike(a, Tell(a, CancelOf(h.order), "live"))
        /\ Alike(b, Tell(b, CancelOf(h.order), "back"))
    BY <1>0, CancelOfTyped, TellingChangesNothing DEF Drivings
  <2> QED BY <2>1, <2>2, AlikeIsEquality
<1> QED BY <1>0, <1>1, <1>2, <1>3

LEMMA RunsAlike ==
  ASSUME IsConfig, ActsOnMarketOnly, NEW a, IsDriver(a), NEW b, IsDriver(b), Alike(a, b),
         NEW hs \in Seq(Happenings), NEW what \in {"works", "filled", "cancelled"}
  PROVE  Alike(Run(a, hs, what, "live"), Run(b, hs, what, "back"))
<1>1. Len(hs) \in Nat /\ \A n \in 1 .. Len(hs) : hs[n] \in Happenings
  OBVIOUS
<1>2. PICK f : Turns(f, a, hs, what, "live") /\ Run(a, hs, what, "live") = f[Len(hs)]
  BY <1>1, RunUnfolds
<1>3. PICK g : Turns(g, b, hs, what, "back") /\ Run(b, hs, what, "back") = g[Len(hs)]
  BY <1>1, RunUnfolds
<1> DEFINE P == {n \in Nat : n <= Len(hs) => IsDriver(f[n]) /\ IsDriver(g[n]) /\ Alike(f[n], g[n])}
<1>4. 0 \in P
  BY <1>2, <1>3 DEF Turns
<1>5. ASSUME NEW n \in Nat, n \in P PROVE n + 1 \in P
  <2> SUFFICES ASSUME n + 1 <= Len(hs)
               PROVE  IsDriver(f[n + 1]) /\ IsDriver(g[n + 1]) /\ Alike(f[n + 1], g[n + 1])
    OBVIOUS
  <2> DEFINE h == hs[n + 1]
  <2>1. n + 1 \in 1 .. Len(hs) /\ (n + 1) - 1 = n /\ n <= Len(hs)
    BY <1>1
  <2>2. IsDriver(f[n]) /\ IsDriver(g[n]) /\ Alike(f[n], g[n])
    BY <1>5, <2>1
  <2>3. h \in Happenings
    BY <1>1, <2>1
  <2>4. f[n + 1] = Turn(f[n], h, what, "live") /\ g[n + 1] = Turn(g[n], h, what, "back")
    BY <1>2, <1>3, <2>1 DEF Turns
  <2> HIDE DEF h
  <2>5. CASE h.what = what
    <3>1. f[n + 1] = Happen(f[n], h, "live") /\ g[n + 1] = Happen(g[n], h, "back")
      BY <2>4, <2>5 DEF Turn
    <3>2. IsDriver(f[n + 1]) /\ IsDriver(g[n + 1])
      BY <2>2, <2>3, <3>1, HappenKeeps DEF Ran, Drivings
    <3>3. h.what # "message"
      BY <2>5
    <3>4. Alike(f[n + 1], g[n + 1])
      BY <2>2, <2>3, <3>1, <3>3, HappenAlike
    <3> QED BY <3>2, <3>4
  <2>6. CASE h.what # what
    BY <2>2, <2>4, <2>6 DEF Turn
  <2> QED BY <2>5, <2>6
<1> HIDE DEF P
<1>6. Len(hs) \in P
  BY <1>1, <1>4, <1>5, Induction
<1> QED BY <1>1, <1>2, <1>3, <1>6 DEF P

(* Messages that are released change nothing either. *)
LEMMA MessagesChangeNothing ==
  ASSUME IsConfig, ActsOnMarketOnly, NEW d, IsDriver(d), NEW hs \in Seq(Happenings)
  PROVE  Alike(d, Run(d, hs, "message", "back"))
<1>1. Len(hs) \in Nat /\ \A n \in 1 .. Len(hs) : hs[n] \in Happenings
  OBVIOUS
<1>2. PICK f : Turns(f, d, hs, "message", "back") /\ Run(d, hs, "message", "back") = f[Len(hs)]
  BY <1>1, RunUnfolds
<1> DEFINE P == {n \in Nat : n <= Len(hs) => IsDriver(f[n]) /\ Alike(d, f[n])}
<1>3. 0 \in P
  BY <1>2, AlikeIsEquality DEF Turns
<1>4. ASSUME NEW n \in Nat, n \in P PROVE n + 1 \in P
  <2> SUFFICES ASSUME n + 1 <= Len(hs) PROVE IsDriver(f[n + 1]) /\ Alike(d, f[n + 1])
    OBVIOUS
  <2> DEFINE h == hs[n + 1]
  <2>1. n + 1 \in 1 .. Len(hs) /\ (n + 1) - 1 = n /\ n <= Len(hs)
    BY <1>1
  <2>2. IsDriver(f[n]) /\ Alike(d, f[n])
    BY <1>4, <2>1
  <2>3. h \in Happenings
    BY <1>1, <2>1
  <2>4. f[n + 1] = Turn(f[n], h, "message", "back")
    BY <1>2, <2>1 DEF Turns
  <2> HIDE DEF h
  <2>5. CASE h.what = "message"
    <3>1. h.ev \in Notes /\ h.ev \in Events
      BY <2>3, <2>5, NotesAreEvents DEF Happenings
    <3>2. f[n + 1] = Hear(f[n], h.ev, "back")
      BY <2>4, <2>5 DEF Turn, Happen
    <3>3. IsDriver(f[n + 1])
      BY <2>2, <3>1, <3>2, HearKeeps DEF Acted
    <3>4. Alike(f[n], f[n + 1])
      BY <2>2, <3>1, <3>2, NotesChangeNothing
    <3> QED BY <2>2, <3>3, <3>4, AlikeIsEquality
  <2>6. CASE h.what # "message"
    BY <2>2, <2>4, <2>6 DEF Turn
  <2> QED BY <2>5, <2>6
<1> HIDE DEF P
<1>5. Len(hs) \in P
  BY <1>1, <1>3, <1>4, Induction
<1> QED BY <1>1, <1>2, <1>5 DEF P
LEMMA OutcomesAlike ==
  ASSUME NEW a, NEW b, Alike(a, b), NEW r
  PROVE  Outcomes(a, r) = Outcomes(b, r)
<1>1. a.now = b.now /\ a.working = b.working
  BY DEF Alike, SameMarket, SameDesk
<1>2. \A o : Outcome(a, o, r.symbol, r.price) = Outcome(b, o, r.symbol, r.price)
  BY <1>1 DEF Outcome, AtVenue, CancelDue
<1> QED BY <1>1, <1>2 DEF Outcomes

LEMMA MatchesAlike ==
  ASSUME IsConfig, ActsOnMarketOnly, NEW a, IsDriver(a), NEW b, IsDriver(b), Alike(a, b),
         NEW r, IsRecord(r)
  PROVE  Alike(Match(a, r, "live"), Match(b, r, "back"))
<1> DEFINE hs == Outcomes(a, r)
           a0 == [a EXCEPT !.working = <<>>]
           b0 == [b EXCEPT !.working = <<>>]
           a1 == Run(a0, hs, "works", "live")
           b1 == Run(b0, hs, "works", "back")
           a2 == Run(a1, hs, "filled", "live")
           b2 == Run(b1, hs, "filled", "back")
<1>1. hs \in Seq(Happenings) /\ hs = Outcomes(b, r)
  BY OutcomesTyped, OutcomesAlike, RecordsAreQuotes
<1>2. IsDriver(a0) /\ IsDriver(b0) /\ Alike(a0, b0)
  <2>1. /\ IsDriver(a0) /\ SameMarket(a, a0) /\ SameBook(a, a0) /\ SameStrategy(a, a0)
        /\ a0.working = <<>> /\ a0.draws = a.draws
        /\ a0.submitted = a.submitted /\ a0.rejected = a.rejected /\ a0.refused = a.refused
    BY ClearedKeeps
  <2>2. /\ IsDriver(b0) /\ SameMarket(b, b0) /\ SameBook(b, b0) /\ SameStrategy(b, b0)
        /\ b0.working = <<>> /\ b0.draws = b.draws
        /\ b0.submitted = b.submitted /\ b0.rejected = b.rejected /\ b0.refused = b.refused
    BY ClearedKeeps
  <2> HIDE DEF a0, b0
  <2> QED BY <2>1, <2>2 DEF Alike, SameMarket, SameBook, SameDesk, SameStrategy
<1> HIDE DEF hs, a0, b0
<1>3. IsDriver(a1) /\ IsDriver(b1) /\ Alike(a1, b1)
  BY <1>1, <1>2, RunKeeps, RunsAlike DEF Ran, Drivings
<1> HIDE DEF a1, b1
<1>4. IsDriver(a2) /\ IsDriver(b2) /\ Alike(a2, b2)
  BY <1>1, <1>3, RunKeeps, RunsAlike DEF Ran, Drivings
<1> HIDE DEF a2, b2
<1>5. Alike(Run(a2, hs, "cancelled", "live"), Run(b2, hs, "cancelled", "back"))
  BY <1>1, <1>4, RunsAlike
<1>6. /\ Match(a, r, "live") = Run(a2, hs, "cancelled", "live")
      /\ Match(b, r, "back") = Run(b2, hs, "cancelled", "back")
  BY <1>1 DEF Match, a2, b2, a1, b1, a0, b0, hs
<1> QED BY <1>5, <1>6

LEMMA ReleaseChangesNothing ==
  ASSUME IsConfig, ActsOnMarketOnly, NEW d, IsDriver(d)
  PROVE  Alike(d, ReleaseInbound(d))
<1> DEFINE k == DueBy(d, d.now)
           e == [d EXCEPT !.inbound = SubSeq(@, k + 1, Len(@))]
           M(i) == [what |-> "message", ev |-> d.inbound[i].ev]
           ms == [i \in 1 .. k |-> M(i)]
<1>1. IsDriver(e) /\ Alike(d, e)
  BY DueKept DEF Alike
<1>2. ms \in Seq(Happenings)
  BY DueKept
<1> HIDE DEF e, ms
<1>3. Alike(e, Run(e, ms, "message", "back"))
  BY <1>1, <1>2, MessagesChangeNothing
<1>4. ReleaseInbound(d) = Run(e, ms, "message", "back")
  BY DEF ReleaseInbound, k, e, ms, M
<1> QED BY <1>1, <1>3, <1>4, AlikeIsEquality

LEMMA GatesAlike ==
  ASSUME NEW a, NEW b, Alike(a, b), NEW o, o.symbol \in Symbols
  PROVE  Gate(a, o) = Gate(b, o)
<1>1. /\ a.qty = b.qty /\ a.last = b.last /\ a.cash = b.cash /\ a.view = b.view
      /\ a.peak = b.peak /\ a.equity = b.equity /\ a.dayStart = b.dayStart
  BY DEF Alike, SameMarket, SameBook
<1>2. IsRiskReducing(a, o) = IsRiskReducing(b, o)
  BY <1>1 DEF IsRiskReducing
<1>3. \A l, p, k, q, t : WithinLimits(l, a, o, p, k, q, t) = WithinLimits(l, b, o, p, k, q, t)
  <2>1. Nav(a) = Nav(b) /\ Gross(a) = Gross(b) /\ \A s \in Symbols : Exposure(a, s) = Exposure(b, s)
    BY <1>1, SameNav
  <2> QED BY <2>1 DEF WithinLimits
<1> QED BY <1>1, <1>2, <1>3 DEF Gate, PassesGate

Steady == NoJitter("live") /\ NoJitter("back")

(* One action of the strategy, taken by both drivers. *)
LEMMA ActionsAlike ==
  ASSUME IsConfig, Steady, NEW a, IsDriver(a), NEW b, IsDriver(b), Alike(a, b),
         NEW x \in Actions \union {Silent}
  PROVE  Alike(HandleAction(a, x, "live"), HandleAction(b, x, "back"))
<1> DEFINE p == HandleAction(a, x, "live")
           q == HandleAction(b, x, "back")
<1>1. SameMarket(p, q) /\ SameBook(p, q) /\ p.seen["tick"] = q.seen["tick"]
  <2>1. Acted(a, p) /\ Acted(b, q) /\ p.seen = a.seen /\ q.seen = b.seen
    BY HandleActionKeeps
  <2> HIDE DEF p, q
  <2> QED BY <2>1 DEF Acted, Alike, SameMarket, SameBook
<1>2. /\ DOMAIN a = Fields /\ DOMAIN b = Fields
      /\ a.working = b.working /\ a.submitted = b.submitted /\ a.rejected = b.rejected
      /\ a.refused = b.refused /\ a.now = b.now /\ a.view = b.view /\ a.qty = b.qty
  BY DEF IsDriver, Alike, SameMarket, SameBook, SameDesk
<1> DEFINE ea == a.now + Drawn(a, cfg.outLatency, "live")
           eb == b.now + Drawn(b, cfg.outLatency, "back")
<1>6. ea = eb
  <2>1. cfg.outLatency \in Nat /\ DeskTyped(a) /\ DeskTyped(b)
    BY ConfigTyped DEF IsDriver
  <2> QED BY <1>2, <2>1, DrawnTyped DEF Steady
<1>7. a.draws \in Nat /\ b.draws \in Nat
  BY DEF IsDriver, DeskTyped
<1> HIDE DEF ea, eb
<1>3. CASE x.kind = "submit"
  <2>1. x.symbol \in Symbols
    BY <1>3 DEF Actions, Silent
  <2>2. Gate(a, x) = Gate(b, x)
    BY <2>1, GatesAlike
  <2>3. p = Submit(a, x, "live") /\ q = Submit(b, x, "back")
    BY <1>3 DEF HandleAction
  <2>4. SameDesk(Admitted(a, x, "live"), Admitted(b, x, "back"))
    <3> DEFINE O(e) == [coid |-> x.coid, symbol |-> x.symbol, signed |-> x.signed,
                        limit |-> x.limit, cancelAt |-> Never, effective |-> e]
               y == Admitted(a, x, "live")
               z == Admitted(b, x, "back")
    <3>1. /\ y.working = Append(a.working, O(ea)) /\ y.submitted = a.submitted + 1
          /\ y.rejected = a.rejected /\ y.refused = a.refused /\ y.draws = a.draws + 1
      BY <1>2 DEF Admitted, Draw, Fields, ea
    <3>2. /\ z.working = Append(b.working, O(eb)) /\ z.submitted = b.submitted + 1
          /\ z.rejected = b.rejected /\ z.refused = b.refused /\ z.draws = b.draws + 1
      BY <1>2 DEF Admitted, Draw, Fields, eb
    <3> HIDE DEF y, z, O
    <3>3. y.draws \in Nat /\ z.draws \in Nat
      BY <1>7, <3>1, <3>2
    <3>4. SameDesk(y, z)
      BY <1>2, <1>6, <3>1, <3>2, <3>3 DEF SameDesk
    <3> QED BY <3>4 DEF y, z
  <2>5. SameDesk(Refused(a, x, "live"), Refused(b, x, "back"))
    <3> DEFINE y == Refused(a, x, "live")
               z == Refused(b, x, "back")
    <3>1. /\ y.working = a.working /\ y.submitted = a.submitted
          /\ y.rejected = a.rejected + 1 /\ y.draws = a.draws
          /\ y.refused = a.refused \union {[held |-> a.qty[x.symbol], signed |-> x.signed]}
      BY <1>2 DEF Refused, Fields
    <3>2. /\ z.working = b.working /\ z.submitted = b.submitted
          /\ z.rejected = b.rejected + 1 /\ z.draws = b.draws + 1
          /\ z.refused = b.refused \union {[held |-> b.qty[x.symbol], signed |-> x.signed]}
      BY <1>2 DEF Refused, Delayed, Draw, Later, Fields
    <3> HIDE DEF y, z
    <3>3. y.draws \in Nat /\ z.draws \in Nat
      BY <1>7, <3>1, <3>2
    <3>4. SameDesk(y, z)
      BY <1>2, <3>1, <3>2, <3>3 DEF SameDesk
    <3> QED BY <3>4 DEF y, z
  <2> HIDE DEF p, q
  <2>6. SameDesk(p, q)
    BY <1>2, <1>7, <2>2, <2>3, <2>4, <2>5 DEF Submit, SameDesk
  <2> QED BY <1>1, <2>6 DEF Alike, p, q
<1>4. CASE x.kind = "cancel"
  <2> DEFINE y == Cancel(a, x, "live")
             z == Cancel(b, x, "back")
             C(o, at) == IF o.coid = x.coid THEN [o EXCEPT !.cancelAt = at] ELSE o
             W(d, at) == [i \in DOMAIN d.working |-> C(d.working[i], at)]
             none == \A i \in DOMAIN a.working : a.working[i].coid # x.coid
  <2>1. p = y /\ q = z
    BY <1>4 DEF HandleAction
  <2>2. SameDesk(y, z)
    <3>1. CASE none
      <4>1. y = a /\ z = b
        BY <1>2, <3>1 DEF Cancel
      <4> HIDE DEF y, z
      <4> QED BY <1>2, <1>7, <4>1 DEF SameDesk
    <3>2. CASE ~none
      <4>1. /\ y.working = W(a, ea) /\ y.submitted = a.submitted /\ y.rejected = a.rejected
            /\ y.refused = a.refused /\ y.draws = a.draws + 1
        BY <1>2, <3>2 DEF Cancel, Draw, Fields, ea
      <4>2. /\ z.working = W(b, eb) /\ z.submitted = b.submitted /\ z.rejected = b.rejected
            /\ z.refused = b.refused /\ z.draws = b.draws + 1
        BY <1>2, <3>2 DEF Cancel, Draw, Fields, eb
      <4>3. W(a, ea) = W(b, eb)
        BY <1>2, <1>6
      <4> HIDE DEF y, z, W
      <4>4. y.draws \in Nat /\ z.draws \in Nat
        BY <1>7, <4>1, <4>2
      <4> QED BY <1>2, <4>1, <4>2, <4>3, <4>4 DEF SameDesk
    <3> QED BY <3>1, <3>2
  <2> HIDE DEF y, z
  <2> HIDE DEF p, q
  <2> QED BY <1>1, <2>1, <2>2 DEF Alike, p, q
<1>5. CASE x.kind \notin {"submit", "cancel"}
  <2>1. SameDesk(a, b)
    BY DEF Alike
  <2>2. p = a /\ q \in {b, Later(b, b.now + x.delay, [kind |-> "timer", n |-> b.now + x.delay])}
    BY <1>5 DEF HandleAction
  <2>3. SameDesk(b, Later(b, b.now + x.delay, [kind |-> "timer", n |-> b.now + x.delay]))
    BY <1>2 DEF Later, SameDesk, Fields
  <2> HIDE DEF p, q
  <2>4. SameDesk(p, q)
    BY <2>1, <2>2, <2>3 DEF SameDesk
  <2> QED BY <1>1, <2>4 DEF Alike, p, q
<1> QED BY <1>3, <1>4, <1>5

LEMMA TicksAlike ==
  ASSUME IsConfig, Steady, NEW a, IsDriver(a), NEW b, IsDriver(b), Alike(a, b)
  PROVE  Alike(Hear(a, Tick, "live"), Hear(b, Tick, "back"))
<1> DEFINE p == Told(a, Tick)
           q == Told(b, Tick)
           x == Answer("tick", a.seen["tick"] + 1)
<1>1. /\ Acted(a, p) /\ SameDesk(a, p)
      /\ p.seen = [a.seen EXCEPT !["tick"] = a.seen["tick"] + 1]
      /\ Acted(b, q) /\ SameDesk(b, q)
      /\ q.seen = [b.seen EXCEPT !["tick"] = b.seen["tick"] + 1]
  <2>1. Tick \in Events /\ Tick.kind = "tick"
    BY TickIsEvent DEF Tick
  <2> HIDE DEF p, q
  <2> QED BY <2>1, ToldKeeps DEF p, q
<1>2. a.seen["tick"] = b.seen["tick"]
  BY DEF Alike
<1>3. /\ Hear(a, Tick, "live") = HandleAction(p, x, "live")
      /\ Hear(b, Tick, "back") = HandleAction(q, x, "back")
  <2>1. Tick.kind = "tick"
    BY DEF Tick
  <2> QED BY <1>2, <2>1, HearIs
<1>4. x \in Actions \union {Silent}
  BY AnswerTyped
<1> HIDE DEF p, q, x
<1>5. p.seen["tick"] = q.seen["tick"]
  <2>1. a.seen \in [Kinds -> Nat] /\ b.seen \in [Kinds -> Nat] /\ "tick" \in Kinds
    BY DEF IsDriver, StrategyTyped, Kinds
  <2> QED BY <1>1, <1>2, <2>1
<1>6. Alike(p, q)
  BY <1>1, <1>5 DEF Alike, Acted, SameMarket, SameBook, SameDesk
<1> QED BY <1>1, <1>3, <1>4, <1>6, ActionsAlike DEF Acted
LEMMA ArrivalsAlike ==
  ASSUME IsConfig, NEW a, IsDriver(a), NEW b, IsDriver(b), Alike(a, b), NEW r, IsRecord(r)
  PROVE  Alike(Arrive(a, r), Arrive(b, r))
<1> DEFINE p == Arrive(a, r)
           q == Arrive(b, r)
<1>1. /\ SameBook(a, p) /\ SameDesk(a, p) /\ SameStrategy(a, p)
      /\ p.now = r.t /\ p.day = DayOf(r.t) /\ p.dayStart = DayStart(a, r.t)
      /\ p.view = [a.view EXCEPT ![r.symbol] = r.price]
      /\ p.peak = a.peak /\ p.equity = a.equity /\ p.paid = a.paid /\ p.last = a.last
      /\ p.navs = a.navs
  BY ArriveKeeps
<1>2. /\ SameBook(b, q) /\ SameDesk(b, q) /\ SameStrategy(b, q)
      /\ q.now = r.t /\ q.day = DayOf(r.t) /\ q.dayStart = DayStart(b, r.t)
      /\ q.view = [b.view EXCEPT ![r.symbol] = r.price]
      /\ q.peak = b.peak /\ q.equity = b.equity /\ q.paid = b.paid /\ q.last = b.last
      /\ q.navs = b.navs
  BY ArriveKeeps
<1> HIDE DEF p, q
<1>3. DayStart(a, r.t) = DayStart(b, r.t)
  <2>1. Nav(a) = Nav(b)
    BY SameNav DEF Alike, SameBook, SameMarket
  <2> QED BY <2>1 DEF DayStart, Alike, SameMarket
<1>4. SameMarket(p, q)
  BY <1>1, <1>2, <1>3 DEF Alike, SameMarket
<1>5. SameBook(p, q) /\ SameDesk(p, q) /\ p.seen["tick"] = q.seen["tick"]
  BY <1>1, <1>2 DEF Alike, SameBook, SameDesk, SameStrategy
<1>6. Alike(p, q)
  BY <1>4, <1>5 DEF Alike
<1> QED BY <1>6 DEF p, q

LEMMA SettlementsAlike ==
  ASSUME IsConfig, NEW a, IsDriver(a), NEW b, IsDriver(b), Alike(a, b), a.day \in Int,
         NEW r, IsRecord(r), NEW t0 \in Int
  PROVE  Alike(Settle(a, r, t0), Settle(b, r, t0))
<1> DEFINE m == Mark(a, r)
           n == Mark(b, r)
           p == Settle(a, r, t0)
           q == Settle(b, r, t0)
<1>1. /\ a.now = b.now /\ a.day = b.day /\ a.dayStart = b.dayStart /\ a.peak = b.peak
      /\ a.equity = b.equity /\ a.paid = b.paid /\ a.view = b.view /\ a.last = b.last
      /\ a.navs = b.navs /\ a.qty = b.qty /\ a.cash = b.cash /\ a.known = b.known
      /\ a.blotter = b.blotter /\ a.seen["tick"] = b.seen["tick"]
  BY DEF Alike, SameMarket, SameBook
<1>2. /\ SameBook(a, m) /\ m.now = a.now /\ m.paid = a.paid
      /\ m.last = IF r.symbol \in a.known THEN [a.last EXCEPT ![r.symbol] = a.view[r.symbol]]
                                         ELSE a.last
  BY MarkKeeps
<1>3. /\ SameBook(b, n) /\ n.now = b.now /\ n.paid = b.paid
      /\ n.last = IF r.symbol \in b.known THEN [b.last EXCEPT ![r.symbol] = b.view[r.symbol]]
                                         ELSE b.last
  BY MarkKeeps
<1>4. /\ SameDesk(a, p) /\ SameStrategy(a, p)
      /\ p.qty = a.qty /\ p.known = a.known /\ p.blotter = a.blotter
      /\ p.now = a.now /\ p.day = a.day /\ p.dayStart = a.dayStart /\ p.view = a.view
      /\ p.last = m.last
      /\ p.cash = m.cash - Financing(m, t0) /\ p.paid = m.paid + Financing(m, t0)
      /\ p.equity = Nav(p) /\ p.peak = (IF Nav(p) > a.peak THEN Nav(p) ELSE a.peak)
      /\ p.navs = Append(a.navs, [day |-> a.day, nav |-> Nav(p)])
  BY SettleKeeps
<1>5. /\ SameDesk(b, q) /\ SameStrategy(b, q)
      /\ q.qty = b.qty /\ q.known = b.known /\ q.blotter = b.blotter
      /\ q.now = b.now /\ q.day = b.day /\ q.dayStart = b.dayStart /\ q.view = b.view
      /\ q.last = n.last
      /\ q.cash = n.cash - Financing(n, t0) /\ q.paid = n.paid + Financing(n, t0)
      /\ q.equity = Nav(q) /\ q.peak = (IF Nav(q) > b.peak THEN Nav(q) ELSE b.peak)
      /\ q.navs = Append(b.navs, [day |-> b.day, nav |-> Nav(q)])
  BY <1>1, SettleKeeps
<1> HIDE DEF m, n, p, q
<1>6. m.last = n.last /\ m.qty = n.qty /\ m.cash = n.cash /\ m.now = n.now /\ m.paid = n.paid
  BY <1>1, <1>2, <1>3 DEF SameBook
<1>7. Financing(m, t0) = Financing(n, t0)
  BY <1>6, SameNav DEF Financing
<1>8. p.last = q.last /\ p.cash = q.cash /\ p.qty = q.qty /\ p.paid = q.paid
  BY <1>1, <1>4, <1>5, <1>6, <1>7
<1>9. Nav(p) = Nav(q)
  BY <1>8, SameNav
<1>10. SameMarket(p, q)
  BY <1>1, <1>4, <1>5, <1>8, <1>9 DEF SameMarket
<1>11. SameBook(p, q) /\ SameDesk(p, q) /\ p.seen["tick"] = q.seen["tick"]
  BY <1>1, <1>4, <1>5, <1>8 DEF Alike, SameBook, SameDesk, SameStrategy
<1>12. Alike(p, q)
  BY <1>10, <1>11 DEF Alike
<1> QED BY <1>12 DEF p, q

LEMMA StepsAlike ==
  ASSUME IsConfig, ActsOnMarketOnly, Steady, fed \in Nat, NEW a, IsDriver(a), NEW b, IsDriver(b),
         Alike(a, b), NEW r, IsRecord(r)
  PROVE  Alike(LiveStep(a, r), BackStep(b, r))
<1> DEFINE a0 == Arrive(a, r)
           b0 == Arrive(b, r)
           b1 == ReleaseInbound(b0)
           a2 == Match(a0, r, "live")
           b2 == Match(b1, r, "back")
           a3 == LiveRan(a, r)
           b3 == BackRan(b, r)
           t0 == FirstTime(a, r)
<1>1. IsDriver(a0) /\ IsDriver(b0)
  BY ArriveKeeps
<1>2. a0.day = DayOf(r.t)
  BY ArriveKeeps, ZenonT(40)
<1>3. Alike(a0, b0)
  BY ArrivalsAlike
<1> HIDE DEF a0, b0
<1>4. IsDriver(b1) /\ Alike(a0, b1)
  BY <1>1, <1>3, ReleaseKeeps, ReleaseChangesNothing, AlikeIsEquality DEF Ran
<1> HIDE DEF b1
<1>5. Alike(a2, b2) /\ IsDriver(a2) /\ IsDriver(b2)
  BY <1>1, <1>4, MatchesAlike, MatchKeeps, RecordsAreQuotes DEF Ran, Drivings
<1> HIDE DEF a2, b2
<1>6. Alike(Hear(a2, Tick, "live"), Hear(b2, Tick, "back"))
  BY <1>5, TicksAlike
<1>7. a3 = Hear(a2, Tick, "live") /\ b3 = Hear(b2, Tick, "back")
  BY DEF LiveRan, BackRan, a2, b2, b1, a0, b0
<1>8. IsDriver(a3) /\ IsDriver(b3) /\ a3.day = a0.day
  BY LiveRuns, BackRuns DEF Ran, SameMarket, a0
<1>9. a3.day \in Int
  BY <1>2, <1>8, DayOfTyped DEF IsRecord
<1>10. t0 \in Int /\ t0 = FirstTime(b, r)
  <2>1. a.now = b.now /\ a.now \in Int /\ r.t \in Int
    BY DEF Alike, SameMarket, IsDriver, MarketTyped, IsRecord
  <2> QED BY <2>1 DEF FirstTime
<1> HIDE DEF a3, b3, t0
<1>11. Alike(Settle(a3, r, t0), Settle(b3, r, t0))
  BY <1>6, <1>7, <1>8, <1>9, <1>10, SettlementsAlike
<1> QED BY <1>10, <1>11, StepsAre DEF a3, b3, t0

InParity == ActsOnMarketOnly /\ Steady /\ NoneLate /\ ~ended => Alike(live, back)

LEMMA ParityStep == IInv /\ InParity /\ [Next]_vars => InParity'
<1> SUFFICES ASSUME IInv, InParity, [Next]_vars,
                    ActsOnMarketOnly', Steady', NoneLate', ~ended'
             PROVE  Alike(live', back')
  BY DEF InParity
<1>1. CASE UNCHANGED vars
  <2>1. ActsOnMarketOnly /\ Steady /\ NoneLate /\ ~ended
    BY <1>1 DEF vars, ActsOnMarketOnly, Steady, NoJitter, NoneLate, Dropped
  <2> QED BY <1>1, <2>1 DEF vars, InParity
<1>2. CASE Finish
  BY <1>2 DEF Finish
<1>3. ASSUME NEW s \in Symbols, NEW p \in Prices, NEW dt \in Steps,
             Step([symbol |-> s, price |-> p, t |-> live.now + dt])
      PROVE  Alike(live', back')
  <2> DEFINE r == [symbol |-> s, price |-> p, t |-> live.now + dt]
  <2>1. /\ IsConfig /\ fed \in Nat /\ IsDriver(live) /\ IsDriver(back)
        /\ cfg' = cfg /\ ~ended /\ Taken
    BY <1>3 DEF IInv, StateTyped, IsConfig, Step, Both
  <2>2. live.now \in Int /\ p \in Nat /\ dt \in Int
    BY <2>1, ConfigTyped DEF IsDriver, MarketTyped
  <2>3. IsRecord(r)
    BY <2>2 DEF IsRecord
  <2>4. /\ live' = LiveStep(live, r) /\ fed' = fed + 1
        /\ back' = IF IsLate(r) THEN back ELSE BackStep(back, r)
    BY <1>3 DEF Step
  <2> HIDE DEF r
  <2>5. Len(back'.navs) = fed + 1
    BY <2>1, <2>4 DEF NoneLate, Dropped, Taken
  <2>6. ~IsLate(r)
    BY <2>1, <2>4, <2>5 DEF Taken
  <2>7. Len(BackStep(back, r).navs) = Len(back.navs) + 1
    BY <2>1, <2>3, StepsAre, BackRuns, DriverSteps DEF IInv, Both
  <2>8. ActsOnMarketOnly /\ Steady /\ NoneLate
    BY <2>1, <2>4, <2>5, <2>6, <2>7 DEF ActsOnMarketOnly, Steady, NoJitter, NoneLate, Dropped, Taken
  <2>9. Alike(live, back)
    BY <2>1, <2>8 DEF InParity
  <2> QED BY <2>1, <2>3, <2>4, <2>6, <2>8, <2>9, StepsAlike
<1> QED BY <1>1, <1>2, <1>3 DEF Next

(* One strategy and one record sequence give the same fills, counters and  *)
(* NAV in the live runner and in the backtest, for every strategy that     *)
(* acts on market events, every limit, latency without jitter and fee, as  *)
(* long as no record is late (test_parity.ml).                             *)
THEOREM DriversAlwaysAgree == Spec => []DriversAgree
<1>1. Init => InParity
  BY AlikeIsEquality DEF Init, InParity
<1>2. IInv /\ InParity => DriversAgree
  <2> SUFFICES ASSUME Alike(live, back)
               PROVE  /\ live.blotter = back.blotter
                      /\ live.submitted = back.submitted /\ live.rejected = back.rejected
                      /\ Nav(live) = Nav(back)
    BY DEF InParity, DriversAgree, Steady
  <2> QED BY SameNav DEF Alike, SameMarket, SameBook, SameDesk
<1> QED BY <1>1, <1>2, ParityStep, DriversInvariant, PTL DEF Spec
-----------------------------------------------------------------------------
(* What the fills of a blotter add up to. *)

Fills == [coid : Nat, symbol : Symbols, signed : Int, price : Nat]

Gain(f, view) == f.signed * (view[f.symbol] - f.price)
Gains(b, view) == [i \in DOMAIN b |-> Gain(b[i], view)]
MadeBy(b, view) == SumFunction(Gains(b, view))

LEMMA MadeIs ==
  ASSUME NEW d
  PROVE  Made(d) = MadeBy(d.blotter, d.view)
BY DEF Made, MadeBy, Gains, Gain

LEMMA BlotterGrows ==
  ASSUME NEW b \in Seq(Fills), NEW f \in Fills
  PROVE  LET c == Append(b, f)
         IN  /\ c \in Seq(Fills) /\ Len(b) \in Nat /\ Len(c) = Len(b) + 1
             /\ DOMAIN b = 1 .. Len(b) /\ DOMAIN c = 1 .. Len(b) + 1
             /\ c[Len(b) + 1] = f /\ \A i \in 1 .. Len(b) : c[i] = b[i] /\ b[i] \in Fills
             /\ IsFiniteSet(DOMAIN b) /\ IsFiniteSet(DOMAIN c)
<1>1. Len(b) \in Nat /\ DOMAIN b = 1 .. Len(b) /\ \A i \in 1 .. Len(b) : b[i] \in Fills
  OBVIOUS
<1>2. /\ Append(b, f) \in Seq(Fills) /\ Len(Append(b, f)) = Len(b) + 1
      /\ Append(b, f)[Len(b) + 1] = f /\ \A i \in 1 .. Len(b) : Append(b, f)[i] = b[i]
      /\ DOMAIN Append(b, f) = 1 .. Len(b) + 1
  BY <1>1, AppendProperties
<1>3. IsFiniteSet(1 .. Len(b)) /\ IsFiniteSet(1 .. Len(b) + 1)
  BY <1>1, FS_Interval
<1> QED BY <1>1, <1>2, <1>3

(* One more fill: one more summand. *)
LEMMA SumGrows ==
  ASSUME NEW n \in Nat, NEW f \in [1 .. n -> Int], NEW g \in [1 .. n + 1 -> Int],
         \A i \in 1 .. n : g[i] = f[i]
  PROVE  SumFunction(g) = SumFunction(f) + g[n + 1]
<1>1. IsFiniteSet(1 .. n) /\ IsFiniteSet(1 .. n + 1) /\ n + 1 \in 1 .. n + 1
  BY FS_Interval
<1>2. SumFunction(g) = g[n + 1] + SumFunction(Without(g, n + 1))
  BY <1>1, SumTakes
<1>3. Without(g, n + 1) = f
  <2>1. (1 .. n + 1) \ {n + 1} = 1 .. n
    OBVIOUS
  <2> QED BY <2>1 DEF Without
<1>4. SumFunction(f) \in Int /\ g[n + 1] \in Int
  BY <1>1, SumIsInt
<1> QED BY <1>2, <1>3, <1>4

LEMMA FillsTyped ==
  ASSUME NEW b \in Seq(Fills), NEW s, NEW view \in [Symbols -> Nat]
  PROVE  /\ Bought(b, s) \in [1 .. Len(b) -> Int] /\ Gains(b, view) \in [1 .. Len(b) -> Int]
         /\ Holding(b, s) \in Int /\ MadeBy(b, view) \in Int
<1>1. /\ Len(b) \in Nat /\ DOMAIN b = 1 .. Len(b)
      /\ \A i \in 1 .. Len(b) : b[i] \in Fills
  OBVIOUS
<1>2. \A f \in Fills : Gain(f, view) \in Int /\ f.signed \in Int
  BY DEF Fills, Gain
<1>3. Bought(b, s) \in [1 .. Len(b) -> Int] /\ Gains(b, view) \in [1 .. Len(b) -> Int]
  BY <1>1, <1>2 DEF Bought, Gains
<1>4. IsFiniteSet(1 .. Len(b))
  BY <1>1, FS_Interval
<1>5. SumFunction(Bought(b, s)) \in Int /\ SumFunction(Gains(b, view)) \in Int
  BY <1>3, <1>4, SumIsInt
<1> QED BY <1>3, <1>5 DEF Holding, MadeBy

LEMMA HoldingGrows ==
  ASSUME NEW b \in Seq(Fills), NEW f \in Fills, NEW s
  PROVE  Holding(Append(b, f), s) = Holding(b, s) + (IF f.symbol = s THEN f.signed ELSE 0)
<1> DEFINE c == Append(b, f)
<1>1. /\ c \in Seq(Fills) /\ Len(b) \in Nat /\ Len(c) = Len(b) + 1
      /\ DOMAIN b = 1 .. Len(b) /\ DOMAIN c = 1 .. Len(b) + 1
      /\ c[Len(b) + 1] = f /\ \A i \in 1 .. Len(b) : c[i] = b[i]
  BY BlotterGrows
<1> HIDE DEF c
<1>2. \E view : view \in [Symbols -> Nat]
  <2>1. [t \in Symbols |-> 0] \in [Symbols -> Nat]
    OBVIOUS
  <2> QED BY <2>1
<1>3. Bought(b, s) \in [1 .. Len(b) -> Int] /\ Bought(c, s) \in [1 .. Len(b) + 1 -> Int]
  BY <1>1, <1>2, FillsTyped
<1>4. /\ \A i \in 1 .. Len(b) : Bought(c, s)[i] = Bought(b, s)[i]
      /\ Bought(c, s)[Len(b) + 1] = IF f.symbol = s THEN f.signed ELSE 0
  BY <1>1 DEF Bought
<1> QED BY <1>1, <1>3, <1>4, SumGrows DEF Holding, c

LEMMA MadeGrows ==
  ASSUME NEW b \in Seq(Fills), NEW f \in Fills, NEW view \in [Symbols -> Nat]
  PROVE  MadeBy(Append(b, f), view) = MadeBy(b, view) + Gain(f, view)
<1> DEFINE c == Append(b, f)
<1>1. /\ c \in Seq(Fills) /\ Len(b) \in Nat /\ Len(c) = Len(b) + 1
      /\ DOMAIN b = 1 .. Len(b) /\ DOMAIN c = 1 .. Len(b) + 1
      /\ c[Len(b) + 1] = f /\ \A i \in 1 .. Len(b) : c[i] = b[i]
  BY BlotterGrows
<1> HIDE DEF c
<1>2. Gains(b, view) \in [1 .. Len(b) -> Int] /\ Gains(c, view) \in [1 .. Len(b) + 1 -> Int]
  BY <1>1, FillsTyped
<1>3. /\ \A i \in 1 .. Len(b) : Gains(c, view)[i] = Gains(b, view)[i]
      /\ Gains(c, view)[Len(b) + 1] = Gain(f, view)
  BY <1>1 DEF Gains
<1> QED BY <1>1, <1>2, <1>3, SumGrows DEF MadeBy, c

(* A new price of a symbol is made by all that is held of it. *)
LEMMA MadeReprices ==
  ASSUME NEW b \in Seq(Fills), NEW view \in [Symbols -> Nat], NEW new \in [Symbols -> Nat],
         NEW s \in Symbols, \A t \in Symbols : t # s => new[t] = view[t]
  PROVE  MadeBy(b, new) = MadeBy(b, view) + Holding(b, s) * (new[s] - view[s])
<1> DEFINE p == new[s]
           OK(c) == MadeBy(c, new) = MadeBy(c, view) + Holding(c, s) * (p - view[s])
           P == {n \in Nat : n <= Len(b) => OK(SubSeq(b, 1, n))}
<1>0. new[s] = p /\ p \in Nat /\ view[s] \in Nat
  OBVIOUS
<1> HIDE DEF p
<1>1. Len(b) \in Nat /\ \A i \in 1 .. Len(b) : b[i] \in Fills
  OBVIOUS
<1>2. 0 \in P
  <2>1. SubSeq(b, 1, 0) = <<>>
    OBVIOUS
  <2>2. /\ Bought(<<>>, s) \in [{} -> Int] /\ Gains(<<>>, view) \in [{} -> Int]
        /\ Gains(<<>>, new) \in [{} -> Int]
    BY DEF Bought, Gains
  <2>3. Holding(<<>>, s) = 0 /\ MadeBy(<<>>, view) = 0 /\ MadeBy(<<>>, new) = 0
    BY <2>2, SumOfNone DEF Holding, MadeBy
  <2>4. OK(<<>>)
    BY <1>0, <2>3
  <2> HIDE DEF OK
  <2> QED BY <2>1, <2>4
<1>3. ASSUME NEW n \in Nat, n \in P PROVE n + 1 \in P
  <2> SUFFICES ASSUME n + 1 <= Len(b) PROVE OK(SubSeq(b, 1, n + 1))
    OBVIOUS
  <2> DEFINE c == SubSeq(b, 1, n)
             f == b[n + 1]
  <2>1. f \in Fills /\ c \in Seq(Fills) /\ n <= Len(b)
    BY <1>1
  <2>2. SubSeq(b, 1, n + 1) = Append(c, f)
    BY <1>1
  <2>3. OK(c)
    BY <1>3, <2>1
  <2> HIDE DEF c, f
  <2>4. Holding(c, s) \in Int /\ MadeBy(c, view) \in Int /\ MadeBy(c, new) \in Int
    BY <1>0, <2>1, FillsTyped
  <2>5. /\ MadeBy(Append(c, f), new) = MadeBy(c, new) + Gain(f, new)
        /\ MadeBy(Append(c, f), view) = MadeBy(c, view) + Gain(f, view)
        /\ Holding(Append(c, f), s) = Holding(c, s) + (IF f.symbol = s THEN f.signed ELSE 0)
    BY <1>0, <2>1, MadeGrows, HoldingGrows
  <2>6. f.signed \in Int /\ f.price \in Nat /\ f.symbol \in Symbols
    BY <2>1 DEF Fills
  <2>7. Gain(f, new) = Gain(f, view) + (IF f.symbol = s THEN f.signed ELSE 0) * (p - view[s])
    <3>1. CASE f.symbol = s
      BY <1>0, <2>6, <3>1 DEF Gain
    <3>2. CASE f.symbol # s
      BY <1>0, <2>6, <3>2 DEF Gain
    <3> QED BY <3>1, <3>2
  <2>8. Gain(f, view) \in Int /\ (IF f.symbol = s THEN f.signed ELSE 0) \in Int
    BY <2>6 DEF Gain
  <2>9. OK(Append(c, f))
    <3> DEFINE h == Holding(c, s)
               k == IF f.symbol = s THEN f.signed ELSE 0
               x == p - view[s]
    <3>1. h \in Int /\ k \in Int /\ x \in Int /\ Holding(Append(c, f), s) = h + k
      BY <1>0, <2>4, <2>5, <2>8
    <3>2. MadeBy(c, new) = MadeBy(c, view) + h * x /\ Gain(f, new) = Gain(f, view) + k * x
      BY <2>3, <2>7
    <3> HIDE DEF h, k, x
    <3>3. (h + k) * x = h * x + k * x /\ h * x \in Int /\ k * x \in Int
      BY <3>1
    <3>4. MadeBy(Append(c, f), new) = MadeBy(Append(c, f), view) + (h + k) * x
      BY <2>4, <2>5, <2>8, <3>2, <3>3
    <3> QED BY <3>1, <3>4 DEF x
  <2> QED BY <2>2, <2>9
<1> HIDE DEF P, OK
<1>4. Len(b) \in P
  BY <1>1, <1>2, <1>3, Induction
<1>5. SubSeq(b, 1, Len(b)) = b
  OBVIOUS
<1>6. OK(SubSeq(b, 1, Len(b)))
  BY <1>1, <1>4 DEF P
<1>7. OK(b)
  BY <1>5, <1>6
<1> QED BY <1>0, <1>7 DEF OK
-----------------------------------------------------------------------------
(* The book at the prices last seen. *)

Positions(qty, prices) == [s \in Symbols |-> qty[s] * prices[s]]
Worth(d) == d.cash + SumFunction(Positions(d.qty, d.view))

LEMMA PositionsTyped ==
  ASSUME NEW qty \in [Symbols -> Int], NEW prices \in [Symbols -> Nat]
  PROVE  /\ Positions(qty, prices) \in [Symbols -> Int]
         /\ SumFunction(Positions(qty, prices)) \in Int
<1>1. Positions(qty, prices) \in [Symbols -> Int]
  BY DEF Positions
<1> QED BY <1>1, SumIsInt, SymbolsAssumption

LEMMA PositionTraded ==
  ASSUME NEW qty \in [Symbols -> Int], NEW new \in [Symbols -> Int],
         NEW prices \in [Symbols -> Nat], NEW s \in Symbols,
         \A t \in Symbols : t # s => new[t] = qty[t]
  PROVE  SumFunction(Positions(new, prices)) =
           SumFunction(Positions(qty, prices)) + (new[s] - qty[s]) * prices[s]
<1> DEFINE f == Positions(qty, prices)
           g == Positions(new, prices)
           q == new[s]
<1>1. q \in Int /\ qty[s] \in Int /\ prices[s] \in Nat
  OBVIOUS
<1>2. /\ f \in [Symbols -> Int] /\ g \in [Symbols -> Int]
      /\ f[s] = qty[s] * prices[s] /\ g[s] = q * prices[s]
      /\ \A t \in Symbols : t # s => g[t] = f[t]
  BY <1>1, PositionsTyped DEF Positions
<1>3. SumFunction(f) \in Int
  BY PositionsTyped
<1> HIDE DEF f, g
<1>4. SumFunction(g) = SumFunction(f) + g[s] - f[s]
  BY <1>2, SumChanges, SymbolsAssumption
<1>5. (q - qty[s]) * prices[s] = q * prices[s] - qty[s] * prices[s]
  BY <1>1
<1>6. q * prices[s] \in Int /\ qty[s] * prices[s] \in Int
  BY <1>1
<1> QED BY <1>2, <1>3, <1>4, <1>5, <1>6 DEF f, g

LEMMA PositionRepriced ==
  ASSUME NEW qty \in [Symbols -> Int], NEW prices \in [Symbols -> Nat],
         NEW new \in [Symbols -> Nat], NEW s \in Symbols,
         \A t \in Symbols : t # s => new[t] = prices[t]
  PROVE  SumFunction(Positions(qty, new)) =
           SumFunction(Positions(qty, prices)) + qty[s] * (new[s] - prices[s])
<1> DEFINE f == Positions(qty, prices)
           g == Positions(qty, new)
           p == new[s]
<1>1. p \in Nat /\ qty[s] \in Int /\ prices[s] \in Nat
  OBVIOUS
<1>2. /\ f \in [Symbols -> Int] /\ g \in [Symbols -> Int]
      /\ f[s] = qty[s] * prices[s] /\ g[s] = qty[s] * p
      /\ \A t \in Symbols : t # s => g[t] = f[t]
  BY <1>1, PositionsTyped DEF Positions
<1>3. SumFunction(f) \in Int
  BY PositionsTyped
<1> HIDE DEF f, g, p
<1>4. SumFunction(g) = SumFunction(f) + g[s] - f[s]
  BY <1>2, SumChanges, SymbolsAssumption
<1>5. qty[s] * (p - prices[s]) = qty[s] * p - qty[s] * prices[s]
  BY <1>1
<1>6. qty[s] * p \in Int /\ qty[s] * prices[s] \in Int
  BY <1>1
<1> QED BY <1>2, <1>3, <1>4, <1>5, <1>6 DEF f, g, p

(* Only fills that cover in part are not added by Position.add_trade.      *)
LEMMA AddsOtherwise ==
  ASSUME NEW q \in Int, NEW s \in Int, ~(q < 0 /\ s >= 0 /\ q + s # 0)
  PROVE  AddTrade(q, s) = q + s
BY DEF AddTrade

LEMMA NoCoverBefore ==
  ASSUME NEW b \in Seq(Fills), NEW f \in Fills, ~CoversInPart(Append(b, f))
  PROVE  /\ ~CoversInPart(b)
         /\ AddTrade(Holding(b, f.symbol), f.signed) = Holding(b, f.symbol) + f.signed
<1> DEFINE c == Append(b, f)
           n == Len(b)
<1>1. /\ n \in Nat /\ DOMAIN b = 1 .. n /\ DOMAIN c = 1 .. n + 1
      /\ c[n + 1] = f /\ \A i \in 1 .. n : c[i] = b[i]
  BY BlotterGrows
<1>2. \A i \in 1 .. n + 1 : SubSeq(c, 1, i - 1) = SubSeq(b, 1, i - 1)
  OBVIOUS
<1>3. SubSeq(b, 1, n) = b
  OBVIOUS
<1> HIDE DEF c, n
<1>4. ~CoversInPart(c)
  BY DEF c
<1>5. ASSUME CoversInPart(b) PROVE FALSE
  <2>1. PICK i \in 1 .. n : LET held == Holding(SubSeq(b, 1, i - 1), b[i].symbol)
                            IN  held < 0 /\ b[i].signed >= 0 /\ held + b[i].signed # 0
    BY <1>1, <1>5 DEF CoversInPart
  <2>2. i \in 1 .. n + 1 /\ c[i] = b[i] /\ SubSeq(c, 1, i - 1) = SubSeq(b, 1, i - 1)
    BY <1>1, <1>2
  <2>3. CoversInPart(c)
    BY <1>1, <2>1, <2>2 DEF CoversInPart
  <2> QED BY <1>4, <2>3
<1>6. n + 1 \in 1 .. n + 1 /\ (n + 1) - 1 = n
  BY <1>1
<1>7. SubSeq(c, 1, (n + 1) - 1) = b
  BY <1>2, <1>3, <1>6
<1>8. LET held == Holding(b, f.symbol)
      IN  ~(held < 0 /\ f.signed >= 0 /\ held + f.signed # 0)
  BY <1>1, <1>4, <1>6, <1>7 DEF CoversInPart
<1>9. Holding(b, f.symbol) \in Int /\ f.signed \in Int
  <2>1. [s \in Symbols |-> 0] \in [Symbols -> Nat]
    OBVIOUS
  <2> QED BY <2>1, FillsTyped DEF Fills
<1> QED BY <1>5, <1>8, <1>9, AddsOtherwise

(* The inductive invariant of the book: unless a short was ever covered in *)
(* part, each position is what its fills add up to, and the book is worth  *)
(* what they have made.                                                    *)
Books(d) ==
  /\ d.blotter \in Seq(Fills)
  /\ \A s \in Symbols \ d.known : d.qty[s] = 0
  /\ ~CoversInPart(d.blotter) =>
       /\ \A s \in Symbols : d.qty[s] = Holding(d.blotter, s)
       /\ Worth(d) = Capital + MadeBy(d.blotter, d.view) - cfg.fee * Len(d.blotter) - d.paid

(* Positions but that of s are marked at the last price. *)
MarkedBut(d, s) == \A t \in d.known \ {s} : d.last[t] = d.view[t]
Marked(d) == \A t \in d.known : d.last[t] = d.view[t]

LEMMA SameBooks ==
  ASSUME NEW d, NEW e, SameMarket(d, e), SameBook(d, e)
  PROVE  (Books(d) => Books(e)) /\ \A s : MarkedBut(d, s) => MarkedBut(e, s)
<1>1. Worth(d) = Worth(e)
  BY DEF Worth, SameMarket, SameBook
<1> QED BY <1>1 DEF Books, MarkedBut, SameMarket, SameBook
(* A fill at the last price. *)
LEMMA FillBooks ==
  ASSUME IsConfig, NEW d, IsDriver(d), Books(d), NEW o \in WorkingOrders
  PROVE  LET e == BookFill(d, o, d.view[o.symbol])
         IN  Books(e) /\ (MarkedBut(d, o.symbol) => MarkedBut(e, o.symbol))
<1> DEFINE s == o.symbol
           p == d.view[s]
           e == BookFill(d, o, p)
           f == [coid |-> o.coid, symbol |-> o.symbol, signed |-> o.signed, price |-> p]
           q == AddTrade(d.qty[s], o.signed)
           L == Len(d.blotter)
<1>1. /\ s \in Symbols /\ o.signed \in Int /\ o.coid \in Nat /\ cfg.fee \in Nat /\ Capital \in Nat
      /\ d.view \in [Symbols -> Nat] /\ p \in Nat /\ d.qty \in [Symbols -> Int] /\ d.cash \in Int
      /\ d.known \subseteq Symbols /\ L \in Nat /\ d.paid \in Int
  BY ConfigTyped DEF WorkingOrders, IsDriver, MarketTyped, BookTyped
<1>2. f \in Fills /\ f.symbol = s /\ f.signed = o.signed /\ Gain(f, d.view) = 0
  BY <1>1 DEF Fills, Gain
<1>3. /\ e.qty = [d.qty EXCEPT ![s] = q] /\ e.cash = d.cash - o.signed * p - cfg.fee
      /\ e.known = d.known \union {s} /\ e.blotter = Append(d.blotter, f)
      /\ e.view = d.view /\ e.last = d.last /\ e.paid = d.paid
  BY DEF IsDriver, Fields, BookFill, Trade
<1>4. q \in Int
  BY <1>1 DEF AddTrade
<1>5. d.blotter \in Seq(Fills)
  BY DEF Books
<1>6. e.blotter \in Seq(Fills) /\ Len(e.blotter) = L + 1
  BY <1>2, <1>3, <1>5, AppendProperties
<1> HIDE DEF e, f, q, L, s, p
<1>7. \A t \in Symbols \ e.known : e.qty[t] = 0
  BY <1>1, <1>3, <1>4 DEF Books
<1>8. ASSUME ~CoversInPart(e.blotter)
      PROVE  /\ \A t \in Symbols : e.qty[t] = Holding(e.blotter, t)
             /\ Worth(e) = Capital + MadeBy(e.blotter, e.view) - cfg.fee * Len(e.blotter) - e.paid
  <2>1. /\ ~CoversInPart(d.blotter)
        /\ AddTrade(Holding(d.blotter, s), o.signed) = Holding(d.blotter, s) + o.signed
    BY <1>2, <1>3, <1>5, <1>8, NoCoverBefore
  <2>2. /\ \A t \in Symbols : d.qty[t] = Holding(d.blotter, t)
        /\ Worth(d) = Capital + MadeBy(d.blotter, d.view) - cfg.fee * L - d.paid
    BY <2>1 DEF Books, L
  <2>3. q = d.qty[s] + o.signed
    BY <1>1, <2>1, <2>2 DEF q
  <2>4. ASSUME NEW t \in Symbols PROVE e.qty[t] = Holding(e.blotter, t)
    <3>1. Holding(e.blotter, t) = Holding(d.blotter, t) + (IF f.symbol = t THEN f.signed ELSE 0)
      BY <1>2, <1>3, <1>5, HoldingGrows
    <3>2. CASE t = s
      BY <1>1, <1>2, <1>3, <2>2, <2>3, <3>1, <3>2
    <3>3. CASE t # s
      <4>1. Holding(e.blotter, t) = d.qty[t] + 0 /\ d.qty[t] \in Int /\ e.qty[t] = d.qty[t]
        BY <1>1, <1>2, <1>3, <2>2, <3>1, <3>3
      <4> QED BY <4>1
    <3> QED BY <3>2, <3>3
  <2>5. SumFunction(Positions(e.qty, d.view)) =
          SumFunction(Positions(d.qty, d.view)) + (q - d.qty[s]) * d.view[s]
    <3>1. /\ e.qty \in [Symbols -> Int] /\ e.qty[s] = q
          /\ \A t \in Symbols : t # s => e.qty[t] = d.qty[t]
      BY <1>1, <1>3, <1>4
    <3> QED BY <1>1, <3>1, PositionTraded
  <2>6. (q - d.qty[s]) * d.view[s] = o.signed * p /\ o.signed * p \in Int
    BY <1>1, <2>3 DEF p
  <2>7. MadeBy(e.blotter, d.view) = MadeBy(d.blotter, d.view) + Gain(f, d.view)
    BY <1>1, <1>2, <1>3, <1>5, MadeGrows
  <2>8. MadeBy(d.blotter, d.view) \in Int /\ SumFunction(Positions(d.qty, d.view)) \in Int
    BY <1>1, <1>5, FillsTyped, PositionsTyped
  <2>9. Worth(e) = Worth(d) - cfg.fee /\ Worth(d) \in Int
    BY <1>1, <1>3, <2>5, <2>6, <2>8, SMTT(30) DEF Worth
  <2>10. cfg.fee * (L + 1) = cfg.fee * L + cfg.fee /\ cfg.fee * L \in Int
    BY <1>1
  <2>11. MadeBy(e.blotter, e.view) = MadeBy(d.blotter, d.view)
    BY <1>2, <1>3, <2>7, <2>8
  <2> HIDE DEF p
  <2>12. Worth(e) = Capital + MadeBy(e.blotter, e.view) - cfg.fee * Len(e.blotter) - e.paid
    <3> DEFINE a == cfg.fee * L
               k == MadeBy(d.blotter, d.view)
               w == Worth(d)
    <3>1. /\ cfg.fee * Len(e.blotter) = a + cfg.fee /\ a \in Int /\ k \in Int /\ w \in Int
          /\ Worth(e) = w - cfg.fee /\ w = Capital + k - a - d.paid /\ e.paid = d.paid
          /\ MadeBy(e.blotter, e.view) = k
      BY <1>3, <1>6, <2>2, <2>8, <2>9, <2>10, <2>11
    <3> HIDE DEF a, k, w
    <3> QED BY <1>1, <3>1, SMTT(30)
  <2> QED BY <2>4, <2>12
<1>9. Books(e)
  BY <1>6, <1>7, <1>8 DEF Books
<1>10. MarkedBut(d, s) => MarkedBut(e, s)
  BY <1>3 DEF MarkedBut
<1> QED BY <1>9, <1>10 DEF e, s, p

(* A record's price, before it is matched. *)
LEMMA ArriveBooks ==
  ASSUME IsConfig, NEW d, IsDriver(d), Books(d), Marked(d), NEW r, IsRecord(r)
  PROVE  LET e == Arrive(d, r)
         IN  Books(e) /\ MarkedBut(e, r.symbol) /\ e.view[r.symbol] = r.price
<1> DEFINE e == Arrive(d, r)
           s == r.symbol
           x == r.price - d.view[s]
<1>1. /\ SameBook(d, e) /\ e.view = [d.view EXCEPT ![s] = r.price]
      /\ e.paid = d.paid /\ e.last = d.last
  BY ArriveKeeps
<1> HIDE DEF e
<1>2. /\ e.qty = d.qty /\ e.cash = d.cash /\ e.known = d.known /\ e.blotter = d.blotter
  BY <1>1 DEF SameBook
<1>3. /\ s \in Symbols /\ r.price \in Nat /\ d.view \in [Symbols -> Nat]
      /\ d.qty \in [Symbols -> Int] /\ d.cash \in Int /\ d.known \subseteq Symbols
      /\ d.blotter \in Seq(Fills) /\ d.paid \in Int /\ cfg.fee \in Nat /\ Capital \in Nat
      /\ Len(d.blotter) \in Nat
  BY ConfigTyped DEF IsRecord, IsDriver, MarketTyped, BookTyped, Books
<1>4. ASSUME ~CoversInPart(d.blotter)
      PROVE  Worth(e) = Capital + MadeBy(d.blotter, e.view) - cfg.fee * Len(d.blotter) - d.paid
  <2>1. /\ \A t \in Symbols : d.qty[t] = Holding(d.blotter, t)
        /\ Worth(d) = Capital + MadeBy(d.blotter, d.view) - cfg.fee * Len(d.blotter) - d.paid
    BY <1>4 DEF Books
  <2>0. /\ e.view \in [Symbols -> Nat] /\ e.view[s] = r.price
        /\ \A t \in Symbols : t # s => e.view[t] = d.view[t]
    BY <1>1, <1>3
  <2>2. SumFunction(Positions(d.qty, e.view)) = SumFunction(Positions(d.qty, d.view)) + d.qty[s] * x
    BY <1>3, <2>0, PositionRepriced
  <2>3. MadeBy(d.blotter, e.view) = MadeBy(d.blotter, d.view) + Holding(d.blotter, s) * x
    BY <1>3, <2>0, MadeReprices
  <2>4. MadeBy(d.blotter, d.view) \in Int /\ SumFunction(Positions(d.qty, d.view)) \in Int
    BY <1>3, FillsTyped, PositionsTyped
  <2>5. d.qty[s] * x \in Int /\ Holding(d.blotter, s) = d.qty[s]
    BY <1>3, <2>1
  <2>6. Worth(e) = Worth(d) + d.qty[s] * x /\ Worth(d) \in Int
    BY <1>2, <1>3, <2>2, <2>4, <2>5 DEF Worth
  <2>7. cfg.fee * Len(d.blotter) \in Int
    BY <1>3
  <2> DEFINE a == cfg.fee * Len(d.blotter)
             k == MadeBy(d.blotter, d.view)
             w == Worth(d)
             y == d.qty[s] * x
  <2>8. /\ a \in Int /\ k \in Int /\ w \in Int /\ y \in Int
        /\ Worth(e) = w + y /\ w = Capital + k - a - d.paid
        /\ MadeBy(d.blotter, e.view) = k + y
    BY <2>1, <2>3, <2>4, <2>5, <2>6, <2>7
  <2> HIDE DEF a, k, w, y
  <2>9. Worth(e) = Capital + MadeBy(d.blotter, e.view) - a - d.paid
    BY <1>3, <2>8
  <2> QED BY <2>9 DEF a
<1>5. Books(e)
  BY <1>1, <1>2, <1>4 DEF Books
<1>6. MarkedBut(e, s)
  <2> SUFFICES ASSUME NEW t \in d.known \ {s} PROVE e.last[t] = e.view[t]
    BY <1>2 DEF MarkedBut
  <2>1. e.view[t] = d.view[t]
    BY <1>1, <1>3
  <2> QED BY <1>1, <2>1 DEF Marked
<1>7. e.view[s] = r.price
  BY <1>1, <1>3
<1> QED BY <1>5, <1>6, <1>7 DEF e, s

(* At the end of the step all positions are marked, and NAV is the worth. *)
LEMMA SettleBooks ==
  ASSUME IsConfig, NEW d, IsDriver(d), d.day \in Int, Books(d), NEW r, IsRecord(r),
         MarkedBut(d, r.symbol), NEW t0 \in Int
  PROVE  LET e == Settle(d, r, t0) IN Books(e) /\ Marked(e)
<1> DEFINE m == Mark(d, r)
           e == Settle(d, r, t0)
           cost == Financing(m, t0)
           s == r.symbol
<1>1. /\ IsDriver(m) /\ SameBook(d, m) /\ m.paid = d.paid /\ m.now = d.now
      /\ m.last = IF s \in d.known THEN [d.last EXCEPT ![s] = d.view[s]] ELSE d.last
  BY MarkKeeps
<1>2. /\ IsDriver(e) /\ SameDesk(d, e) /\ SameStrategy(d, e)
      /\ e.qty = d.qty /\ e.known = d.known /\ e.blotter = d.blotter
      /\ e.now = d.now /\ e.day = d.day /\ e.dayStart = d.dayStart /\ e.view = d.view
      /\ e.last = m.last
      /\ e.cash = m.cash - Financing(m, t0) /\ e.paid = m.paid + Financing(m, t0)
      /\ e.equity = Nav(e) /\ e.peak = (IF Nav(e) > d.peak THEN Nav(e) ELSE d.peak)
      /\ e.navs = Append(d.navs, [day |-> d.day, nav |-> Nav(e)])
  BY SettleKeeps
<1>3. cost \in Int
  <2>1. ShortExposure(m) \in Int
    BY <1>1, NavIsInt
  <2>2. cfg.borrow \in Int
    BY ConfigTyped
  <2>3. m.now - t0 \in Int
    BY <1>1 DEF IsDriver, MarketTyped
  <2> QED BY <2>1, <2>2, <2>3 DEF Financing
<1> HIDE DEF m, e
<1>4. m.cash = d.cash
  BY <1>1 DEF SameBook
<1>5. /\ d.cash \in Int /\ d.paid \in Int /\ d.last \in [Symbols -> Nat]
      /\ d.qty \in [Symbols -> Int] /\ d.view \in [Symbols -> Nat] /\ d.blotter \in Seq(Fills)
      /\ cfg.fee \in Nat /\ Capital \in Nat /\ Len(d.blotter) \in Nat /\ s \in Symbols
  BY ConfigTyped DEF IsDriver, MarketTyped, BookTyped, Books, IsRecord
<1>6. SumFunction(Positions(d.qty, d.view)) \in Int /\ MadeBy(d.blotter, d.view) \in Int
  BY <1>5, PositionsTyped, FillsTyped
<1>7. Worth(e) = Worth(d) - cost /\ Worth(d) \in Int
  BY <1>1, <1>2, <1>3, <1>4, <1>5, <1>6 DEF Worth
<1>8. Worth(d) = Capital + MadeBy(d.blotter, d.view) - cfg.fee * Len(d.blotter) - d.paid
        => Worth(e) = Capital + MadeBy(d.blotter, d.view) - cfg.fee * Len(d.blotter) - e.paid
  <2>1. cfg.fee * Len(d.blotter) \in Int
    BY <1>5
  <2> QED BY <1>1, <1>2, <1>3, <1>5, <1>6, <1>7, <2>1, SMTT(30)
<1>9. Books(e)
  BY <1>2, <1>8 DEF Books
<1>10. Marked(e)
  <2> SUFFICES ASSUME NEW t \in d.known PROVE e.last[t] = e.view[t]
    BY <1>2 DEF Marked
  <2>1. CASE t = s
    BY <1>1, <1>2, <1>5, <2>1
  <2>2. CASE t # s
    <3>1. d.last[t] = d.view[t]
      BY <2>2 DEF MarkedBut
    <3>2. t \in Symbols
      BY DEF IsDriver, BookTyped
    <3> QED BY <1>1, <1>2, <1>5, <2>2, <3>1, <3>2
  <2> QED BY <2>1, <2>2
<1> QED BY <1>9, <1>10 DEF e

LEMMA NavIsWorth ==
  ASSUME NEW d, IsDriver(d), Books(d), Marked(d)
  PROVE  Nav(d) = Worth(d)
<1>1. \A s \in Symbols : d.qty[s] * d.last[s] = d.qty[s] * d.view[s]
  <2> SUFFICES ASSUME NEW s \in Symbols PROVE d.qty[s] * d.last[s] = d.qty[s] * d.view[s]
    OBVIOUS
  <2>1. CASE s \in d.known
    BY <2>1 DEF Marked
  <2>2. CASE s \notin d.known
    <3>1. d.qty[s] = 0 /\ d.last[s] \in Nat /\ d.view[s] \in Nat
      BY <2>2 DEF Books, IsDriver, MarketTyped
    <3> QED BY <3>1
  <2> QED BY <2>1, <2>2
<1>2. [s \in Symbols |-> d.qty[s] * d.last[s]] = Positions(d.qty, d.view)
  BY <1>1 DEF Positions
<1> QED BY <1>2 DEF Nav, Worth
-----------------------------------------------------------------------------
(* One pass of the venue over the book. *)

(* Only the record's symbol trades, at the record's price. *)
TradesAt(hs, s, p) ==
  \A n \in 1 .. Len(hs) : hs[n].what = "filled" => hs[n].order.symbol = s /\ hs[n].price = p

LEMMA HappenBooks ==
  ASSUME IsConfig, NEW d, IsDriver(d), Books(d), NEW s,
         NEW h \in Happenings, h.what = "filled" => h.order.symbol = s /\ h.price = d.view[s],
         NEW driver \in Drivings, h.what = "message" => driver # "nobody"
  PROVE  /\ Books(Happen(d, h, driver))
         /\ MarkedBut(d, s) => MarkedBut(Happen(d, h, driver), s)
<1>1. CASE h.what = "works"
  <2> DEFINE e == [d EXCEPT !.working = Append(@, h.order)]
  <2>1. h.order \in WorkingOrders
    BY <1>1 DEF Happenings
  <2>2. Happen(d, h, driver) = e
    BY <1>1 DEF Happen
  <2>3. SameMarket(d, e) /\ SameBook(d, e)
    BY <2>1, RestsKeeps
  <2> HIDE DEF e
  <2> QED BY <2>2, <2>3, SameBooks
<1>2. CASE h.what = "filled"
  <2> DEFINE b == BookFill(d, h.order, h.price)
  <2>1. h.order \in WorkingOrders /\ h.price \in Nat /\ h.order.symbol = s /\ h.price = d.view[s]
    BY <1>2 DEF Happenings
  <2>2. IsDriver(b)
    BY <2>1, BookFillKeeps
  <2>3. Books(b) /\ (MarkedBut(d, s) => MarkedBut(b, s))
    BY <2>1, FillBooks
  <2>4. Happen(d, h, driver) = Tell(b, FillOf(b), driver)
    BY <1>2 DEF Happen
  <2> HIDE DEF b
  <2>5. Acted(b, Tell(b, FillOf(b), driver))
    BY <2>2, FillOfTyped, TellKeeps
  <2> QED BY <2>3, <2>4, <2>5, SameBooks DEF Acted
<1>3. CASE h.what = "cancelled"
  <2>1. h.order \in WorkingOrders
    BY <1>3 DEF Happenings
  <2>2. Happen(d, h, driver) = Tell(d, CancelOf(h.order), driver)
    BY <1>3 DEF Happen
  <2>3. Acted(d, Tell(d, CancelOf(h.order), driver))
    BY <2>1, CancelOfTyped, TellKeeps
  <2> QED BY <2>2, <2>3, SameBooks DEF Acted
<1>4. CASE h.what = "message"
  <2>1. h.ev \in Events
    BY <1>4, NotesAreEvents DEF Happenings
  <2>2. Happen(d, h, driver) = Hear(d, h.ev, driver)
    BY <1>4 DEF Happen
  <2>3. Acted(d, Hear(d, h.ev, driver))
    <3>1. driver \in {"live", "back"}
      BY <1>4 DEF Drivings
    <3> QED BY <2>1, <3>1, HearKeeps
  <2> QED BY <2>2, <2>3, SameBooks DEF Acted
<1> QED BY <1>1, <1>2, <1>3, <1>4 DEF Happenings

LEMMA RunBooks ==
  ASSUME IsConfig, NEW d, IsDriver(d), Books(d), NEW s,
         NEW hs \in Seq(Happenings), TradesAt(hs, s, d.view[s]), NEW what, NEW driver \in Drivings,
         what = "message" => driver # "nobody"
  PROVE  LET e == Run(d, hs, what, driver)
         IN  Ran(d, e) /\ Books(e) /\ (MarkedBut(d, s) => MarkedBut(e, s))
<1> DEFINE OK(e) == Ran(d, e) /\ Books(e) /\ (MarkedBut(d, s) => MarkedBut(e, s))
<1>1. Len(hs) \in Nat /\ \A n \in 1 .. Len(hs) : hs[n] \in Happenings
  OBVIOUS
<1>2. PICK f : Turns(f, d, hs, what, driver) /\ Run(d, hs, what, driver) = f[Len(hs)]
  BY <1>1, RunUnfolds
<1> DEFINE P == {n \in Nat : n <= Len(hs) => OK(f[n])}
<1>3. 0 \in P
  BY <1>2 DEF Turns, Ran, SameMarket
<1>4. ASSUME NEW n \in Nat, n \in P PROVE n + 1 \in P
  <2> SUFFICES ASSUME n + 1 <= Len(hs) PROVE OK(f[n + 1])
    OBVIOUS
  <2> DEFINE a == f[n]
             h == hs[n + 1]
  <2>1. n + 1 \in 1 .. Len(hs) /\ (n + 1) - 1 = n /\ n <= Len(hs)
    BY <1>1
  <2>2. Ran(d, a) /\ Books(a) /\ (MarkedBut(d, s) => MarkedBut(a, s))
    BY <1>4, <2>1
  <2>3. h \in Happenings
    BY <1>1, <2>1
  <2>4. f[n + 1] = Turn(a, h, what, driver)
    BY <1>2, <2>1 DEF Turns
  <2>5. h.what = "filled" => h.order.symbol = s /\ h.price = a.view[s]
    BY <2>1, <2>2 DEF TradesAt, Ran, SameMarket
  <2> HIDE DEF a, h
  <2>6. CASE h.what = what
    <3>1. /\ Ran(a, Happen(a, h, driver)) /\ Books(Happen(a, h, driver))
          /\ MarkedBut(a, s) => MarkedBut(Happen(a, h, driver), s)
      BY <2>2, <2>3, <2>5, <2>6, HappenKeeps, HappenBooks DEF Ran
    <3>2. Ran(d, Happen(a, h, driver))
      BY <2>2, <3>1, RanOn
    <3> QED BY <2>2, <2>4, <2>6, <3>1, <3>2 DEF Turn
  <2>7. CASE h.what # what
    BY <2>2, <2>4, <2>7 DEF Turn
  <2> QED BY <2>6, <2>7
<1> HIDE DEF P
<1>5. Len(hs) \in P
  BY <1>1, <1>3, <1>4, Induction
<1> QED BY <1>1, <1>2, <1>5 DEF P

LEMMA MatchBooks ==
  ASSUME IsConfig, NEW d, IsDriver(d), Books(d), NEW r, IsQuote(r), d.view[r.symbol] = r.price,
         NEW driver \in Drivings
  PROVE  LET e == Match(d, r, driver)
         IN  Ran(d, e) /\ Books(e) /\ (MarkedBut(d, r.symbol) => MarkedBut(e, r.symbol))
<1> DEFINE hs == Outcomes(d, r)
           s == r.symbol
           d0 == [d EXCEPT !.working = <<>>]
           d1 == Run(d0, hs, "works", driver)
           d2 == Run(d1, hs, "filled", driver)
<1>1. hs \in Seq(Happenings) /\ Len(hs) = Len(d.working)
  BY OutcomesTyped
<1>2. TradesAt(hs, s, d.view[s])
  <2> SUFFICES ASSUME NEW n \in 1 .. Len(hs), hs[n].what = "filled"
               PROVE  hs[n].order.symbol = s /\ hs[n].price = d.view[s]
    BY DEF TradesAt
  <2>1. n \in DOMAIN d.working
    BY <1>1 DEF IsDriver, DeskTyped
  <2>2. /\ hs[n].what = Outcome(d, d.working[n], r.symbol, r.price)
        /\ hs[n].order = d.working[n] /\ hs[n].price = r.price
    BY <2>1 DEF Outcomes
  <2>3. d.working[n].symbol = r.symbol
    BY <2>2 DEF Outcome
  <2> QED BY <2>2, <2>3
<1>3. Ran(d, d0) /\ SameBook(d, d0)
  BY ClearedKeeps DEF Ran
<1> HIDE DEF hs, d0, s
<1>4. Books(d0) /\ (MarkedBut(d, s) => MarkedBut(d0, s))
  BY <1>3, SameBooks DEF Ran, s
<1>5. Ran(d0, d1) /\ Books(d1) /\ (MarkedBut(d0, s) => MarkedBut(d1, s))
  BY <1>1, <1>2, <1>3, <1>4, RunBooks DEF Ran, SameMarket
<1> HIDE DEF d1
<1>6. Ran(d1, d2) /\ Books(d2) /\ (MarkedBut(d1, s) => MarkedBut(d2, s))
  BY <1>1, <1>2, <1>3, <1>5, RunBooks DEF Ran, SameMarket
<1> HIDE DEF d2
<1> DEFINE e == Run(d2, hs, "cancelled", driver)
<1>7. Ran(d2, e) /\ Books(e) /\ (MarkedBut(d2, s) => MarkedBut(e, s))
  BY <1>1, <1>2, <1>3, <1>5, <1>6, RunBooks DEF Ran, SameMarket
<1>8. Match(d, r, driver) = e
  BY DEF Match, d2, d1, d0, hs
<1> HIDE DEF e
<1>9. Ran(d, e)
  BY <1>3, <1>5, <1>6, <1>7, RanOn
<1> QED BY <1>4, <1>5, <1>6, <1>7, <1>8, <1>9 DEF s

LEMMA ReleaseBooks ==
  ASSUME IsConfig, NEW d, IsDriver(d), Books(d), NEW s, MarkedBut(d, s)
  PROVE  LET e == ReleaseInbound(d) IN Ran(d, e) /\ Books(e) /\ MarkedBut(e, s)
<1> DEFINE k == DueBy(d, d.now)
           c == [d EXCEPT !.inbound = SubSeq(@, k + 1, Len(@))]
           M(i) == [what |-> "message", ev |-> d.inbound[i].ev]
           ms == [i \in 1 .. k |-> M(i)]
<1>1. ms \in Seq(Happenings) /\ IsDriver(c) /\ SameMarket(d, c) /\ SameBook(d, c)
  BY DueKept
<1>2. k \in Nat
  BY DueByTyped DEF IsDriver, StrategyTyped
<1>3. ReleaseInbound(d) = Run(c, ms, "message", "back")
  BY DEF ReleaseInbound
<1>4. TradesAt(ms, s, c.view[s])
  <2>1. Len(ms) = k /\ \A i \in 1 .. k : ms[i].what = "message"
    BY <1>2
  <2> HIDE DEF ms, k
  <2> QED BY <2>1 DEF TradesAt
<1> HIDE DEF c, ms, k
<1>5. Books(c) /\ MarkedBut(c, s)
  BY <1>1, SameBooks
<1> DEFINE e == Run(c, ms, "message", "back")
<1>6. Ran(c, e) /\ Books(e) /\ MarkedBut(e, s)
  BY <1>1, <1>4, <1>5, RunBooks DEF Drivings
<1> HIDE DEF e
<1>7. Ran(d, e)
  BY <1>1, <1>6, RanOn DEF Ran
<1> QED BY <1>3, <1>6, <1>7 DEF e

(* A whole step of either driver. *)
LEMMA StepBooks ==
  ASSUME IsConfig, fed \in Nat, NEW d, IsDriver(d), Books(d), Marked(d), NEW r, IsRecord(r)
  PROVE  \A e \in {LiveStep(d, r), BackStep(d, r)} : Books(e) /\ Marked(e)
<1> DEFINE a == Arrive(d, r)
           b == ReleaseInbound(a)
           l2 == Match(a, r, "live")
           b2 == Match(b, r, "back")
           s == r.symbol
<1>1. IsDriver(a) /\ a.day \in Int
  <2>1. IsDriver(a)
    BY ArriveKeeps
  <2>2. a.day = DayOf(r.t)
    BY ArriveKeeps, ZenonT(40)
  <2> QED BY <2>1, <2>2, DayOfTyped DEF IsRecord
<1>2. Books(a) /\ MarkedBut(a, s) /\ a.view[s] = r.price
  BY ArriveBooks
<1>3. IsQuote(r)
  BY RecordsAreQuotes
<1> HIDE DEF a
<1>4. Ran(a, b) /\ Books(b) /\ MarkedBut(b, s)
  BY <1>1, <1>2, ReleaseBooks
<1>5. Ran(a, l2) /\ Books(l2) /\ MarkedBut(l2, s)
  BY <1>1, <1>2, <1>3, MatchBooks DEF Drivings
<1> HIDE DEF b, l2
<1>6. Ran(b, b2) /\ Books(b2) /\ MarkedBut(b2, s)
  BY <1>2, <1>3, <1>4, MatchBooks DEF Drivings, Ran, SameMarket
<1> HIDE DEF b2
<1>7. Ran(a, b2)
  BY <1>4, <1>6, RanOn
<1>8. FirstTime(d, r) \in Int
  BY DEF FirstTime, IsRecord, IsDriver, MarketTyped
<1>9. ASSUME NEW m, Ran(a, m), Books(m), MarkedBut(m, s),
             NEW driver \in {"live", "back"}
      PROVE  LET e == Settle(Hear(m, Tick, driver), r, FirstTime(d, r)) IN Books(e) /\ Marked(e)
  <2> DEFINE h == Hear(m, Tick, driver)
  <2>1. Acted(m, h)
    BY <1>9, TickIsEvent, HearKeeps DEF Ran
  <2> HIDE DEF h
  <2>2. Books(h) /\ MarkedBut(h, s)
    BY <1>9, <2>1, SameBooks DEF Acted
  <2>3. IsDriver(h) /\ h.day \in Int
    BY <1>1, <1>9, <2>1 DEF Acted, Ran, SameMarket
  <2> QED BY <1>8, <2>2, <2>3, SettleBooks DEF h
<1>10. /\ LiveStep(d, r) = Settle(Hear(l2, Tick, "live"), r, FirstTime(d, r))
       /\ BackStep(d, r) = Settle(Hear(b2, Tick, "back"), r, FirstTime(d, r))
  BY DEF LiveStep, BackStep, l2, b2, b, a
<1> QED BY <1>5, <1>6, <1>7, <1>9, <1>10
-----------------------------------------------------------------------------
(* The end of a backtest: a pass for each symbol with a price, then flat. *)

LEMMA SeqOfSet ==
  ASSUME NEW S, IsFiniteSet(S)
  PROVE  SetToSeq(S) \in Seq(S)
<1>1. Cardinality(S) \in Nat /\ ExistsBijection(1 .. Cardinality(S), S)
  BY FS_CardinalityType
<1>2. \E f : f \in [1 .. Cardinality(S) -> S] /\ IsInjective(f)
  BY <1>1 DEF ExistsBijection, Bijection, Injection
<1>3. SetToSeq(S) \in [1 .. Cardinality(S) -> S]
  BY <1>2 DEF SetToSeq
<1> QED BY <1>1, <1>3

Passes(f, d, ss) ==
  /\ DOMAIN f = 0 .. Len(ss) /\ f[0] = d
  /\ \A n \in 1 .. Len(ss) : f[n] = FinalPass(f[n - 1], ss[n])

LEMMA PassesUnfold ==
  ASSUME NEW d, NEW ss, ss = SetToSeq({s \in Symbols : d.view[s] > 0}), Len(ss) \in Nat
  PROVE  \E f : Passes(f, d, ss) /\ FinalPasses(d) = f[Len(ss)]
<1> DEFINE L == Len(ss)
           Upto(f, m) == /\ DOMAIN f = 0 .. m
                         /\ f[0] = d
                         /\ \A n \in 1 .. m : f[n] = FinalPass(f[n - 1], ss[n])
           P == {m \in Nat : \E f : Upto(f, m)}
           Rule(f) == [n \in 0 .. L |-> IF n = 0 THEN d ELSE FinalPass(f[n - 1], ss[n])]
<1>1. 0 \in P
  <2> DEFINE g == [n \in 0 .. 0 |-> d]
  <2>1. Upto(g, 0)
    OBVIOUS
  <2> HIDE DEF Upto
  <2> QED BY <2>1
<1>2. ASSUME NEW m \in Nat, m \in P PROVE m + 1 \in P
  <2>1. PICK f : Upto(f, m)
    BY <1>2
  <2> DEFINE g == [n \in 0 .. m + 1 |-> IF n = m + 1 THEN FinalPass(f[m], ss[n]) ELSE f[n]]
  <2>2. DOMAIN g = 0 .. m + 1 /\ g[0] = d /\ \A n \in 0 .. m : g[n] = f[n]
    BY <2>1
  <2>3. g[m + 1] = FinalPass(f[m], ss[m + 1])
    OBVIOUS
  <2> HIDE DEF g
  <2>4. ASSUME NEW n \in 1 .. m + 1 PROVE g[n] = FinalPass(g[n - 1], ss[n])
    <3>1. CASE n = m + 1
      BY <2>2, <2>3, <3>1
    <3>2. CASE n # m + 1
      <4>1. n \in 1 .. m /\ n - 1 \in 0 .. m
        BY <3>2
      <4> QED BY <2>1, <2>2, <4>1
    <3> QED BY <3>1, <3>2
  <2>5. Upto(g, m + 1)
    BY <2>2, <2>4
  <2> HIDE DEF Upto
  <2> QED BY <2>5
<1> HIDE DEF P
<1>3. L \in P
  BY <1>1, <1>2, Induction
<1>4. PICK f : Upto(f, L)
  BY <1>3 DEF P
<1> DEFINE h == [n \in 0 .. L |-> f[n]]
<1>5. h = Rule(h)
  <2>1. ASSUME NEW n \in 0 .. L PROVE h[n] = Rule(h)[n]
    <3>1. CASE n = 0
      BY <1>4, <3>1
    <3>2. CASE n # 0
      <4>1. n \in 1 .. L /\ n - 1 \in 0 .. L
        BY <3>2
      <4>2. f[n] = FinalPass(f[n - 1], ss[n]) /\ h[n] = f[n] /\ h[n - 1] = f[n - 1]
        BY <1>4, <4>1
      <4> HIDE DEF h
      <4> QED BY <3>2, <4>1, <4>2
    <3> QED BY <3>1, <3>2
  <2> QED BY <2>1
<1> HIDE DEF h
<1> DEFINE after == CHOOSE g : g = Rule(g)
<1>6. after = Rule(after)
  BY <1>5
<1>7. FinalPasses(d) = after[L]
  BY DEF FinalPasses
<1> HIDE DEF after
<1>8. DOMAIN after = 0 .. L /\ after[0] = d
  BY <1>6
<1>9. ASSUME NEW n \in 1 .. L PROVE after[n] = FinalPass(after[n - 1], ss[n])
  <2>1. n \in 0 .. L /\ n # 0
    OBVIOUS
  <2> QED BY <1>6, <2>1
<1>10. Passes(after, d, ss)
  BY <1>8, <1>9 DEF Passes
<1> QED BY <1>7, <1>10

(* The final passes leave the balance alone. *)
LEMMA PassesBooks ==
  ASSUME IsConfig, NEW d, IsDriver(d), Books(d)
  PROVE  Ran(d, FinalPasses(d)) /\ Books(FinalPasses(d))
<1> DEFINE S == {s \in Symbols : d.view[s] > 0}
           ss == SetToSeq(S)
           L == Len(ss)
           OK(e) == Ran(d, e) /\ Books(e)
<1>1. IsFiniteSet(S)
  BY SymbolsAssumption, FS_Subset
<1>2. ss \in Seq(S)
  BY <1>1, SeqOfSet
<1>3. L \in Nat /\ \A n \in 1 .. L : ss[n] \in Symbols
  <2>1. \A s \in S : s \in Symbols
    OBVIOUS
  <2> HIDE DEF S
  <2>2. Len(ss) \in Nat /\ \A n \in 1 .. Len(ss) : ss[n] \in S
    BY <1>2
  <2> QED BY <2>1, <2>2
<1>4. PICK f : Passes(f, d, ss) /\ FinalPasses(d) = f[L]
  BY <1>3, PassesUnfold
<1> HIDE DEF ss
<1> DEFINE P == {n \in Nat : n <= L => OK(f[n])}
<1>5. 0 \in P
  BY <1>4 DEF Passes, Ran, SameMarket
<1>6. ASSUME NEW n \in Nat, n \in P PROVE n + 1 \in P
  <2> SUFFICES ASSUME n + 1 <= L PROVE OK(f[n + 1])
    OBVIOUS
  <2> DEFINE a == f[n]
             s == ss[n + 1]
             r == [symbol |-> s, price |-> a.view[s]]
  <2>1. n + 1 \in 1 .. L /\ (n + 1) - 1 = n /\ n <= L
    BY <1>3
  <2>2. Ran(d, a) /\ Books(a) /\ s \in Symbols
    BY <1>3, <1>6, <2>1
  <2>3. f[n + 1] = FinalPass(a, s)
    BY <1>4, <2>1 DEF Passes
  <2> HIDE DEF a, s
  <2>4. IsQuote(r) /\ a.view[r.symbol] = r.price
    BY <2>2 DEF IsQuote, Ran, IsDriver, MarketTyped
  <2>5. FinalPass(a, s) = Match(a, r, "nobody")
    BY DEF FinalPass
  <2> HIDE DEF r
  <2>6. Ran(a, Match(a, r, "nobody")) /\ Books(Match(a, r, "nobody"))
    BY <2>2, <2>4, MatchBooks DEF Ran, Drivings
  <2> QED BY <2>2, <2>3, <2>5, <2>6, RanOn
<1> HIDE DEF P
<1>7. L \in P
  BY <1>3, <1>5, <1>6, Induction
<1> QED BY <1>3, <1>4, <1>7 DEF P

(* Adding zeros. *)
LEMMA SumOfZeros ==
  ASSUME NEW S, IsFiniteSet(S), NEW f \in [S -> Int], \A s \in S : f[s] = 0
  PROVE  SumFunction(f) = 0
<1> DEFINE z == [s \in SUBSET S |-> 0]
<1>1. PICK it : Adds(it, f, S) /\ SumFunction(f) = it[S]
  BY SumUnfolds
<1>2. \A s \in SUBSET S : z[s] = 0 /\ \A x \in s : z[s \ {x}] = 0 /\ f[x] = 0
  OBVIOUS
<1> HIDE DEF z
<1>3. Adds(z, f, S)
  BY <1>2 DEF Adds
<1>4. it[S] = z[S]
  BY <1>1, <1>3, AddsOnce
<1> QED BY <1>1, <1>2, <1>4

Balanced(d) == Nav(d) = Capital + MadeBy(d.blotter, d.view) - cfg.fee * Len(d.blotter) - d.paid

LEMMA BooksBalanced ==
  ASSUME NEW d, IsDriver(d), Books(d), Marked(d), ~CoversInPart(d.blotter)
  PROVE  Balanced(d)
BY NavIsWorth DEF Books, Balanced

(* The live runner's book is what it was. *)
LEMMA LiveEnds ==
  ASSUME IsConfig, NEW d, IsDriver(d), Books(d), Marked(d)
  PROVE  LET e == LiveFinish(d) IN ~CoversInPart(e.blotter) => Balanced(e)
<1> DEFINE l == HandleAction(d, Answer("stop", 1), "live")
           e == LiveFinish(d)
<1>1. Acted(d, l)
  BY AnswerTyped, HandleActionKeeps
<1>2. e = [l EXCEPT !.working = <<>>]
  BY DEF LiveFinish
<1> HIDE DEF l
<1>3. IsDriver(e) /\ SameMarket(l, e) /\ SameBook(l, e)
  BY <1>1, <1>2, ClearedKeeps DEF Acted
<1> HIDE DEF e
<1>4. SameMarket(d, e) /\ SameBook(d, e)
  BY <1>1, <1>3 DEF Acted, SameMarket, SameBook
<1>5. Books(e) /\ Marked(e)
  BY <1>4, SameBooks DEF Marked, SameMarket, SameBook
<1> QED BY <1>3, <1>5, BooksBalanced DEF e

(* The backtest's is flat, and all that its fills have made is in cash. *)
LEMMA BackEnds ==
  ASSUME IsConfig, NEW d, IsDriver(d), Books(d), cfg.flatten
  PROVE  LET e == BackFinish(d)
         IN  /\ e.working = <<>> /\ \A s \in Symbols : e.qty[s] = 0
             /\ ~CoversInPart(e.blotter) => Balanced(e)
<1> DEFINE b == HandleAction(d, Answer("stop", 1), "back")
           p == FinalPasses(b)
           x == Flatten(p)
           e == [b EXCEPT !.qty = x.qty, !.cash = x.cash, !.known = x.known,
                          !.blotter = x.blotter, !.working = <<>>]
<1>1. Acted(d, b)
  BY AnswerTyped, HandleActionKeeps
<1>2. BackFinish(d) = e
  BY DEF BackFinish
<1> HIDE DEF b
<1>3. IsDriver(b) /\ Books(b)
  BY <1>1, SameBooks DEF Acted
<1>4. Ran(b, p) /\ Books(p)
  BY <1>3, PassesBooks
<1> HIDE DEF p
<1>5. /\ x.qty = [s \in Symbols |-> AddTrade(p.qty[s], -p.qty[s])]
      /\ x.cash = Worth(p) /\ x.blotter = p.blotter
  BY <1>4 DEF Flatten, Worth, Positions, Ran, IsDriver, Fields
<1> HIDE DEF x
<1>6. /\ e.qty = x.qty /\ e.cash = x.cash /\ e.blotter = x.blotter /\ e.working = <<>>
      /\ e.view = b.view /\ e.paid = b.paid /\ e.last = b.last
  BY <1>3 DEF IsDriver, Fields
<1> HIDE DEF e
<1>7. \A s \in Symbols : e.qty[s] = 0
  <2> SUFFICES ASSUME NEW s \in Symbols PROVE AddTrade(p.qty[s], -p.qty[s]) = 0
    BY <1>5, <1>6
  <2>1. p.qty[s] \in Int
    BY <1>4 DEF Ran, IsDriver, BookTyped
  <2> QED BY <2>1 DEF AddTrade
<1>8. Nav(e) = Worth(p)
  <2> DEFINE f == [s \in Symbols |-> e.qty[s] * e.last[s]]
  <2>1. \A s \in Symbols : e.last[s] \in Nat
    BY <1>3, <1>6 DEF IsDriver, MarketTyped
  <2>2. f \in [Symbols -> Int] /\ \A s \in Symbols : f[s] = 0
    BY <1>7, <2>1
  <2> HIDE DEF f
  <2>3. SumFunction(f) = 0
    BY <2>2, SumOfZeros, SymbolsAssumption
  <2>4. Worth(p) \in Int
    <3>1. p.cash \in Int /\ p.qty \in [Symbols -> Int] /\ p.view \in [Symbols -> Nat]
      BY <1>4 DEF Ran, IsDriver, BookTyped, MarketTyped
    <3> QED BY <3>1, PositionsTyped DEF Worth
  <2> QED BY <1>5, <1>6, <2>3, <2>4 DEF Nav, f
<1>9. ~CoversInPart(e.blotter) => Balanced(e)
  <2>1. e.view = p.view /\ e.paid = p.paid /\ e.blotter = p.blotter
    BY <1>4, <1>5, <1>6 DEF Ran, SameMarket
  <2> QED BY <1>4, <1>8, <2>1 DEF Books, Balanced
<1> QED BY <1>2, <1>6, <1>7, <1>9

(* The inductive invariant: the books of both drivers between two steps,   *)
(* and what is left of it when they have ended.                            *)
BooksInv ==
  /\ ~ended => \A d \in Both : Books(d) /\ Marked(d)
  /\ ended /\ cfg.flatten =>
       /\ back.working = <<>> /\ \A s \in Symbols : back.qty[s] = 0
       /\ \A d \in Both : ~CoversInPart(d.blotter) => Balanced(d)

LEMMA BooksInit == Init => BooksInv
<1> SUFFICES ASSUME Init PROVE BooksInv
  OBVIOUS
<1>1. live = Start /\ back = Start /\ ended = FALSE /\ IsConfig
  BY DEF Init, IsConfig
<1>2. /\ Start.blotter = <<>> /\ Start.known = {} /\ Start.qty = [s \in Symbols |-> 0]
      /\ Start.view = [s \in Symbols |-> 0] /\ Start.cash = Capital /\ Start.paid = 0
  BY DEF Start
<1> DEFINE none == <<>>
<1>3. none \in Seq(Fills) /\ Len(none) = 0 /\ DOMAIN none = {}
  OBVIOUS
<1>4. \A s \in Symbols : Holding(none, s) = 0
  <2> SUFFICES ASSUME NEW s \in Symbols PROVE Holding(none, s) = 0
    OBVIOUS
  <2>1. Bought(none, s) \in [{} -> Int]
    BY <1>3 DEF Bought
  <2> QED BY <2>1, SumOfNone DEF Holding
<1>5. MadeBy(none, Start.view) = 0
  <2>1. Gains(none, Start.view) \in [{} -> Int]
    BY <1>3 DEF Gains
  <2> QED BY <2>1, SumOfNone DEF MadeBy
<1>6. Worth(Start) = Capital
  <2> DEFINE f == Positions(Start.qty, Start.view)
  <2>1. f \in [Symbols -> Int] /\ \A s \in Symbols : f[s] = 0
    BY <1>2 DEF Positions
  <2> HIDE DEF f
  <2>2. SumFunction(f) = 0
    BY <2>1, SumOfZeros, SymbolsAssumption
  <2> QED BY <1>1, <1>2, <2>2, ConfigTyped DEF Worth, f
<1>7. Books(Start) /\ Marked(Start)
  <2> HIDE DEF none
  <2>1. cfg.fee * 0 = 0 /\ Capital \in Nat
    BY <1>1, ConfigTyped
  <2>2. Start.blotter = none
    BY <1>2 DEF none
  <2>3. Capital = Capital + 0 - 0 - 0
    BY <2>1
  <2> QED BY <1>2, <1>3, <1>4, <1>5, <1>6, <2>1, <2>2, <2>3 DEF Books, Marked
<1> QED BY <1>1, <1>7 DEF BooksInv, Both

LEMMA BooksStep == IInv /\ BooksInv /\ [Next]_vars => BooksInv'
<1> SUFFICES ASSUME IInv, BooksInv, [Next]_vars PROVE BooksInv'
  OBVIOUS
<1>1. CASE UNCHANGED vars
  BY <1>1 DEF vars, BooksInv, Both, Books, Marked, Balanced, Worth, Nav
<1>2. CASE Finish
  <2>1. /\ IsConfig /\ IsDriver(live) /\ IsDriver(back)
        /\ Books(live) /\ Books(back) /\ Marked(live)
    BY <1>2 DEF IInv, StateTyped, IsConfig, Finish, Both, BooksInv
  <2>2. live' = LiveFinish(live) /\ back' = BackFinish(back) /\ cfg' = cfg /\ ended'
    BY <1>2 DEF Finish
  <2>3. \A d : Balanced(d)' <=> Nav(d') = Capital + MadeBy(d'.blotter, d'.view)
                                            - cfg.fee * Len(d'.blotter) - d'.paid
    BY <2>2 DEF Balanced
  <2> QED BY <2>1, <2>2, LiveEnds, BackEnds DEF BooksInv, Both, Balanced
<1>3. ASSUME NEW s \in Symbols, NEW p \in Prices, NEW dt \in Steps,
             Step([symbol |-> s, price |-> p, t |-> live.now + dt])
      PROVE  BooksInv'
  <2> DEFINE r == [symbol |-> s, price |-> p, t |-> live.now + dt]
  <2>1. /\ IsConfig /\ fed \in Nat /\ IsDriver(live) /\ IsDriver(back) /\ ~ended
        /\ Books(live) /\ Books(back) /\ Marked(live) /\ Marked(back)
    BY <1>3 DEF IInv, StateTyped, IsConfig, Step, Both, BooksInv
  <2>2. live.now \in Int /\ p \in Nat /\ dt \in Int
    BY <2>1, ConfigTyped DEF IsDriver, MarketTyped
  <2>3. IsRecord(r)
    BY <2>2 DEF IsRecord
  <2>4. /\ live' = LiveStep(live, r) /\ back' \in {back, BackStep(back, r)}
        /\ cfg' = cfg /\ ~ended'
    BY <2>1, <1>3 DEF Step
  <2> HIDE DEF r
  <2>5. /\ Books(LiveStep(live, r)) /\ Marked(LiveStep(live, r))
        /\ Books(BackStep(back, r)) /\ Marked(BackStep(back, r))
    BY <2>1, <2>3, StepBooks
  <2> QED BY <2>1, <2>4, <2>5 DEF BooksInv, Both, Books, Marked, Worth
<1> QED BY <1>1, <1>2, <1>3 DEF Next
-----------------------------------------------------------------------------
(* What the strategy hears.  Fills are numbered as the blotter is; a part  *)
(* of a sequence of events holds those of N, each once.                    *)

FillsOf(s, lo, hi) == {i \in lo .. hi : s[i].ev.kind = "fill"}
Numbers(s, lo, hi) == {s[i].ev.n : i \in FillsOf(s, lo, hi)}

Held(s, lo, hi, N) ==
  /\ Numbers(s, lo, hi) = N
  /\ \A i, j \in FillsOf(s, lo, hi) : s[i].ev.n = s[j].ev.n => i = j

Ascending(s, lo, hi) == \A i, j \in FillsOf(s, lo, hi) : i < j => s[i].ev.n < s[j].ev.n

Below(M, N) == \A m \in M, n \in N : m < n

LEMMA NoFills ==
  ASSUME NEW s, NEW lo \in Int, NEW hi \in Int, hi < lo
  PROVE  /\ Held(s, lo, hi, {}) /\ Ascending(s, lo, hi)
         /\ \A N : Held(s, lo, hi, N) => N = {}
<1>1. FillsOf(s, lo, hi) = {}
  BY DEF FillsOf
<1> QED BY <1>1 DEF Held, Numbers, Ascending

(* The first event is taken off. *)
LEMMA HeadTaken ==
  ASSUME NEW s, NEW lo \in Int, NEW hi \in Int, lo <= hi, NEW N, Held(s, lo, hi, N)
  PROVE  /\ s[lo].ev.kind # "fill" => Held(s, lo + 1, hi, N)
         /\ s[lo].ev.kind = "fill" =>
              /\ s[lo].ev.n \in N /\ Held(s, lo + 1, hi, N \ {s[lo].ev.n})
              /\ Ascending(s, lo, hi) => \A n \in N \ {s[lo].ev.n} : s[lo].ev.n < n
         /\ Ascending(s, lo, hi) => Ascending(s, lo + 1, hi)
<1> DEFINE F == FillsOf(s, lo, hi)
           G == FillsOf(s, lo + 1, hi)
           x == s[lo].ev.n
<1>1. /\ {s[i].ev.n : i \in F} = N
      /\ \A i, j \in F : s[i].ev.n = s[j].ev.n => i = j
      /\ F \subseteq lo .. hi
  BY DEF Held, Numbers, FillsOf
<1>2. G = F \ {lo} /\ (lo \in F <=> s[lo].ev.kind = "fill")
  BY DEF FillsOf
<1>3. Ascending(s, lo, hi) => \A i, j \in F : i < j => s[i].ev.n < s[j].ev.n
  BY DEF Ascending
<1> HIDE DEF F, G
<1>4. ASSUME s[lo].ev.kind # "fill" PROVE Held(s, lo + 1, hi, N)
  <2>1. G = F
    BY <1>2, <1>4
  <2> QED BY <1>1, <2>1 DEF Held, Numbers, G
<1>5. ASSUME s[lo].ev.kind = "fill"
      PROVE  /\ x \in N /\ Held(s, lo + 1, hi, N \ {x})
             /\ Ascending(s, lo, hi) => \A n \in N \ {x} : x < n
  <2>1. lo \in F /\ x \in N
    BY <1>1, <1>2, <1>5
  <2>2. ASSUME NEW n \in N \ {x} PROVE \E i \in G : s[i].ev.n = n
    <3>1. PICK i \in F : s[i].ev.n = n
      BY <1>1, <2>2
    <3>2. i # lo
      BY <2>2, <3>1
    <3> QED BY <1>2, <3>1, <3>2
  <2>3. ASSUME NEW i \in G PROVE s[i].ev.n \in N \ {x}
    <3>1. i \in F /\ i # lo
      BY <1>2
    <3> QED BY <1>1, <2>1, <3>1
  <2>4. {s[i].ev.n : i \in G} = N \ {x}
    BY <2>2, <2>3
  <2>5. Held(s, lo + 1, hi, N \ {x})
    BY <1>1, <1>2, <2>4 DEF Held, Numbers, G
  <2>6. ASSUME Ascending(s, lo, hi), NEW n \in N \ {x} PROVE x < n
    <3>1. PICK i \in G : s[i].ev.n = n
      BY <2>2
    <3>2. i \in F /\ lo < i
      BY <1>1, <1>2
    <3> QED BY <1>3, <2>1, <2>6, <3>1, <3>2
  <2> QED BY <2>1, <2>5, <2>6
<1>6. Ascending(s, lo, hi) => Ascending(s, lo + 1, hi)
  BY <1>2, <1>3 DEF Ascending, G
<1> QED BY <1>4, <1>5, <1>6

(* One more event at the end. *)
LEMMA LastAdded ==
  ASSUME NEW s, NEW lo \in Int, NEW hi \in Int, lo <= hi + 1, NEW N, Held(s, lo, hi, N)
  PROVE  LET x == s[hi + 1].ev
         IN  /\ x.kind # "fill" => Held(s, lo, hi + 1, N)
             /\ x.kind = "fill" /\ x.n \notin N => Held(s, lo, hi + 1, N \union {x.n})
             /\ Ascending(s, lo, hi) /\ (x.kind = "fill" => Below(N, {x.n}))
                  => Ascending(s, lo, hi + 1)
<1> DEFINE F == FillsOf(s, lo, hi)
           G == FillsOf(s, lo, hi + 1)
           z == hi + 1
           x == s[z].ev
<1>1. /\ {s[i].ev.n : i \in F} = N
      /\ \A i, j \in F : s[i].ev.n = s[j].ev.n => i = j
      /\ F \subseteq lo .. hi
  BY DEF Held, Numbers, FillsOf
<1>2. /\ x.kind # "fill" => G = F
      /\ x.kind = "fill" => G = F \union {z}
  BY DEF FillsOf
<1>3. Ascending(s, lo, hi) => \A i, j \in F : i < j => s[i].ev.n < s[j].ev.n
  BY DEF Ascending
<1> HIDE DEF F, G
<1>4. ASSUME x.kind # "fill" PROVE Held(s, lo, z, N)
  BY <1>1, <1>2, <1>4 DEF Held, Numbers, G
<1>5. ASSUME x.kind = "fill", x.n \notin N PROVE Held(s, lo, z, N \union {x.n})
  <2>1. {s[i].ev.n : i \in G} = N \union {x.n}
    BY <1>1, <1>2, <1>5
  <2>2. \A i \in F : s[i].ev.n \in N
    BY <1>1
  <2>3. ASSUME NEW i \in G, NEW j \in G, s[i].ev.n = s[j].ev.n PROVE i = j
    <3>1. i \in F \union {z} /\ j \in F \union {z}
      BY <1>2, <1>5
    <3> QED BY <1>1, <1>5, <2>2, <2>3, <3>1
  <2> QED BY <2>1, <2>3 DEF Held, Numbers, G
<1>6. ASSUME Ascending(s, lo, hi), x.kind = "fill" => Below(N, {x.n}) PROVE Ascending(s, lo, z)
  <2>1. CASE x.kind # "fill"
    BY <1>2, <1>3, <1>6, <2>1 DEF Ascending, G
  <2>2. CASE x.kind = "fill"
    <3>1. ASSUME NEW i \in G, NEW j \in G, i < j PROVE s[i].ev.n < s[j].ev.n
      <4>1. i \in F
        <5>1. i \in F \union {z} /\ j \in F \union {z}
          BY <1>2, <2>2
        <5>2. j \in lo .. hi \/ j = z
          BY <1>1, <5>1
        <5>3. i # z
          BY <3>1, <5>2
        <5> QED BY <5>1, <5>3
      <4>2. CASE j = z
        BY <1>1, <1>6, <2>2, <4>1, <4>2 DEF Below
      <4>3. CASE j # z
        BY <1>2, <1>3, <1>6, <2>2, <3>1, <4>1, <4>3
      <4> QED BY <4>2, <4>3
    <3> QED BY <3>1 DEF Ascending, G
  <2> QED BY <2>1, <2>2
<1> QED BY <1>4, <1>5, <1>6

(* The same events elsewhere. *)
LEMMA Shifted ==
  ASSUME NEW s, NEW t, NEW lo \in Int, NEW hi \in Int, NEW k \in Int, NEW N,
         \A i \in lo .. hi : t[i + k].ev = s[i].ev,
         Held(s, lo, hi, N)
  PROVE  /\ Held(t, lo + k, hi + k, N)
         /\ Ascending(s, lo, hi) => Ascending(t, lo + k, hi + k)
<1> DEFINE F == FillsOf(s, lo, hi)
           G == FillsOf(t, lo + k, hi + k)
<1>1. /\ {s[i].ev.n : i \in F} = N
      /\ \A i, j \in F : s[i].ev.n = s[j].ev.n => i = j
      /\ Ascending(s, lo, hi) => \A i, j \in F : i < j => s[i].ev.n < s[j].ev.n
  BY DEF Held, Numbers, Ascending
<1>2. \A i \in F : i \in Int /\ i + k \in G /\ t[i + k].ev.n = s[i].ev.n
  BY DEF FillsOf
<1>3. \A j \in G : j \in Int /\ j - k \in F /\ t[j].ev.n = s[j - k].ev.n
  <2> SUFFICES ASSUME NEW j \in G PROVE j \in Int /\ j - k \in F /\ t[j].ev.n = s[j - k].ev.n
    OBVIOUS
  <2>1. j \in lo + k .. hi + k /\ t[j].ev.kind = "fill"
    BY DEF FillsOf
  <2>2. j - k \in lo .. hi /\ (j - k) + k = j
    BY <2>1
  <2>3. t[j].ev = s[j - k].ev
    BY <2>2
  <2> QED BY <2>1, <2>2, <2>3 DEF FillsOf
<1> HIDE DEF F, G
<1>4. {t[j].ev.n : j \in G} = {s[i].ev.n : i \in F}
  BY <1>2, <1>3
<1>5. ASSUME NEW i \in G, NEW j \in G
      PROVE  /\ t[i].ev.n = t[j].ev.n => i = j
             /\ Ascending(s, lo, hi) /\ i < j => t[i].ev.n < t[j].ev.n
  <2>1. i - k \in F /\ j - k \in F /\ (i < j => i - k < j - k) /\ (i - k = j - k => i = j)
    BY <1>3
  <2> QED BY <1>1, <1>3, <2>1
<1>6. Held(t, lo + k, hi + k, N)
  BY <1>1, <1>4, <1>5 DEF Held, Numbers, G
<1>7. Ascending(s, lo, hi) => Ascending(t, lo + k, hi + k)
  BY <1>5 DEF Ascending, G
<1> QED BY <1>6, <1>7

(* A part is cut in two. *)
LEMMA PartsSplit ==
  ASSUME NEW s, NEW L \in Nat, NEW k \in 0 .. L, NEW N, Held(s, 1, L, N)
  PROVE  \E M \in SUBSET N :
           /\ Held(s, 1, k, M) /\ Held(s, k + 1, L, N \ M)
           /\ Ascending(s, 1, L) =>
                Ascending(s, 1, k) /\ Ascending(s, k + 1, L) /\ Below(M, N \ M)
<1> DEFINE F == FillsOf(s, 1, L)
           G == FillsOf(s, 1, k)
           H == FillsOf(s, k + 1, L)
           M == {s[i].ev.n : i \in G}
<1>1. /\ {s[i].ev.n : i \in F} = N
      /\ \A i, j \in F : s[i].ev.n = s[j].ev.n => i = j
      /\ Ascending(s, 1, L) => \A i, j \in F : i < j => s[i].ev.n < s[j].ev.n
  BY DEF Held, Numbers, Ascending
<1>2. F = G \union H /\ \A i \in G, j \in H : i < j
  BY DEF FillsOf
<1>3. \A i \in G, j \in H : i # j
  BY DEF FillsOf
<1> HIDE DEF F, G, H
<1>4. M \in SUBSET N
  BY <1>1, <1>2
<1>5. {s[i].ev.n : i \in H} = N \ M
  <2>1. ASSUME NEW i \in H PROVE s[i].ev.n \in N \ M
    <3> SUFFICES ASSUME NEW j \in G, s[j].ev.n = s[i].ev.n PROVE FALSE
      BY <1>1, <1>2
    <3> QED BY <1>1, <1>2, <1>3
  <2>2. ASSUME NEW n \in N \ M PROVE \E i \in H : s[i].ev.n = n
    BY <1>1, <1>2
  <2> QED BY <2>1, <2>2
<1>6. Held(s, 1, k, M)
  BY <1>1, <1>2 DEF Held, Numbers, G
<1>7. Held(s, k + 1, L, N \ M)
  BY <1>1, <1>2, <1>5 DEF Held, Numbers, H
<1>8. ASSUME Ascending(s, 1, L)
      PROVE  Ascending(s, 1, k) /\ Ascending(s, k + 1, L) /\ Below(M, N \ M)
  <2>1. Ascending(s, 1, k) /\ Ascending(s, k + 1, L)
    BY <1>1, <1>2, <1>8 DEF Ascending, G, H
  <2>2. Below(M, {s[i].ev.n : i \in H})
    BY <1>1, <1>2, <1>8 DEF Below
  <2> QED BY <1>5, <2>1, <2>2
<1> QED BY <1>4, <1>6, <1>7, <1>8

(* Two parts are joined. *)
LEMMA PartsJoin ==
  ASSUME NEW T, NEW s \in Seq(T), NEW t \in Seq(T), NEW M, NEW N, M \intersect N = {},
         Held(s, 1, Len(s), M), Held(t, 1, Len(t), N)
  PROVE  LET u == s \o t
         IN  /\ Len(u) \in Nat /\ DOMAIN u = 1 .. Len(u) /\ Held(u, 1, Len(u), M \union N)
             /\ Ascending(s, 1, Len(s)) /\ Ascending(t, 1, Len(t)) /\ Below(M, N)
                  => Ascending(u, 1, Len(u))
<1> DEFINE u == s \o t
           k == Len(s)
           l == Len(t)
           F == FillsOf(s, 1, k)
           G == FillsOf(t, 1, l)
           H == FillsOf(u, 1, Len(u))
<1>1. /\ k \in Nat /\ l \in Nat /\ Len(u) = k + l /\ DOMAIN u = 1 .. k + l
      /\ \A i \in 1 .. k + l : u[i] = IF i <= k THEN s[i] ELSE t[i - k]
  <2>1. u \in Seq(T) /\ Len(u) = Len(s) + Len(t)
        /\ \A i \in 1 .. Len(s) + Len(t) : u[i] = IF i <= Len(s) THEN s[i] ELSE t[i - Len(s)]
    BY ConcatProperties
  <2> QED BY <2>1
<1> HIDE DEF u
<1>2. /\ {s[i].ev.n : i \in F} = M /\ {t[i].ev.n : i \in G} = N
      /\ \A i, j \in F : s[i].ev.n = s[j].ev.n => i = j
      /\ \A i, j \in G : t[i].ev.n = t[j].ev.n => i = j
      /\ Ascending(s, 1, k) => \A i, j \in F : i < j => s[i].ev.n < s[j].ev.n
      /\ Ascending(t, 1, l) => \A i, j \in G : i < j => t[i].ev.n < t[j].ev.n
  BY DEF Held, Numbers, Ascending
<1> HIDE DEF k, l
<1>3. \A i \in F : i \in 1 .. k /\ i \in H /\ u[i].ev.n = s[i].ev.n
  BY <1>1 DEF FillsOf
<1>4. \A i \in G : i + k \in H /\ u[i + k].ev.n = t[i].ev.n
  <2> SUFFICES ASSUME NEW i \in G PROVE i + k \in H /\ u[i + k].ev.n = t[i].ev.n
    OBVIOUS
  <2>1. i \in 1 .. l /\ t[i].ev.kind = "fill"
    BY DEF FillsOf
  <2>2. i + k \in 1 .. k + l /\ ~(i + k <= k) /\ (i + k) - k = i
    BY <1>1, <2>1
  <2>3. u[i + k] = t[i]
    BY <1>1, <2>2
  <2> QED BY <1>1, <2>1, <2>2, <2>3 DEF FillsOf
<1>5. ASSUME NEW j \in H
      PROVE  j \in 1 .. k + l /\ IF j <= k THEN j \in F /\ u[j].ev.n = s[j].ev.n
                                ELSE j - k \in G /\ u[j].ev.n = t[j - k].ev.n
  <2>1. j \in 1 .. k + l /\ u[j].ev.kind = "fill"
    BY <1>1 DEF FillsOf
  <2>2. CASE j <= k
    <3>1. j \in 1 .. k /\ u[j] = s[j]
      BY <1>1, <2>1, <2>2
    <3> QED BY <2>1, <2>2, <3>1 DEF FillsOf
  <2>3. CASE ~(j <= k)
    <3>1. j - k \in 1 .. l /\ u[j] = t[j - k]
      BY <1>1, <2>1, <2>3
    <3> QED BY <2>1, <2>3, <3>1 DEF FillsOf
  <2> QED BY <2>2, <2>3
<1> HIDE DEF F, G, H
<1>6. {u[j].ev.n : j \in H} = M \union N
  <2>1. ASSUME NEW j \in H PROVE u[j].ev.n \in M \union N
    BY <1>2, <1>5
  <2>2. ASSUME NEW n \in M \union N PROVE \E j \in H : u[j].ev.n = n
    <3>1. CASE n \in M
      BY <1>2, <1>3, <3>1
    <3>2. CASE n \in N
      BY <1>2, <1>4, <3>2
    <3> QED BY <3>1, <3>2
  <2> QED BY <2>1, <2>2
<1>7. \A j \in H : (j <= k => u[j].ev.n \in M) /\ (~(j <= k) => u[j].ev.n \in N)
  BY <1>2, <1>5
<1>8. ASSUME NEW i \in H, NEW j \in H, u[i].ev.n = u[j].ev.n PROVE i = j
  <2>1. (i <= k) <=> (j <= k)
    BY <1>7, <1>8
  <2>2. CASE i <= k
    BY <1>2, <1>5, <1>8, <2>1, <2>2
  <2>3. CASE ~(i <= k)
    <3>1. i - k = j - k
      BY <1>2, <1>5, <1>8, <2>1, <2>3
    <3> QED BY <1>1, <1>5, <3>1
  <2> QED BY <2>2, <2>3
<1>9. ASSUME Ascending(s, 1, k), Ascending(t, 1, l), Below(M, N), NEW i \in H, NEW j \in H, i < j
      PROVE  u[i].ev.n < u[j].ev.n
  <2>1. i \in Int /\ j \in Int /\ k \in Int
    BY <1>1, <1>5
  <2>2. CASE j <= k
    <3>1. i <= k
      BY <1>9, <2>1, <2>2
    <3> QED BY <1>2, <1>5, <1>9, <2>2, <3>1
  <2>3. CASE i <= k /\ ~(j <= k)
    BY <1>7, <1>9, <2>3 DEF Below
  <2>4. CASE ~(i <= k) /\ ~(j <= k)
    <3>1. i - k < j - k
      BY <1>9, <2>1
    <3> QED BY <1>2, <1>5, <1>9, <2>4, <3>1
  <2> QED BY <2>2, <2>3, <2>4
<1>10. Held(u, 1, Len(u), M \union N)
  BY <1>6, <1>8 DEF Held, Numbers, H
<1>11. Ascending(s, 1, k) /\ Ascending(t, 1, l) /\ Below(M, N) => Ascending(u, 1, Len(u))
  BY <1>9 DEF Ascending, H
<1>12. Len(u) \in Nat
  BY <1>1
<1> QED BY <1>1, <1>10, <1>11, <1>12 DEF u, k, l

(* t is s with one event more, after the first k. *)
Inserted(s, t, k, L, x) ==
  /\ \A i \in 1 .. k : t[i] = s[i]
  /\ t[k + 1] = x
  /\ \A i \in k + 1 .. L : t[i + 1] = s[i]

LEMMA EventInserted ==
  ASSUME NEW s, NEW t, NEW L \in Nat, NEW k \in 0 .. L, NEW x, Inserted(s, t, k, L, x),
         NEW N, Held(s, 1, L, N)
  PROVE  /\ x.ev.kind # "fill" =>
              Held(t, 1, L + 1, N) /\ (Ascending(s, 1, L) => Ascending(t, 1, L + 1))
         /\ x.ev.kind = "fill" /\ x.ev.n \notin N => Held(t, 1, L + 1, N \union {x.ev.n})
         /\ x.ev.kind = "fill" /\ Ascending(s, 1, L) /\ Below(N, {x.ev.n})
              /\ (\A i \in k + 1 .. L : s[i].ev.kind # "fill") => Ascending(t, 1, L + 1)
<1> DEFINE F == FillsOf(s, 1, L)
           G == FillsOf(t, 1, L + 1)
           z == k + 1
           New(i) == IF i <= k THEN i ELSE i + 1
           Old(j) == IF j <= k THEN j ELSE j - 1
<1>1. /\ {s[i].ev.n : i \in F} = N
      /\ \A i, j \in F : s[i].ev.n = s[j].ev.n => i = j
      /\ Ascending(s, 1, L) => \A i, j \in F : i < j => s[i].ev.n < s[j].ev.n
  BY DEF Held, Numbers, Ascending
<1>2. \A i \in F : New(i) \in G /\ New(i) # z /\ t[New(i)].ev.n = s[i].ev.n
  <2> SUFFICES ASSUME NEW i \in F PROVE New(i) \in G /\ New(i) # z /\ t[New(i)].ev.n = s[i].ev.n
    OBVIOUS
  <2>1. i \in 1 .. L /\ s[i].ev.kind = "fill"
    BY DEF FillsOf
  <2>2. New(i) \in 1 .. L + 1 /\ New(i) # z /\ t[New(i)] = s[i]
    BY <2>1 DEF Inserted
  <2> QED BY <2>1, <2>2 DEF FillsOf
<1>3. \A j \in G : j \in 1 .. L + 1 /\ (j # z => Old(j) \in F /\ t[j].ev.n = s[Old(j)].ev.n)
  <2> SUFFICES ASSUME NEW j \in G
               PROVE  j \in 1 .. L + 1 /\ (j # z => Old(j) \in F /\ t[j].ev.n = s[Old(j)].ev.n)
    OBVIOUS
  <2>1. j \in 1 .. L + 1 /\ t[j].ev.kind = "fill"
    BY DEF FillsOf
  <2>2. ASSUME j # z PROVE Old(j) \in 1 .. L /\ t[j] = s[Old(j)]
    <3>1. CASE j <= k
      BY <2>1, <3>1 DEF Inserted
    <3>2. CASE ~(j <= k)
      <4>1. j - 1 \in k + 1 .. L /\ (j - 1) + 1 = j /\ Old(j) = j - 1
        BY <2>1, <2>2, <3>2
      <4> QED BY <4>1 DEF Inserted
    <3> QED BY <3>1, <3>2
  <2> HIDE DEF Old
  <2> QED BY <2>1, <2>2 DEF FillsOf
<1>4. z \in G <=> x.ev.kind = "fill"
  BY DEF FillsOf, Inserted
<1>5. t[z] = x
  BY DEF Inserted
<1>6. \A i, j \in G : i # z /\ j # z => (i < j => Old(i) < Old(j)) /\ (Old(i) = Old(j) => i = j)
  BY <1>3
<1>7. (\A i \in k + 1 .. L : s[i].ev.kind # "fill") => \A j \in G : j <= z
  <2> SUFFICES ASSUME \A i \in k + 1 .. L : s[i].ev.kind # "fill", NEW j \in G, ~(j <= z)
               PROVE  FALSE
    BY <1>3
  <2>1. Old(j) \in F /\ Old(j) \in k + 1 .. L
    BY <1>3
  <2> HIDE DEF Old
  <2> QED BY <2>1 DEF FillsOf
<1> HIDE DEF F, G, New, Old
<1>8. {t[j].ev.n : j \in G \ {z}} = N
  BY <1>1, <1>2, <1>3
<1>9. ASSUME NEW i \in G \ {z}, NEW j \in G \ {z}
      PROVE  /\ t[i].ev.n = t[j].ev.n => i = j
             /\ Ascending(s, 1, L) /\ i < j => t[i].ev.n < t[j].ev.n
  BY <1>1, <1>3, <1>6
<1>10. ASSUME x.ev.kind # "fill"
       PROVE  Held(t, 1, L + 1, N) /\ (Ascending(s, 1, L) => Ascending(t, 1, L + 1))
  <2>1. G \ {z} = G
    BY <1>4, <1>10
  <2>2. Held(t, 1, L + 1, N)
    BY <1>8, <1>9, <2>1 DEF Held, Numbers, G
  <2>3. Ascending(s, 1, L) => Ascending(t, 1, L + 1)
    BY <1>9, <2>1 DEF Ascending, G
  <2> QED BY <2>2, <2>3
<1>11. ASSUME x.ev.kind = "fill", x.ev.n \notin N PROVE Held(t, 1, L + 1, N \union {x.ev.n})
  <2>1. {t[j].ev.n : j \in G} = N \union {x.ev.n}
    <3>1. ASSUME NEW j \in G PROVE t[j].ev.n \in N \union {x.ev.n}
      BY <1>5, <1>8
    <3>2. ASSUME NEW n \in N \union {x.ev.n} PROVE \E j \in G : t[j].ev.n = n
      BY <1>4, <1>5, <1>8, <1>11
    <3> QED BY <3>1, <3>2
  <2>2. \A j \in G \ {z} : t[j].ev.n # t[z].ev.n
    BY <1>5, <1>8, <1>11
  <2>3. ASSUME NEW i \in G, NEW j \in G, t[i].ev.n = t[j].ev.n PROVE i = j
    BY <1>9, <2>2, <2>3
  <2> QED BY <2>1, <2>3 DEF Held, Numbers, G
<1>12. ASSUME x.ev.kind = "fill", Ascending(s, 1, L), Below(N, {x.ev.n}),
              \A i \in k + 1 .. L : s[i].ev.kind # "fill"
       PROVE  Ascending(t, 1, L + 1)
  <2>1. ASSUME NEW i \in G, NEW j \in G, i < j PROVE t[i].ev.n < t[j].ev.n
    <3>1. i # z
      <4>1. j <= z /\ i \in Int /\ j \in Int
        BY <1>3, <1>7, <1>12
      <4> QED BY <2>1, <4>1
    <3>2. CASE j = z
      BY <1>5, <1>8, <1>12, <3>1, <3>2 DEF Below
    <3>3. CASE j # z
      BY <1>9, <1>12, <2>1, <3>1, <3>3
    <3> QED BY <3>2, <3>3
  <2> QED BY <2>1 DEF Ascending, G
<1> QED BY <1>10, <1>11, <1>12
-----------------------------------------------------------------------------
(* The messages held back stand in the order of their delivery. *)

Ordered(inbound) == \A i, j \in DOMAIN inbound : i < j => inbound[i].at <= inbound[j].at

LEMMA DueIsPrefix ==
  ASSUME NEW d, d.inbound \in Seq(Messages), Ordered(d.inbound), NEW at \in Int
  PROVE  LET k == DueBy(d, at)
         IN  /\ k \in 0 .. Len(d.inbound)
             /\ \A i \in 1 .. k : d.inbound[i].at <= at
             /\ \A i \in k + 1 .. Len(d.inbound) : d.inbound[i].at > at
<1> DEFINE s == d.inbound
           L == Len(s)
           S == {i \in DOMAIN s : s[i].at <= at}
           U == {n \in 1 .. L + 1 : n \notin S}
<1>1. /\ L \in Nat /\ DOMAIN s = 1 .. L /\ \A i \in 1 .. L : s[i].at \in Int
  <2>1. L \in Nat /\ DOMAIN s = 1 .. L /\ \A i \in 1 .. L : s[i] \in Messages
    OBVIOUS
  <2> QED BY <2>1 DEF Messages
<1>2. L + 1 \in U /\ U \subseteq Nat
  BY <1>1
<1>3. \A i \in 1 .. L : \A j \in 1 .. L : i < j => s[i].at <= s[j].at
  BY <1>1 DEF Ordered
<1> HIDE DEF U, s
<1>4. PICK u \in U : \A v \in U : u <= v
  BY <1>2, LeastNat
<1>5. u \in 1 .. L + 1 /\ u \notin S /\ \A v \in 1 .. L + 1 : v \notin S => u <= v
  BY <1>4 DEF U
<1>6. S = 1 .. u - 1
  <2>1. ASSUME NEW i \in 1 .. u - 1 PROVE i \in S
    <3>1. i \in 1 .. L + 1 /\ ~(u <= i)
      BY <1>1, <1>5
    <3> HIDE DEF S
    <3> QED BY <1>5, <3>1
  <2>2. ASSUME NEW i \in S PROVE i \in 1 .. u - 1
    <3>1. i \in 1 .. L /\ s[i].at <= at
      BY <1>1
    <3>2. CASE i < u
      BY <1>5, <3>1, <3>2
    <3>3. CASE ~(i < u)
      <4>1. i # u /\ u < i /\ u \in 1 .. L
        BY <1>1, <1>5, <3>1, <3>3
      <4>2. s[u].at <= s[i].at /\ s[u].at \in Int /\ s[i].at \in Int
        BY <1>1, <1>3, <3>1, <4>1
      <4>3. s[u].at <= at
        BY <3>1, <4>2
      <4> QED BY <1>1, <1>5, <4>1, <4>3
    <3> QED BY <3>2, <3>3
  <2> HIDE DEF S
  <2> QED BY <2>1, <2>2
<1>7. Cardinality(S) = u - 1
  <2>1. u - 1 \in Nat /\ 1 \in Int
    BY <1>1, <1>5
  <2>2. Cardinality(1 .. u - 1) = u - 1
    BY <2>1, FS_Interval
  <2> HIDE DEF S
  <2> QED BY <1>6, <2>2
<1>8. DueBy(d, at) = u - 1
  BY <1>7 DEF DueBy, s
<1>9. \A i \in 1 .. u - 1 : s[i].at <= at
  BY <1>6
<1>10. ASSUME NEW i \in u .. L PROVE s[i].at > at
  <2>1. i \in 1 .. L /\ i \notin 1 .. u - 1
    BY <1>1, <1>5
  <2>2. ~(s[i].at <= at)
    BY <1>1, <1>6, <2>1
  <2> QED BY <1>1, <2>1, <2>2
<1>11. u - 1 \in 0 .. L /\ (u - 1) + 1 = u
  BY <1>1, <1>5
<1> QED BY <1>8, <1>9, <1>10, <1>11 DEF s


HeardEvents == [ev : Events, at : Int]

(* The fills of A are heard, those of B on their way to the strategy,      *)
(* those of C held back; `o` says that no fill overtakes another.          *)
Shared(A, B, C, n) ==
  /\ n \in Nat /\ A \union B \union C = 1 .. n
  /\ A \intersect B = {} /\ A \intersect C = {} /\ B \intersect C = {}

Mail(d, A, B, C, n, o) ==
  /\ Shared(A, B, C, n)
  /\ d.heard \in Seq(HeardEvents)
  /\ Held(d.heard, 1, Len(d.heard), A)
  /\ Held(d.inbound, 1, Len(d.inbound), C)
  /\ Ordered(d.inbound)
  /\ o => /\ Ascending(d.heard, 1, Len(d.heard)) /\ Ascending(d.inbound, 1, Len(d.inbound))
          /\ Below(A, B) /\ Below(A, C) /\ Below(B, C)
          /\ \A i \in FillsOf(d.inbound, 1, Len(d.inbound)) :
               d.inbound[i].at <= d.now + cfg.inLatency

LEMMA SameMail ==
  ASSUME NEW d, NEW e, e.heard = d.heard, e.inbound = d.inbound, e.now = d.now,
         NEW A, NEW B, NEW C, NEW n, NEW o
  PROVE  Mail(d, A, B, C, n, o) => Mail(e, A, B, C, n, o)
BY DEF Mail

LEMMA InsertAtIs ==
  ASSUME NEW T, NEW s \in Seq(T), NEW x \in T, NEW k \in 0 .. Len(s)
  PROVE  LET t == InsertAt(s, k + 1, x)
         IN  t \in Seq(T) /\ Len(t) = Len(s) + 1 /\ Inserted(s, t, k, Len(s), x)
<1> DEFINE L == Len(s)
           p == SubSeq(s, 1, k)
           q == SubSeq(s, k + 1, L)
           u == p \o <<x>>
           t == InsertAt(s, k + 1, x)
<1>1. L \in Nat /\ (k + 1) - 1 = k /\ \A i \in 1 .. L : s[i] \in T
  OBVIOUS
<1>2. /\ p \in Seq(T) /\ Len(p) = k /\ \A i \in 1 .. k : p[i] = s[i]
      /\ q \in Seq(T) /\ Len(q) = L - k /\ \A i \in 1 .. L - k : q[i] = s[k + i]
  BY <1>1
<1>3. t = u \o q
  BY <1>1 DEF InsertAt
<1> HIDE DEF p, q, L, t
<1>4. /\ u \in Seq(T) /\ Len(u) = k + 1 /\ u[k + 1] = x /\ \A i \in 1 .. k : u[i] = p[i]
  BY <1>2
<1> HIDE DEF u
<1>5. /\ t \in Seq(T) /\ Len(t) = L + 1
      /\ \A i \in 1 .. k + 1 : t[i] = u[i]
      /\ \A i \in 1 .. L - k : t[(k + 1) + i] = q[i]
  <2>1. Len(u) + Len(q) = L + 1 /\ k \in Nat
    BY <1>1, <1>2, <1>4 DEF L
  <2>2. /\ u \o q \in Seq(T) /\ Len(u \o q) = Len(u) + Len(q)
        /\ \A i \in 1 .. Len(u) + Len(q) : (u \o q)[i] = IF i <= Len(u) THEN u[i] ELSE q[i - Len(u)]
    BY <1>2, <1>4, ConcatProperties, ZenonT(40)
  <2>3. \A i \in 1 .. k + 1 : i \in 1 .. L + 1 /\ i <= k + 1
    BY <2>1, <1>1 DEF L
  <2>4. \A i \in 1 .. L - k : (k + 1) + i \in 1 .. L + 1 /\ ~((k + 1) + i <= k + 1) /\ ((k + 1) + i) - (k + 1) = i
    BY <2>1, <1>1 DEF L
  <2>5. \A i \in 1 .. k + 1 : t[i] = u[i]
    BY <1>3, <1>4, <2>1, <2>2, <2>3
  <2>6. \A i \in 1 .. L - k : t[(k + 1) + i] = q[i]
    BY <1>3, <1>4, <2>1, <2>2, <2>4
  <2> QED BY <1>3, <2>1, <2>2, <2>5, <2>6
<1>6. \A i \in k + 1 .. L : t[i + 1] = s[i]
  <2> SUFFICES ASSUME NEW i \in k + 1 .. L PROVE t[i + 1] = s[i]
    OBVIOUS
  <2>1. i - k \in 1 .. L - k /\ (k + 1) + (i - k) = i + 1 /\ k + (i - k) = i
    BY <1>1
  <2> QED BY <1>2, <1>5, <2>1
<1>7. (\A i \in 1 .. k : t[i] = s[i]) /\ t[k + 1] = x
  <2>1. k + 1 \in 1 .. k + 1 /\ \A i \in 1 .. k : i \in 1 .. k + 1
    OBVIOUS
  <2> QED BY <1>2, <1>4, <1>5, <2>1
<1> QED BY <1>5, <1>6, <1>7 DEF Inserted, L, t

(* The number of the next fill. *)
LEMMA NextIsLast ==
  ASSUME NEW A, NEW B, NEW C, NEW n, Shared(A, B, C, n)
  PROVE  /\ Shared(A, B, C \union {n + 1}, n + 1)
         /\ n + 1 \notin A /\ n + 1 \notin B /\ n + 1 \notin C
         /\ Below(A, {n + 1}) /\ Below(B, {n + 1}) /\ Below(C, {n + 1})
<1>1. /\ n \in Nat /\ A \union B \union C = 1 .. n
      /\ A \intersect B = {} /\ A \intersect C = {} /\ B \intersect C = {}
  BY DEF Shared
<1>2. (1 .. n) \union {n + 1} = 1 .. n + 1 /\ n + 1 \notin 1 .. n /\ n + 1 \in Nat
  BY <1>1
<1>3. \A m \in 1 .. n : m < n + 1
  BY <1>1
<1>4. A \subseteq 1 .. n /\ B \subseteq 1 .. n /\ C \subseteq 1 .. n
  BY <1>1
<1>5. A \union B \union (C \union {n + 1}) = 1 .. n + 1
  BY <1>1, <1>2
<1>6. n + 1 \notin A /\ n + 1 \notin B /\ n + 1 \notin C
  BY <1>2, <1>4
<1>7. Shared(A, B, C \union {n + 1}, n + 1)
  BY <1>1, <1>2, <1>5, <1>6 DEF Shared
<1>8. Below(A, {n + 1}) /\ Below(B, {n + 1}) /\ Below(C, {n + 1})
  BY <1>3, <1>4 DEF Below
<1> QED BY <1>6, <1>7, <1>8

LEMMA LaterMail ==
  ASSUME IsConfig, NEW d, IsDriver(d), NEW A, NEW B, NEW C, NEW n, NEW o,
         Mail(d, A, B, C, n, o), NEW at \in Int, NEW ev \in Notes
  PROVE  LET e == Later(d, at, ev)
         IN  /\ ev.kind # "fill" => Mail(e, A, B, C, n, o)
             /\ ev.kind = "fill" /\ ev.n = n + 1 /\ (o => at = d.now + cfg.inLatency)
                  => Mail(e, A, B, C \union {n + 1}, n + 1, o)
             /\ e.heard = d.heard /\ e.blotter = d.blotter
<1>0. d.inbound \in Seq(Messages) /\ Ordered(d.inbound) /\ at \in Int
  BY DEF IsDriver, StrategyTyped, Mail
<1> DEFINE s == d.inbound
           L == Len(s)
           k == DueBy(d, at)
<1>2. k \in 0 .. L /\ (\A i \in 1 .. k : s[i].at <= at) /\ (\A i \in k + 1 .. L : s[i].at > at)
  <2> HIDE DEF k
  <2>1. k = DueBy(d, at)
    BY DEF k
  <2> QED BY <1>0, <2>1, DueIsPrefix
<1> DEFINE x == [at |-> at, ev |-> ev]
           e == Later(d, at, ev)
           t == InsertAt(s, k + 1, x)
<1>1. s \in Seq(Messages) /\ x \in Messages /\ Ordered(s)
  BY <1>0 DEF Messages
<1>3. /\ e.inbound = t /\ e.heard = d.heard /\ e.now = d.now /\ e.blotter = d.blotter
  BY DEF Later, IsDriver, Fields
<1> HIDE DEF e, k
<1>4. x.at = at /\ x.ev = ev
  OBVIOUS
<1> HIDE DEF x
<1>5. t \in Seq(Messages) /\ Len(t) = L + 1 /\ Inserted(s, t, k, L, x)
  BY <1>1, <1>2, InsertAtIs
<1> HIDE DEF t
<1>6. /\ L \in Nat /\ DOMAIN s = 1 .. L /\ \A i \in 1 .. L : s[i].at \in Int
      /\ DOMAIN t = 1 .. L + 1
  <2>1. L \in Nat /\ DOMAIN s = 1 .. L /\ \A i \in 1 .. L : s[i] \in Messages
    BY <1>1
  <2> QED BY <1>5, <2>1 DEF Messages
<1> HIDE DEF s, L
<1>7. Ordered(t)
  <2> SUFFICES ASSUME NEW i \in 1 .. L + 1, NEW j \in 1 .. L + 1, i < j PROVE t[i].at <= t[j].at
    BY <1>6 DEF Ordered
  <2>1. \A p, q \in 1 .. L : p < q => s[p].at <= s[q].at
    BY <1>1, <1>6 DEF Ordered
  <2>2. /\ \A p \in 1 .. L + 1 : p <= k => p \in 1 .. L /\ t[p] = s[p]
        /\ \A p \in 1 .. L + 1 : p > k + 1 => p - 1 \in k + 1 .. L /\ p - 1 \in 1 .. L /\ t[p] = s[p - 1]
        /\ t[k + 1] = x
    <3>1. \A p \in 1 .. L + 1 : p > k + 1 => p - 1 \in k + 1 .. L /\ (p - 1) + 1 = p
      BY <1>2, <1>6
    <3>2. \A p \in 1 .. L + 1 : p <= k => p \in 1 .. k /\ p \in 1 .. L
      BY <1>2, <1>6
    <3>3. /\ \A p \in 1 .. k : t[p] = s[p]
          /\ t[k + 1] = x
          /\ \A p \in k + 1 .. L : t[p + 1] = s[p]
      BY <1>5 DEF Inserted
    <3>4. \A p \in k + 1 .. L : p \in 1 .. L
      BY <1>2, <1>6
    <3> HIDE DEF k
    <3> QED BY <3>1, <3>2, <3>3, <3>4
  <2>3. CASE i <= k /\ j <= k
    BY <2>1, <2>2, <2>3
  <2>4. CASE i <= k /\ j = k + 1
    BY <1>2, <1>4, <2>2, <2>4
  <2>5. CASE i <= k /\ j > k + 1
    <3>1. i < j - 1
      BY <1>2, <1>6, <2>5
    <3> QED BY <2>1, <2>2, <2>5, <3>1
  <2>6. CASE i = k + 1
    <3>1. j > k + 1 /\ t[j] = s[j - 1] /\ j - 1 \in k + 1 .. L /\ j - 1 \in 1 .. L
      BY <2>2, <2>6
    <3>2. s[j - 1].at > at /\ s[j - 1].at \in Int
      BY <1>2, <1>6, <3>1
    <3> QED BY <1>4, <2>2, <2>6, <3>1, <3>2
  <2>7. CASE i > k + 1
    <3>1. j > k + 1 /\ i - 1 < j - 1
      BY <1>2, <1>6, <2>7
    <3> QED BY <2>1, <2>2, <2>7, <3>1
  <2>8. i <= k \/ i = k + 1 \/ i > k + 1
    BY <1>2
  <2>9. j <= k \/ j = k + 1 \/ j > k + 1
    BY <1>2
  <2> QED BY <2>3, <2>4, <2>5, <2>6, <2>7, <2>8, <2>9
<1> DEFINE late == d.now + cfg.inLatency
<1>8. /\ Shared(A, B, C, n)
      /\ d.heard \in Seq(HeardEvents) /\ Held(d.heard, 1, Len(d.heard), A)
      /\ Held(s, 1, L, C)
      /\ o => /\ Ascending(d.heard, 1, Len(d.heard)) /\ Ascending(s, 1, L)
              /\ Below(A, B) /\ Below(A, C) /\ Below(B, C)
              /\ \A i \in FillsOf(s, 1, L) : s[i].at <= late
  BY DEF Mail, s, L
<1>9. late \in Int
  BY ConfigTyped DEF IsDriver, MarketTyped
<1> HIDE DEF late
<1>10. \A i \in FillsOf(t, 1, L + 1) :
         t[i] = x \/ \E j \in FillsOf(s, 1, L) : t[i] = s[j]
  <2> SUFFICES ASSUME NEW i \in FillsOf(t, 1, L + 1)
               PROVE  t[i] = x \/ \E j \in FillsOf(s, 1, L) : t[i] = s[j]
    OBVIOUS
  <2>1. i \in 1 .. L + 1 /\ t[i].ev.kind = "fill"
    BY DEF FillsOf
  <2>2. CASE i <= k
    <3>1. i \in 1 .. L /\ t[i] = s[i]
      BY <1>2, <1>5, <1>6, <2>1, <2>2 DEF Inserted
    <3> QED BY <2>1, <3>1 DEF FillsOf
  <2>3. CASE i = k + 1
    BY <1>5, <2>3 DEF Inserted
  <2>4. CASE i > k + 1
    <3>1. i - 1 \in k + 1 .. L /\ (i - 1) + 1 = i /\ i - 1 \in 1 .. L
      BY <1>2, <1>6, <2>1, <2>4
    <3>2. t[i] = s[i - 1]
      BY <1>5, <3>1 DEF Inserted
    <3> QED BY <2>1, <3>1, <3>2 DEF FillsOf
  <2>5. i <= k \/ i = k + 1 \/ i > k + 1
    BY <1>2, <2>1
  <2> QED BY <2>2, <2>3, <2>4, <2>5
<1>11. ASSUME ev.kind # "fill" PROVE Mail(e, A, B, C, n, o)
  <2>1. x.ev.kind # "fill"
    BY <1>4, <1>11
  <2>2. Held(t, 1, L + 1, C) /\ (Ascending(s, 1, L) => Ascending(t, 1, L + 1))
    BY <1>2, <1>5, <1>6, <1>8, <2>1, EventInserted
  <2>3. o => \A i \in FillsOf(t, 1, L + 1) : t[i].at <= late
    <3> SUFFICES ASSUME o, NEW i \in FillsOf(t, 1, L + 1) PROVE t[i].at <= late
      OBVIOUS
    <3>1. t[i] # x
      BY <2>1 DEF FillsOf
    <3> QED BY <1>8, <1>10, <3>1
  <2> QED BY <1>3, <1>5, <1>7, <1>8, <2>2, <2>3 DEF Mail, late
<1>12. ASSUME ev.kind = "fill", ev.n = n + 1, o => at = d.now + cfg.inLatency
       PROVE  Mail(e, A, B, C \union {n + 1}, n + 1, o)
  <2>0. o => at = late
    BY <1>12 DEF late
  <2>1. o => \A i \in k + 1 .. L : s[i].ev.kind # "fill"
    <3> SUFFICES ASSUME o, NEW i \in k + 1 .. L, s[i].ev.kind = "fill" PROVE FALSE
      OBVIOUS
    <3>1. i \in FillsOf(s, 1, L) /\ i \in 1 .. L
      BY <1>2, <1>6 DEF FillsOf
    <3>2. s[i].at <= late /\ s[i].at > late /\ s[i].at \in Int
      BY <1>2, <1>6, <1>8, <2>0, <3>1
    <3> QED BY <1>9, <3>2
  <2>2. /\ Shared(A, B, C \union {n + 1}, n + 1)
        /\ n + 1 \notin C /\ Below(A, {n + 1}) /\ Below(B, {n + 1}) /\ Below(C, {n + 1})
    BY <1>8, NextIsLast
  <2>3. Held(t, 1, L + 1, C \union {n + 1})
    <3>1. x.ev.kind = "fill" /\ x.ev.n = n + 1 /\ x.ev.n \notin C
      BY <1>4, <1>12, <2>2
    <3>2. Held(t, 1, L + 1, C \union {x.ev.n})
      BY <1>2, <1>5, <1>6, <1>8, <3>1, EventInserted
    <3> QED BY <3>1, <3>2
  <2>4. o => Ascending(t, 1, L + 1)
    <3> SUFFICES ASSUME o PROVE Ascending(t, 1, L + 1)
      OBVIOUS
    <3>1. x.ev.kind = "fill" /\ Below(C, {x.ev.n})
      BY <1>4, <1>12, <2>2
    <3> QED BY <1>2, <1>5, <1>6, <1>8, <2>1, <3>1, EventInserted
  <2>5. o => \A i \in FillsOf(t, 1, L + 1) : t[i].at <= late
    BY <1>4, <1>8, <1>9, <1>10, <2>0
  <2>6. o => Below(A, C \union {n + 1}) /\ Below(B, C \union {n + 1})
    BY <1>8, <2>2 DEF Below
  <2> QED BY <1>3, <1>5, <1>7, <1>8, <2>2, <2>3, <2>4, <2>5, <2>6 DEF Mail, late
<1> QED BY <1>3, <1>11, <1>12 DEF e

LEMMA DelayedMail ==
  ASSUME IsConfig, NEW d, IsDriver(d), NEW A, NEW B, NEW C, NEW n, NEW o,
         Mail(d, A, B, C, n, o), NEW ev \in Notes
  PROVE  LET e == Delayed(d, ev)
         IN  /\ ev.kind # "fill" => Mail(e, A, B, C, n, o)
             /\ ev.kind = "fill" /\ ev.n = n + 1 /\ (o => NoJitter("back"))
                  => Mail(e, A, B, C \union {n + 1}, n + 1, o)
             /\ e.heard = d.heard /\ e.blotter = d.blotter
<1> DEFINE c == Draw(d)
           lat == Drawn(d, cfg.inLatency, "back")
           at == d.now + lat
<1>1. IsDriver(c) /\ c.now = d.now /\ c.inbound = d.inbound /\ c.blotter = d.blotter
  BY DrawKeeps DEF SameMarket, SameBook, SameStrategy
<1>2. c.heard = d.heard
  BY DrawKeeps
<1>3. d.now \in Int /\ lat \in Nat /\ (NoJitter("back") => lat = cfg.inLatency)
  <2>1. d.now \in Int /\ cfg.inLatency \in Nat /\ DeskTyped(d)
    BY ConfigTyped DEF IsDriver, MarketTyped
  <2> QED BY <2>1, DrawnTyped
<1>4. Delayed(d, ev) = Later(c, at, ev)
  BY DEF Delayed
<1> HIDE DEF c, lat
<1>5. at \in Int /\ (NoJitter("back") => at = c.now + cfg.inLatency)
  BY <1>1, <1>3
<1> HIDE DEF at
<1>6. Mail(c, A, B, C, n, o)
  BY <1>1, <1>2, SameMail
<1> DEFINE e == Later(c, at, ev)
<1>7. /\ ev.kind # "fill" => Mail(e, A, B, C, n, o)
      /\ ev.kind = "fill" /\ ev.n = n + 1 /\ (o => at = c.now + cfg.inLatency)
           => Mail(e, A, B, C \union {n + 1}, n + 1, o)
      /\ e.heard = c.heard /\ e.blotter = c.blotter
  BY <1>1, <1>5, <1>6, LaterMail
<1> HIDE DEF e
<1> QED BY <1>1, <1>2, <1>4, <1>5, <1>7 DEF e

(* The live runner holds nothing back. *)
LEMMA LiveHoldsNothing ==
  ASSUME NEW d, IsDriver(d), NEW a
  PROVE  LET e == HandleAction(d, a, "live") IN e.inbound = d.inbound /\ e.heard = d.heard
<1> DEFINE e == HandleAction(d, a, "live")
           c == [d EXCEPT !.rejected = @ + 1,
                          !.refused = @ \union {[held |-> d.qty[a.symbol], signed |-> a.signed]}]
<1>1. e \in {d, Admitted(d, a, "live"), c, Cancel(d, a, "live")}
  <2>1. Refused(d, a, "live") = c
    BY DEF Refused
  <2> QED BY <2>1 DEF HandleAction, Submit
<1>2. c.inbound = d.inbound /\ c.heard = d.heard
  BY DEF IsDriver, Fields
<1>3. Admitted(d, a, "live").inbound = d.inbound /\ Admitted(d, a, "live").heard = d.heard
  BY DEF Admitted, Draw, IsDriver, Fields
<1>4. Cancel(d, a, "live").inbound = d.inbound /\ Cancel(d, a, "live").heard = d.heard
  BY DEF Cancel, Draw, IsDriver, Fields
<1> HIDE DEF e, c
<1> QED BY <1>1, <1>2, <1>3, <1>4 DEF e

(* The strategy's actions add no fill. *)
LEMMA HandleActionMail ==
  ASSUME IsConfig, NEW d, IsDriver(d), NEW A, NEW B, NEW C, NEW n, NEW o,
         Mail(d, A, B, C, n, o), NEW a \in Actions \union {Silent}, NEW driver \in {"live", "back"}
  PROVE  LET e == HandleAction(d, a, driver)
         IN  Mail(e, A, B, C, n, o) /\ e.heard = d.heard
<1> DEFINE e == HandleAction(d, a, driver)
<1>1. CASE a.kind = "submit"
  <2> DEFINE c == [d EXCEPT !.rejected = @ + 1,
                            !.refused = @ \union {[held |-> d.qty[a.symbol], signed |-> a.signed]}]
             ev == [kind |-> "rejected", n |-> c.rejected]
  <2>1. e = Submit(d, a, driver) /\ a \in Actions
    BY <1>1 DEF HandleAction, Silent
  <2>2. e \in {d, Admitted(d, a, driver)} \/ (~Gate(d, a) /\ e = Refused(d, a, driver))
    BY <2>1 DEF Submit
  <2>3. LET f == Admitted(d, a, driver)
        IN  f.heard = d.heard /\ f.inbound = d.inbound /\ f.now = d.now
    BY DEF Admitted, Draw, IsDriver, Fields
  <2>4. CASE e \in {d, Admitted(d, a, driver)}
    BY <2>3, <2>4, SameMail
  <2>5. CASE ~Gate(d, a) /\ e = Refused(d, a, driver)
    <3>1. c.heard = d.heard /\ c.inbound = d.inbound /\ c.now = d.now
      BY DEF IsDriver, Fields
    <3>2. Mail(c, A, B, C, n, o)
      BY <3>1, SameMail
    <3>3. Acted(d, Refused(d, a, "live"))
      BY <1>1, <2>1, <2>5, RefusedKeeps
    <3>4. IsDriver(c) /\ Refused(d, a, "live") = c
      BY <3>3 DEF Refused, Acted
    <3>5. IF driver = "live" THEN e = c ELSE e = Delayed(c, ev)
      BY <2>5 DEF Refused
    <3>6. ev \in Notes /\ ev.kind # "fill"
      BY <3>4 DEF IsDriver, DeskTyped, Notes, NoteKinds
    <3> HIDE DEF c, ev, e
    <3>7. Mail(Delayed(c, ev), A, B, C, n, o) /\ Delayed(c, ev).heard = c.heard
      BY <3>2, <3>4, <3>6, DelayedMail
    <3> QED BY <3>1, <3>2, <3>5, <3>7 DEF e
  <2> QED BY <2>2, <2>4, <2>5
<1>2. CASE a.kind = "cancel"
  <2>1. e = Cancel(d, a, driver)
    BY <1>2 DEF HandleAction
  <2>2. LET f == Cancel(d, a, driver)
        IN  f.heard = d.heard /\ f.inbound = d.inbound /\ f.now = d.now
    BY DEF Cancel, Draw, IsDriver, Fields
  <2> QED BY <2>1, <2>2, SameMail
<1>3. CASE a.kind = "timer" /\ driver = "back"
  <2> DEFINE ev == [kind |-> "timer", n |-> d.now + a.delay]
  <2>1. a \in [kind : {"timer"}, delay : Nat]
    BY <1>3 DEF Silent, Actions
  <2>2. d.now + a.delay \in Int /\ ev \in Notes /\ ev.kind # "fill"
    BY <2>1 DEF IsDriver, MarketTyped, Notes, NoteKinds
  <2>3. e = Later(d, d.now + a.delay, ev)
    BY <1>3 DEF HandleAction
  <2> HIDE DEF e, ev
  <2>4. Mail(e, A, B, C, n, o) /\ e.heard = d.heard
    BY <2>2, <2>3, LaterMail
  <2> QED BY <1>3, <2>4 DEF e
<1>4. CASE a.kind \notin {"submit", "cancel"} /\ ~(a.kind = "timer" /\ driver = "back")
  <2>1. e = d
    BY <1>4 DEF HandleAction
  <2> QED BY <2>1
<1> QED BY <1>1, <1>2, <1>3, <1>4

(* The strategy hears of a fill on its way, or of something else. *)
LEMMA ToldMail ==
  ASSUME IsConfig, NEW d, IsDriver(d), NEW A, NEW B, NEW C, NEW n, NEW o,
         Mail(d, A, B, C, n, o), NEW ev \in Events
  PROVE  LET e == Told(d, ev)
         IN  /\ ev.kind # "fill" => Mail(e, A, B, C, n, o)
             /\ ev.kind = "fill" /\ ev.n \in B /\ (o => \A m \in B \ {ev.n} : ev.n < m)
                  => Mail(e, A \union {ev.n}, B \ {ev.n}, C, n, o)
             /\ ev.kind = "fill" /\ ev.n = n + 1 /\ B = {} /\ C = {}
                  => Mail(e, A \union {n + 1}, {}, {}, n + 1, o)
             /\ e.inbound = d.inbound
<1> DEFINE e == Told(d, ev)
           x == [ev |-> ev, at |-> d.now]
           s == d.heard
           L == Len(s)
           t == Append(s, x)
<1>1. e.heard = t /\ e.inbound = d.inbound /\ e.now = d.now
  BY DEF Told, IsDriver, Fields
<1>2. x \in HeardEvents /\ s \in Seq(HeardEvents)
  BY DEF HeardEvents, Mail, IsDriver, MarketTyped
<1> HIDE DEF e
<1>3. x.ev = ev
  OBVIOUS
<1> HIDE DEF x
<1>4. /\ L \in Nat /\ t \in Seq(HeardEvents) /\ Len(t) = L + 1 /\ t[L + 1] = x
      /\ \A i \in 1 .. L : t[i] = s[i]
  BY <1>2, AppendProperties
<1> HIDE DEF t
<1> DEFINE F == FillsOf(d.inbound, 1, Len(d.inbound))
           Soon == \A i \in F : d.inbound[i].at <= d.now + cfg.inLatency
<1>5. /\ Shared(A, B, C, n) /\ Held(s, 1, L, A)
      /\ Held(d.inbound, 1, Len(d.inbound), C) /\ Ordered(d.inbound)
      /\ o => /\ Ascending(s, 1, L) /\ Ascending(d.inbound, 1, Len(d.inbound))
              /\ Below(A, B) /\ Below(A, C) /\ Below(B, C) /\ Soon
  BY DEF Mail
<1> HIDE DEF s, L
<1>6. Held(t, 1, L, A) /\ (Ascending(s, 1, L) => Ascending(t, 1, L))
  <2>1. FillsOf(t, 1, L) = FillsOf(s, 1, L)
    BY <1>4 DEF FillsOf
  <2>2. \A i \in FillsOf(s, 1, L) : t[i] = s[i]
    BY <1>4 DEF FillsOf
  <2>3. {t[i].ev.n : i \in FillsOf(t, 1, L)} = {s[i].ev.n : i \in FillsOf(s, 1, L)}
    BY <2>1, <2>2
  <2> QED BY <1>5, <2>1, <2>2, <2>3 DEF Held, Numbers, Ascending
<1>7. /\ ev.kind # "fill" => Held(t, 1, L + 1, A)
      /\ ev.kind = "fill" /\ ev.n \notin A => Held(t, 1, L + 1, A \union {ev.n})
      /\ Ascending(s, 1, L) /\ (ev.kind = "fill" => Below(A, {ev.n})) => Ascending(t, 1, L + 1)
  <2>1. 1 <= L + 1 /\ L \in Int /\ 1 \in Int
    BY <1>4
  <2>2. /\ t[L + 1].ev.kind # "fill" => Held(t, 1, L + 1, A)
        /\ t[L + 1].ev.kind = "fill" /\ t[L + 1].ev.n \notin A
             => Held(t, 1, L + 1, A \union {t[L + 1].ev.n})
        /\ Ascending(t, 1, L) /\ (t[L + 1].ev.kind = "fill" => Below(A, {t[L + 1].ev.n}))
             => Ascending(t, 1, L + 1)
    BY <1>6, <2>1, LastAdded
  <2>3. t[L + 1].ev = ev
    BY <1>3, <1>4
  <2> QED BY <1>6, <2>2, <2>3
<1> HIDE DEF F
<1>8. ev.kind # "fill" => Mail(e, A, B, C, n, o)
  BY <1>1, <1>4, <1>5, <1>7 DEF Mail, F
<1>9. ASSUME ev.kind = "fill", ev.n \in B, o => \A m \in B \ {ev.n} : ev.n < m
      PROVE  Mail(e, A \union {ev.n}, B \ {ev.n}, C, n, o)
  <2>1. ev.n \notin A /\ Shared(A \union {ev.n}, B \ {ev.n}, C, n)
    <3>1. (A \union {ev.n}) \union (B \ {ev.n}) \union C = A \union B \union C
      BY <1>9
    <3> QED BY <1>5, <1>9, <3>1 DEF Shared
  <2>2. o => /\ Below(A, {ev.n}) /\ Below(A \union {ev.n}, B \ {ev.n})
             /\ Below(A \union {ev.n}, C) /\ Below(B \ {ev.n}, C)
    BY <1>5, <1>9 DEF Below
  <2> QED BY <1>1, <1>4, <1>5, <1>7, <1>9, <2>1, <2>2 DEF Mail, F
<1>10. ASSUME ev.kind = "fill", ev.n = n + 1, B = {}, C = {}
       PROVE  Mail(e, A \union {n + 1}, {}, {}, n + 1, o)
  <2>1. n + 1 \notin A /\ Below(A, {n + 1}) /\ Shared(A, B, C \union {n + 1}, n + 1)
    BY <1>5, NextIsLast
  <2>2. Shared(A \union {n + 1}, {}, {}, n + 1)
    BY <1>10, <2>1 DEF Shared
  <2>3. Below(A \union {n + 1}, {}) /\ Below({}, {})
    BY DEF Below
  <2> QED BY <1>1, <1>4, <1>5, <1>7, <1>10, <2>1, <2>2, <2>3 DEF Mail, F
<1> QED BY <1>1, <1>8, <1>9, <1>10 DEF e

LEMMA HearMail ==
  ASSUME IsConfig, NEW d, IsDriver(d), NEW A, NEW B, NEW C, NEW n, NEW o,
         Mail(d, A, B, C, n, o), NEW ev \in Events, NEW driver \in {"live", "back"}
  PROVE  LET e == Hear(d, ev, driver)
         IN  /\ ev.kind # "fill" => Mail(e, A, B, C, n, o)
             /\ ev.kind = "fill" /\ ev.n \in B /\ (o => \A m \in B \ {ev.n} : ev.n < m)
                  => Mail(e, A \union {ev.n}, B \ {ev.n}, C, n, o)
             /\ ev.kind = "fill" /\ ev.n = n + 1 /\ B = {} /\ C = {}
                  => Mail(e, A \union {n + 1}, {}, {}, n + 1, o)
             /\ e.blotter = d.blotter /\ (driver = "live" => e.inbound = d.inbound)
<1> DEFINE t == Told(d, ev)
           a == Answer(ev.kind, d.seen[ev.kind] + 1)
           e == Hear(d, ev, driver)
<1>1. e = HandleAction(t, a, driver) /\ a \in Actions \union {Silent}
  BY HearIs, AnswerTyped
<1>2. /\ ev.kind # "fill" => Mail(t, A, B, C, n, o)
      /\ ev.kind = "fill" /\ ev.n \in B /\ (o => \A m \in B \ {ev.n} : ev.n < m)
           => Mail(t, A \union {ev.n}, B \ {ev.n}, C, n, o)
      /\ ev.kind = "fill" /\ ev.n = n + 1 /\ B = {} /\ C = {}
           => Mail(t, A \union {n + 1}, {}, {}, n + 1, o)
      /\ t.inbound = d.inbound
  BY ToldMail
<1>3. IsDriver(t) /\ t.blotter = d.blotter
  BY ToldKeeps DEF Acted, SameBook
<1> HIDE DEF t, a, e
<1>4. \A X, Y, Z, x : Mail(t, X, Y, Z, x, o) => Mail(e, X, Y, Z, x, o)
  BY <1>1, <1>3, HandleActionMail
<1>5. e.blotter = t.blotter
  BY <1>1, <1>3, HandleActionKeeps DEF Acted, SameBook
<1>6. driver = "live" => e.inbound = t.inbound
  BY <1>1, <1>3, LiveHoldsNothing
<1> QED BY <1>2, <1>3, <1>4, <1>5, <1>6 DEF e

(* Between two steps the live runner has told all fills, and the backtest  *)
(* holds back what it has not told.                                        *)
Posted(d, driver) ==
  LET n == Len(d.blotter)
  IN  IF driver = "live" THEN d.inbound = <<>> /\ Mail(d, 1 .. n, {}, {}, n, TRUE)
      ELSE \E A, C \in SUBSET Nat : Mail(d, A, {}, C, n, NoJitter("back"))

Posts == {"live", "back"}

LEMMA SamePosted ==
  ASSUME NEW d, NEW e, e.heard = d.heard, e.inbound = d.inbound, e.now = d.now,
         e.blotter = d.blotter, NEW driver, Posted(d, driver)
  PROVE  Posted(e, driver)
<1>1. \A A, B, C, n, o : Mail(d, A, B, C, n, o) => Mail(e, A, B, C, n, o)
  BY SameMail
<1> QED BY <1>1 DEF Posted

LEMMA HearPosted ==
  ASSUME IsConfig, NEW d, IsDriver(d), NEW driver \in Posts, Posted(d, driver),
         NEW ev \in Events, ev.kind # "fill"
  PROVE  Posted(Hear(d, ev, driver), driver)
<1> DEFINE e == Hear(d, ev, driver)
           n == Len(d.blotter)
<1>1. \A A, B, C, x, o : Mail(d, A, B, C, x, o) =>
        Mail(e, A, B, C, x, o) /\ e.blotter = d.blotter /\ (driver = "live" => e.inbound = d.inbound)
  BY HearMail DEF Posts
<1> HIDE DEF e
<1>2. CASE driver = "live"
  <2>1. d.inbound = <<>> /\ Mail(d, 1 .. n, {}, {}, n, TRUE)
    BY <1>2 DEF Posted
  <2> QED BY <1>1, <1>2, <2>1 DEF Posted, e
<1>3. CASE driver # "live"
  <2>1. PICK A, C \in SUBSET Nat : Mail(d, A, {}, C, n, NoJitter("back"))
    BY <1>3 DEF Posted
  <2> QED BY <1>1, <1>3, <2>1 DEF Posted, e
<1> QED BY <1>2, <1>3

(* A note is told or held back; a fill is the next one. *)
LEMMA TellPosted ==
  ASSUME IsConfig, NEW d, IsDriver(d), NEW driver \in Posts, NEW ev \in Notes,
         NEW b, IsDriver(b), b.heard = d.heard, b.inbound = d.inbound, b.now = d.now,
         Posted(d, driver),
         \/ ev.kind # "fill" /\ b.blotter = d.blotter
         \/ ev.kind = "fill" /\ ev.n = Len(d.blotter) + 1 /\ Len(b.blotter) = Len(d.blotter) + 1
  PROVE  Posted(Tell(b, ev, driver), driver)
<1> DEFINE n == Len(d.blotter)
           e == Tell(b, ev, driver)
<1>1. \A A, C, o : Mail(d, A, {}, C, n, o) => Mail(b, A, {}, C, n, o)
  BY SameMail
<1>2. n \in Nat /\ ev \in Events
  BY NotesAreEvents DEF IsDriver, BookTyped
<1>3. CASE driver = "live"
  <2>1. e = Hear(b, ev, "live")
    BY <1>3 DEF Tell
  <2>2. b.inbound = <<>> /\ Mail(b, 1 .. n, {}, {}, n, TRUE)
    BY <1>1, <1>3 DEF Posted
  <2> HIDE DEF e
  <2>3. /\ ev.kind # "fill" => Mail(e, 1 .. n, {}, {}, n, TRUE)
        /\ ev.kind = "fill" /\ ev.n = n + 1 => Mail(e, (1 .. n) \union {n + 1}, {}, {}, n + 1, TRUE)
        /\ e.blotter = b.blotter /\ e.inbound = b.inbound
    <3> HIDE DEF n
    <3> QED BY <1>2, <2>1, <2>2, HearMail
  <2>4. (1 .. n) \union {n + 1} = 1 .. n + 1
    BY <1>2
  <2>5. Posted(e, "live")
    BY <2>2, <2>3, <2>4 DEF Posted
  <2> QED BY <1>3, <2>5 DEF e
<1>4. CASE driver = "back"
  <2>1. e = Delayed(b, ev)
    BY <1>4 DEF Tell
  <2>2. PICK A, C \in SUBSET Nat : Mail(b, A, {}, C, n, NoJitter("back"))
    BY <1>1, <1>4 DEF Posted
  <2> HIDE DEF e
  <2>3. /\ ev.kind # "fill" => Mail(e, A, {}, C, n, NoJitter("back"))
        /\ ev.kind = "fill" /\ ev.n = n + 1
             => Mail(e, A, {}, C \union {n + 1}, n + 1, NoJitter("back"))
        /\ e.blotter = b.blotter
    <3> HIDE DEF n
    <3> QED BY <2>1, <2>2, DelayedMail
  <2>4. C \union {n + 1} \in SUBSET Nat
    <3>1. n + 1 \in Nat
      BY <1>2
    <3> HIDE DEF n
    <3>2. \A x \in C \union {n + 1} : x \in Nat
      BY <2>2, <3>1
    <3> QED BY <3>2
  <2>5. Posted(e, "back")
    BY <2>2, <2>3, <2>4 DEF Posted
  <2> QED BY <1>4, <2>5 DEF e
<1> QED BY <1>3, <1>4 DEF Posts

LEMMA HappenPosted ==
  ASSUME IsConfig, NEW d, IsDriver(d), NEW driver \in Posts, Posted(d, driver),
         NEW h \in Happenings, h.what # "message"
  PROVE  Posted(Happen(d, h, driver), driver)
<1>1. CASE h.what = "works"
  <2> DEFINE e == [d EXCEPT !.working = Append(@, h.order)]
  <2>1. Happen(d, h, driver) = e
    BY <1>1 DEF Happen
  <2>2. e.heard = d.heard /\ e.inbound = d.inbound /\ e.now = d.now /\ e.blotter = d.blotter
    BY DEF IsDriver, Fields
  <2> HIDE DEF e
  <2> QED BY <2>1, <2>2, SamePosted
<1>2. CASE h.what = "filled"
  <2> DEFINE b == BookFill(d, h.order, h.price)
             o == h.order
             f == [coid |-> o.coid, symbol |-> o.symbol, signed |-> o.signed, price |-> h.price]
  <2>1. o \in WorkingOrders /\ h.price \in Nat
    BY <1>2 DEF Happenings
  <2>2. IsDriver(b) /\ b.inbound = d.inbound /\ b.now = d.now
    BY <2>1, BookFillKeeps DEF SameMarket, SameStrategy
  <2>3. b.heard = d.heard /\ b.blotter = Append(d.blotter, f)
    BY DEF IsDriver, Fields, BookFill, Trade
  <2>4. Happen(d, h, driver) = Tell(b, FillOf(b), driver)
    BY <1>2 DEF Happen
  <2> HIDE DEF b
  <2>5. Len(b.blotter) = Len(d.blotter) + 1
    BY <2>3 DEF IsDriver, BookTyped
  <2>6. FillOf(b) \in Notes /\ FillOf(b).kind = "fill" /\ FillOf(b).n = Len(d.blotter) + 1
    BY <2>2, <2>5, FillOfTyped DEF FillOf
  <2> QED BY <2>2, <2>3, <2>4, <2>5, <2>6, TellPosted
<1>3. CASE h.what = "cancelled"
  <2>1. h.order \in WorkingOrders
    BY <1>3 DEF Happenings
  <2>2. Happen(d, h, driver) = Tell(d, CancelOf(h.order), driver)
    BY <1>3 DEF Happen
  <2>3. CancelOf(h.order) \in Notes /\ CancelOf(h.order).kind # "fill"
    BY <2>1, CancelOfTyped DEF CancelOf
  <2> QED BY <2>2, <2>3, TellPosted
<1> QED BY <1>1, <1>2, <1>3 DEF Happenings

LEMMA RunPosted ==
  ASSUME IsConfig, NEW d, IsDriver(d), NEW driver \in Posts, Posted(d, driver),
         NEW hs \in Seq(Happenings), NEW what, what # "message"
  PROVE  LET e == Run(d, hs, what, driver) IN Ran(d, e) /\ Posted(e, driver)
<1> DEFINE OK(e) == Ran(d, e) /\ Posted(e, driver)
<1>1. Len(hs) \in Nat /\ (\A n \in 1 .. Len(hs) : hs[n] \in Happenings) /\ driver \in Drivings
  BY DEF Posts, Drivings
<1>2. PICK f : Turns(f, d, hs, what, driver) /\ Run(d, hs, what, driver) = f[Len(hs)]
  BY <1>1, RunUnfolds
<1> DEFINE P == {n \in Nat : n <= Len(hs) => OK(f[n])}
<1>3. 0 \in P
  BY <1>2 DEF Turns, Ran, SameMarket
<1>4. ASSUME NEW n \in Nat, n \in P PROVE n + 1 \in P
  <2> SUFFICES ASSUME n + 1 <= Len(hs) PROVE OK(f[n + 1])
    OBVIOUS
  <2> DEFINE a == f[n]
             h == hs[n + 1]
  <2>1. n + 1 \in 1 .. Len(hs) /\ (n + 1) - 1 = n /\ n <= Len(hs)
    BY <1>1
  <2>2. Ran(d, a) /\ Posted(a, driver)
    BY <1>4, <2>1
  <2>3. h \in Happenings
    BY <1>1, <2>1
  <2>4. f[n + 1] = Turn(a, h, what, driver)
    BY <1>2, <2>1 DEF Turns
  <2> HIDE DEF a, h
  <2>5. CASE h.what = what
    <3>1. Ran(a, Happen(a, h, driver)) /\ Posted(Happen(a, h, driver), driver)
      BY <1>1, <2>2, <2>3, <2>5, HappenKeeps, HappenPosted DEF Ran
    <3>2. Ran(d, Happen(a, h, driver))
      BY <2>2, <3>1, RanOn
    <3> QED BY <2>4, <2>5, <3>1, <3>2 DEF Turn
  <2>6. CASE h.what # what
    BY <2>2, <2>4, <2>6 DEF Turn
  <2> QED BY <2>5, <2>6
<1> HIDE DEF P
<1>5. Len(hs) \in P
  BY <1>1, <1>3, <1>4, Induction
<1> QED BY <1>1, <1>2, <1>5 DEF P

LEMMA MatchPosted ==
  ASSUME IsConfig, NEW d, IsDriver(d), NEW driver \in Posts, Posted(d, driver),
         NEW r, IsQuote(r)
  PROVE  LET e == Match(d, r, driver) IN Ran(d, e) /\ Posted(e, driver)
<1> DEFINE hs == Outcomes(d, r)
           d0 == [d EXCEPT !.working = <<>>]
           d1 == Run(d0, hs, "works", driver)
           d2 == Run(d1, hs, "filled", driver)
           e == Run(d2, hs, "cancelled", driver)
<1>1. hs \in Seq(Happenings)
  BY OutcomesTyped
<1>2. Ran(d, d0)
  BY ClearedKeeps DEF Ran
<1>3. d0.heard = d.heard /\ d0.inbound = d.inbound /\ d0.now = d.now /\ d0.blotter = d.blotter
  BY DEF IsDriver, Fields
<1> HIDE DEF hs, d0
<1>4. Posted(d0, driver)
  BY <1>3, SamePosted
<1>5. Ran(d0, d1) /\ Posted(d1, driver)
  BY <1>1, <1>2, <1>4, RunPosted DEF Ran
<1> HIDE DEF d1
<1>6. Ran(d1, d2) /\ Posted(d2, driver)
  BY <1>1, <1>5, RunPosted DEF Ran
<1> HIDE DEF d2
<1>7. Ran(d2, e) /\ Posted(e, driver)
  BY <1>1, <1>6, RunPosted DEF Ran
<1>8. Match(d, r, driver) = e
  BY DEF Match, d2, d1, d0, hs
<1> HIDE DEF e
<1>9. Ran(d, e)
  BY <1>2, <1>5, <1>6, <1>7, RanOn
<1> QED BY <1>7, <1>8, <1>9
-----------------------------------------------------------------------------
(* What is due is heard, in the order of its delivery. *)

LEMMA RunMessages ==
  ASSUME IsConfig, NEW d, IsDriver(d), NEW A, NEW B, NEW C, NEW n, NEW o, Mail(d, A, B, C, n, o),
         NEW hs \in Seq(Happenings), \A i \in 1 .. Len(hs) : hs[i].what = "message",
         Held(hs, 1, Len(hs), B), o => Ascending(hs, 1, Len(hs))
  PROVE  LET e == Run(d, hs, "message", "back")
         IN  Ran(d, e) /\ e.blotter = d.blotter /\ Mail(e, A \union B, {}, C, n, o)
<1> DEFINE L == Len(hs)
           Rest(e, i, X, Y) == /\ Mail(e, X, Y, C, n, o) /\ X \union Y = A \union B
                               /\ Held(hs, i + 1, L, Y) /\ (o => Ascending(hs, i + 1, L))
           OK(e, i) == Ran(d, e) /\ e.blotter = d.blotter /\ \E X, Y : Rest(e, i, X, Y)
<1>1. L \in Nat /\ \A i \in 1 .. L : hs[i] \in Happenings /\ hs[i].what = "message"
  OBVIOUS
<1>2. PICK f : Turns(f, d, hs, "message", "back") /\ Run(d, hs, "message", "back") = f[L]
  BY <1>1, RunUnfolds
<1> DEFINE P == {i \in Nat : i <= L => OK(f[i], i)}
<1>3. 0 \in P
  <2>1. f[0] = d /\ 0 + 1 = 1
    BY <1>2 DEF Turns
  <2>2. Rest(d, 0, A, B)
    BY <2>1
  <2> HIDE DEF Rest
  <2> QED BY <2>1, <2>2 DEF Ran, SameMarket
<1>4. ASSUME NEW i \in Nat, i \in P PROVE i + 1 \in P
  <2> SUFFICES ASSUME i + 1 <= L PROVE OK(f[i + 1], i + 1)
    OBVIOUS
  <2> DEFINE a == f[i]
             w == hs[i + 1]
             e == Hear(a, w.ev, "back")
  <2>1. i + 1 \in 1 .. L /\ (i + 1) - 1 = i /\ i <= L /\ i + 1 \in Int /\ L \in Int
    BY <1>1
  <2>2. Ran(d, a) /\ a.blotter = d.blotter
    BY <1>4, <2>1
  <2>3. PICK X, Y : Rest(a, i, X, Y)
    BY <1>4, <2>1
  <2>4. w \in Happenings /\ w.what = "message" /\ w.ev \in Events
    <3>1. w \in Happenings /\ w.what = "message"
      BY <1>1, <2>1
    <3> QED BY <3>1, NotesAreEvents DEF Happenings
  <2>5. f[i + 1] = e
    <3>1. f[i + 1] = Turn(a, w, "message", "back")
      BY <1>2, <2>1 DEF Turns
    <3> HIDE DEF a, w
    <3> QED BY <2>4, <3>1 DEF Turn, Happen
  <2>6. /\ w.ev.kind # "fill" => Held(hs, (i + 1) + 1, L, Y)
        /\ w.ev.kind = "fill" => /\ w.ev.n \in Y /\ Held(hs, (i + 1) + 1, L, Y \ {w.ev.n})
                                 /\ o => \A m \in Y \ {w.ev.n} : w.ev.n < m
        /\ o => Ascending(hs, (i + 1) + 1, L)
    <3>1. Held(hs, i + 1, L, Y) /\ (o => Ascending(hs, i + 1, L))
      BY <2>3
    <3> HIDE DEF Rest
    <3> QED BY <2>1, <3>1, HeadTaken
  <2>7. IsDriver(a) /\ Mail(a, X, Y, C, n, o) /\ X \union Y = A \union B
    BY <2>2, <2>3 DEF Ran
  <2> HIDE DEF a, w
  <2>8. /\ w.ev.kind # "fill" => Mail(e, X, Y, C, n, o)
        /\ w.ev.kind = "fill" /\ w.ev.n \in Y /\ (o => \A m \in Y \ {w.ev.n} : w.ev.n < m)
             => Mail(e, X \union {w.ev.n}, Y \ {w.ev.n}, C, n, o)
        /\ e.blotter = a.blotter
    BY <2>4, <2>7, HearMail
  <2>9. Ran(d, e)
    <3>1. Ran(a, e)
      BY <2>4, <2>7, HearKeeps DEF Ran, Acted
    <3> QED BY <2>2, <3>1, RanOn
  <2> HIDE DEF e
  <2>10. \E U, V : Rest(e, i + 1, U, V)
    <3>1. CASE w.ev.kind # "fill"
      <4>1. Rest(e, i + 1, X, Y)
        BY <2>6, <2>7, <2>8, <3>1
      <4> HIDE DEF Rest
      <4> QED BY <4>1
    <3>2. CASE w.ev.kind = "fill"
      <4>1. (X \union {w.ev.n}) \union (Y \ {w.ev.n}) = A \union B
        BY <2>6, <2>7, <3>2
      <4>2. Rest(e, i + 1, X \union {w.ev.n}, Y \ {w.ev.n})
        BY <2>6, <2>8, <3>2, <4>1
      <4> HIDE DEF Rest
      <4> QED BY <4>2
    <3> QED BY <3>1, <3>2
  <2> HIDE DEF Rest
  <2> QED BY <2>2, <2>5, <2>8, <2>9, <2>10
<1> HIDE DEF P
<1>5. L \in P
  BY <1>1, <1>3, <1>4, Induction
<1>6. OK(f[L], L)
  BY <1>1, <1>5 DEF P
<1>7. Mail(f[L], A \union B, {}, C, n, o)
  <2>1. PICK X, Y : Rest(f[L], L, X, Y)
    BY <1>6
  <2>2. Mail(f[L], X, Y, C, n, o) /\ Held(hs, L + 1, L, Y) /\ X \union Y = A \union B
    BY <2>1
  <2>3. Y = {}
    <3>1. L + 1 \in Int /\ L \in Int /\ L < L + 1
      BY <1>1
    <3> QED BY <2>2, <3>1, NoFills
  <2>4. X = A \union B
    BY <2>2, <2>3
  <2> QED BY <2>2, <2>3, <2>4
<1> HIDE DEF L
<1> QED BY <1>2, <1>6, <1>7

LEMMA ReleasePosted ==
  ASSUME IsConfig, NEW d, IsDriver(d), Posted(d, "back")
  PROVE  LET e == ReleaseInbound(d) IN Ran(d, e) /\ Posted(e, "back")
<1> DEFINE s == d.inbound
           L == Len(s)
           n == Len(d.blotter)
           o == NoJitter("back")
           k == DueBy(d, d.now)
           c == [d EXCEPT !.inbound = SubSeq(@, k + 1, Len(@))]
           t == SubSeq(s, k + 1, L)
           M(i) == [what |-> "message", ev |-> d.inbound[i].ev]
           ms == [i \in 1 .. k |-> M(i)]
           Soon(q, l) == \A i \in FillsOf(q, 1, l) : q[i].at <= d.now + cfg.inLatency
<1>1. PICK A, D \in SUBSET Nat : Mail(d, A, {}, D, n, o)
  BY DEF Posted
<1>2. /\ Shared(A, {}, D, n) /\ d.heard \in Seq(HeardEvents)
      /\ Held(d.heard, 1, Len(d.heard), A) /\ Held(s, 1, L, D) /\ Ordered(s)
      /\ o => /\ Ascending(d.heard, 1, Len(d.heard)) /\ Ascending(s, 1, L)
              /\ Below(A, D) /\ Soon(s, L)
  BY <1>1 DEF Mail
<1>3. s \in Seq(Messages) /\ L \in Nat /\ k \in 0 .. L
  <2>1. s \in Seq(Messages)
    BY DEF IsDriver, StrategyTyped
  <2> QED BY <2>1, DueByTyped
<1>4. ms \in Seq(Happenings) /\ IsDriver(c) /\ SameMarket(d, c) /\ SameBook(d, c)
  BY DueKept
<1>5. Len(ms) = k /\ \A i \in 1 .. k : ms[i].what = "message" /\ ms[i].ev = s[i].ev
  <2> HIDE DEF k
  <2> QED BY <1>3
<1>6. c.inbound = t /\ c.heard = d.heard /\ c.now = d.now /\ c.blotter = d.blotter
  BY DEF IsDriver, Fields
<1>7. ReleaseInbound(d) = Run(c, ms, "message", "back")
  BY DEF ReleaseInbound
<1> HIDE DEF c, ms, k, o
<1>8. Len(t) = L - k /\ \A i \in 1 .. L - k : t[i] = s[i + k]
  BY <1>3, SMTT(40)
<1> HIDE DEF t, s, L, n
<1>9. PICK B \in SUBSET D :
        /\ Held(s, 1, k, B) /\ Held(s, k + 1, L, D \ B)
        /\ Ascending(s, 1, L) =>
             Ascending(s, 1, k) /\ Ascending(s, k + 1, L) /\ Below(B, D \ B)
  BY <1>2, <1>3, PartsSplit
<1> DEFINE C == D \ B
<1>10. Held(ms, 1, k, B) /\ (Ascending(s, 1, k) => Ascending(ms, 1, k))
  <2> DEFINE u == 1
             v == 0
  <2>1. \A i \in 1 .. k : ms[i + 0].ev = s[i].ev
    BY <1>5
  <2>2. Held(s, u, k, B) /\ u \in Int /\ v \in Int /\ k \in Int /\ \A i \in u .. k : ms[i + v].ev = s[i].ev
    BY <1>3, <1>9, <2>1
  <2> HIDE DEF u, v
  <2>3. Held(ms, u + v, k + v, B) /\ (Ascending(s, u, k) => Ascending(ms, u + v, k + v))
    BY <2>2, Shifted
  <2>4. u + v = 1 /\ k + v = k /\ u = 1
    BY <1>3 DEF u, v
  <2> QED BY <2>3, <2>4
<1>11. Held(t, 1, L - k, C) /\ (Ascending(s, k + 1, L) => Ascending(t, 1, L - k))
  <2>1. \A i \in k + 1 .. L : t[i + (-k)].ev = s[i].ev
    <3> SUFFICES ASSUME NEW i \in k + 1 .. L PROVE t[i + (-k)].ev = s[i].ev
      OBVIOUS
    <3>1. i + (-k) \in 1 .. L - k /\ (i + (-k)) + k = i
      BY <1>3
    <3> QED BY <1>8, <3>1
  <2> DEFINE u == k + 1
             v == -k
  <2>2. Held(s, u, L, C) /\ u \in Int /\ v \in Int /\ L \in Int /\ \A i \in u .. L : t[i + v].ev = s[i].ev
    BY <1>3, <1>9, <2>1
  <2> HIDE DEF u, v, C
  <2>3. Held(t, u + v, L + v, C) /\ (Ascending(s, u, L) => Ascending(t, u + v, L + v))
    BY <2>2, Shifted
  <2>4. u + v = 1 /\ L + v = L - k /\ u = k + 1
    BY <1>3 DEF u, v
  <2> QED BY <2>3, <2>4
<1>12. Ordered(t)
  <2>1. DOMAIN t = 1 .. L - k /\ DOMAIN s = 1 .. L
    BY <1>3, <1>8 DEF t, L
  <2> SUFFICES ASSUME NEW i \in 1 .. L - k, NEW j \in 1 .. L - k, i < j PROVE t[i].at <= t[j].at
    BY <2>1 DEF Ordered
  <2>2. i + k \in 1 .. L /\ j + k \in 1 .. L /\ i + k < j + k
    BY <1>3
  <2> QED BY <1>2, <1>8, <2>1, <2>2 DEF Ordered
<1>13. Soon(s, L) => Soon(t, L - k)
  <2> SUFFICES ASSUME Soon(s, L), NEW i \in FillsOf(t, 1, L - k)
               PROVE  t[i].at <= d.now + cfg.inLatency
    OBVIOUS
  <2>1. i \in 1 .. L - k /\ t[i].ev.kind = "fill"
    BY DEF FillsOf
  <2>2. i + k \in 1 .. L /\ t[i] = s[i + k]
    BY <1>3, <1>8, <2>1
  <2> QED BY <2>1, <2>2 DEF FillsOf
<1>14. Shared(A, B, C, n)
  <2>1. A \union B \union C = A \union D /\ A \intersect B = {} /\ A \intersect C = {} /\ B \intersect C = {}
    BY <1>2 DEF Shared
  <2>2. n \in Nat /\ A \union D = 1 .. n
    BY <1>2 DEF Shared
  <2> HIDE DEF C
  <2> QED BY <2>1, <2>2 DEF Shared
<1>15. o => Below(A, B) /\ Below(A, C) /\ Below(B, C)
  BY <1>2, <1>9 DEF Below
<1>16. o => Soon(t, L - k)
  BY <1>2, <1>13
<1> HIDE DEF C
<1>17. Mail(c, A, B, C, n, o)
  <2>1. o => Ascending(d.heard, 1, Len(d.heard)) /\ Ascending(t, 1, L - k)
    BY <1>2, <1>9, <1>11
  <2> QED BY <1>2, <1>6, <1>8, <1>11, <1>12, <1>14, <1>15, <1>16, <2>1 DEF Mail
<1> DEFINE e == Run(c, ms, "message", "back")
<1>18. Ran(c, e) /\ e.blotter = c.blotter /\ Mail(e, A \union B, {}, C, n, o)
  <2>1. o => Ascending(ms, 1, k)
    BY <1>2, <1>9, <1>10
  <2> HIDE DEF e
  <2>2. e = Run(c, ms, "message", "back")
    BY DEF e
  <2>3. Held(ms, 1, Len(ms), B) /\ (o => Ascending(ms, 1, Len(ms)))
    BY <1>5, <1>10, <2>1
  <2>4. \A i \in 1 .. Len(ms) : ms[i].what = "message"
    BY <1>5
  <2> QED BY <1>4, <1>17, <2>2, <2>3, <2>4, RunMessages
<1> HIDE DEF e
<1>19. Ran(d, e)
  BY <1>4, <1>18, RanOn DEF Ran
<1>20. Posted(e, "back")
  <2>1. A \union B \in SUBSET Nat /\ C \in SUBSET Nat
    BY DEF C
  <2> QED BY <1>6, <1>18, <2>1 DEF Posted, n, o
<1> QED BY <1>7, <1>19, <1>20 DEF e

(* A record arrives: time goes on, or nothing is held back. *)
LEMMA ArrivePosted ==
  ASSUME IsConfig, NEW d, IsDriver(d), NEW driver \in Posts, Posted(d, driver),
         NEW r, IsRecord(r), driver = "back" => d.now <= r.t \/ d.inbound = <<>>
  PROVE  LET e == Arrive(d, r) IN IsDriver(e) /\ Posted(e, driver)
<1> DEFINE e == Arrive(d, r)
<1>1. IsDriver(e) /\ e.now = r.t /\ e.inbound = d.inbound /\ e.blotter = d.blotter
  <2>1. IsDriver(e) /\ SameBook(d, e) /\ SameStrategy(d, e) /\ e.now = r.t
    BY ArriveKeeps, ZenonT(40)
  <2> QED BY <2>1 DEF SameBook, SameStrategy
<1>2. e.heard = d.heard
  BY DEF IsDriver, Fields, Arrive
<1> HIDE DEF e
<1>3. ASSUME NEW A, NEW B, NEW C, NEW n, NEW o, Mail(d, A, B, C, n, o) PROVE Mail(e, A, B, C, n, o)
  <2> DEFINE F == FillsOf(d.inbound, 1, Len(d.inbound))
  <2>1. cfg.inLatency \in Nat /\ d.now \in Int /\ r.t \in Int
    BY ConfigTyped DEF IsDriver, MarketTyped, IsRecord
  <2>2. \A i \in F : d.inbound[i].at \in Int
    <3> SUFFICES ASSUME NEW i \in F PROVE d.inbound[i].at \in Int
      OBVIOUS
    <3>1. d.inbound \in Seq(Messages) /\ i \in 1 .. Len(d.inbound)
      BY DEF IsDriver, StrategyTyped, FillsOf
    <3>2. d.inbound[i] \in Messages
      BY <3>1
    <3> QED BY <3>2 DEF Messages
  <2>3. d.inbound = <<>> => F = {}
    BY DEF FillsOf
  <2>4. d.now <= r.t \/ d.inbound = <<>>
    BY DEF Posted, Posts
  <2>5. o => \A i \in F : d.inbound[i].at <= d.now + cfg.inLatency
    BY <1>3 DEF Mail
  <2> HIDE DEF F
  <2>6. o => \A i \in F : d.inbound[i].at <= r.t + cfg.inLatency
    BY <2>1, <2>2, <2>3, <2>4, <2>5
  <2> QED BY <1>1, <1>2, <1>3, <2>6 DEF Mail, F
<1>4. Posted(e, driver)
  BY <1>1, <1>3 DEF Posted
<1> QED BY <1>1, <1>4 DEF e

LEMMA SettleTellsNobody ==
  ASSUME NEW d, IsDriver(d), NEW r, NEW t0
  PROVE  Settle(d, r, t0).heard = d.heard
<1> DEFINE m == Mark(d, r)
           c == [m EXCEPT !.cash = @ - Financing(m, t0), !.paid = @ + Financing(m, t0)]
<1>1. m.heard = d.heard /\ DOMAIN m = Fields
  BY DEF Mark, IsDriver, Fields
<1> HIDE DEF m
<1>2. c.heard = d.heard /\ DOMAIN c = Fields
  BY <1>1 DEF Fields
<1> HIDE DEF c
<1>3. Settle(d, r, t0) = [c EXCEPT !.peak = IF Nav(c) > @ THEN Nav(c) ELSE @,
                                   !.equity = Nav(c),
                                   !.navs = Append(@, [day |-> c.day, nav |-> Nav(c)])]
  BY DEF Settle, c, m
<1> QED BY <1>2, <1>3 DEF Fields

LEMMA StepPosted ==
  ASSUME IsConfig, fed \in Nat, NEW d, IsDriver(d), NEW r, IsRecord(r)
  PROVE  /\ Posted(d, "live") => Posted(LiveStep(d, r), "live")
         /\ Posted(d, "back") /\ (d.now <= r.t \/ d.inbound = <<>>)
             => Posted(BackStep(d, r), "back")
<1> DEFINE a == Arrive(d, r)
           b == ReleaseInbound(a)
           l2 == Match(a, r, "live")
           b2 == Match(b, r, "back")
<1>1. IsDriver(a) /\ a.day \in Int
  <2>1. IsDriver(a)
    BY ArriveKeeps
  <2>2. a.day = DayOf(r.t)
    BY ArriveKeeps, ZenonT(40)
  <2> QED BY <2>1, <2>2, DayOfTyped DEF IsRecord
<1>2. /\ Posted(d, "live") => Posted(a, "live")
      /\ Posted(d, "back") /\ (d.now <= r.t \/ d.inbound = <<>>) => Posted(a, "back")
  BY ArrivePosted DEF Posts
<1>3. IsQuote(r)
  BY RecordsAreQuotes
<1>4. FirstTime(d, r) \in Int
  BY DEF FirstTime, IsRecord, IsDriver, MarketTyped
<1> HIDE DEF a
<1>5. ASSUME NEW m, Ran(a, m), NEW driver \in Posts, Posted(m, driver)
      PROVE  Posted(Settle(Hear(m, Tick, driver), r, FirstTime(d, r)), driver)
  <2> DEFINE h == Hear(m, Tick, driver)
             e == Settle(h, r, FirstTime(d, r))
  <2>1. Acted(m, h)
    BY <1>5, TickIsEvent, HearKeeps DEF Ran, Posts
  <2>2. Posted(h, driver)
    <3>1. Tick.kind # "fill" /\ IsDriver(m)
      BY <1>5 DEF Tick, Ran
    <3> QED BY <1>5, <3>1, TickIsEvent, HearPosted
  <2> HIDE DEF h
  <2>3. IsDriver(h) /\ h.day \in Int
    BY <1>1, <1>5, <2>1 DEF Acted, Ran, SameMarket
  <2>4. e.heard = h.heard
    BY <2>3, SettleTellsNobody
  <2> DEFINE k == Mark(h, r)
  <2>5. /\ IsDriver(e) /\ SameDesk(h, e) /\ SameStrategy(h, e)
        /\ e.qty = h.qty /\ e.known = h.known /\ e.blotter = h.blotter
        /\ e.now = h.now /\ e.day = h.day /\ e.dayStart = h.dayStart /\ e.view = h.view
        /\ e.last = k.last
        /\ e.cash = k.cash - Financing(k, FirstTime(d, r)) /\ e.paid = k.paid + Financing(k, FirstTime(d, r))
        /\ e.equity = Nav(e) /\ e.peak = (IF Nav(e) > h.peak THEN Nav(e) ELSE h.peak)
        /\ e.navs = Append(h.navs, [day |-> h.day, nav |-> Nav(e)])
    BY <1>4, <2>3, SettleKeeps
  <2> HIDE DEF e
  <2>6. e.inbound = h.inbound /\ e.now = h.now /\ e.blotter = h.blotter
    BY <2>5 DEF SameStrategy
  <2>7. Posted(e, driver)
    BY <2>2, <2>4, <2>6, SamePosted
  <2> QED BY <2>7 DEF e, h
<1>6. ASSUME Posted(d, "live") PROVE Posted(LiveStep(d, r), "live")
  <2>1. Ran(a, l2) /\ Posted(l2, "live")
    BY <1>1, <1>2, <1>3, <1>6, MatchPosted DEF Posts
  <2> HIDE DEF l2
  <2>2. Posted(Settle(Hear(l2, Tick, "live"), r, FirstTime(d, r)), "live")
    BY <1>5, <2>1 DEF Posts
  <2> QED BY <2>2 DEF LiveStep, l2, a
<1>7. ASSUME Posted(d, "back"), d.now <= r.t \/ d.inbound = <<>>
      PROVE  Posted(BackStep(d, r), "back")
  <2>1. Ran(a, b) /\ Posted(b, "back")
    BY <1>1, <1>2, <1>7, ReleasePosted
  <2> HIDE DEF b
  <2>2. Ran(b, b2) /\ Posted(b2, "back")
    BY <1>3, <2>1, MatchPosted DEF Posts, Ran
  <2> HIDE DEF b2
  <2>3. Ran(a, b2)
    BY <2>1, <2>2, RanOn
  <2>4. Posted(Settle(Hear(b2, Tick, "back"), r, FirstTime(d, r)), "back")
    BY <1>5, <2>2, <2>3 DEF Posts
  <2> QED BY <2>4 DEF BackStep, b2, b, a
<1> QED BY <1>6, <1>7

(* The inductive invariant of what the strategy hears. *)
LiveHears == EachFillOnce(live.heard, Len(live.blotter)) /\ FillsInOrder(live.heard)

PostInv ==
  /\ ~ended => /\ Posted(live, "live") /\ Posted(back, "back")
               /\ fed = 0 => back.inbound = <<>>
  /\ LiveHears

LEMMA OnceAndInOrder ==
  ASSUME NEW s, DOMAIN s = 1 .. Len(s), NEW n
  PROVE  /\ Held(s, 1, Len(s), 1 .. n) => EachFillOnce(s, n)
         /\ Ascending(s, 1, Len(s)) => FillsInOrder(s)
<1>1. FillsAmong(s) = FillsOf(s, 1, Len(s))
  BY DEF FillsAmong, FillsOf
<1> QED BY <1>1 DEF Held, Numbers, EachFillOnce, Ascending, FillsInOrder

LEMMA PostedIsHeard ==
  ASSUME NEW d, Posted(d, "live")
  PROVE  EachFillOnce(d.heard, Len(d.blotter)) /\ FillsInOrder(d.heard)
<1>1. /\ Held(d.heard, 1, Len(d.heard), 1 .. Len(d.blotter)) /\ Ascending(d.heard, 1, Len(d.heard))
      /\ d.heard \in Seq(HeardEvents)
  BY DEF Posted, Mail
<1>2. DOMAIN d.heard = 1 .. Len(d.heard)
  BY <1>1
<1> QED BY <1>1, <1>2, OnceAndInOrder

LEMMA PostInit == Init => PostInv
<1> SUFFICES ASSUME Init PROVE PostInv
  OBVIOUS
<1>1. live = Start /\ back = Start
  BY DEF Init
<1> DEFINE none == <<>>
<1>2. Start.heard = none /\ Start.inbound = none /\ Start.blotter = none
  BY DEF Start
<1>3. none \in Seq(HeardEvents) /\ Len(none) = 0 /\ DOMAIN none = {} /\ FillsOf(none, 1, 0) = {}
  BY DEF FillsOf
<1>4. Held(none, 1, 0, {}) /\ Ascending(none, 1, 0) /\ Below({}, {})
  BY NoFills DEF Below
<1>5. 1 .. 0 = {} /\ 0 \in Nat
  OBVIOUS
<1>6. Shared({}, {}, {}, 0)
  BY <1>5 DEF Shared
<1> HIDE DEF none
<1>7. \A o : Mail(Start, {}, {}, {}, 0, o)
  BY <1>2, <1>3, <1>4, <1>6 DEF Mail, Ordered
<1>8. Posted(Start, "live") /\ Posted(Start, "back")
  BY <1>2, <1>3, <1>5, <1>7 DEF Posted, none
<1> QED BY <1>1, <1>2, <1>8, PostedIsHeard DEF PostInv, LiveHears, none

LEMMA PostStep == IInv /\ PostInv /\ [Next]_vars => PostInv'
<1> SUFFICES ASSUME IInv, PostInv, [Next]_vars PROVE PostInv'
  OBVIOUS
<1>1. CASE UNCHANGED vars
  <2>1. live' = live /\ back' = back /\ ended' = ended /\ cfg' = cfg /\ fed' = fed
    BY <1>1 DEF vars
  <2> QED BY <2>1 DEF PostInv, LiveHears, Posted, Mail, NoJitter
<1>2. CASE Finish
  <2>1. IsConfig /\ IsDriver(live)
    BY <1>2 DEF IInv, StateTyped, IsConfig, Finish, Both
  <2>2. live' = LiveFinish(live) /\ ended'
    BY <1>2 DEF Finish
  <2> DEFINE l == HandleAction(live, Answer("stop", 1), "live")
  <2>3. Acted(live, l) /\ l.heard = live.heard
    BY <2>1, AnswerTyped, HandleActionKeeps, LiveHoldsNothing
  <2>4. LiveFinish(live) = [l EXCEPT !.working = <<>>]
    BY DEF LiveFinish
  <2> HIDE DEF l
  <2>5. LiveFinish(live).heard = live.heard /\ LiveFinish(live).blotter = live.blotter
    BY <2>3, <2>4 DEF Acted, SameBook, IsDriver, Fields
  <2> QED BY <2>2, <2>5 DEF PostInv, LiveHears
<1>3. ASSUME NEW s \in Symbols, NEW p \in Prices, NEW dt \in Steps,
             Step([symbol |-> s, price |-> p, t |-> live.now + dt])
      PROVE  PostInv'
  <2> DEFINE r == [symbol |-> s, price |-> p, t |-> live.now + dt]
  <2>1. /\ IsConfig /\ fed \in Nat /\ IsDriver(live) /\ IsDriver(back) /\ ~ended
        /\ Posted(live, "live") /\ Posted(back, "back") /\ (fed = 0 => back.inbound = <<>>)
    BY <1>3 DEF IInv, StateTyped, IsConfig, Step, Both, PostInv
  <2>2. live.now \in Int /\ p \in Nat /\ dt \in Int /\ back.now \in Int
    BY <2>1, ConfigTyped DEF IsDriver, MarketTyped
  <2>3. IsRecord(r) /\ r.t \in Int
    BY <2>2 DEF IsRecord
  <2>4. /\ live' = LiveStep(live, r) /\ back' = IF IsLate(r) THEN back ELSE BackStep(back, r)
        /\ cfg' = cfg /\ ~ended' /\ fed' = fed + 1
    BY <2>1, <1>3 DEF Step
  <2> HIDE DEF r
  <2>5. Posted(LiveStep(live, r), "live")
    BY <2>1, <2>3, StepPosted
  <2>6. ASSUME ~IsLate(r) PROVE Posted(BackStep(back, r), "back")
    <3>1. back.now <= r.t \/ back.inbound = <<>>
      BY <2>1, <2>2, <2>3, <2>6 DEF IsLate
    <3> QED BY <2>1, <2>3, <3>1, StepPosted
  <2>7. Posted(back', "back")
    BY <2>1, <2>4, <2>6
  <2>8. Posted(live, "live")' /\ Posted(back, "back")'
    BY <2>4, <2>5, <2>7 DEF Posted, Mail, NoJitter
  <2>9. LiveHears'
    BY <2>4, <2>5, PostedIsHeard DEF LiveHears
  <2>10. fed' # 0
    BY <2>1, <2>4
  <2> QED BY <2>8, <2>9, <2>10 DEF PostInv
<1> QED BY <1>1, <1>2, <1>3 DEF Next

LEMMA PostInvHears == IInv /\ PostInv => HearsEveryFill
<1> SUFFICES ASSUME IInv, PostInv PROVE HearsEveryFill
  OBVIOUS
<1> DEFINE all == back.heard \o back.inbound
           n == Len(back.blotter)
<1>1. ASSUME ~ended
      PROVE  EachFillOnce(all, n) /\ (NoJitter("back") => FillsInOrder(all))
  <2>1. PICK A, C \in SUBSET Nat : Mail(back, A, {}, C, n, NoJitter("back"))
    BY <1>1 DEF PostInv, Posted
  <2>2. /\ Shared(A, {}, C, n)
        /\ Held(back.heard, 1, Len(back.heard), A) /\ Held(back.inbound, 1, Len(back.inbound), C)
        /\ back.heard \in Seq(HeardEvents)
        /\ NoJitter("back") => /\ Ascending(back.heard, 1, Len(back.heard)) /\ Below(A, C)
                               /\ Ascending(back.inbound, 1, Len(back.inbound))
    BY <2>1 DEF Mail
  <2>3. back.inbound \in Seq(HeardEvents)
    <3>1. Messages \subseteq HeardEvents
      BY NotesAreEvents DEF Messages, HeardEvents
    <3>2. back.inbound \in Seq(Messages)
      BY <1>1 DEF IInv, StateTyped, Both, IsDriver, StrategyTyped
    <3>3. /\ Len(back.inbound) \in Nat
          /\ back.inbound \in [1 .. Len(back.inbound) -> Messages]
      BY <3>2
    <3>4. back.inbound \in [1 .. Len(back.inbound) -> HeardEvents]
      BY <3>1, <3>3
    <3> QED BY <3>3, <3>4
  <2>4. A \intersect C = {} /\ A \union C = 1 .. n
    BY <2>2 DEF Shared
  <2> HIDE DEF n
  <2>5. /\ Len(all) \in Nat /\ DOMAIN all = 1 .. Len(all) /\ Held(all, 1, Len(all), A \union C)
        /\ NoJitter("back") => Ascending(all, 1, Len(all))
    BY <2>2, <2>3, <2>4, PartsJoin
  <2> HIDE DEF all
  <2> QED BY <2>4, <2>5, OnceAndInOrder
<1> QED BY <1>1 DEF HearsEveryFill, PostInv, LiveHears

(* dispatch_to_strategy in both drivers: whatever the plan, the latencies, *)
(* their jitter and the records, the live strategy hears of every fill     *)
(* once and in order; the backtest's has heard of every fill once or it is *)
(* still held back, and without jitter in order.                           *)
THEOREM EveryFillIsHeard == Spec => []HearsEveryFill
<1>1. Init => PostInv
  BY PostInit
<1>2. IInv /\ PostInv /\ [Next]_vars => PostInv'
  BY PostStep
<1>3. IInv /\ PostInv => HearsEveryFill
  BY PostInvHears
<1> QED BY <1>1, <1>2, <1>3, DriversInvariant, PTL DEF Spec

(* The book of each driver agrees with its blotter, whatever the plan, the *)
(* latencies and the records: as long as no short of that driver is        *)
(* covered in part - portfolio.ml then books the wrong holding, which the  *)
(* run of ReducingShrinks shows - NAV is the capital, what the fills have  *)
(* made, less commissions and financing.  A flattened backtest holds       *)
(* nothing, and the strategy hears of every fill.                          *)
THEOREM BooksAlwaysBalance == Spec => []BooksBalance
<1>1. Init => BooksInv
  BY BooksInit
<1>2. IInv /\ BooksInv /\ [Next]_vars => BooksInv'
  BY BooksStep
<1>3. IInv /\ BooksInv /\ HearsEveryFill => BooksBalance
  <2> SUFFICES ASSUME IInv, BooksInv, HearsEveryFill PROVE NavFollowsTheFills
    BY DEF BooksBalance
  <2>1. ASSUME ~ended, NEW d \in Both, ~CoversInPart(d.blotter)
        PROVE  Nav(d) = Capital + Made(d) - cfg.fee * Len(d.blotter) - d.paid
    <3>1. IsDriver(d) /\ Books(d) /\ Marked(d)
      BY <2>1 DEF IInv, StateTyped, BooksInv
    <3>2. Balanced(d)
      BY <2>1, <3>1, BooksBalanced
    <3> QED BY <3>2, MadeIs DEF Balanced
  <2>2. ASSUME ended, cfg.flatten
        PROVE  /\ \A d \in Both : ~CoversInPart(d.blotter) =>
                    Nav(d) = Capital + Made(d) - cfg.fee * Len(d.blotter) - d.paid
               /\ back.working = <<>> /\ \A s \in Symbols : back.qty[s] = 0
    <3>1. /\ \A d \in Both : ~CoversInPart(d.blotter) => Balanced(d)
          /\ back.working = <<>> /\ \A s \in Symbols : back.qty[s] = 0
      BY <2>2 DEF BooksInv
    <3> QED BY <3>1, MadeIs DEF Balanced
  <2>3. ended \in BOOLEAN
    BY DEF IInv, StateTyped
  <2> QED BY <2>1, <2>2, <2>3 DEF NavFollowsTheFills
<1> QED BY <1>1, <1>2, <1>3, DriversInvariant, EveryFillIsHeard, PTL DEF Spec
=============================================================================
