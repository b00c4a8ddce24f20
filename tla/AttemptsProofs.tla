--------------------------- MODULE AttemptsProofs ---------------------------
(***************************************************************************)
(* Proofs about Attempts, for every limit, capacity, window length and set *)
(* of keys.                                                                *)
(***************************************************************************)
EXTENDS Attempts, FiniteSetTheorems, WellFoundedInduction, TLAPS

USE AttemptsAssumption

Times == 0..MaxClock

(* What the process holds is well formed: a window that is there has an    *)
(* attempt at its start, and nothing was admitted in the future.           *)
LimitTypeOK ==
    /\ clock \in Times
    /\ attempts \in [Keys -> [start : Times, count : Nat]]
    /\ admits \in [Keys -> [Times -> Nat]]
    /\ \A k \in Keys, t \in Times : t > clock => admits[k][t] = 0
    /\ \A k \in Keys : attempts[k].start <= clock

(* The window of k: its count is what was admitted since its start, at     *)
(* most the limit, one of them at the start, none after its end; and of    *)
(* what came before, the length of a window back, one attempt at least is  *)
(* missing to the limit.                                                   *)
WindowInv(k) ==
    /\ attempts[k].count <= MaxAttempts
    /\ \A t \in Times : t >= attempts[k].start + Window => admits[k][t] = 0
    /\ admits[k][attempts[k].start] > 0
    /\ AdmittedBetween(k, attempts[k].start, MaxClock) = attempts[k].count
    /\ \A t \in Times : t > attempts[k].start - Window =>
          AdmittedBetween(k, t, attempts[k].start - 1) < MaxAttempts

(* A key that has no window may open one: the same holds of it now. *)
QuietInv(k) ==
    /\ admits[k][clock] = 0
    /\ \A t \in Times : t > clock - Window => AdmittedBetween(k, t, MaxClock) < MaxAttempts

SpansBounded ==
    \A k \in Keys, t \in Times : AdmittedBetween(k, t, t + Window - 1) <= 2 * MaxAttempts - 1

(* The table and the keys that were ever admitted are finite. *)
TableInv == /\ IsFiniteSet(Entries(attempts)) /\ Cardinality(Entries(attempts)) <= Capacity
            /\ IsFiniteSet({k \in Keys : \E t \in Times : admits[k][t] > 0})

IInv == /\ LimitTypeOK
        /\ \A k \in Entries(attempts) : WindowInv(k)
        /\ \A k \in Keys \ Entries(attempts) : QuietInv(k)
        /\ SpansBounded
        /\ TableInv

-----------------------------------------------------------------------------
(* Sums over the times of a span.  AdmittedBetween adds up with a          *)
(* recursive function; what follows shows that there is one and what it    *)
(* yields, for any g in the place of admits[k].                            *)

Line == -1..MaxClock

Term(g, a, b, t) == IF t \in a..b THEN g[t] ELSE 0

Recursion(g, a, b, f) == [t \in Line |-> IF t = -1 THEN 0 ELSE f[t - 1] + Term(g, a, b, t)]

Sums(g, a, b) == CHOOSE f : f = Recursion(g, a, b, f)

Adm(g, a, b) == Sums(g, a, b)[MaxClock]

LEMMA AdmittedIsAdm ==
  ASSUME NEW k, NEW a, NEW b
  PROVE  /\ AdmittedBetween(k, a, b) = Adm(admits[k], a, b)
         /\ AdmittedBetween(k, a, b)' = Adm(admits'[k], a, b)
BY DEF AdmittedBetween, Adm, Sums, Recursion, Term, Line

(* What holds at -1 and passes from each time to the next holds on all of  *)
(* the line.                                                               *)
LEMMA AlongLine ==
  ASSUME NEW S, -1 \in S, \A t \in Times : t - 1 \in S => t \in S
  PROVE  \A t \in Line : t \in S
<1> DEFINE Bad == {n \in Nat : n - 1 \in Line /\ n - 1 \notin S}
<1> SUFFICES ASSUME NEW u \in Line, u \notin S PROVE FALSE
  OBVIOUS
<1>1. u + 1 \in Nat /\ (u + 1) - 1 = u
  BY DEF Line
<1>2. u + 1 \in Bad
  BY <1>1
<1>3. PICK n \in Bad : \A m \in Bad : ~ (<<m, n>> \in OpToRel(<, Nat))
  <2>1. Bad \subseteq Nat /\ Bad # {}
    BY <1>2
  <2> HIDE DEF Bad
  <2> QED
    BY <2>1, NatLessThanWellFounded, WFMin
<1>4. \A m \in Bad : ~ (m < n)
  BY <1>3 DEF OpToRel
<1>5. n # 0
  OBVIOUS
<1>6. n - 1 \in Times /\ n - 1 \in Nat /\ n - 1 < n /\ (n - 1) - 1 \in Line
  BY <1>5 DEF Line, Times
<1>7. (n - 1) - 1 \notin S
  BY <1>3, <1>6
<1>8. n - 1 \in Bad
  BY <1>6, <1>7
<1> QED
  BY <1>4, <1>6, <1>8

LEMMA TermType ==
  ASSUME NEW g \in [Times -> Nat], NEW a \in Int, NEW b \in Int, NEW t \in Times
  PROVE  Term(g, a, b, t) \in Nat
BY DEF Term

(* The recursion has a solution: one for the times up to n is continued to *)
(* n + 1.                                                                  *)
LEMMA SumsExist ==
  ASSUME NEW g \in [Times -> Nat], NEW a \in Int, NEW b \in Int
  PROVE  Sums(g, a, b) = Recursion(g, a, b, Sums(g, a, b))
<1> DEFINE Solves(f, n) == \A t \in -1..n : f[t] = IF t = -1 THEN 0 ELSE f[t - 1] + Term(g, a, b, t)
           S == {n \in Line : \E f \in [Line -> Int] : Solves(f, n)}
<1>1. -1 \in S
  <2> DEFINE f == [t \in Line |-> 0]
  <2>1. f \in [Line -> Int] /\ -1 \in Line /\ f[-1] = 0
    BY DEF Line
  <2>2. Solves(f, -1)
    BY <2>1
  <2> QED
    BY <2>1, <2>2
<1>2. ASSUME NEW n \in Times, n - 1 \in S PROVE n \in S
  <2>1. PICK f \in [Line -> Int] : Solves(f, n - 1)
    BY <1>2
  <2>2. n \in Line /\ n - 1 \in Line /\ n \in Int /\ n >= 0 /\ n <= MaxClock
    BY DEF Line, Times
  <2>3. f[n - 1] + Term(g, a, b, n) \in Int
    BY <2>2, TermType
  <2> DEFINE h == [f EXCEPT ![n] = f[n - 1] + Term(g, a, b, n)]
  <2>4. h \in [Line -> Int] /\ h[n] = f[n - 1] + Term(g, a, b, n)
        /\ \A t \in Line : t # n => h[t] = f[t]
    BY <2>2, <2>3
  <2> HIDE DEF h
  <2>5. ASSUME NEW t \in -1..n
        PROVE  h[t] = IF t = -1 THEN 0 ELSE h[t - 1] + Term(g, a, b, t)
    <3>1. t \in Line /\ (t # -1 => t - 1 \in Line /\ t - 1 # n)
      BY <2>2 DEF Line
    <3>2. CASE t = n
      <4>1. t # -1 /\ h[n - 1] = f[n - 1]
        BY <2>2, <2>4, <3>2
      <4> QED
        BY <2>4, <3>2, <4>1
    <3>3. CASE t # n
      <4>1. t \in -1..(n - 1)
        BY <2>2, <3>3
      <4>2. f[t] = IF t = -1 THEN 0 ELSE f[t - 1] + Term(g, a, b, t)
        BY <2>1, <4>1
      <4> QED
        BY <2>4, <3>1, <3>3, <4>2
    <3> QED
      BY <3>2, <3>3
  <2> QED
    BY <2>2, <2>4, <2>5
<1>3. MaxClock \in S
  <2>1. MaxClock \in Line
    BY DEF Line
  <2> HIDE DEF S
  <2> QED
    BY <1>1, <1>2, <2>1, AlongLine
<1>4. PICK f \in [Line -> Int] : Solves(f, MaxClock)
  BY <1>3
<1>5. f = Recursion(g, a, b, f)
  BY <1>4 DEF Recursion, Line
<1> HIDE DEF Solves, S
<1> QED
  BY <1>5 DEF Sums

(* The sums, step by step. *)
LEMMA SumsStep ==
  ASSUME NEW g \in [Times -> Nat], NEW a \in Int, NEW b \in Int
  PROVE  /\ Sums(g, a, b)[-1] = 0
         /\ \A t \in Times : Sums(g, a, b)[t] = Sums(g, a, b)[t - 1] + Term(g, a, b, t)
         /\ \A t \in Line : Sums(g, a, b)[t] \in Nat
<1> DEFINE f == Sums(g, a, b)
<1>1. f = Recursion(g, a, b, f)
  BY SumsExist
<1>2. -1 \in Line /\ Times \subseteq Line /\ \A t \in Times : t # -1
  BY DEF Line, Times
<1> HIDE DEF f
<1>3. \A t \in Line : f[t] = IF t = -1 THEN 0 ELSE f[t - 1] + Term(g, a, b, t)
  BY <1>1 DEF Recursion
<1>4. f[-1] = 0 /\ \A t \in Times : f[t] = f[t - 1] + Term(g, a, b, t)
  BY <1>2, <1>3
<1>5. \A t \in Line : t \in {u \in Line : f[u] \in Nat}
  <2> DEFINE S == {u \in Line : f[u] \in Nat}
  <2>1. -1 \in S
    BY <1>2, <1>4
  <2>2. \A t \in Times : t - 1 \in S => t \in S
    BY <1>2, <1>4, TermType
  <2> HIDE DEF S
  <2> QED
    BY <2>1, <2>2, AlongLine DEF S
<1> QED
  BY <1>4, <1>5 DEF f

LEMMA SumStep ==
  ASSUME NEW g \in [Times -> Nat], NEW a \in Int, NEW b \in Int, NEW t \in Times
  PROVE  /\ Sums(g, a, b)[t] = Sums(g, a, b)[t - 1] + Term(g, a, b, t)
         /\ Sums(g, a, b)[t - 1] \in Nat
<1>1. t - 1 \in Line
  BY DEF Line, Times
<1>2. Sums(g, a, b)[t] = Sums(g, a, b)[t - 1] + Term(g, a, b, t)
  BY SumsStep
<1>3. \A u \in Line : Sums(g, a, b)[u] \in Nat
  BY SumsStep
<1> QED
  BY <1>1, <1>2, <1>3

(* Sums compare and add up as their terms do. *)
LEMMA AdmLe ==
  ASSUME NEW g \in [Times -> Nat], NEW a \in Int, NEW b \in Int,
         NEW h \in [Times -> Nat], NEW c \in Int, NEW d \in Int,
         \A t \in Times : Term(g, a, b, t) <= Term(h, c, d, t)
  PROVE  /\ Adm(g, a, b) \in Nat
         /\ Adm(g, a, b) <= Adm(h, c, d)
<1> DEFINE S == {t \in Line : Sums(g, a, b)[t] <= Sums(h, c, d)[t]}
<1>0. -1 \in Line /\ MaxClock \in Line /\ \A t \in Times : t \in Line /\ t - 1 \in Line
  BY DEF Line, Times
<1>1. -1 \in S
  <2>1. Sums(g, a, b)[-1] = 0 /\ Sums(h, c, d)[-1] = 0
    BY SumsStep
  <2> QED
    BY <1>0, <2>1
<1>2. ASSUME NEW t \in Times, t - 1 \in S PROVE t \in S
  <2>1. Sums(g, a, b)[t] = Sums(g, a, b)[t - 1] + Term(g, a, b, t) /\ Sums(g, a, b)[t - 1] \in Nat
    BY SumsStep, <1>0
  <2>2. Sums(h, c, d)[t] = Sums(h, c, d)[t - 1] + Term(h, c, d, t) /\ Sums(h, c, d)[t - 1] \in Nat
    BY SumsStep, <1>0
  <2>3. Term(g, a, b, t) \in Nat /\ Term(h, c, d, t) \in Nat
    BY TermType
  <2> QED
    BY <1>0, <1>2, <2>1, <2>2, <2>3
<1>3. MaxClock \in S
  <2> HIDE DEF S
  <2> QED
    BY <1>0, <1>1, <1>2, AlongLine
<1> QED
  BY <1>0, <1>3, SumsStep DEF Adm

TermsAdd(g, a, b, h, c, d, i, e, f) ==
    \A t \in Times : Term(g, a, b, t) = Term(h, c, d, t) + Term(i, e, f, t)

LEMMA AdmPlus ==
  ASSUME NEW g \in [Times -> Nat], NEW a \in Int, NEW b \in Int,
         NEW h \in [Times -> Nat], NEW c \in Int, NEW d \in Int,
         NEW i \in [Times -> Nat], NEW e \in Int, NEW f \in Int,
         TermsAdd(g, a, b, h, c, d, i, e, f)
  PROVE  /\ Adm(g, a, b) \in Nat /\ Adm(h, c, d) \in Nat /\ Adm(i, e, f) \in Nat
         /\ Adm(g, a, b) = Adm(h, c, d) + Adm(i, e, f)
<1> DEFINE S == {t \in Line : Sums(g, a, b)[t] = Sums(h, c, d)[t] + Sums(i, e, f)[t]}
<1>0. -1 \in Line /\ MaxClock \in Line /\ \A t \in Times : t \in Line /\ t - 1 \in Line
  BY DEF Line, Times
<1>1. -1 \in S
  <2>1. Sums(g, a, b)[-1] = 0 /\ Sums(h, c, d)[-1] = 0 /\ Sums(i, e, f)[-1] = 0
    BY SumsStep
  <2> QED
    BY <1>0, <2>1
<1>2. ASSUME NEW t \in Times, t - 1 \in S PROVE t \in S
  <2>1. Sums(g, a, b)[t] = Sums(g, a, b)[t - 1] + Term(g, a, b, t) /\ Sums(g, a, b)[t - 1] \in Nat
    BY SumStep
  <2>2. Sums(h, c, d)[t] = Sums(h, c, d)[t - 1] + Term(h, c, d, t) /\ Sums(h, c, d)[t - 1] \in Nat
    BY SumStep
  <2>3. Sums(i, e, f)[t] = Sums(i, e, f)[t - 1] + Term(i, e, f, t) /\ Sums(i, e, f)[t - 1] \in Nat
    BY SumStep
  <2>4. Term(g, a, b, t) \in Nat /\ Term(h, c, d, t) \in Nat /\ Term(i, e, f, t) \in Nat
    BY TermType
  <2> QED
    BY <1>0, <1>2, <2>1, <2>2, <2>3, <2>4 DEF TermsAdd
<1>3. MaxClock \in S
  <2> HIDE DEF S
  <2> QED
    BY <1>0, <1>1, <1>2, AlongLine
<1> QED
  BY <1>0, <1>3, SumsStep DEF Adm

LEMMA AdmParts ==
  ASSUME NEW g \in [Times -> Nat], NEW a \in Int, NEW n \in Int, NEW m \in Int, NEW b \in Int,
         TermsAdd(g, a, b, g, a, n, g, m, b)
  PROVE  /\ Adm(g, a, b) \in Nat /\ Adm(g, a, n) \in Nat /\ Adm(g, m, b) \in Nat
         /\ Adm(g, a, b) = Adm(g, a, n) + Adm(g, m, b)
<1>1. Adm(g, a, b) = Adm(g, a, n) + Adm(g, m, b)
  BY AdmPlus
<1>2. \A x \in Int, y \in Int : Adm(g, x, y) \in Nat
  BY SumsStep DEF Adm, Line
<1> QED
  BY <1>1, <1>2

(* What is admitted in a span is what is admitted in its two parts. *)
LEMMA AdmSplit ==
  ASSUME NEW g \in [Times -> Nat], NEW a \in Int, NEW m \in Int, NEW b \in Int,
         a <= m, m <= b + 1
  PROVE  /\ Adm(g, a, b) \in Nat /\ Adm(g, a, m - 1) \in Nat /\ Adm(g, m, b) \in Nat
         /\ Adm(g, a, b) = Adm(g, a, m - 1) + Adm(g, m, b)
<1> SUFFICES ASSUME NEW n \in Int, n = m - 1
             PROVE  /\ Adm(g, a, b) \in Nat /\ Adm(g, a, n) \in Nat /\ Adm(g, m, b) \in Nat
                    /\ Adm(g, a, b) = Adm(g, a, n) + Adm(g, m, b)
  OBVIOUS
<1>1. ASSUME NEW t \in Times
      PROVE  Term(g, a, b, t) = Term(g, a, n, t) + Term(g, m, b, t)
  <2>1. g[t] \in Nat /\ t \in Int
    BY DEF Times
  <2> QED
    BY <2>1 DEF Term
<1>2. TermsAdd(g, a, b, g, a, n, g, m, b)
  BY <1>1 DEF TermsAdd
<1> QED
  BY <1>2, AdmParts

LEMMA AdmWithin ==
  ASSUME NEW g \in [Times -> Nat], NEW a \in Int, NEW b \in Int, NEW c \in Int, NEW d \in Int,
         \A t \in Times : t \in a..b => t \in c..d \/ g[t] = 0
  PROVE  Adm(g, a, b) \in Nat /\ Adm(g, a, b) <= Adm(g, c, d)
<1>1. ASSUME NEW t \in Times PROVE Term(g, a, b, t) <= Term(g, c, d, t)
  BY DEF Term
<1> QED
  BY <1>1, AdmLe

LEMMA AdmZero ==
  ASSUME NEW g \in [Times -> Nat], NEW a \in Int, NEW b \in Int,
         \A t \in Times : t \in a..b => g[t] = 0
  PROVE  Adm(g, a, b) = 0
<1>1. ASSUME NEW t \in Times PROVE Term(g, a, b, t) = Term(g, a, b, t) + Term(g, a, b, t)
  BY DEF Term
<1>2. TermsAdd(g, a, b, g, a, b, g, a, b)
  BY <1>1 DEF TermsAdd
<1>3. Adm(g, a, b) \in Nat /\ Adm(g, a, b) = Adm(g, a, b) + Adm(g, a, b)
  BY <1>2, AdmParts
<1> QED
  BY <1>3

(* A single attempt at time c. *)
One(c) == [t \in Times |-> IF t = c THEN 1 ELSE 0]

LEMMA OneSum ==
  ASSUME NEW c \in Times, NEW a \in Int, NEW b \in Int
  PROVE  Adm(One(c), a, b) = IF c \in a..b THEN 1 ELSE 0
<1> DEFINE o == One(c)
           S == {t \in Line : Sums(o, a, b)[t] = IF c \in a..b /\ t >= c THEN 1 ELSE 0}
<1>0. -1 \in Line /\ MaxClock \in Line /\ MaxClock >= c
      /\ \A t \in Times : t \in Line /\ t - 1 \in Line /\ t \in Int
  BY DEF Line, Times
<1>1. o \in [Times -> Nat] /\ \A t \in Times : o[t] = IF t = c THEN 1 ELSE 0
  BY DEF One
<1> HIDE DEF o
<1>2. -1 \in S
  <2>1. Sums(o, a, b)[-1] = 0 /\ ~ (-1 >= c)
    BY <1>1, SumsStep DEF Times
  <2> QED
    BY <1>0, <2>1
<1>3. ASSUME NEW t \in Times, t - 1 \in S PROVE t \in S
  <2>1. Sums(o, a, b)[t] = Sums(o, a, b)[t - 1] + Term(o, a, b, t) /\ Sums(o, a, b)[t - 1] \in Nat
    BY <1>0, <1>1, SumsStep
  <2>2. Sums(o, a, b)[t - 1] = IF c \in a..b /\ t - 1 >= c THEN 1 ELSE 0
    BY <1>3
  <2>3. Term(o, a, b, t) = IF c \in a..b /\ t = c THEN 1 ELSE 0
    BY <1>1 DEF Term
  <2> QED
    BY <1>0, <2>1, <2>2, <2>3
<1>4. MaxClock \in S
  <2> HIDE DEF S
  <2> QED
    BY <1>0, <1>2, <1>3, AlongLine
<1> QED
  BY <1>0, <1>4 DEF Adm, o

(* h is g with one more attempt at time c. *)
OneMore(g, h, c) == h \in [Times -> Nat] /\ \A t \in Times : h[t] = g[t] + One(c)[t]

LEMMA AdmOneMore ==
  ASSUME NEW g \in [Times -> Nat], NEW h, NEW c \in Times, OneMore(g, h, c),
         NEW a \in Int, NEW b \in Int
  PROVE  Adm(h, a, b) = Adm(g, a, b) + (IF c \in a..b THEN 1 ELSE 0)
<1>1. h \in [Times -> Nat] /\ One(c) \in [Times -> Nat]
  BY DEF OneMore, One
<1>2. ASSUME NEW t \in Times PROVE Term(h, a, b, t) = Term(g, a, b, t) + Term(One(c), a, b, t)
  BY <1>1 DEF OneMore, Term
<1>3. TermsAdd(h, a, b, g, a, b, One(c), a, b)
  BY <1>2 DEF TermsAdd
<1>4. Adm(h, a, b) = Adm(g, a, b) + Adm(One(c), a, b)
  BY <1>1, <1>3, AdmPlus
<1> QED
  BY <1>4, OneSum

(* Where something was admitted in a span, the sum says so, and no other   *)
(* way.                                                                    *)
LEMMA AdmPositive ==
  ASSUME NEW g \in [Times -> Nat], NEW a \in Int, NEW b \in Int
  PROVE  Adm(g, a, b) > 0 <=> \E t \in Times : t \in a..b /\ g[t] > 0
<1>1. ASSUME NEW u \in Times, u \in a..b, g[u] > 0 PROVE Adm(g, a, b) > 0
  <2> DEFINE o == One(u)
  <2>1. o \in [Times -> Nat] /\ \A t \in Times : o[t] = IF t = u THEN 1 ELSE 0
    BY DEF One
  <2>2. Adm(o, a, b) = 1
    BY <1>1, OneSum
  <2> HIDE DEF o
  <2>3. ASSUME NEW t \in Times PROVE Term(o, a, b, t) <= Term(g, a, b, t)
    BY <1>1, <2>1 DEF Term
  <2>4. Adm(o, a, b) <= Adm(g, a, b)
    BY <2>1, <2>3, AdmLe
  <2>5. Adm(g, a, b) \in Nat
    BY AdmWithin
  <2> QED
    BY <2>2, <2>4, <2>5
<1>2. ASSUME ~ \E t \in Times : t \in a..b /\ g[t] > 0 PROVE Adm(g, a, b) = 0
  <2>1. \A t \in Times : t \in a..b => g[t] = 0
    BY <1>2
  <2> QED
    BY <2>1, AdmZero
<1> QED
  BY <1>1, <1>2

-----------------------------------------------------------------------------
(* What the invariants say of the attempts g of one key. *)

WindowOf(g, s, n) ==
    /\ n <= MaxAttempts
    /\ \A t \in Times : t >= s + Window => g[t] = 0
    /\ g[s] > 0
    /\ Adm(g, s, MaxClock) = n
    /\ \A t \in Times : t > s - Window => Adm(g, t, s - 1) < MaxAttempts

QuietOf(g, c) ==
    /\ g[c] = 0
    /\ \A t \in Times : t > c - Window => Adm(g, t, MaxClock) < MaxAttempts

LEMMA InvariantsOfKey ==
  ASSUME NEW k
  PROVE  /\ WindowInv(k) <=> WindowOf(admits[k], attempts[k].start, attempts[k].count)
         /\ WindowInv(k)' <=> WindowOf(admits'[k], attempts'[k].start, attempts'[k].count)
         /\ QuietInv(k) <=> QuietOf(admits[k], clock)
         /\ QuietInv(k)' <=> QuietOf(admits'[k], clock')
BY AdmittedIsAdm DEF WindowInv, WindowOf, QuietInv, QuietOf

(* A window that is over leaves its key quiet: the attempt at its start is *)
(* out of reach.                                                           *)
LEMMA CloseWindow ==
  ASSUME NEW g \in [Times -> Nat], NEW s \in Times, NEW n \in Nat, WindowOf(g, s, n),
         NEW c \in Times, c - s >= Window
  PROVE  QuietOf(g, c)
<1>0. s \in Int /\ c \in Int /\ MaxClock \in Int /\ s <= MaxClock /\ s + 1 \in Int /\ (s + 1) - 1 = s
      /\ Window \in Nat /\ Window > 0 /\ MaxAttempts \in Nat
  BY DEF Times
<1>1. g[c] = 0
  BY <1>0 DEF WindowOf
<1>2. ASSUME NEW t \in Times, t > c - Window PROVE Adm(g, t, MaxClock) < MaxAttempts
  <2>0. t \in Int /\ t >= s + 1
    BY <1>0, <1>2 DEF Times
  <2>1. Adm(g, s, MaxClock) <= MaxAttempts
    BY <1>0 DEF WindowOf
  <2> DEFINE u == s + 1
  <2>2. u \in Int /\ s <= u /\ u <= MaxClock + 1 /\ u - 1 = s
    BY <1>0
  <2>21. t >= u
    BY <2>0
  <2> HIDE DEF u
  <2>3. Adm(g, s, s) \in Nat /\ Adm(g, u, MaxClock) \in Nat
        /\ Adm(g, s, MaxClock) = Adm(g, s, s) + Adm(g, u, MaxClock)
    <3>1. /\ Adm(g, s, u - 1) \in Nat /\ Adm(g, u, MaxClock) \in Nat
          /\ Adm(g, s, MaxClock) = Adm(g, s, u - 1) + Adm(g, u, MaxClock)
      BY <1>0, <2>2, AdmSplit
    <3> QED
      BY <2>2, <3>1
  <2>4. Adm(g, s, s) > 0
    <3>1. s \in s..s /\ g[s] > 0
      BY <1>0 DEF WindowOf
    <3> QED
      BY <1>0, <3>1, AdmPositive
  <2>5. Adm(g, t, MaxClock) \in Nat /\ Adm(g, t, MaxClock) <= Adm(g, u, MaxClock)
    <3>1. \A x \in Times : x \in t..MaxClock => x \in u..MaxClock \/ g[x] = 0
      BY <2>0, <2>2, <2>21, <1>0
    <3> QED
      BY <3>1, <1>0, <2>0, <2>2, AdmWithin
  <2> QED
    BY <1>0, <2>1, <2>3, <2>4, <2>5
<1> QED
  BY <1>1, <1>2 DEF QuietOf

LEMMA StillQuiet ==
  ASSUME NEW g \in [Times -> Nat], NEW c \in Times, QuietOf(g, c), NEW d \in Times, d >= c, g[d] = 0
  PROVE  QuietOf(g, d)
BY DEF QuietOf, Times

(* The first attempt of a quiet key opens a window. *)
LEMMA OpenWindow ==
  ASSUME NEW g \in [Times -> Nat], NEW c \in Times, QuietOf(g, c),
         \A t \in Times : t > c => g[t] = 0,
         NEW h, OneMore(g, h, c)
  PROVE  WindowOf(h, c, 1)
<1>0. c \in Int /\ MaxClock \in Int /\ c <= MaxClock /\ MaxAttempts \in Nat /\ MaxAttempts >= 1 /\ c - 1 \in Int
      /\ Window \in Nat /\ Window > 0
  BY DEF Times
<1>1. h \in [Times -> Nat] /\ \A t \in Times : h[t] = g[t] + (IF t = c THEN 1 ELSE 0)
  BY DEF OneMore, One
<1>2. \A t \in Times : t >= c + Window => h[t] = 0
  BY <1>0, <1>1 DEF Times
<1>3. h[c] > 0
  BY <1>1 DEF QuietOf
<1>4. Adm(h, c, MaxClock) = 1
  <2>1. \A t \in Times : t \in c..MaxClock => g[t] = 0
    BY <1>0 DEF QuietOf, Times
  <2>2. Adm(g, c, MaxClock) = 0
    BY <2>1, <1>0, AdmZero
  <2>3. c \in c..MaxClock
    BY <1>0
  <2> QED
    BY <1>0, <2>2, <2>3, AdmOneMore
<1>5. ASSUME NEW t \in Times, t > c - Window PROVE Adm(h, t, c - 1) < MaxAttempts
  <2> SUFFICES ASSUME NEW e \in Int, e = c - 1 PROVE Adm(h, t, e) < MaxAttempts
    BY <1>0
  <2>1. t \in Int /\ c \notin t..e
    BY <1>0 DEF Times
  <2>2. Adm(h, t, e) = Adm(g, t, e) + 0
    BY <2>1, AdmOneMore
  <2>3. \A x \in Times : x \in t..e => x \in t..MaxClock \/ g[x] = 0
    BY <1>0, <2>1
  <2>4. Adm(g, t, e) \in Nat /\ Adm(g, t, e) <= Adm(g, t, MaxClock)
    BY <2>3, <1>0, <2>1, AdmWithin
  <2>5. Adm(g, t, MaxClock) < MaxAttempts /\ Adm(g, t, MaxClock) \in Nat
    <3>1. \A x \in Times : x \in t..MaxClock => x \in t..MaxClock \/ g[x] = 0
      OBVIOUS
    <3>2. Adm(g, t, MaxClock) \in Nat
      BY <3>1, <1>0, <2>1, AdmWithin
    <3> QED
      BY <3>2, <1>5 DEF QuietOf
  <2> QED
    BY <1>0, <2>2, <2>4, <2>5
<1> QED
  BY <1>0, <1>2, <1>3, <1>4, <1>5 DEF WindowOf

(* Another attempt counts in the window that is there. *)
LEMMA CountWindow ==
  ASSUME NEW g \in [Times -> Nat], NEW s \in Times, NEW n \in Nat, WindowOf(g, s, n),
         NEW c \in Times, s <= c, c - s < Window, n + 1 <= MaxAttempts,
         NEW h, OneMore(g, h, c)
  PROVE  WindowOf(h, s, n + 1)
<1>0. s \in Int /\ c \in Int /\ MaxClock \in Int /\ c <= MaxClock /\ MaxAttempts \in Nat /\ s - 1 \in Int
      /\ Window \in Nat /\ Window > 0
  BY DEF Times
<1>1. h \in [Times -> Nat] /\ \A t \in Times : h[t] = g[t] + (IF t = c THEN 1 ELSE 0)
  BY DEF OneMore, One
<1>2. ASSUME NEW t \in Times, t >= s + Window PROVE h[t] = 0
  <2>1. g[t] = 0
    BY <1>2 DEF WindowOf
  <2>2. t # c
    BY <1>0, <1>2 DEF Times
  <2> QED
    BY <1>1, <2>1, <2>2
<1>3. h[s] > 0
  BY <1>1 DEF WindowOf
<1>4. Adm(h, s, MaxClock) = n + 1
  <2>1. Adm(g, s, MaxClock) = n /\ c \in s..MaxClock
    BY <1>0 DEF WindowOf
  <2> QED
    BY <1>0, <2>1, AdmOneMore
<1>5. ASSUME NEW t \in Times, t > s - Window PROVE Adm(h, t, s - 1) < MaxAttempts
  <2>1. Adm(g, t, s - 1) < MaxAttempts
    BY <1>5 DEF WindowOf
  <2> SUFFICES ASSUME NEW e \in Int, e = s - 1 PROVE Adm(h, t, e) < MaxAttempts
    BY <1>0
  <2>2. t \in Int /\ c \notin t..e
    BY <1>0 DEF Times
  <2>3. Adm(h, t, e) = Adm(g, t, e) + 0
    BY <2>2, AdmOneMore
  <2>4. Adm(g, t, e) \in Nat
    <3>1. \A x \in Times : x \in t..e => x \in t..e \/ g[x] = 0
      OBVIOUS
    <3> QED
      BY <3>1, <2>2, AdmWithin
  <2> QED
    BY <2>1, <2>3, <2>4
<1> QED
  BY <1>0, <1>2, <1>3, <1>4, <1>5 DEF WindowOf

(* Any span of a window's length that reaches past the start of the        *)
(* window: what is before the start and what is from it on.                *)
LEMMA SpanOfWindow ==
  ASSUME NEW g \in [Times -> Nat], NEW s \in Times, NEW n \in Nat, WindowOf(g, s, n),
         NEW t \in Times, t > s - Window
  PROVE  Adm(g, t, t + Window - 1) <= 2 * MaxAttempts - 1
<1>0. s \in Int /\ t \in Int /\ MaxClock \in Int /\ MaxAttempts \in Nat /\ MaxAttempts > 0
      /\ s - 1 \in Int /\ t + Window - 1 \in Int /\ s <= MaxClock /\ t <= MaxClock
  BY DEF Times
<1> SUFFICES ASSUME NEW e \in Int, e = t + Window - 1 PROVE Adm(g, t, e) <= 2 * MaxAttempts - 1
  BY <1>0
<1>1. Adm(g, s, MaxClock) <= MaxAttempts /\ Adm(g, s, MaxClock) \in Nat
  BY DEF WindowOf
<1>2. Adm(g, t, e) \in Nat /\ Adm(g, t, e) <= Adm(g, t, MaxClock)
  <2>1. \A x \in Times : x \in t..e => x \in t..MaxClock \/ g[x] = 0
    BY <1>0 DEF Times
  <2> QED
    BY <1>0, <2>1, AdmWithin
<1>3. CASE t >= s
  <2>1. \A x \in Times : x \in t..MaxClock => x \in s..MaxClock \/ g[x] = 0
    BY <1>0, <1>3
  <2>2. Adm(g, t, MaxClock) \in Nat /\ Adm(g, t, MaxClock) <= Adm(g, s, MaxClock)
    BY <1>0, <2>1, AdmWithin
  <2> QED
    BY <1>0, <1>1, <1>2, <2>2
<1>4. CASE t < s
  <2>1. Adm(g, t, s - 1) < MaxAttempts
    BY DEF WindowOf
  <2>2. t <= s /\ s <= MaxClock + 1
    BY <1>0, <1>4
  <2>3. /\ Adm(g, t, MaxClock) \in Nat /\ Adm(g, t, s - 1) \in Nat
        /\ Adm(g, t, MaxClock) = Adm(g, t, s - 1) + Adm(g, s, MaxClock)
    BY <1>0, <2>2, AdmSplit
  <2> QED
    BY <1>0, <1>1, <1>2, <2>1, <2>3
<1> QED
  BY <1>0, <1>3, <1>4

-----------------------------------------------------------------------------
(* The steps. *)

LEMMA InitEstablishes == InitLimit => IInv
<1> SUFFICES ASSUME InitLimit PROVE IInv
  OBVIOUS
<1>1. 0 \in Times /\ MaxAttempts \in Nat /\ MaxAttempts > 0 /\ Capacity \in Nat /\ Window \in Nat
      /\ MaxClock \in Int
  BY DEF Times
<1>2. LimitTypeOK
  BY <1>1 DEF InitLimit, LimitTypeOK, NoWindow, Times
<1>3. Entries(attempts) = {}
  BY DEF InitLimit, Entries, NoWindow
<1>4. ASSUME NEW k \in Keys
      PROVE  admits[k] \in [Times -> Nat] /\ \A t \in Times : admits[k][t] = 0
  BY DEF InitLimit, Times
<1>5. ASSUME NEW k \in Keys, NEW a \in Int, NEW b \in Int PROVE Adm(admits[k], a, b) = 0
  BY <1>4, AdmZero
<1>6. ASSUME NEW k \in Keys PROVE QuietInv(k)
  <2>1. QuietOf(admits[k], clock)
    BY <1>1, <1>4, <1>5 DEF QuietOf, InitLimit, Times
  <2> QED
    BY <2>1, InvariantsOfKey
<1>7. SpansBounded
  <2> SUFFICES ASSUME NEW k \in Keys, NEW t \in Times
               PROVE  AdmittedBetween(k, t, t + Window - 1) <= 2 * MaxAttempts - 1
    BY DEF SpansBounded
  <2>1. t \in Int /\ t + Window - 1 \in Int
    BY <1>1 DEF Times
  <2>2. AdmittedBetween(k, t, t + Window - 1) = 0
    BY <1>5, <2>1, AdmittedIsAdm
  <2> QED
    BY <1>1, <2>2
<1>8. TableInv
  <2>1. {k \in Keys : \E t \in Times : admits[k][t] > 0} = {}
    BY <1>4
  <2> QED
    BY <1>1, <1>3, <2>1, FS_EmptySet DEF TableInv
<1> QED
  BY <1>2, <1>3, <1>6, <1>7, <1>8 DEF IInv

(* What pruning leaves: the windows that are not over, as they were; every *)
(* other key is quiet.                                                     *)
LEMMA PrunedTable ==
  ASSUME IInv
  PROVE  /\ Pruned \in [Keys -> [start : Times, count : Nat]]
         /\ \A k \in Keys : Pruned[k].start <= clock
         /\ \A k \in Entries(Pruned) :
               /\ k \in Entries(attempts) /\ Pruned[k] = attempts[k]
               /\ clock - Pruned[k].start < Window
               /\ WindowOf(admits[k], Pruned[k].start, Pruned[k].count)
         /\ \A k \in Keys \ Entries(Pruned) : QuietOf(admits[k], clock)
         /\ IsFiniteSet(Entries(Pruned))
         /\ Cardinality(Entries(Pruned)) \in Nat
         /\ Cardinality(Entries(Pruned)) <= Capacity
<1>0. LimitTypeOK /\ clock \in Times /\ clock \in Int /\ clock >= 0 /\ Window \in Nat /\ Capacity \in Nat
      /\ NoWindow \in [start : Times, count : Nat] /\ NoWindow.start = 0 /\ NoWindow.count = 0
  <2>1. LimitTypeOK
    BY DEF IInv
  <2>2. clock \in Times
    BY <2>1 DEF LimitTypeOK
  <2>3. NoWindow \in [start : Times, count : Nat] /\ NoWindow.start = 0 /\ NoWindow.count = 0
    BY DEF NoWindow, Times
  <2> QED
    BY <2>1, <2>2, <2>3 DEF Times
<1>1. ASSUME NEW k \in Keys
      PROVE  /\ attempts[k] \in [start : Times, count : Nat]
             /\ attempts[k].start \in Times /\ attempts[k].count \in Nat /\ attempts[k].start <= clock
             /\ admits[k] \in [Times -> Nat]
  BY <1>0 DEF LimitTypeOK
<1>2. ASSUME NEW k \in Keys
      PROVE  /\ clock - attempts[k].start >= Window => Pruned[k] = NoWindow
             /\ ~ (clock - attempts[k].start >= Window) => Pruned[k] = attempts[k]
  BY DEF Pruned
<1>3. Pruned \in [Keys -> [start : Times, count : Nat]]
  BY <1>0, <1>1 DEF Pruned
<1>4. \A k \in Keys : Pruned[k].start <= clock
  BY <1>0, <1>1, <1>2
<1>5. ASSUME NEW k \in Entries(Pruned)
      PROVE  /\ k \in Keys /\ k \in Entries(attempts) /\ Pruned[k] = attempts[k]
             /\ clock - Pruned[k].start < Window
             /\ WindowOf(admits[k], Pruned[k].start, Pruned[k].count)
  <2>1. k \in Keys /\ Pruned[k].count > 0
    BY DEF Entries
  <2>2. Pruned[k] = attempts[k] /\ ~ (clock - attempts[k].start >= Window)
    BY <1>0, <1>2, <2>1
  <2>3. k \in Entries(attempts)
    BY <2>1, <2>2 DEF Entries
  <2>4. attempts[k].start \in Int
    BY <1>1, <2>1 DEF Times
  <2>5. WindowOf(admits[k], attempts[k].start, attempts[k].count)
    BY <2>3, InvariantsOfKey DEF IInv
  <2>6. clock - attempts[k].start < Window
    BY <1>0, <2>2, <2>4
  <2> QED
    BY <2>1, <2>2, <2>3, <2>5, <2>6
<1>6. ASSUME NEW k \in Keys, k \notin Entries(Pruned) PROVE QuietOf(admits[k], clock)
  <2>1. CASE k \in Entries(attempts)
    <3>1. clock - attempts[k].start >= Window
      BY <1>2, <1>6, <2>1 DEF Entries
    <3>2. WindowOf(admits[k], attempts[k].start, attempts[k].count)
      BY <2>1, InvariantsOfKey DEF IInv
    <3> QED
      BY <1>0, <1>1, <3>1, <3>2, CloseWindow
  <2>2. CASE k \notin Entries(attempts)
    BY <2>2, InvariantsOfKey DEF IInv
  <2> QED
    BY <2>1, <2>2
<1>7. Entries(Pruned) \subseteq Entries(attempts)
  BY <1>5
<1>8. /\ IsFiniteSet(Entries(attempts)) /\ Cardinality(Entries(attempts)) <= Capacity
  BY DEF IInv, TableInv
<1>9. /\ IsFiniteSet(Entries(Pruned))
      /\ Cardinality(Entries(Pruned)) \in Nat /\ Cardinality(Entries(attempts)) \in Nat
      /\ Cardinality(Entries(Pruned)) <= Cardinality(Entries(attempts))
  <2>1. IsFiniteSet(Entries(Pruned)) /\ Cardinality(Entries(Pruned)) <= Cardinality(Entries(attempts))
    BY <1>7, <1>8, FS_Subset
  <2> QED
    BY <1>8, <2>1, FS_CardinalityType
<1>10. Cardinality(Entries(Pruned)) <= Capacity
  BY <1>0, <1>8, <1>9
<1>11. \A k \in Keys \ Entries(Pruned) : QuietOf(admits[k], clock)
  BY <1>6
<1> HIDE DEF Pruned
<1> QED
  BY <1>3, <1>4, <1>5, <1>9, <1>10, <1>11

LEMMA PassKeeps == ASSUME IInv, Pass PROVE IInv'
<1>0. /\ clock \in Times /\ clock' \in Times /\ clock' > clock /\ attempts' = attempts /\ admits' = admits
      /\ clock \in Int /\ clock' \in Int
  BY DEF IInv, LimitTypeOK, Pass, Times
<1>1. LimitTypeOK'
  <2>1. \A k \in Keys : attempts[k].start \in Int /\ attempts[k].start <= clock
    BY DEF IInv, LimitTypeOK, Times
  <2>2. \A k \in Keys, t \in Times : t > clock' => admits[k][t] = 0
    BY <1>0 DEF IInv, LimitTypeOK, Times
  <2>3. \A k \in Keys : attempts[k].start <= clock'
    BY <1>0, <2>1
  <2> QED
    BY <1>0, <2>2, <2>3 DEF IInv, LimitTypeOK
<1>2. Entries(attempts)' = Entries(attempts)
  BY <1>0 DEF Entries
<1>3. ASSUME NEW k \in Entries(attempts) PROVE WindowInv(k)'
  <2>1. WindowOf(admits[k], attempts[k].start, attempts[k].count)
    BY InvariantsOfKey DEF IInv
  <2> QED
    BY <1>0, <2>1, InvariantsOfKey
<1>4. ASSUME NEW k \in Keys \ Entries(attempts) PROVE QuietInv(k)'
  <2>1. QuietOf(admits[k], clock)
    BY InvariantsOfKey DEF IInv
  <2>2. admits[k] \in [Times -> Nat] /\ admits[k][clock'] = 0 /\ clock' >= clock
    BY <1>0 DEF IInv, LimitTypeOK
  <2>3. QuietOf(admits[k], clock')
    BY <1>0, <2>1, <2>2, StillQuiet
  <2> QED
    BY <1>0, <2>3, InvariantsOfKey
<1>5. SpansBounded' /\ TableInv'
  BY <1>0 DEF IInv, SpansBounded, TableInv, AdmittedBetween, Entries
<1> QED
  BY <1>1, <1>2, <1>3, <1>4, <1>5 DEF IInv

LEMMA LimitKeeps == ASSUME IInv, NEW k \in Keys, Limit(k) PROVE IInv'
<1> SUFFICES ASSUME NEW P, P = Pruned PROVE IInv'
  OBVIOUS
<1>0. clock' = clock /\ admits' = admits /\ attempts' = P
  BY DEF Limit
<1>1. /\ P \in [Keys -> [start : Times, count : Nat]]
      /\ \A j \in Keys : P[j].start <= clock
      /\ \A j \in Entries(P) : WindowOf(admits[j], P[j].start, P[j].count)
      /\ \A j \in Keys \ Entries(P) : QuietOf(admits[j], clock)
      /\ IsFiniteSet(Entries(P)) /\ Cardinality(Entries(P)) <= Capacity
  BY PrunedTable
<1>2. LimitTypeOK'
  BY <1>0, <1>1 DEF IInv, LimitTypeOK
<1>3. Entries(attempts)' = Entries(P)
  BY <1>0 DEF Entries
<1>4. \A j \in Entries(P) : WindowInv(j)'
  BY <1>0, <1>1, InvariantsOfKey
<1>5. \A j \in Keys \ Entries(P) : QuietInv(j)'
  BY <1>0, <1>1, InvariantsOfKey
<1>6. SpansBounded'
  BY <1>0 DEF IInv, SpansBounded, AdmittedBetween
<1>7. TableInv'
  BY <1>0, <1>1, <1>3 DEF IInv, TableInv
<1> QED
  BY <1>2, <1>3, <1>4, <1>5, <1>6, <1>7 DEF IInv

(* An admitted attempt changes its key only: it opens a window, or counts  *)
(* in the one that is not over.                                            *)
LEMMA AdmitKeeps == ASSUME IInv, NEW k \in Keys, Admit(k) PROVE IInv'
<1> SUFFICES ASSUME NEW P, P = Pruned PROVE IInv'
  OBVIOUS
<1> DEFINE s == IF k \in Entries(P) THEN P[k].start ELSE clock
           n == P[k].count + 1
<1>0. /\ clock' = clock /\ clock \in Times /\ clock \in Int
      /\ ~ IsLimited(P, k)
      /\ attempts' = [P EXCEPT ![k] = [start |-> s, count |-> n]]
      /\ admits' = [admits EXCEPT ![k][clock] = @ + 1]
      /\ admits \in [Keys -> [Times -> Nat]]
      /\ Window \in Nat /\ Capacity \in Nat /\ MaxAttempts \in Nat
  BY DEF Admit, Counted, IInv, LimitTypeOK, Times
<1>1. /\ P \in [Keys -> [start : Times, count : Nat]]
      /\ \A j \in Keys : P[j].start <= clock
      /\ \A j \in Entries(P) : /\ clock - P[j].start < Window
                               /\ WindowOf(admits[j], P[j].start, P[j].count)
      /\ \A j \in Keys \ Entries(P) : QuietOf(admits[j], clock)
      /\ IsFiniteSet(Entries(P)) /\ Cardinality(Entries(P)) \in Nat
  BY PrunedTable
<1>2. /\ n <= MaxAttempts /\ Cardinality(Entries(P)) < Capacity
  BY <1>0, <1>1 DEF IsLimited, Counted
<1>3. s \in Times /\ s <= clock /\ n \in Nat /\ n > 0 /\ P[k].count \in Nat
  BY <1>0, <1>1
<1>4. /\ attempts' \in [Keys -> [start : Times, count : Nat]]
      /\ attempts'[k].start = s /\ attempts'[k].count = n
      /\ \A j \in Keys : j # k => attempts'[j] = P[j]
  <2> HIDE DEF s, n
  <2> QED
    BY <1>0, <1>1, <1>3
<1>5. /\ admits' \in [Keys -> [Times -> Nat]]
      /\ \A j \in Keys : j # k => admits'[j] = admits[j]
      /\ \A t \in Times : admits'[k][t] = admits[k][t] + (IF t = clock THEN 1 ELSE 0)
  BY <1>0
<1>6. OneMore(admits[k], admits'[k], clock) /\ admits[k] \in [Times -> Nat] /\ admits'[k] \in [Times -> Nat]
  BY <1>0, <1>5 DEF OneMore, One
<1> HIDE DEF s, n
<1>7. LimitTypeOK'
  <2>1. \A j \in Keys, t \in Times : t > clock => admits'[j][t] = 0
    <3> SUFFICES ASSUME NEW j \in Keys, NEW t \in Times, t > clock PROVE admits'[j][t] = 0
      OBVIOUS
    <3>1. admits[j][t] = 0
      BY DEF IInv, LimitTypeOK
    <3>2. t # clock
      BY <1>0 DEF Times
    <3> QED
      BY <1>5, <3>1, <3>2
  <2>2. \A j \in Keys : attempts'[j].start <= clock
    BY <1>1, <1>3, <1>4
  <2> QED
    BY <1>0, <1>4, <1>5, <2>1, <2>2 DEF LimitTypeOK
<1>8. Entries(attempts)' = Entries(P) \cup {k}
  BY <1>3, <1>4 DEF Entries
<1>9. WindowOf(admits'[k], s, n)
  <2>1. CASE k \in Entries(P)
    <3>1. s = P[k].start /\ n = P[k].count + 1
      BY <2>1 DEF s, n
    <3>2. WindowOf(admits[k], P[k].start, P[k].count) /\ clock - P[k].start < Window
      BY <1>1, <2>1
    <3>3. P[k].start \in Times /\ P[k].start <= clock /\ P[k].count + 1 <= MaxAttempts
      BY <1>2, <1>3, <3>1
    <3>4. WindowOf(admits'[k], P[k].start, P[k].count + 1)
      BY <1>0, <1>3, <1>6, <3>2, <3>3, CountWindow
    <3> QED
      BY <3>1, <3>4
  <2>2. CASE k \notin Entries(P)
    <3>1. s = clock /\ n = 1
      BY <1>3, <2>2 DEF s, n, Entries
    <3>2. QuietOf(admits[k], clock)
      BY <1>1, <2>2
    <3>3. \A t \in Times : t > clock => admits[k][t] = 0
      BY DEF IInv, LimitTypeOK
    <3>4. WindowOf(admits'[k], clock, 1)
      BY <1>0, <1>6, <3>2, <3>3, OpenWindow
    <3> QED
      BY <3>1, <3>4
  <2> QED
    BY <2>1, <2>2
<1>10. ASSUME NEW j \in Entries(P) \cup {k} PROVE WindowInv(j)'
  <2>1. CASE j = k
    BY <1>4, <1>9, <2>1, InvariantsOfKey
  <2>2. CASE j # k
    <3>1. j \in Keys /\ WindowOf(admits[j], P[j].start, P[j].count)
      BY <1>1, <2>2 DEF Entries
    <3> QED
      BY <1>4, <1>5, <2>2, <3>1, InvariantsOfKey
  <2> QED
    BY <2>1, <2>2
<1>11. ASSUME NEW j \in Keys, j \notin Entries(P) \cup {k} PROVE QuietInv(j)'
  <2>1. QuietOf(admits[j], clock) /\ j # k
    BY <1>1, <1>11
  <2> QED
    BY <1>0, <1>5, <2>1, InvariantsOfKey
<1>12. SpansBounded'
  <2> SUFFICES ASSUME NEW j \in Keys, NEW t \in Times
               PROVE  AdmittedBetween(j, t, t + Window - 1)' <= 2 * MaxAttempts - 1
    BY DEF SpansBounded
  <2>0. t \in Int /\ t + Window - 1 \in Int /\ s \in Int
    BY <1>0, <1>3 DEF Times
  <2>1. /\ AdmittedBetween(j, t, t + Window - 1) <= 2 * MaxAttempts - 1
        /\ AdmittedBetween(j, t, t + Window - 1) = Adm(admits[j], t, t + Window - 1)
        /\ AdmittedBetween(j, t, t + Window - 1)' = Adm(admits'[j], t, t + Window - 1)
    BY AdmittedIsAdm DEF IInv, SpansBounded
  <2>2. CASE j # k
    BY <1>5, <2>1, <2>2
  <2>3. CASE j = k /\ t > s - Window
    <3>1. Adm(admits'[k], t, t + Window - 1) <= 2 * MaxAttempts - 1
      BY <1>3, <1>6, <1>9, <2>3, SpanOfWindow
    <3> QED
      BY <2>1, <2>3, <3>1
  <2>4. CASE j = k /\ ~ (t > s - Window)
    <3> SUFFICES ASSUME NEW e \in Int, e = t + Window - 1
                 PROVE  Adm(admits'[k], t, e) = Adm(admits[k], t, e)
      BY <2>0, <2>1, <2>4
    <3>1. clock \notin t..e
      BY <1>0, <1>3, <2>0, <2>4
    <3>2. Adm(admits'[k], t, e) = Adm(admits[k], t, e) + 0
      BY <1>0, <1>6, <2>0, <3>1, AdmOneMore
    <3>3. Adm(admits[k], t, e) \in Nat
      <4>1. \A x \in Times : x \in t..e => x \in t..e \/ admits[k][x] = 0
        OBVIOUS
      <4> QED
        BY <1>6, <2>0, <4>1, AdmWithin
    <3> QED
      BY <3>2, <3>3
  <2> QED
    BY <2>2, <2>3, <2>4
<1>13. TableInv'
  <2>1. IsFiniteSet(Entries(P) \cup {k}) /\ Cardinality(Entries(P) \cup {k}) <= Capacity
    <3>1. IsFiniteSet(Entries(P) \cup {k})
      BY <1>1, FS_AddElement
    <3>2. CASE k \in Entries(P)
      <4>1. Entries(P) \cup {k} = Entries(P)
        BY <3>2
      <4>2. Cardinality(Entries(P)) <= Capacity
        BY <1>0, <1>1, <1>2
      <4> QED
        BY <3>1, <4>1, <4>2
    <3>3. CASE k \notin Entries(P)
      <4>1. Cardinality(Entries(P) \cup {k}) = Cardinality(Entries(P)) + 1
        BY <1>1, <3>3, FS_AddElement
      <4> QED
        BY <1>0, <1>1, <1>2, <3>1, <4>1
    <3> QED
      BY <3>2, <3>3
  <2>2. IsFiniteSet({j \in Keys : \E t \in Times : admits[j][t] > 0} \cup {k})
    BY FS_AddElement DEF IInv, TableInv
  <2>3. {j \in Keys : \E t \in Times : admits'[j][t] > 0}
          \subseteq {j \in Keys : \E t \in Times : admits[j][t] > 0} \cup {k}
    BY <1>5
  <2>4. IsFiniteSet({j \in Keys : \E t \in Times : admits'[j][t] > 0})
    BY <2>2, <2>3, FS_Subset
  <2> QED
    BY <1>8, <2>1, <2>4 DEF TableInv
<1> QED
  BY <1>7, <1>8, <1>10, <1>11, <1>12, <1>13 DEF IInv

LEMMA IInvInvariant == SpecLimit => []IInv
<1>1. IInv /\ [NextLimit]_limitVars => IInv'
  <2> SUFFICES ASSUME IInv, [NextLimit]_limitVars PROVE IInv'
    OBVIOUS
  <2>1. CASE Pass
    BY <2>1, PassKeeps
  <2>2. CASE \E k \in Keys : Admit(k)
    BY <2>2, AdmitKeeps
  <2>3. CASE \E k \in Keys : Limit(k)
    BY <2>3, LimitKeeps
  <2>4. CASE UNCHANGED limitVars
    BY <2>4 DEF limitVars, IInv, LimitTypeOK, WindowInv, QuietInv, SpansBounded, TableInv,
                Entries, AdmittedBetween
  <2> QED
    BY <2>1, <2>2, <2>3, <2>4 DEF NextLimit
<1> QED
  BY <1>1, InitEstablishes, PTL DEF SpecLimit

(* auth.go:146, totp.go:30: for any limit, window and capacity, fewer than *)
(* twice the limit are admitted for one key in any span of a window's      *)
(* length, and the table never holds more entries than its capacity.       *)
THEOREM AttemptsStayBounded == SpecLimit => []AttemptsBounded
<1>1. IInv => AttemptsBounded
  BY DEF IInv, SpansBounded, TableInv, AttemptsBounded, Times
<1> QED
  BY <1>1, IInvInvariant, PTL

(* Who holds a window now was admitted within the length of a window. *)
LEMMA WindowsAreRecent ==
  ASSUME IInv, NEW j \in Entries(Pruned)
  PROVE  j \in Keys /\ AdmittedBetween(j, clock - Window + 1, clock) > 0
<1> SUFFICES ASSUME NEW P, P = Pruned, j \in Entries(P), NEW f \in Int, f = clock - Window + 1
             PROVE  j \in Keys /\ AdmittedBetween(j, f, clock) > 0
  <2>1. clock - Window + 1 \in Int
    BY DEF IInv, LimitTypeOK, Times
  <2> QED
    BY <2>1
<1>1. /\ P \in [Keys -> [start : Times, count : Nat]]
      /\ \A k \in Keys : P[k].start <= clock
      /\ clock - P[j].start < Window
      /\ WindowOf(admits[j], P[j].start, P[j].count)
  BY PrunedTable
<1>2. j \in Keys /\ clock \in Int /\ P[j].start \in Times /\ P[j].start \in Int /\ P[j].start <= clock
      /\ Window \in Nat
  BY <1>1 DEF Entries, IInv, LimitTypeOK, Times
<1>3. P[j].start \in f..clock
  BY <1>1, <1>2
<1>4. admits[j] \in [Times -> Nat] /\ admits[j][P[j].start] > 0
  BY <1>1, <1>2 DEF IInv, LimitTypeOK, WindowOf
<1>5. Adm(admits[j], f, clock) > 0
  BY <1>2, <1>3, <1>4, AdmPositive
<1> QED
  BY <1>2, <1>5, AdmittedIsAdm

(* auth.go:137: nobody is locked out by attempts of long ago.  A key that  *)
(* was admitted not once within the last window is admitted, unless as     *)
(* many others as the table has entries were admitted meanwhile.           *)
THEOREM QuietKeysAreAdmitted == SpecLimit => []QuietKeysAdmitted
<1>1. IInv => QuietKeysAdmitted
  <2> SUFFICES ASSUME IInv, NEW k \in Keys, NEW P, P = Pruned,
                      NEW f, f = clock - Window + 1,
                      NEW R, R = {j \in Keys : AdmittedBetween(j, f, clock) > 0},
                      k \notin R, Cardinality(R) < Capacity
               PROVE  ~ IsLimited(P, k)
    BY DEF QuietKeysAdmitted
  <2>1. Entries(P) \subseteq R
    BY WindowsAreRecent
  <2>2. R \subseteq {j \in Keys : \E t \in Times : admits[j][t] > 0}
    <3>1. f \in Int /\ clock \in Int
      BY DEF IInv, LimitTypeOK, Times
    <3> SUFFICES ASSUME NEW j \in R PROVE j \in Keys /\ \E t \in Times : admits[j][t] > 0
      OBVIOUS
    <3>2. j \in Keys /\ Adm(admits[j], f, clock) > 0 /\ admits[j] \in [Times -> Nat]
      BY AdmittedIsAdm DEF IInv, LimitTypeOK
    <3> QED
      BY <3>1, <3>2, AdmPositive
  <2>3. IsFiniteSet(R)
    BY <2>2, FS_Subset DEF IInv, TableInv
  <2>4. IsFiniteSet(Entries(P)) /\ Cardinality(Entries(P)) <= Cardinality(R)
    BY <2>1, <2>3, FS_Subset
  <2>5. Cardinality(Entries(P)) \in Nat /\ Cardinality(R) \in Nat /\ Capacity \in Nat
        /\ MaxAttempts \in Nat /\ MaxAttempts > 0
    BY <2>3, <2>4, FS_CardinalityType
  <2>6. ~ (Cardinality(Entries(P)) >= Capacity)
    BY <2>4, <2>5
  <2>7. P[k].count \in Nat
    BY PrunedTable
  <2>8. P[k].count = 0
    BY <2>1, <2>7 DEF Entries
  <2>9. ~ (Counted(P, k).count > MaxAttempts)
    BY <2>5, <2>8 DEF Counted
  <2> QED
    BY <2>6, <2>9 DEF IsLimited
<1> QED
  BY <1>1, IInvInvariant, PTL
=============================================================================
