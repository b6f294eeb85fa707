------------------------------ MODULE FoldLemmas ------------------------------
(***************************************************************************)
(* What the other proofs need of folds over sequences: a fold is the run   *)
(* of its step function, so that it can be reasoned about one element at a *)
(* time.  The inductions are on sets of numbers and of sequences.          *)
(***************************************************************************)
EXTENDS Integers, SequencesExt, WellFoundedInduction, TLAPS

\* Induction over the naturals, for a set.
LEMMA NatSetInduction ==
  ASSUME NEW S, 0 \in S, \A n \in Nat : n \in S => n + 1 \in S PROVE Nat \subseteq S
  <1> DEFINE R == Nat \ S
  <1> SUFFICES ASSUME R # {} PROVE FALSE
    OBVIOUS
  <1>0. R \subseteq Nat
    OBVIOUS
  <1>1. PICK x \in R : \A y \in R : <<y, x>> \notin OpToRel(<, Nat)
    <2> HIDE DEF R
    <2> QED BY <1>0, WFMin, NatLessThanWellFounded
  <1>2. \A y \in R : ~(y < x)
    BY <1>1 DEF OpToRel
  <1>3. x \in Nat /\ x \notin S
    OBVIOUS
  <1>4. x # 0 /\ x - 1 \in Nat /\ x - 1 < x
    BY <1>3
  <1>5. x - 1 \notin S
    BY <1>3, <1>4
  <1>6. x - 1 \in R
    BY <1>4, <1>5
  <1> QED BY <1>2, <1>4, <1>6

\* What lies in a set of positions and above all of it is its last one.
LEMMA MaxIs ==
  ASSUME NEW n \in Nat, NEW s \in SUBSET (1..n), NEW m \in s, \A x \in s : m >= x
  PROVE  Max(s) = m
  <1>1. Max(s) \in s /\ \A x \in s : Max(s) >= x
    BY DEF Max
  <1>2. PICK top : top = Max(s)
    OBVIOUS
  <1>3. top \in s /\ top >= m /\ m >= top
    BY <1>1, <1>2
  <1>4. top \in Int /\ m \in Int
    BY <1>3
  <1>5. top = m
    BY <1>3, <1>4
  <1> QED BY <1>2, <1>5

LEMMA MaxTop == ASSUME NEW n \in Nat, NEW s \in SUBSET (1..n), n \in s PROVE Max(s) = n
  BY MaxIs

Bounded(k) == \A r \in SUBSET (1..k) : r # {} => \E x \in r : \A y \in r : x >= y

LEMMA AllBounded == \A n \in Nat : Bounded(n)
  <1> DEFINE T == {k \in Nat : Bounded(k)}
  <1>1. 0 \in T
    <2>1. 1..0 = {}
      OBVIOUS
    <2> QED BY <2>1 DEF Bounded
  <1>2. ASSUME NEW k \in Nat, k \in T PROVE k + 1 \in T
    <2> SUFFICES ASSUME NEW r \in SUBSET (1..(k + 1)), r # {} PROVE \E x \in r : \A y \in r : x >= y
      BY DEF Bounded
    <2>1. CASE k + 1 \in r
      BY <2>1
    <2>2. CASE k + 1 \notin r
      <3>1. \A x \in r : x \in 1..k
        BY <2>2
      <3> QED BY <1>2, <3>1 DEF Bounded
    <2> QED BY <2>1, <2>2
  <1> HIDE DEF T
  <1>3. Nat \subseteq T
    BY <1>1, <1>2, NatSetInduction
  <1> QED BY <1>3 DEF T

\* A set of positions has a last one.
LEMMA MaxIn == ASSUME NEW n \in Nat, NEW s \in SUBSET (1..n), s # {} PROVE Max(s) \in s
  <1>1. PICK x \in s : \A y \in s : x >= y
    BY AllBounded DEF Bounded
  <1> QED BY <1>1, MaxIs

\* Induction over the sequences of a set, for a set.
LEMMA SeqSetInduction ==
  ASSUME NEW E, NEW S, <<>> \in S, \A p \in Seq(E), e \in E : p \in S => Append(p, e) \in S
  PROVE  Seq(E) \subseteq S
  <1> DEFINE T == {n \in Nat : \A p \in Seq(E) : Len(p) = n => p \in S}
  <1>1. 0 \in T
    <2> SUFFICES ASSUME NEW p \in Seq(E), Len(p) = 0 PROVE p \in S
      OBVIOUS
    <2>1. p = <<>>
      OBVIOUS
    <2> QED BY <2>1
  <1>2. ASSUME NEW n \in Nat, n \in T PROVE n + 1 \in T
    <2> SUFFICES ASSUME NEW p \in Seq(E), Len(p) = n + 1 PROVE p \in S
      OBVIOUS
    <2> DEFINE q == SubSeq(p, 1, n)
    <2>1. q \in Seq(E) /\ Len(q) = n /\ p[n + 1] \in E /\ p = Append(q, p[n + 1])
      OBVIOUS
    <2>2. q \in S
      BY <1>2, <2>1
    <2> HIDE DEF q
    <2> QED BY <2>1, <2>2
  <1>3. Nat \subseteq T
    <2> HIDE DEF T
    <2> QED BY <1>1, <1>2, NatSetInduction
  <1> QED BY <1>3

\* The values that a step function passes through.
Stepwise(c, step, rows, n) == \A i \in 1..n : c[i] = step[<<c[i - 1], rows[i]>>]
Chain(c, V, step, base, rows) ==
  c \in [0..Len(rows) -> V] /\ c[0] = base /\ Stepwise(c, step, rows, Len(rows))

\* A step function, the value it starts from and what it is to run over.
Stepper(V, E, step, base, rows) == step \in [V \X E -> V] /\ base \in V /\ rows \in Seq(E)

\* What a step function makes of a sequence.
Run(V, step, base, rows) == (CHOOSE c : Chain(c, V, step, base, rows))[Len(rows)]

\* There is one such chain, hence its end is the run, and there always is one.
LEMMA ChainUnique ==
  ASSUME NEW step, NEW N \in Nat, NEW rows, NEW c, NEW d,
         c[0] = d[0], Stepwise(c, step, rows, N), Stepwise(d, step, rows, N)
  PROVE  \A i \in 0..N : c[i] = d[i]
  <1> DEFINE T == {n \in Nat : n <= N => c[n] = d[n]}
  <1>1. 0 \in T
    OBVIOUS
  <1>2. ASSUME NEW n \in Nat, n \in T PROVE n + 1 \in T
    <2> SUFFICES ASSUME n + 1 <= N PROVE c[n + 1] = d[n + 1]
      OBVIOUS
    <2>1. n + 1 \in 1..N /\ (n + 1) - 1 = n /\ c[n] = d[n]
      BY <1>2
    <2> QED BY <2>1 DEF Stepwise
  <1>3. Nat \subseteq T
    <2> HIDE DEF T
    <2> QED BY <1>1, <1>2, NatSetInduction
  <1> QED BY <1>3

LEMMA ChainIsRun ==
  ASSUME NEW V, NEW step, NEW base, NEW rows, Len(rows) \in Nat, NEW c, Chain(c, V, step, base, rows)
  PROVE  Run(V, step, base, rows) = c[Len(rows)]
  <1> DEFINE d == CHOOSE x : Chain(x, V, step, base, rows)
  <1>1. Chain(d, V, step, base, rows)
    OBVIOUS
  <1> HIDE DEF d
  <1>2. c[0] = d[0]
    BY <1>1 DEF Chain, Stepwise
  <1>3. Stepwise(c, step, rows, Len(rows)) /\ Stepwise(d, step, rows, Len(rows))
    BY <1>1 DEF Chain, Stepwise
  <1>4. \A i \in 0..Len(rows) : c[i] = d[i]
    BY <1>2, <1>3, ChainUnique
  <1>5. Len(rows) \in 0..Len(rows)
    OBVIOUS
  <1> QED BY <1>4, <1>5 DEF Run, d

LEMMA RunEmpty ==
  ASSUME NEW V, NEW step, NEW base \in V PROVE Run(V, step, base, <<>>) = base
  <1> DEFINE c == [i \in 0..0 |-> base]
  <1>1. Len(<<>>) = 0 /\ 1..0 = {}
    OBVIOUS
  <1>2. Chain(c, V, step, base, <<>>)
    BY <1>1 DEF Chain, Stepwise
  <1>3. c[Len(<<>>)] = base
    BY <1>1
  <1> HIDE DEF c
  <1> QED BY <1>1, <1>2, <1>3, ChainIsRun

LEMMA ChainExists ==
  ASSUME NEW V, NEW E, NEW step \in [V \X E -> V], NEW base \in V
  PROVE  \A rows \in Seq(E) : \E c : Chain(c, V, step, base, rows)
  <1> DEFINE S == {rows \in Seq(E) : \E c : Chain(c, V, step, base, rows)}
  <1>1. <<>> \in S
    <2> DEFINE c == [i \in 0..0 |-> base]
    <2>1. Len(<<>>) = 0 /\ 1..0 = {}
      OBVIOUS
    <2>2. Chain(c, V, step, base, <<>>)
      BY <2>1 DEF Chain, Stepwise
    <2> HIDE DEF c
    <2> QED BY <2>2
  <1>2. ASSUME NEW p \in Seq(E), NEW e \in E, p \in S PROVE Append(p, e) \in S
    <2>1. PICK c : Chain(c, V, step, base, p)
      BY <1>2
    <2> DEFINE N == Len(p)
               q == Append(p, e)
               d == [i \in 0..(N + 1) |-> IF i = N + 1 THEN step[<<c[N], e>>] ELSE c[i]]
    <2>2. N \in Nat /\ q \in Seq(E) /\ Len(q) = N + 1 /\ q[N + 1] = e /\ \A i \in 1..N : q[i] = p[i]
      OBVIOUS
    <2>3. c \in [0..N -> V] /\ c[0] = base /\ \A i \in 1..N : c[i] = step[<<c[i - 1], p[i]>>]
      BY <2>1 DEF Chain, Stepwise
    <2> HIDE DEF N, q
    <2>4. c[N] \in V /\ step[<<c[N], e>>] \in V
      BY <2>2, <2>3
    <2>5. d \in [0..(N + 1) -> V] /\ d[0] = base
      BY <2>2, <2>3, <2>4
    <2>6. ASSUME NEW i \in 1..(N + 1) PROVE d[i] = step[<<d[i - 1], q[i]>>]
      <3>1. CASE i = N + 1
        <4>1. d[i] = step[<<c[N], e>>] /\ d[i - 1] = c[N]
          BY <2>2, <3>1
        <4> QED BY <2>2, <3>1, <4>1
      <3>2. CASE i # N + 1
        <4>1. i \in 1..N /\ i - 1 \in 0..N
          BY <2>2, <3>2
        <4>2. d[i] = c[i] /\ d[i - 1] = c[i - 1]
          BY <2>2, <3>2, <4>1
        <4> QED BY <2>2, <2>3, <4>1, <4>2
      <3> QED BY <3>1, <3>2
    <2>7. Chain(d, V, step, base, q)
      <3> HIDE DEF d
      <3> QED BY <2>2, <2>5, <2>6 DEF Chain, Stepwise
    <2> HIDE DEF d
    <2>8. \E x : Chain(x, V, step, base, q)
      BY <2>7
    <2> QED BY <2>2, <2>8 DEF q
  <1>3. Seq(E) \subseteq S
    <2> HIDE DEF S
    <2> QED BY <1>1, <1>2, SeqSetInduction
  <1> QED BY <1>3

\* A run stays in the values of the step, and one more element is one more step.
LEMMA RunType ==
  ASSUME NEW V, NEW E, NEW step, NEW base, NEW rows, Stepper(V, E, step, base, rows)
  PROVE  Run(V, step, base, rows) \in V
  <1> USE DEF Stepper
  <1>1. PICK c : Chain(c, V, step, base, rows)
    BY ChainExists
  <1>2. Len(rows) \in Nat /\ Len(rows) \in 0..Len(rows)
    OBVIOUS
  <1>3. Run(V, step, base, rows) = c[Len(rows)]
    BY <1>1, <1>2, ChainIsRun
  <1> QED BY <1>1, <1>2, <1>3 DEF Chain, Stepwise

LEMMA RunAppend ==
  ASSUME NEW V, NEW E, NEW step, NEW base, NEW rows, NEW e \in E, Stepper(V, E, step, base, rows)
  PROVE  Run(V, step, base, Append(rows, e)) = step[<<Run(V, step, base, rows), e>>]
  <1> USE DEF Stepper
  <1> DEFINE q == Append(rows, e)
             N == Len(rows)
  <1>1. N \in Nat /\ q \in Seq(E) /\ Len(q) = N + 1 /\ q[N + 1] = e /\ \A i \in 1..N : q[i] = rows[i]
    OBVIOUS
  <1>2. PICK c : Chain(c, V, step, base, rows)
    BY ChainExists
  <1>3. PICK d : Chain(d, V, step, base, q)
    BY <1>1, ChainExists
  <1>4. Run(V, step, base, rows) = c[N] /\ Run(V, step, base, q) = d[N + 1]
    <2>1. Run(V, step, base, rows) = c[N]
      BY <1>1, <1>2, ChainIsRun
    <2>2. Run(V, step, base, q) = d[Len(q)]
      <3> HIDE DEF q
      <3> QED BY <1>1, <1>3, ChainIsRun
    <2> QED BY <1>1, <2>1, <2>2
  <1> HIDE DEF q, N
  <1>5. /\ c[0] = d[0]
        /\ Stepwise(c, step, rows, N) /\ Stepwise(d, step, rows, N)
    <2>1. \A i \in 1..N : i \in 1..(N + 1)
      BY <1>1
    <2> QED BY <1>1, <1>2, <1>3, <2>1 DEF Chain, Stepwise, N
  <1>6. \A i \in 0..N : c[i] = d[i]
    <2>1. N \in Nat
      BY <1>1
    <2> QED BY <1>5, <2>1, ChainUnique
  <1>7. d[N + 1] = step[<<d[N], e>>]
    <2>1. N + 1 \in 1..(N + 1) /\ (N + 1) - 1 = N
      BY <1>1
    <2> QED BY <1>1, <1>3, <2>1 DEF Chain, Stepwise
  <1>8. N \in 0..N
    BY <1>1
  <1> QED BY <1>4, <1>6, <1>7, <1>8 DEF q

\* The function by which FoldLeft is defined: the value for a set of positions comes
\* from the value for all but the last of them.
FoldsTo(g, base, step, rows) ==
  \A s \in SUBSET (1..Len(rows)) :
    g[s] = IF s = {} THEN base ELSE step[<<g[s \ {Max(s)}], rows[Max(s)]>>]

\* The function by which a fold over the positions of a sequence is defined exists.
LEMMA FoldExists ==
  ASSUME NEW V, NEW E, NEW step, NEW base, NEW rows, Stepper(V, E, step, base, rows)
  PROVE  \E g \in [SUBSET (1..Len(rows)) -> V] : FoldsTo(g, base, step, rows)
  <1> USE DEF Stepper
  <1> DEFINE N == Len(rows)
             Is(g, n) == \A s \in SUBSET (1..n) :
                           g[s] = IF s = {} THEN base ELSE step[<<g[s \ {Max(s)}], rows[Max(s)]>>]
             Good(n) == n <= N => \E g \in [SUBSET (1..n) -> V] : Is(g, n)
             T == {n \in Nat : Good(n)}
  <1>1. Good(0)
    <2> DEFINE g == [s \in SUBSET (1..0) |-> base]
    <2>1. g \in [SUBSET (1..0) -> V]
      OBVIOUS
    <2>2. 1..0 = {}
      OBVIOUS
    <2>3. Is(g, 0)
      BY <2>2 
    <2> QED BY <2>1, <2>3
  <1>2. ASSUME NEW n \in Nat, Good(n) PROVE Good(n + 1)
    <2> SUFFICES ASSUME n + 1 <= N PROVE \E g \in [SUBSET (1..(n + 1)) -> V] : Is(g, n + 1)
      OBVIOUS
    <2>0. n <= N
      OBVIOUS
    <2>1. PICK g \in [SUBSET (1..n) -> V] : Is(g, n)
      BY <1>2, <2>0, Zenon
    <2> DEFINE h ==
                    [s \in SUBSET (1..(n + 1)) |->
                       IF n + 1 \in s THEN step[<<g[s \ {n + 1}], rows[n + 1]>>] ELSE g[s]]
    <2>2. \A s \in SUBSET (1..(n + 1)) : s \ {n + 1} \in SUBSET (1..n)
      OBVIOUS
    <2>3. \A s \in SUBSET (1..n) : n + 1 \notin s /\ s \in SUBSET (1..(n + 1)) /\ h[s] = g[s]
      OBVIOUS
    <2>4. h \in [SUBSET (1..(n + 1)) -> V]
      <3>1. n + 1 \in 1..N
        OBVIOUS
      <3>2. \A s \in SUBSET (1..(n + 1)) : n + 1 \notin s => s \in SUBSET (1..n)
        OBVIOUS
      <3> QED BY <2>2, <3>1, <3>2
    <2>5. ASSUME NEW s \in SUBSET (1..(n + 1))
          PROVE  h[s] = IF s = {} THEN base ELSE step[<<h[s \ {Max(s)}], rows[Max(s)]>>]
      <3>1. CASE n + 1 \in s
        <4>1. Max(s) = n + 1
          BY <3>1, MaxTop
        <4> QED BY <2>2, <2>3, <3>1, <4>1
      <3>2. CASE n + 1 \notin s
        <4>1. s \in SUBSET (1..n)
          BY <3>2
        <4>2. s \ {Max(s)} \in SUBSET (1..n)
          BY <4>1
        <4>3. h[s] = g[s] /\ h[s \ {Max(s)}] = g[s \ {Max(s)}]
          BY <2>3, <4>1, <4>2
        <4>4. g[s] = IF s = {} THEN base ELSE step[<<g[s \ {Max(s)}], rows[Max(s)]>>]
          BY <2>1, <4>1 
        <4> QED BY <4>3, <4>4
      <3> QED BY <3>1, <3>2
    <2> HIDE DEF h
    <2>6. Is(h, n + 1)
      BY <2>5 
    <2> QED BY <2>4, <2>6
  <1>3. Good(N)
    <2> HIDE DEF Good
    <2>1. 0 \in T /\ \A n \in Nat : n \in T => n + 1 \in T
      BY <1>1, <1>2
    <2> HIDE DEF T
    <2>2. N \in T
      BY <2>1, NatSetInduction
    <2> QED BY <2>2 DEF T
  <1>4. N <= N
    OBVIOUS
  <1> QED BY <1>3, <1>4, Zenon DEF FoldsTo

\* The first positions as a set: what a fold takes off it is the last of them.
LEMMA Prefix ==
  ASSUME NEW N \in Nat
  PROVE  /\ 1..0 = {} /\ {} \in SUBSET (1..N)
         /\ \A i \in 1..N : /\ 1..i \in SUBSET (1..N) /\ 1..i # {}
                            /\ Max(1..i) = i /\ (1..i) \ {i} = 1..(i - 1)
         /\ \A s \in SUBSET (1..N) : s # {} => Max(s) \in 1..N /\ s \ {Max(s)} \in SUBSET (1..N)
  <1>1. ASSUME NEW i \in 1..N PROVE Max(1..i) = i
    <2>1. 1..i \in SUBSET (1..i) /\ i \in 1..i /\ i \in Nat
      OBVIOUS
    <2> QED BY <2>1, MaxTop
  <1>2. ASSUME NEW s \in SUBSET (1..N), s # {} PROVE Max(s) \in 1..N
    <2>1. Max(s) \in s
      BY <1>2, MaxIn
    <2> QED BY <2>1
  <1>3. 1..0 = {} /\ {} \in SUBSET (1..N)
    OBVIOUS
  <1>4. ASSUME NEW i \in 1..N PROVE 1..i \in SUBSET (1..N) /\ 1..i # {} /\ (1..i) \ {i} = 1..(i - 1)
    <2>1. i \in 1..i
      OBVIOUS
    <2>2. 1..i \in SUBSET (1..N)
      OBVIOUS
    <2>3. \A x : x \in (1..i) \ {i} <=> x \in 1..(i - 1)
      OBVIOUS
    <2> QED BY <2>1, <2>2, <2>3
  <1>5. \A s \in SUBSET (1..N) : s \ {Max(s)} \in SUBSET (1..N)
    OBVIOUS
  <1> QED BY <1>1, <1>2, <1>3, <1>4, <1>5

\* The values of such a function for the first positions.
Unfolds(h, V, step, base, rows) ==
  /\ h[{}] = base
  /\ \A i \in 1..Len(rows) : h[1..(i - 1)] \in V => h[1..i] = step[<<h[1..(i - 1)], rows[i]>>]

\* A fold over a sequence is the run of its step.
LEMMA FoldIsRun ==
  ASSUME NEW V, NEW E, NEW step, NEW base, NEW rows, Stepper(V, E, step, base, rows), NEW h,
         Unfolds(h, V, step, base, rows)
  PROVE  h[1..Len(rows)] = Run(V, step, base, rows)
  <1> USE DEF Stepper
  <1> DEFINE N == Len(rows)
             T == {n \in Nat : n <= N => h[1..n] \in V}
             c == [i \in 0..N |-> h[1..i]]
  <1>0. N \in Nat /\ \A i \in 1..N : rows[i] \in E
    OBVIOUS
  <1> HIDE DEF N
  <1>1. 0 \in T
    <2>1. 1..0 = {}
      OBVIOUS
    <2> QED BY <2>1 DEF Unfolds
  <1>2. ASSUME NEW n \in Nat, n \in T PROVE n + 1 \in T
    <2> SUFFICES ASSUME n + 1 <= N PROVE h[1..(n + 1)] \in V
      OBVIOUS
    <2>1. h[1..n] \in V /\ n + 1 \in 1..N /\ (n + 1) - 1 = n
      BY <1>0, <1>2
    <2>2. h[1..(n + 1)] = step[<<h[1..n], rows[n + 1]>>]
      BY <2>1 DEF N, Unfolds
    <2> QED BY <1>0, <2>1, <2>2
  <1>3. Nat \subseteq T
    <2> HIDE DEF T
    <2> QED BY <1>1, <1>2, NatSetInduction
  <1>4. \A n \in 0..N : h[1..n] \in V
    BY <1>0, <1>3
  <1>5. c \in [0..N -> V]
    BY <1>4
  <1>6. c[0] = base /\ c[N] = h[1..N]
    <2>1. 1..0 = {} /\ 0 \in 0..N /\ N \in 0..N
      BY <1>0
    <2> QED BY <2>1 DEF Unfolds
  <1>7. ASSUME NEW i \in 1..N PROVE c[i] = step[<<c[i - 1], rows[i]>>]
    <2>1. i - 1 \in 0..N /\ i \in 0..N
      BY <1>0
    <2> QED BY <1>4, <2>1 DEF N, Unfolds
  <1>8. Chain(c, V, step, base, rows)
    <2> HIDE DEF c
    <2> QED BY <1>5, <1>6, <1>7 DEF Chain, Stepwise, N
  <1> HIDE DEF c
  <1> QED BY <1>0, <1>6, <1>8, ChainIsRun DEF N

-----------------------------------------------------------------------------
(* Sequences. *)
LEMMA SameSeq ==
  ASSUME NEW S, NEW s \in Seq(S), NEW t \in Seq(S), Len(s) = Len(t), \A i \in 1..Len(s) : s[i] = t[i]
  PROVE  s = t
  OBVIOUS

LEMMA Pair ==
  ASSUME NEW S, NEW x \in S, NEW y \in S
  PROVE  Append(<<x>>, y) = <<x, y>> /\ <<x>> \o <<y>> = <<x, y>>
  <1> DEFINE a == Append(<<x>>, y)
             c == <<x>> \o <<y>>
             b == <<x, y>>
  <1>1. <<x>> \in Seq(S) /\ Len(<<x>>) = 1 /\ <<y>> \in Seq(S) /\ Len(<<y>>) = 1
    OBVIOUS
  <1>2. b \in Seq(S) /\ Len(b) = 2
    OBVIOUS
  <1>3. a \in Seq(S) /\ Len(a) = 2 /\ c \in Seq(S) /\ Len(c) = 2
    BY <1>1
  <1>4. \A i \in 1..2 : a[i] = b[i]
    OBVIOUS
  <1>5. \A i \in 1..2 : c[i] = b[i]
    <2>1. c[1] = x /\ c[2] = y
      BY <1>1
    <2> QED BY <2>1
  <1> HIDE DEF a, b, c
  <1>6. a = b /\ c = b
    BY <1>2, <1>3, <1>4, <1>5, SameSeq
  <1> QED BY <1>6 DEF a, b, c

LEMMA Regroup ==
  ASSUME NEW S, NEW a \in Seq(S), NEW b \in Seq(S), NEW c \in Seq(S)
  PROVE  (a \o b) \o c = a \o (b \o c)
  <1> DEFINE p == (a \o b) \o c
             q == a \o (b \o c)
  <1>1. a \o b \in Seq(S) /\ b \o c \in Seq(S) /\ Len(a \o b) = Len(a) + Len(b) /\ Len(b \o c) = Len(b) + Len(c)
    OBVIOUS
  <1>2. p \in Seq(S) /\ q \in Seq(S) /\ Len(p) = Len(a) + Len(b) + Len(c) /\ Len(q) = Len(p)
        /\ Len(a) \in Nat /\ Len(b) \in Nat /\ Len(c) \in Nat
    BY <1>1
  <1>3. ASSUME NEW i \in 1..Len(p) PROVE p[i] = q[i]
    <2>1. CASE i <= Len(a)
      BY <1>1, <1>2, <2>1
    <2>2. CASE i > Len(a) /\ i <= Len(a) + Len(b)
      BY <1>1, <1>2, <2>2
    <2>3. CASE i > Len(a) + Len(b)
      BY <1>1, <1>2, <2>3
    <2> QED BY <1>2, <2>1, <2>2, <2>3
  <1> HIDE DEF p, q
  <1>4. p = q
    BY <1>2, <1>3, SameSeq
  <1> QED BY <1>4 DEF p, q

LEMMA Joined ==
  ASSUME NEW S, NEW a \in Seq(S), NEW b \in Seq(S), NEW M, NEW N, M = Len(a), N = Len(b)
  PROVE  /\ a \o b \in Seq(S) /\ Len(a \o b) = M + N /\ DOMAIN (a \o b) = 1..(M + N)
         /\ \A i \in 1..M : (a \o b)[i] = a[i]
         /\ \A i \in (M + 1)..(M + N) : (a \o b)[i] = b[i - M]
  OBVIOUS
==============================================================================
