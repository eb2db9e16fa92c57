---------------------------- MODULE LiveFeedProofs ----------------------------
(***************************************************************************)
(* Proofs about LiveFeed.  For the banner: as long as the page has missed  *)
(* nothing, no message about the monitor's state that is still to be       *)
(* written has become untrue, and the last one on its way to the page, the *)
(* answer under way or, with neither, the banner is true.  For the feed:   *)
(* the sensor's events are the sample's calls whatever strace makes of     *)
(* them, by induction over the calls, and what is shown, what is on its    *)
(* way and what is still to be sent of the page's run are its script, in   *)
(* order, whatever other runs put between.  Last, the types, with what     *)
(* bounds the links and the feed.                                          *)
(***************************************************************************)
EXTENDS LiveFeed, SequenceTheorems, WellFoundedInduction, TLAPS

-------------------------------------------------------------------------------
(* Flattening: induction over what a sequence of sequences holds *)

\* Induction over sets of numbers.
LEMMA Induction ==
  ASSUME NEW P \in SUBSET Nat, 0 \in P, \A n \in P : n + 1 \in P
  PROVE  P = Nat
<1> DEFINE R == OpToRel(<, Nat)
           T == Nat \ P
<1>1. IsWellFoundedOn(R, Nat)
  BY NatLessThanWellFounded
<1>2. ASSUME NEW n \in Nat, n # 0 PROVE n - 1 \in Nat /\ <<n - 1, n>> \in R
  BY <1>2 DEF OpToRel
<1> HIDE DEF R
<1> SUFFICES ASSUME T # {} PROVE FALSE
  OBVIOUS
<1>3. PICK n \in T : \A m \in T : ~(<<m, n>> \in R)
  BY <1>1, WFMin
<1>4. n \in Nat /\ n # 0 /\ n - 1 \in Nat /\ n - 1 \in P
  BY <1>2, <1>3
<1>5. QED
  BY <1>4

\* f is what FlattenSeq computes for the first n sequences.
Flattens(f, ss, n) ==
  f = [i \in 1..n |-> IF i = 1 THEN ss[i] ELSE f[i - 1] \o ss[i]]

\* Such an f, one sequence further.
LEMMA FlattensAt ==
  ASSUME NEW ss, NEW f, NEW n \in Nat, Flattens(f, ss, n), NEW i \in 1..n
  PROVE  f[i] = IF i = 1 THEN ss[i] ELSE f[i - 1] \o ss[i]
BY DEF Flattens

\* There is one, of any length, by induction.
LEMMA FlattenExists ==
  ASSUME NEW T, NEW ss \in Seq(Seq(T))
  PROVE  \A n \in Nat : n <= Len(ss) =>
           \E f \in [1..n -> Seq(T)] : Flattens(f, ss, n)
<1> DEFINE P == {n \in Nat : n <= Len(ss) => \E f \in [1..n -> Seq(T)] : Flattens(f, ss, n)}
<1>1. 0 \in P
  <2>1. [i \in 1..0 |-> << >>] \in [1..0 -> Seq(T)]
    OBVIOUS
  <2>2. Flattens([i \in 1..0 |-> << >>], ss, 0)
    BY DEF Flattens
  <2>3. QED
    BY <2>1, <2>2
<1>2. ASSUME NEW n \in P PROVE n + 1 \in P
  <2> SUFFICES ASSUME n + 1 <= Len(ss) PROVE \E f \in [1..(n + 1) -> Seq(T)] : Flattens(f, ss, n + 1)
    OBVIOUS
  <2>1. PICK g \in [1..n -> Seq(T)] : Flattens(g, ss, n)
    BY <1>2
  <2> DEFINE e == IF n = 0 THEN ss[n + 1] ELSE g[n] \o ss[n + 1]
             f == [i \in 1..(n + 1) |-> IF i = n + 1 THEN e ELSE g[i]]
  <2>2. ss[n + 1] \in Seq(T)
    OBVIOUS
  <2>3. e \in Seq(T)
    <3>1. CASE n = 0
      BY <2>2, <3>1
    <3>2. CASE n # 0
      <4>1. g[n] \in Seq(T)
        BY <3>2
      <4>2. QED
        BY <2>2, <3>2, <4>1, ConcatProperties
    <3>3. QED
      BY <3>1, <3>2
  <2>4. f \in [1..(n + 1) -> Seq(T)]
    BY <2>3
  <2>5. ASSUME NEW i \in 1..(n + 1) PROVE f[i] = IF i = 1 THEN ss[i] ELSE f[i - 1] \o ss[i]
    <3>1. CASE i = n + 1
      BY <3>1
    <3>2. CASE i # n + 1
      <4>1. i \in 1..n /\ f[i] = g[i] /\ (i # 1 => f[i - 1] = g[i - 1])
        BY <3>2
      <4>2. g[i] = IF i = 1 THEN ss[i] ELSE g[i - 1] \o ss[i]
        BY <2>1, <4>1 DEF Flattens
      <4>3. QED
        BY <4>1, <4>2
    <3>3. QED
      BY <3>1, <3>2
  <2> HIDE DEF f
  <2>6. QED
    BY <2>4, <2>5 DEF Flattens
<1> HIDE DEF P
<1>3. P = Nat
  <2>1. P \in SUBSET Nat
    BY DEF P
  <2>2. QED
    BY <1>1, <1>2, <2>1, Induction
<1>4. QED
  BY <1>3 DEF P

\* There is only one: two of them agree as far as both go.
LEMMA FlattenUnique ==
  ASSUME NEW ss, NEW n \in Nat, NEW m \in Nat, NEW f, NEW g, Flattens(f, ss, n), Flattens(g, ss, m)
  PROVE  \A i \in 1..n : i <= m => f[i] = g[i]
<1> DEFINE P == {i \in Nat : i + 1 <= n /\ i + 1 <= m => f[i + 1] = g[i + 1]}
<1>1. /\ \A i \in 1..n : f[i] = IF i = 1 THEN ss[i] ELSE f[i - 1] \o ss[i]
      /\ \A i \in 1..m : g[i] = IF i = 1 THEN ss[i] ELSE g[i - 1] \o ss[i]
  BY DEF Flattens
<1>2. 0 \in P
  BY <1>1
<1>3. ASSUME NEW i \in P PROVE i + 1 \in P
  <2> SUFFICES ASSUME i + 2 <= n, i + 2 <= m PROVE f[i + 2] = g[i + 2]
    OBVIOUS
  <2>1. f[i + 1] = g[i + 1]
    OBVIOUS
  <2>2. i + 2 \in 1..n /\ i + 2 \in 1..m /\ i + 2 # 1 /\ (i + 2) - 1 = i + 1
    OBVIOUS
  <2>3. QED
    BY <1>1, <2>1, <2>2
<1> HIDE DEF P
<1>4. P = Nat
  <2>1. P \in SUBSET Nat
    BY DEF P
  <2>2. QED
    BY <1>2, <1>3, <2>1, Induction
<1>5. ASSUME NEW i \in 1..n, i <= m PROVE f[i] = g[i]
  <2>1. i - 1 \in P /\ (i - 1) + 1 = i
    BY <1>4
  <2>2. QED
    BY <1>5, <2>1 DEF P
<1>6. QED
  BY <1>5

\* FlattenSeq chooses such an f and takes its last value.
LEMMA FlattenIs ==
  ASSUME NEW T, NEW ss \in Seq(Seq(T)), NEW f, Len(ss) # 0, Flattens(f, ss, Len(ss))
  PROVE  FlattenSeq(ss) = f[Len(ss)]
<1> DEFINE n == Len(ss)
           g == CHOOSE h : h = [i \in 1..n |-> IF i = 1 THEN ss[i] ELSE h[i - 1] \o ss[i]]
<1>1. FlattenSeq(ss) = g[n]
  BY DEF FlattenSeq
<1>2. Flattens(g, ss, n)
  BY DEF Flattens
<1> HIDE DEF g
<1>3. n \in Nat \ {0}
  OBVIOUS
<1>4. QED
  BY <1>1, <1>2, <1>3, FlattenUnique

\* The sequences one after the other: none, and one more.
LEMMA FlattenAppend ==
  ASSUME NEW T
  PROVE  /\ FlattenSeq(<< >>) = << >>
         /\ \A ss \in Seq(Seq(T)) : FlattenSeq(ss) \in Seq(T)
         /\ \A ss \in Seq(Seq(T)), s \in Seq(T) : FlattenSeq(Append(ss, s)) = FlattenSeq(ss) \o s
<1>1. FlattenSeq(<< >>) = << >>
  BY DEF FlattenSeq
<1>2. ASSUME NEW ss \in Seq(Seq(T)), Len(ss) # 0 
      PROVE \E f \in [1..Len(ss) -> Seq(T)] : Flattens(f, ss, Len(ss)) /\ FlattenSeq(ss) = f[Len(ss)]
  <2>1. PICK f \in [1..Len(ss) -> Seq(T)] : Flattens(f, ss, Len(ss))
    BY FlattenExists
  <2>2. FlattenSeq(ss) = f[Len(ss)]
    BY <1>2, <2>1, FlattenIs
  <2>3. QED
    BY <2>1, <2>2
<1>3. ASSUME NEW ss \in Seq(Seq(T)) PROVE FlattenSeq(ss) \in Seq(T)
  <2>1. CASE ss = << >>
    <3>1. FlattenSeq(ss) = << >>
      BY <1>1, <2>1
    <3>2. QED
      BY <3>1
  <2>2. CASE Len(ss) # 0
    <3>1. Len(ss) \in 1..Len(ss)
      BY <2>2
    <3>2. QED
      BY <1>2, <2>2, <3>1
  <2>3. QED
    BY <2>1, <2>2
<1>4. ASSUME NEW ss \in Seq(Seq(T)), NEW s \in Seq(T) PROVE FlattenSeq(Append(ss, s)) = FlattenSeq(ss) \o s
  <2> DEFINE tt == Append(ss, s)
             n == Len(ss)
  <2>1. /\ tt \in Seq(Seq(T)) /\ Len(tt) = n + 1 /\ tt[n + 1] = s /\ \A i \in 1..n : tt[i] = ss[i]
        /\ n \in Nat
    BY AppendProperties
  <2> HIDE DEF tt
  <2>2. PICK f \in [1..(n + 1) -> Seq(T)] : Flattens(f, tt, n + 1) /\ FlattenSeq(tt) = f[n + 1]
    BY <1>2, <2>1
  <2>3. f[n + 1] = IF n + 1 = 1 THEN tt[n + 1] ELSE f[n] \o tt[n + 1]
    <3>1. n + 1 \in Nat /\ n + 1 \in 1..(n + 1) /\ (n + 1) - 1 = n
      BY <2>1
    <3>2. QED
      BY <2>2, <3>1, FlattensAt
  <2>4. ASSUME n = 0 PROVE FlattenSeq(tt) = FlattenSeq(ss) \o s
    <3>1. ss = << >>
      BY <2>4
    <3>2. QED
      BY <1>1, <2>1, <2>2, <2>3, <2>4, <3>1
  <2>5. ASSUME n # 0 PROVE FlattenSeq(tt) = FlattenSeq(ss) \o s
    <3>1. PICK g \in [1..n -> Seq(T)] : Flattens(g, ss, n) /\ FlattenSeq(ss) = g[n]
      BY <1>2, <2>5
    <3> DEFINE h == [i \in 1..n |-> f[i]]
    <3>2. Flattens(h, ss, n)
      <4>1. ASSUME NEW i \in 1..n PROVE h[i] = IF i = 1 THEN ss[i] ELSE h[i - 1] \o ss[i]
        <5>1. f[i] = IF i = 1 THEN tt[i] ELSE f[i - 1] \o tt[i]
          <6>1. n + 1 \in Nat /\ i \in 1..(n + 1)
            BY <2>1
          <6>2. QED
            BY <2>2, <6>1, FlattensAt
        <5>2. i # 1 => i - 1 \in 1..n
          BY <2>1
        <5>3. QED
          BY <2>1, <5>1, <5>2
      <4>2. QED
        BY <4>1 DEF Flattens
    <3> HIDE DEF h
    <3>3. n \in 1..n
      BY <2>1, <2>5
    <3>4. h[n] = g[n]
      BY <2>1, <3>1, <3>2, <3>3, FlattenUnique
    <3>5. h[n] = f[n]
      BY <3>3 DEF h
    <3>6. QED
      BY <2>1, <2>2, <2>3, <2>5, <3>1, <3>4, <3>5
  <2>6. QED
    BY <2>4, <2>5 DEF tt
<1>5. QED
  BY <1>1, <1>3, <1>4

\* Induction over sequences.
LEMMA SeqInduction ==
  ASSUME NEW T, NEW P \in SUBSET Seq(T), << >> \in P, \A s \in P : \A e \in T : Append(s, e) \in P
  PROVE  P = Seq(T)
<1> DEFINE N == {n \in Nat : \A s \in Seq(T) : Len(s) = n => s \in P}
<1>1. 0 \in N
  OBVIOUS
<1>2. ASSUME NEW n \in N PROVE n + 1 \in N
  <2> SUFFICES ASSUME NEW s \in Seq(T), Len(s) = n + 1 PROVE s \in P
    OBVIOUS
  <2>1. s # << >>
    OBVIOUS
  <2>2. PICK f \in Seq(T), e \in T : s = Append(f, e)
    BY <2>1, SequenceEmptyOrAppend
  <2>3. Len(Append(f, e)) = Len(f) + 1 /\ Len(f) \in Nat
    OBVIOUS
  <2>4. f \in P
    BY <2>2, <2>3
  <2>5. QED
    BY <2>2, <2>4
<1> HIDE DEF N
<1>3. N = Nat
  <2>1. N \in SUBSET Nat
    BY DEF N
  <2>2. QED
    BY <1>1, <1>2, <2>1, Induction
<1>4. ASSUME NEW s \in Seq(T) PROVE s \in P
  <2>1. Len(s) \in N
    BY <1>3
  <2>2. QED
    BY <2>1 DEF N
<1>5. QED
  BY <1>4

\* Flattening goes through concatenation.
LEMMA FlattenConcat ==
  ASSUME NEW T, NEW ss \in Seq(Seq(T)), NEW tt \in Seq(Seq(T))
  PROVE  FlattenSeq(ss \o tt) = FlattenSeq(ss) \o FlattenSeq(tt)
<1>1. ASSUME NEW x \in Seq(T), NEW y \in Seq(T), NEW z \in Seq(T)
      PROVE  (x \o y) \o z = x \o (y \o z)
  BY ConcatAssociative
<1> DEFINE P == {uu \in Seq(Seq(T)) : FlattenSeq(ss \o uu) = FlattenSeq(ss) \o FlattenSeq(uu)}
<1>2. << >> \in P
  <2>1. ss \o << >> = ss /\ FlattenSeq(ss) \in Seq(T)
    BY FlattenAppend
  <2>2. QED
    BY <2>1, FlattenAppend
<1>3. ASSUME NEW uu \in P, NEW s \in Seq(T) PROVE Append(uu, s) \in P
  <2>1. ss \o Append(uu, s) = Append(ss \o uu, s)
    OBVIOUS
  <2>2. FlattenSeq(Append(uu, s)) = FlattenSeq(uu) \o s
    BY FlattenAppend
  <2>3. FlattenSeq(Append(ss \o uu, s)) = FlattenSeq(ss \o uu) \o s
    <3>1. ss \o uu \in Seq(Seq(T))
      OBVIOUS
    <3>2. QED
      BY <3>1, FlattenAppend
  <2>4. FlattenSeq(ss) \in Seq(T) /\ FlattenSeq(uu) \in Seq(T)
    BY FlattenAppend
  <2>5. (FlattenSeq(ss) \o FlattenSeq(uu)) \o s = FlattenSeq(ss) \o (FlattenSeq(uu) \o s)
    BY <1>1, <2>4, Zenon
  <2>6. Append(uu, s) \in Seq(Seq(T))
    OBVIOUS
  <2>7. QED
    BY <2>1, <2>2, <2>3, <2>5, <2>6
<1> HIDE DEF P
<1>4. P = Seq(Seq(T))
  <2>1. P \in SUBSET Seq(Seq(T))
    BY DEF P
  <2>2. QED
    BY <1>2, <1>3, <2>1, SeqInduction
<1>5. QED
  BY <1>4 DEF P

-------------------------------------------------------------------------------
(* The sensor *)

\* The trace of a sequence of calls, read by the parser.
Parsed(log) == [i \in DOMAIN log |-> ParseLine(log[i])]

\* It goes through concatenation.
LEMMA ParsedConcat ==
  ASSUME NEW T, NEW E, \A l \in T : ParseLine(l) \in Seq(E), NEW s \in Seq(T), NEW t \in Seq(T)
  PROVE  /\ Parsed(s) \in Seq(Seq(E)) /\ Parsed(t) \in Seq(Seq(E))
         /\ Parsed(s \o t) = Parsed(s) \o Parsed(t)
<1>1. \A u \in Seq(T) : Parsed(u) \in Seq(Seq(E)) /\ Len(Parsed(u)) = Len(u) /\ \A i \in 1..Len(u) : Parsed(u)[i] = ParseLine(u[i])
  <2> SUFFICES ASSUME NEW u \in Seq(T)
               PROVE  Parsed(u) \in Seq(Seq(E)) /\ Len(Parsed(u)) = Len(u)
                      /\ \A i \in 1..Len(u) : Parsed(u)[i] = ParseLine(u[i])
    OBVIOUS
  <2>1. Len(u) \in Nat /\ DOMAIN u = 1..Len(u) /\ \A i \in 1..Len(u) : ParseLine(u[i]) \in Seq(E)
    OBVIOUS
  <2>2. Parsed(u) = [i \in 1..Len(u) |-> ParseLine(u[i])]
    BY <2>1 DEF Parsed
  <2>3. QED
    BY <2>1, <2>2
<1> DEFINE st == s \o t
           a == Parsed(s)
           b == Parsed(t)
           c == Parsed(st)
           d == a \o b
           m == Len(s)
           n == Len(t)
<1>2. /\ m \in Nat /\ n \in Nat /\ st \in Seq(T) /\ Len(st) = m + n
      /\ \A i \in 1..(m + n) : st[i] = IF i <= m THEN s[i] ELSE t[i - m]
  BY ConcatProperties
<1> HIDE DEF st
<1>3. /\ a \in Seq(Seq(E)) /\ Len(a) = m /\ \A i \in 1..m : a[i] = ParseLine(s[i])
      /\ b \in Seq(Seq(E)) /\ Len(b) = n /\ \A i \in 1..n : b[i] = ParseLine(t[i])
      /\ c \in Seq(Seq(E)) /\ Len(c) = m + n /\ \A i \in 1..(m + n) : c[i] = ParseLine(st[i])
  BY <1>1, <1>2
<1> HIDE DEF a, b, c, m, n
<1>4. /\ d \in Seq(Seq(E)) /\ Len(d) = m + n
      /\ \A i \in 1..(m + n) : d[i] = IF i <= m THEN a[i] ELSE b[i - m]
  BY <1>2, <1>3, ConcatProperties
<1> HIDE DEF d
<1>5. ASSUME NEW i \in 1..(m + n) PROVE c[i] = d[i]
  <2>1. CASE i <= m
    <3>1. i \in 1..m /\ c[i] = ParseLine(s[i]) /\ d[i] = a[i]
      BY <1>2, <1>3, <1>4, <2>1
    <3>2. QED
      BY <1>3, <3>1
  <2>2. CASE ~(i <= m)
    <3>1. i - m \in 1..n /\ c[i] = ParseLine(t[i - m]) /\ d[i] = b[i - m]
      BY <1>2, <1>3, <1>4, <2>2
    <3>2. QED
      BY <1>3, <3>1
  <2>3. QED
    BY <2>1, <2>2
<1>6. c = d
  BY <1>2, <1>3, <1>4, <1>5, SeqEqual
<1>7. QED
  BY <1>3, <1>6 DEF a, b, c, d, st

\* Parsing goes through concatenation, line by line.
LEMMA ParseConcat ==
  ASSUME NEW T, NEW E, \A l \in T : ParseLine(l) \in Seq(E)
  PROVE  /\ ParseTraceLog(<< >>) = << >>
         /\ \A l \in T : ParseTraceLog(<< l >>) = ParseLine(l)
         /\ \A s \in Seq(T) : ParseTraceLog(s) \in Seq(E)
         /\ \A s, t \in Seq(T) : ParseTraceLog(s \o t) = ParseTraceLog(s) \o ParseTraceLog(t)
<1>1. \A log : ParseTraceLog(log) = FlattenSeq(Parsed(log))
  BY DEF ParseTraceLog, Parsed
<1>2. ParseTraceLog(<< >>) = << >>
  <2>1. Parsed(<< >>) = << >>
    BY DEF Parsed
  <2>2. QED
    BY <1>1, <2>1, FlattenAppend
<1>3. ASSUME NEW l \in T PROVE ParseTraceLog(<< l >>) = ParseLine(l)
  <2>1. Parsed(<< l >>) = Append(<< >>, ParseLine(l))
    BY DEF Parsed
  <2>2. << >> \in Seq(Seq(E)) /\ ParseLine(l) \in Seq(E)
    OBVIOUS
  <2>3. FlattenSeq(Append(<< >>, ParseLine(l))) = FlattenSeq(<< >>) \o ParseLine(l)
    BY <2>2, FlattenAppend
  <2>4. QED
    BY <1>1, <2>1, <2>2, <2>3, FlattenAppend, ConcatEmptySeq
<1>4. ASSUME NEW s \in Seq(T), NEW t \in Seq(T)
      PROVE  /\ ParseTraceLog(s) \in Seq(E)
             /\ ParseTraceLog(s \o t) = ParseTraceLog(s) \o ParseTraceLog(t)
  <2>1. Parsed(s) \in Seq(Seq(E)) /\ Parsed(t) \in Seq(Seq(E)) /\ Parsed(s \o t) = Parsed(s) \o Parsed(t)
    BY ParsedConcat
  <2>2. FlattenSeq(Parsed(s)) \in Seq(E)
    BY <2>1, FlattenAppend
  <2>3. FlattenSeq(Parsed(s) \o Parsed(t)) = FlattenSeq(Parsed(s)) \o FlattenSeq(Parsed(t))
    BY <2>1, FlattenConcat
  <2>4. QED
    BY <1>1, <2>1, <2>2, <2>3
<1>5. QED
  BY <1>2, <1>3, <1>4

\* Only the shell's own execve is dropped.
LEMMA RootIsStripped ==
  ASSUME NEW T, NEW root \in T, NEW body \in Seq(T), root.call.sys = "execve", root.part = "whole"
  PROVE  StripRootExecve(<< root >> \o body) = body
<1> DEFINE log == << root >> \o body
           I == {i \in 1..Len(log) : log[i].call.sys = "execve" /\ log[i].part # "resumed"}
<1>1. log \in Seq(T) /\ Len(log) = Len(body) + 1 /\ log[1] = root /\ Len(body) \in Nat
      /\ \A i \in 1..Len(body) : log[i + 1] = body[i]
  OBVIOUS
<1> HIDE DEF log
<1>2. 1 \in I
  BY <1>1
<1>3. StripRootExecve(log) = RemoveAt(log, CHOOSE x \in I : \A y \in I : x <= y)
  BY <1>2 DEF StripRootExecve, RemoveFirstMatch, SelectInSeq, Min
<1>4. (CHOOSE x \in I : \A y \in I : x <= y) = 1
  <2>1. \A y \in I : y \in Nat /\ 1 <= y
    OBVIOUS
  <2> HIDE DEF I
  <2>2. QED
    BY <1>2, <2>1
<1> HIDE DEF I
<1>5. RemoveAt(log, 1) = body
  <2> DEFINE rest == SubSeq(log, 2, Len(log))
  <2>1. rest \in Seq(T) /\ Len(rest) = Len(body) /\ \A i \in 1..Len(body) : rest[i] = body[i]
    BY <1>1
  <2>2. RemoveAt(log, 1) = SubSeq(log, 1, 0) \o rest
    BY DEF RemoveAt
  <2> HIDE DEF rest
  <2>3. rest = body
    BY <2>1, SeqEqual
  <2>4. SubSeq(log, 1, 0) = << >>
    BY <1>1
  <2>5. QED
    BY <2>2, <2>3, <2>4
<1>6. QED
  BY <1>3, <1>4, <1>5 DEF log

\* Whatever strace makes of a sample's calls, what the sensor reports is one event
\* for each call that is watched, in order.
LEMMA SensorReportsTheCalls ==
  ASSUME NEW S, NEW calls \in Seq(S), NEW split
  PROVE  /\ ParseTraceLog(StripRootExecve(StraceLog(calls, split))) = Reported(calls)
         /\ \E E : Reported(calls) \in Seq(E)
<1> DEFINE n == Len(calls)
           T == [call : S \cup {RootExecve}, part : {"whole", "unfinished", "resumed"}]
           E == {EventOf(c) : c \in S \cup {RootExecve}}
           root == [call |-> RootExecve, part |-> "whole"]
           start(i) == << [call |-> calls[i], part |-> IF i \in split THEN "unfinished" ELSE "whole"] >>
           rest(i) == IF i \in split THEN << [call |-> calls[i], part |-> "resumed"] >> ELSE << >>
           lines(i) == start(i) \o (IF i > 1 THEN rest(i - 1) ELSE << >>)
           last == IF calls = << >> THEN << >> ELSE rest(n)
           seen(i) == IF calls[i].watched THEN << EventOf(calls[i]) >> ELSE << >>
           trace(m) == [i \in 1..m |-> lines(i)]
           report(m) == [i \in 1..m |-> seen(i)]
<1>1. n \in Nat /\ DOMAIN calls = 1..n /\ \A i \in 1..n : calls[i] \in S
  OBVIOUS
<1>2. \A l \in T : ParseLine(l) \in Seq(E)
  <2> SUFFICES ASSUME NEW l \in T PROVE ParseLine(l) \in Seq(E)
    OBVIOUS
  <2>1. EventOf(l.call) \in E
    OBVIOUS
  <2> HIDE DEF E
  <2>2. << EventOf(l.call) >> \in Seq(E) /\ << >> \in Seq(E)
    BY <2>1
  <2>3. QED
    BY <2>2 DEF ParseLine
<1>3. root \in T /\ root.call.sys = "execve" /\ root.part = "whole"
  BY DEF RootExecve, Execve
<1>4. /\ StraceLog(calls, split) = << root >> \o FlattenSeq(trace(n)) \o last
      /\ Reported(calls) = FlattenSeq(report(n))
  BY <1>1, Zenon DEF StraceLog, Reported
<1>5. /\ ParseTraceLog(<< >>) = << >>
      /\ \A l \in T : ParseTraceLog(<< l >>) = ParseLine(l)
      /\ \A s \in Seq(T) : ParseTraceLog(s) \in Seq(E)
      /\ \A s, t \in Seq(T) : ParseTraceLog(s \o t) = ParseTraceLog(s) \o ParseTraceLog(t)
  BY <1>2, ParseConcat
<1>6. \A i \in 1..n : /\ start(i) \in Seq(T) /\ rest(i) \in Seq(T) /\ seen(i) \in Seq(E)
                      /\ ParseTraceLog(start(i)) = seen(i) /\ ParseTraceLog(rest(i)) = << >>
  <2> SUFFICES ASSUME NEW i \in 1..n
               PROVE  /\ start(i) \in Seq(T) /\ rest(i) \in Seq(T) /\ seen(i) \in Seq(E)
                      /\ ParseTraceLog(start(i)) = seen(i) /\ ParseTraceLog(rest(i)) = << >>
    OBVIOUS
  <2> DEFINE l == [call |-> calls[i], part |-> IF i \in split THEN "unfinished" ELSE "whole"]
             r == [call |-> calls[i], part |-> "resumed"]
  <2>1. l \in T /\ r \in T
    BY <1>1
  <2>2. ParseLine(l) = seen(i) /\ ParseLine(r) = << >>
    BY DEF ParseLine
  <2>3. seen(i) \in Seq(E)
    BY <1>1
  <2> HIDE DEF T, E, l, r, seen
  <2>4. ParseTraceLog(<< l >>) = seen(i) /\ ParseTraceLog(<< r >>) = << >>
    BY <1>5, <2>1, <2>2
  <2>5. << l >> \in Seq(T) /\ << r >> \in Seq(T) /\ << >> \in Seq(T)
    BY <2>1
  <2>6. start(i) = << l >> /\ rest(i) = IF i \in split THEN << r >> ELSE << >>
    BY DEF l, r
  <2>7. QED
    BY <1>5, <2>3, <2>4, <2>5, <2>6
<1> HIDE DEF T, E, root, start, rest, seen
<1>7. \A i \in 1..n : lines(i) \in Seq(T) /\ ParseTraceLog(lines(i)) = seen(i)
  <2> SUFFICES ASSUME NEW i \in 1..n PROVE lines(i) \in Seq(T) /\ ParseTraceLog(lines(i)) = seen(i)
    OBVIOUS
  <2> DEFINE back == IF i > 1 THEN rest(i - 1) ELSE << >>
  <2>1. back \in Seq(T) /\ ParseTraceLog(back) = << >>
    <3>1. CASE i > 1
      <4>1. i - 1 \in 1..n
        BY <1>1, <3>1
      <4>2. QED
        BY <1>6, <3>1, <4>1
    <3>2. CASE ~(i > 1)
      BY <1>5, <3>2
    <3>3. QED
      BY <3>1, <3>2
  <2> HIDE DEF back
  <2>2. start(i) \in Seq(T) /\ ParseTraceLog(start(i)) = seen(i) /\ seen(i) \in Seq(E)
    BY <1>6
  <2>3. lines(i) = start(i) \o back
    BY DEF back
  <2> HIDE DEF lines
  <2>4. start(i) \o back \in Seq(T) /\ seen(i) \o << >> = seen(i)
    BY <2>1, <2>2, ConcatEmptySeq
  <2>5. ParseTraceLog(start(i) \o back) = seen(i) \o << >>
    BY <1>5, <2>1, <2>2
  <2>6. QED
    BY <2>3, <2>4, <2>5
<1> HIDE DEF lines
<1> DEFINE P == {m \in Nat : m <= n => /\ trace(m) \in Seq(Seq(T)) /\ report(m) \in Seq(Seq(E))
                                       /\ ParseTraceLog(FlattenSeq(trace(m))) = FlattenSeq(report(m))}
<1>8. 0 \in P
  <2>1. trace(0) = << >> /\ report(0) = << >>
    OBVIOUS
  <2>2. QED
    BY <1>5, <2>1, FlattenAppend
<1>9. ASSUME NEW m \in P PROVE m + 1 \in P
  <2> SUFFICES ASSUME m + 1 <= n
               PROVE  /\ trace(m + 1) \in Seq(Seq(T)) /\ report(m + 1) \in Seq(Seq(E))
                      /\ ParseTraceLog(FlattenSeq(trace(m + 1))) = FlattenSeq(report(m + 1))
    OBVIOUS
  <2>1. /\ m \in Nat /\ trace(m) \in Seq(Seq(T)) /\ report(m) \in Seq(Seq(E))
        /\ ParseTraceLog(FlattenSeq(trace(m))) = FlattenSeq(report(m))
    BY <1>1
  <2>2. /\ m + 1 \in 1..n /\ lines(m + 1) \in Seq(T) /\ seen(m + 1) \in Seq(E)
        /\ ParseTraceLog(lines(m + 1)) = seen(m + 1)
    BY <1>1, <1>6, <1>7, <2>1
  <2>3. /\ trace(m + 1) = Append(trace(m), lines(m + 1))
        /\ report(m + 1) = Append(report(m), seen(m + 1))
    BY <2>1
  <2> HIDE DEF trace, report
  <2>4. /\ trace(m + 1) \in Seq(Seq(T)) /\ report(m + 1) \in Seq(Seq(E))
        /\ FlattenSeq(trace(m + 1)) = FlattenSeq(trace(m)) \o lines(m + 1)
        /\ FlattenSeq(report(m + 1)) = FlattenSeq(report(m)) \o seen(m + 1)
        /\ FlattenSeq(trace(m)) \in Seq(T)
    <3> DEFINE a == trace(m)
               b == report(m)
               x == lines(m + 1)
               y == seen(m + 1)
    <3>1. a \in Seq(Seq(T)) /\ b \in Seq(Seq(E)) /\ x \in Seq(T) /\ y \in Seq(E)
      BY <2>1, <2>2
    <3>2. trace(m + 1) = Append(a, x) /\ report(m + 1) = Append(b, y)
      BY <2>3
    <3> HIDE DEF a, b, x, y
    <3>3. Append(a, x) \in Seq(Seq(T)) /\ Append(b, y) \in Seq(Seq(E))
      BY <3>1
    <3>4. /\ FlattenSeq(Append(a, x)) = FlattenSeq(a) \o x /\ FlattenSeq(a) \in Seq(T)
          /\ FlattenSeq(Append(b, y)) = FlattenSeq(b) \o y
      BY <3>1, FlattenAppend
    <3>5. QED
      BY <3>2, <3>3, <3>4 DEF a, b, x, y
  <2>5. QED
    BY <1>5, <2>1, <2>2, <2>4
<1> HIDE DEF P
<1>10. P = Nat
  <2>1. P \in SUBSET Nat
    BY DEF P
  <2>2. QED
    BY <1>8, <1>9, <2>1, Induction
<1>11. /\ trace(n) \in Seq(Seq(T)) /\ report(n) \in Seq(Seq(E))
       /\ ParseTraceLog(FlattenSeq(trace(n))) = FlattenSeq(report(n))
  <2>1. n \in P /\ n <= n
    BY <1>1, <1>10
  <2> HIDE DEF trace, report, n
  <2>2. QED
    BY <2>1 DEF P
<1> HIDE DEF trace, report
<1>12. last \in Seq(T) /\ ParseTraceLog(last) = << >>
  <2>1. calls # << >> => n \in 1..n
    BY <1>1
  <2>2. QED
    BY <1>5, <1>6, <2>1
<1> HIDE DEF last
<1> DEFINE body == FlattenSeq(trace(n)) \o last
<1>13. FlattenSeq(trace(n)) \in Seq(T)
  BY <1>11, FlattenAppend
<1>14. body \in Seq(T) /\ << root >> \in Seq(T)
  BY <1>3, <1>12, <1>13
<1>15. StraceLog(calls, split) = << root >> \o body
  BY <1>4, <1>12, <1>13, <1>14, ConcatAssociative
<1>16. StripRootExecve(<< root >> \o body) = body
  BY <1>3, <1>14, RootIsStripped
<1>17. ParseTraceLog(body) = FlattenSeq(report(n))
  <2>1. ParseTraceLog(FlattenSeq(trace(n))) \in Seq(E)
    BY <1>5, <1>13
  <2>2. ParseTraceLog(body) = ParseTraceLog(FlattenSeq(trace(n))) \o << >>
    BY <1>5, <1>12, <1>13
  <2>3. QED
    BY <1>11, <2>1, <2>2, ConcatEmptySeq
<1>18. FlattenSeq(report(n)) \in Seq(E)
  BY <1>11, FlattenAppend
<1>19. QED
  BY <1>4, <1>15, <1>16, <1>17, <1>18

-------------------------------------------------------------------------------
(* Queues of messages *)

\* A sequence, of whatever messages.
Queue(q) == q \in Seq({q[i] : i \in DOMAIN q})

\* A message more at the end.
LEMMA Pushed ==
  ASSUME NEW q, Queue(q), NEW m
  PROVE  /\ Queue(Append(q, m)) /\ Len(q) \in Nat /\ Len(Append(q, m)) = Len(q) + 1
         /\ \A i \in 1..Len(q) : Append(q, m)[i] = q[i]
         /\ Append(q, m)[Len(q) + 1] = m
<1> DEFINE S == {q[i] : i \in DOMAIN q} \cup {m}
<1>1. q \in Seq(S) /\ m \in S
  BY DEF Queue
<1>2. /\ Len(q) \in Nat /\ Append(q, m) \in Seq(S) /\ Len(Append(q, m)) = Len(q) + 1
      /\ \A i \in 1..Len(q) : Append(q, m)[i] = q[i]
      /\ Append(q, m)[Len(q) + 1] = m
  BY <1>1
<1> DEFINE p == Append(q, m)
<1> HIDE DEF p, S
<1>3. p \in Seq(S) => p \in Seq({p[i] : i \in DOMAIN p})
  OBVIOUS
<1>4. QED
  BY <1>2, <1>3 DEF Queue, p

\* The first message is taken.
LEMMA Popped ==
  ASSUME NEW q, Queue(q), q # << >>
  PROVE  /\ Queue(Tail(q)) /\ Len(q) \in Nat \ {0} /\ Len(Tail(q)) = Len(q) - 1 /\ Head(q) = q[1]
         /\ \A i \in 1..Len(Tail(q)) : Tail(q)[i] = q[i + 1]
<1> DEFINE S == {q[i] : i \in DOMAIN q}
           p == Tail(q)
<1>1. q \in Seq(S)
  BY DEF Queue
<1> HIDE DEF S
<1>2. /\ Len(q) \in Nat \ {0} /\ p \in Seq(S) /\ Len(p) = Len(q) - 1 /\ Head(q) = q[1]
      /\ \A i \in 1..Len(p) : p[i] = q[i + 1]
  BY <1>1
<1> HIDE DEF p
<1>3. p \in Seq(S) => p \in Seq({p[i] : i \in DOMAIN p})
  OBVIOUS
<1>4. QED
  BY <1>2, <1>3 DEF Queue, p

-------------------------------------------------------------------------------
(* The invariant *)

Quiet(q) == \A i \in 1..Len(q) : ~IsState(q[i])

\* A run has nothing to say of the monitor's state, nor of other runs.
SpeaksFor(q, r) ==
  Queue(q) /\ Quiet(q) /\ \A i \in 1..Len(q) : q[i].type = "event" => q[i].run = r

\* What the senders have to say; who is registered, and what a link holds.
HubInv ==
  /\ DOMAIN outbox = Sender /\ DOMAIN pipe = Conn /\ DOMAIN link = Conn /\ DOMAIN handler = Conn
  /\ \A r \in Run : SpeaksFor(outbox[r], r)
  /\ outbox[Tick] \in {<< >>, << [type |-> "isolated"] >>}
  /\ outbox[Admin] \in {<< >>, << [type |-> "reconnected"] >>}
  /\ \A c \in Conn : Queue(pipe[c])
  /\ \A c \in Conn : link[c] # "up" => pipe[c] = << >>
  /\ \A c \in Conn : handler[c] # "none" => link[c] \in {"up", "cut"}
  /\ \A c \in Conn : handler[c] = "leaving" => link[c] = "cut"
  /\ \A c \in clients : c \in Conn /\ handler[c] # "none"
  /\ todo \subseteq clients
  /\ mu = Nobody => todo = {}
  /\ \A s \in Sender : mu = s => outbox[s] # << >>

PageInv ==
  /\ {isolated, banner, gap, user} \subseteq BOOLEAN
  /\ socket \in Conn \cup {NoConn}
  /\ ~user => socket = NoConn /\ ws = "closed"
  /\ DOMAIN run = Run /\ \A r \in Run : run[r] = "idle" => outbox[r] = << >>
  /\ tick # "announce" => outbox[Tick] = << >>
  /\ reconnect # "announce" => outbox[Admin] = << >>

\* A message about the monitor's state that the page's socket, or a broken one,
\* is still to be given.
Coming(s) ==
  /\ outbox[s] # << >>
  /\ mu = s => socket \in todo \/ \E c \in todo : link[c] = "cut"

Pending == Coming(Tick) \/ Coming(Admin)

\* The last of these messages is true.
LastTrue(q) ==
  \A i \in 1..Len(q) :
    IsState(q[i]) /\ (\A j \in 1..Len(q) : j > i => ~IsState(q[j]))
      => (q[i].type = "isolated" <=> isolated)

Silent == ~Pending /\ (socket \in Conn => Quiet(pipe[socket]))

NewsInv ==
  ~gap => /\ outbox[Tick] # << >> => isolated
          /\ outbox[Admin] # << >> => ~isolated

TruthInv ==
  user /\ ~gap => /\ ~Pending /\ socket \in Conn => LastTrue(pipe[socket])
                  /\ Silent /\ status = "isolated" => isolated
                  /\ Silent /\ status = "connected" => ~isolated
                  /\ Silent /\ status = "none" => (banner <=> isolated)

FeedInv == HubInv /\ PageInv /\ NewsInv /\ TruthInv

\* The last of them is still true when the first is taken, and it may be that one.
LEMMA FirstTaken ==
  ASSUME NEW q, Queue(q), q # << >>, LastTrue(q)
  PROVE  /\ LastTrue(Tail(q))
         /\ Quiet(Tail(q)) /\ IsState(Head(q)) => (Head(q).type = "isolated" <=> isolated)
<1> DEFINE p == Tail(q)
           m == Head(q)
<1>1. /\ Len(q) \in Nat \ {0} /\ Len(p) = Len(q) - 1 /\ m = q[1]
      /\ \A i \in 1..Len(p) : p[i] = q[i + 1]
  BY Popped
<1> HIDE DEF p, m
<1>2. ASSUME NEW i \in 1..Len(p), IsState(p[i]), \A j \in 1..Len(p) : j > i => ~IsState(p[j])
      PROVE  p[i].type = "isolated" <=> isolated
  <2>1. i + 1 \in 1..Len(q) /\ q[i + 1] = p[i]
    BY <1>1
  <2>2. ASSUME NEW j \in 1..Len(q), j > i + 1 PROVE ~IsState(q[j])
    <3>1. j - 1 \in 1..Len(p) /\ j - 1 > i /\ (j - 1) + 1 = j
      BY <1>1, <2>2
    <3>2. p[j - 1] = q[j] /\ ~IsState(p[j - 1])
      BY <1>1, <1>2, <3>1
    <3>3. QED
      BY <3>2
  <2>3. QED
    BY <1>2, <2>1, <2>2 DEF LastTrue
<1>3. ASSUME Quiet(p), IsState(m) PROVE m.type = "isolated" <=> isolated
  <2>1. ASSUME NEW j \in 1..Len(q), j > 1 PROVE ~IsState(q[j])
    <3>1. j - 1 \in 1..Len(p) /\ (j - 1) + 1 = j
      BY <1>1, <2>1
    <3>2. p[j - 1] = q[j] /\ ~IsState(p[j - 1])
      BY <1>1, <1>3, <3>1 DEF Quiet
    <3>3. QED
      BY <3>2
  <2>2. 1 \in 1..Len(q)
    BY <1>1
  <2>3. QED
    BY <1>1, <1>3, <2>1, <2>2 DEF LastTrue
<1>4. LastTrue(p)
  BY <1>2 DEF LastTrue
<1>5. QED
  BY <1>3, <1>4 DEF p, m

-------------------------------------------------------------------------------
(* Steps that tell the page nothing *)

\* Nothing the page shows or waits for changes, and nothing pending is dropped.
LEMMA StillTrue ==
  ASSUME TruthInv, user' => user, gap => gap', {gap, gap', user, user'} \subseteq BOOLEAN,
         UNCHANGED << isolated, status, banner >>,
         Pending => Pending', Silent' => Silent,
         ~Pending' /\ socket' \in Conn => \/ socket' = socket /\ pipe'[socket] = pipe[socket]
                                          \/ LastTrue(pipe[socket])'
  PROVE  TruthInv'
<1> SUFFICES ASSUME user', ~gap' PROVE TruthInv'
  BY DEF TruthInv
<1>1. /\ ~Pending /\ socket \in Conn => LastTrue(pipe[socket])
      /\ Silent /\ status = "isolated" => isolated
      /\ Silent /\ status = "connected" => ~isolated
      /\ Silent /\ status = "none" => (banner <=> isolated)
  BY DEF TruthInv
<1>2. ASSUME ~Pending', socket' \in Conn PROVE LastTrue(pipe[socket])'
  <2>1. CASE LastTrue(pipe[socket])'
    BY <2>1
  <2>2. CASE socket' = socket /\ pipe'[socket] = pipe[socket]
    <3>1. LastTrue(pipe[socket]) /\ pipe'[socket'] = pipe[socket]
      BY <1>1, <1>2, <2>2
    <3>2. QED
      BY <3>1 DEF LastTrue, IsState
  <2>3. QED
    BY <1>2, <2>1, <2>2
<1>3. QED
  BY <1>1, <1>2 DEF TruthInv

\* What is pending depends on the two senders and on who is still to be written to.
LEMMA SamePending ==
  ASSUME UNCHANGED << socket, mu, todo, link >>,
         outbox'[Tick] = outbox[Tick], outbox'[Admin] = outbox[Admin]
  PROVE  Pending' = Pending
BY Zenon DEF Pending, Coming

\* What the runs have to say, and the links hold, stays.
LEMMA MessagesStay ==
  ASSUME HubInv
  PROVE  /\ UNCHANGED outbox => \A r \in Run : SpeaksFor(outbox[r], r)'
         /\ UNCHANGED pipe => \A c \in Conn : Queue(pipe[c])'
<1>1. ASSUME UNCHANGED outbox PROVE \A r \in Run : SpeaksFor(outbox[r], r)'
  <2>1. \A r \in Run : SpeaksFor(outbox'[r], r)
    BY <1>1 DEF HubInv
  <2>2. QED
    BY <2>1 DEF SpeaksFor, Quiet, Queue, IsState
<1>2. ASSUME UNCHANGED pipe PROVE \A c \in Conn : Queue(pipe[c])'
  <2>1. \A c \in Conn : Queue(pipe'[c])
    BY <1>2 DEF HubInv
  <2>2. QED
    BY <2>1 DEF Queue
<1>3. QED
  BY <1>1, <1>2

\* A runner has other messages, or the monitor's callers go on.
LEMMA RunnerStep ==
  ASSUME FeedInv, UNCHANGED << hub, wire, isolated, user, socket, status, banner, gap >>,
         \/ UNCHANGED outbox
         \/ \E r \in Run : \E q : /\ outbox[r] = << >> /\ run'[r] # "idle" /\ SpeaksFor(q, r)
                                     /\ outbox' = [outbox EXCEPT ![r] = q],
         DOMAIN run' = Run, \A r \in Run : run'[r] = "idle" => outbox[r] = << >>,
         ~user => ws' = "closed",
         tick' # "announce" => outbox[Tick] = << >>,
         reconnect' # "announce" => outbox[Admin] = << >>
  PROVE  FeedInv'
<1>1. HubInv /\ PageInv /\ NewsInv /\ TruthInv
  BY DEF FeedInv
<1>2. UNCHANGED << clients, mu, todo, handler, link, pipe >>
  BY DEF hub, wire
<1>3. /\ outbox'[Tick] = outbox[Tick] /\ outbox'[Admin] = outbox[Admin] /\ DOMAIN outbox' = Sender
      /\ \A r \in Run : /\ SpeaksFor(outbox'[r], r)
                        /\ outbox'[r] = outbox[r] \/ (outbox[r] = << >> /\ run'[r] # "idle")
  <2>1. CASE UNCHANGED outbox
    BY <1>1, <2>1 DEF HubInv
  <2>2. ASSUME NEW r \in Run, NEW q, outbox[r] = << >>, run'[r] # "idle", SpeaksFor(q, r),
               outbox' = [outbox EXCEPT ![r] = q]
        PROVE  /\ outbox'[Tick] = outbox[Tick] /\ outbox'[Admin] = outbox[Admin] /\ DOMAIN outbox' = Sender
               /\ \A s \in Run : /\ SpeaksFor(outbox'[s], s)
                                 /\ outbox'[s] = outbox[s] \/ (outbox[s] = << >> /\ run'[s] # "idle")
    BY <1>1, <2>2, NamesAssumption DEF HubInv
  <2>3. QED
    BY <2>1, <2>2
<1>4. HubInv'
  <2>1. \A r \in Run : SpeaksFor(outbox[r], r)'
    BY <1>3 DEF SpeaksFor, Quiet, Queue, IsState
  <2>2. \A c \in Conn : Queue(pipe[c])'
    BY <1>1, <1>2, <1>3 DEF Queue, HubInv
  <2>3. \A s \in Sender : mu' = s => outbox'[s] # << >>
    BY <1>1, <1>2, <1>3, NamesAssumption DEF HubInv
  <2>4. QED
    BY <1>1, <1>2, <1>3, <2>1, <2>2, <2>3 DEF HubInv
<1>5. PageInv'
  BY <1>1, <1>3 DEF PageInv
<1>6. NewsInv'
  BY <1>1, <1>3 DEF NewsInv
<1>7. Pending' = Pending
  BY <1>2, <1>3, SamePending
<1>8. Silent' = Silent
  BY <1>2, <1>7, Zenon DEF Silent
<1>9. TruthInv'
  BY <1>1, <1>2, <1>7, <1>8, StillTrue DEF PageInv
<1>10. QED
  BY <1>4, <1>5, <1>6, <1>9 DEF FeedInv

\* A run broadcasts events and a verdict.
LEMMA RunSteps ==
  ASSUME FeedInv, OtherRun \/ Upload \/ \E r \in Run : Score(r) \/ RunFails(r) \/ Answer(r)
  PROVE  FeedInv'
<1>1. PageInv
  BY DEF FeedInv
<1>2. ASSUME NEW r \in Run, NEW source, NEW own, StartRun(r, source, own)
      PROVE  FeedInv'
  <2>1. PICK events : \E n \in 0..Len(events) :
             outbox' = [outbox EXCEPT ![r] = [i \in 1..n |-> Event(events[i], source, r, i)]]
    BY <1>2, ZenonT(60) DEF StartRun
  <2>2. PICK n \in 0..Len(events) :
             outbox' = [outbox EXCEPT ![r] = [i \in 1..n |-> Event(events[i], source, r, i)]]
    BY <2>1
  <2> DEFINE q == [i \in 1..n |-> Event(events[i], source, r, i)]
  <2>3. n \in Nat
    OBVIOUS
  <2>4. SpeaksFor(q, r)
    BY <2>3 DEF SpeaksFor, Queue, Quiet, IsState, Event
  <2>5. UNCHANGED << hub, wire, isolated, tick, reconnect, user, ws, socket, status, banner, gap >>
    BY <1>2 DEF StartRun, monitor, page
  <2>6. /\ run[r] = "idle" /\ run' = [run EXCEPT ![r] = "stream"]
    BY <1>2 DEF StartRun, Unused
  <2> HIDE DEF q
  <2>7. outbox' = [outbox EXCEPT ![r] = q]
    BY <2>2 DEF q
  <2>8. QED
    BY <1>1, <2>4, <2>5, <2>6, <2>7, RunnerStep DEF PageInv
<1>3. CASE OtherRun \/ Upload
  BY <1>2, <1>3 DEF OtherRun, Upload
<1>4. ASSUME NEW r \in Run, Score(r) PROVE FeedInv'
  <2> DEFINE q == << [type |-> "verdict", source |-> src[r]] >>
  <2>1. SpeaksFor(q, r)
    BY DEF SpeaksFor, Queue, Quiet, IsState
  <2>2. /\ UNCHANGED << hub, wire, isolated, tick, reconnect, user, ws, socket, status, banner, gap >>
        /\ outbox' = [outbox EXCEPT ![r] = q] /\ outbox[r] = << >>
        /\ run' = [run EXCEPT ![r] = "verdict"]
    BY <1>4 DEF Score, runner, monitor, page, view
  <2> HIDE DEF q
  <2>3. QED
    BY <1>1, <2>1, <2>2, RunnerStep DEF PageInv
<1>5. ASSUME NEW r \in Run, RunFails(r) \/ Answer(r) PROVE FeedInv'
  <2>1. /\ UNCHANGED << hub, wire, isolated, tick, reconnect, user, ws, socket, status, banner, gap, outbox >>
        /\ outbox[r] = << >> /\ run' = [run EXCEPT ![r] = "idle"]
    BY <1>5 DEF RunFails, Answer, RunEnds, monitor, page, view
  <2>2. QED
    BY <1>1, <2>1, RunnerStep DEF PageInv
<1>6. QED
  BY <1>3, <1>4, <1>5

\* The monitor's callers go on, the page tries to connect.
LEMMA WaitingSteps ==
  ASSUME FeedInv,
         \/ TickEnds \/ ClickReconnect \/ AnswerReconnect \/ ConnectFails \/ Retry
         \/ UNCHANGED vars
  PROVE  FeedInv'
<1>1. PageInv
  BY DEF FeedInv
<1>2. /\ UNCHANGED << hub, wire, isolated, user, socket, status, banner, gap, outbox >>
      /\ ~user => ws' = "closed"
      /\ tick' = tick \/ outbox[Tick] = << >>
      /\ reconnect' = reconnect \/ outbox[Admin] = << >>
      /\ UNCHANGED run
  BY <1>1 DEF TickEnds, ClickReconnect, AnswerReconnect, ConnectFails, Retry, vars,
              server, runner, monitor, page, view, PageInv
<1>3. QED
  BY <1>1, <1>2, RunnerStep DEF PageInv

-------------------------------------------------------------------------------
(* The monitor's steps *)

\* The flag changes and its news is pending, unless the news before it is.
LEMMA FlagStep ==
  ASSUME FeedInv, UNCHANGED << hub, wire, run, user, ws, socket, status, banner >>,
         NEW s \in {Tick, Admin}, outbox[s] = << >>,
         IF s = Tick THEN outbox' = [outbox EXCEPT ![s] = << [type |-> "isolated"] >>] /\ isolated' = TRUE
                     ELSE outbox' = [outbox EXCEPT ![s] = << [type |-> "reconnected"] >>] /\ isolated' = FALSE,
         gap' \in BOOLEAN,
         ~gap' => ~gap /\ outbox[Tick] = << >> /\ outbox[Admin] = << >>,
         mu # s,
         IF s = Tick THEN tick' = "announce" /\ UNCHANGED reconnect
                     ELSE reconnect' = "announce" /\ UNCHANGED tick
  PROVE  FeedInv'
<1>1. HubInv /\ PageInv /\ NewsInv /\ TruthInv
  BY DEF FeedInv
<1>2. UNCHANGED << clients, mu, todo, handler, link, pipe >>
  BY DEF hub, wire
<1>3. /\ DOMAIN outbox' = Sender /\ (\A r \in Run : outbox'[r] = outbox[r])
      /\ \A r \in {Tick, Admin} : r # s => outbox'[r] = outbox[r]
      /\ outbox'[s] = IF s = Tick THEN << [type |-> "isolated"] >> ELSE << [type |-> "reconnected"] >>
  BY <1>1, NamesAssumption DEF HubInv
<1>4. outbox'[s] # << >>
  BY <1>3
<1>5. HubInv'
  <2>1. (\A r \in Run : SpeaksFor(outbox[r], r)') /\ \A c \in Conn : Queue(pipe[c])'
    <3>1. \A r \in Run : SpeaksFor(outbox'[r], r)
      BY <1>1, <1>3 DEF HubInv
    <3>2. \A c \in Conn : Queue(pipe'[c])
      BY <1>1, <1>2 DEF HubInv
    <3>3. QED
      BY <3>1, <3>2 DEF SpeaksFor, Quiet, Queue, IsState
  <2>2. /\ outbox'[Tick] \in {<< >>, << [type |-> "isolated"] >>}
        /\ outbox'[Admin] \in {<< >>, << [type |-> "reconnected"] >>}
    BY <1>1, <1>3, NamesAssumption DEF HubInv
  <2>3. QED
    BY <1>1, <1>2, <1>3, <2>1, <2>2 DEF HubInv
<1>6. PageInv'
  BY <1>1, <1>3, NamesAssumption DEF PageInv
<1>7. NewsInv'
  BY <1>3, NamesAssumption DEF NewsInv
<1>8. Pending'
  BY <1>2, <1>4 DEF Pending, Coming
<1>9. TruthInv'
  BY <1>8 DEF TruthInv, Silent
<1>10. QED
  BY <1>5, <1>6, <1>7, <1>9 DEF FeedInv

\* The monitor isolates the container, an administrator reconnects it.
LEMMA MonitorSteps ==
  ASSUME FeedInv, Isolate \/ ServeReconnect PROVE FeedInv'
<1>1. HubInv /\ PageInv /\ gap \in BOOLEAN
  BY DEF FeedInv, PageInv
<1>2. CASE Isolate
  <2>1. /\ tick = "idle" /\ tick' = "announce" /\ isolated' = TRUE
        /\ outbox' = [outbox EXCEPT ![Tick] = << [type |-> "isolated"] >>]
        /\ gap' = (gap \/ reconnect = "announce")
        /\ UNCHANGED << hub, wire, run, reconnect, user, ws, socket, status, banner >>
    BY <1>2 DEF Isolate, runner, page, view
  <2>2. outbox[Tick] = << >> /\ mu # Tick
    BY <1>1, <2>1, NamesAssumption DEF HubInv, PageInv
  <2>3. gap' \in BOOLEAN /\ (~gap' => ~gap /\ reconnect # "announce")
    BY <1>1, <2>1, Zenon
  <2>4. ~gap' => ~gap /\ outbox[Tick] = << >> /\ outbox[Admin] = << >>
    BY <1>1, <2>2, <2>3 DEF PageInv
  <2>5. QED
    BY <2>1, <2>2, <2>3, <2>4, FlagStep
<1>3. CASE ServeReconnect /\ isolated
  <2>1. /\ reconnect = "asked" /\ reconnect' = "announce" /\ isolated' = FALSE
        /\ outbox' = [outbox EXCEPT ![Admin] = << [type |-> "reconnected"] >>]
        /\ gap' = (gap \/ tick = "announce")
        /\ UNCHANGED << hub, wire, run, tick, user, ws, socket, status, banner >>
    BY <1>3 DEF ServeReconnect, runner, page, view
  <2>2. outbox[Admin] = << >> /\ mu # Admin
    BY <1>1, <2>1, NamesAssumption DEF HubInv, PageInv
  <2>3. gap' \in BOOLEAN /\ (~gap' => ~gap /\ tick # "announce")
    BY <1>1, <2>1, Zenon
  <2>4. ~gap' => ~gap /\ outbox[Tick] = << >> /\ outbox[Admin] = << >>
    BY <1>1, <2>2, <2>3 DEF PageInv
  <2>5. QED
    BY <2>1, <2>2, <2>3, <2>4, NamesAssumption, FlagStep
<1>4. CASE ServeReconnect /\ ~isolated
  <2>1. UNCHANGED << hub, wire, isolated, user, ws, socket, status, banner, gap, outbox, run, tick >>
    BY <1>4 DEF ServeReconnect, runner, page, view
  <2>2. reconnect = "asked"
    BY <1>4 DEF ServeReconnect
  <2>3. QED
    BY <1>1, <2>1, <2>2, RunnerStep DEF PageInv
<1>5. QED
  BY <1>2, <1>3, <1>4

-------------------------------------------------------------------------------
(* What the page asks, and is answered *)

\* Nothing is sent or written.
LEMMA HubStays ==
  ASSUME HubInv, UNCHANGED << hub, wire, outbox >> PROVE HubInv'
<1>1. UNCHANGED << clients, mu, todo, handler, link, pipe >>
  BY DEF hub, wire
<1>2. (\A r \in Run : SpeaksFor(outbox[r], r)') /\ \A c \in Conn : Queue(pipe[c])'
  BY <1>1, MessagesStay
<1>3. QED
  BY <1>1, <1>2 DEF HubInv

\* What the page shows changes and nothing else, and it is as true as before.
LEMMA ShownStep ==
  ASSUME FeedInv, UNCHANGED << hub, wire, outbox, isolated, run, tick, user, ws, socket >>,
         banner' \in BOOLEAN, gap' \in BOOLEAN, gap => gap',
         reconnect' = reconnect \/ (reconnect' # "announce" /\ reconnect # "announce"),
         ~gap' /\ user /\ Silent /\ status' = "isolated" => isolated,
         ~gap' /\ user /\ Silent /\ status' = "connected" => ~isolated,
         ~gap' /\ user /\ Silent /\ status' = "none" => (banner' <=> isolated)
  PROVE  FeedInv'
<1>1. HubInv /\ PageInv /\ NewsInv /\ TruthInv
  BY DEF FeedInv
<1>2. UNCHANGED << clients, mu, todo, handler, link, pipe >>
  BY DEF hub, wire
<1>3. HubInv'
  BY <1>1, HubStays
<1>4. PageInv'
  BY <1>1 DEF PageInv
<1>5. NewsInv'
  BY <1>1 DEF NewsInv
<1>6. Pending' = Pending
  BY <1>2, SamePending
<1>7. Silent' = Silent
  BY <1>2, <1>6, Zenon DEF Silent
<1>8. TruthInv'
  <2> SUFFICES ASSUME user', ~gap' PROVE TruthInv'
    BY DEF TruthInv
  <2>1. ~Pending' /\ socket' \in Conn => LastTrue(pipe[socket])'
    BY <1>1, <1>2, <1>6 DEF TruthInv, LastTrue, IsState
  <2>2. QED
    BY <1>7, <2>1 DEF TruthInv
<1>9. QED
  BY <1>3, <1>4, <1>5, <1>8 DEF FeedInv

\* The answers to the page's own requests.
LEMMA AnswerSteps ==
  ASSUME FeedInv, ReconnectAnswered \/ ServeStatus \/ StatusAnswered \/ StatusFails
  PROVE  FeedInv'
<1>1. PageInv /\ TruthInv /\ {isolated, banner, gap, user} \subseteq BOOLEAN
  BY DEF FeedInv, PageInv
<1>2. UNCHANGED << hub, wire, outbox, isolated, run, tick, user, ws, socket >>
  BY DEF ReconnectAnswered, ServeStatus, StatusAnswered, StatusFails, server, runner, monitor, page
<1>3. ~gap /\ user /\ Silent => /\ status = "isolated" => isolated
                                /\ status = "connected" => ~isolated
                                /\ status = "none" => (banner <=> isolated)
  BY <1>1 DEF TruthInv
<1>4. CASE ReconnectAnswered /\ reconnect = "answer"
  <2>1. /\ reconnect' = "idle" /\ banner' = FALSE /\ UNCHANGED status
        /\ gap' = (gap \/ isolated)
    BY <1>4 DEF ReconnectAnswered
  <2>2. gap' \in BOOLEAN /\ (gap => gap') /\ (~gap' => ~isolated)
    BY <1>1, <2>1, Zenon
  <2>3. banner' \in BOOLEAN /\ (~gap' => (banner' <=> isolated))
    BY <2>1, <2>2
  <2>4. QED
    <3>1. /\ ~gap' /\ user /\ Silent /\ status' = "isolated" => isolated
          /\ ~gap' /\ user /\ Silent /\ status' = "connected" => ~isolated
      BY <1>3, <2>1, <2>2, Zenon
    <3>2. reconnect # "announce" /\ reconnect' # "announce"
      BY <1>4, <2>1
    <3>3. QED
      BY <1>2, <2>2, <2>3, <3>1, <3>2, ShownStep
<1>5. CASE ReconnectAnswered /\ reconnect # "answer"
  <2>1. /\ reconnect' = "idle" /\ reconnect # "announce" /\ UNCHANGED << banner, gap, status >>
    BY <1>5 DEF ReconnectAnswered
  <2>2. /\ ~gap' /\ user /\ Silent /\ status' = "isolated" => isolated
        /\ ~gap' /\ user /\ Silent /\ status' = "connected" => ~isolated
        /\ ~gap' /\ user /\ Silent /\ status' = "none" => (banner' <=> isolated)
    BY <1>3, <2>1, Zenon
  <2>3. reconnect # "announce" /\ reconnect' # "announce"
    BY <2>1
  <2>4. QED
    BY <1>1, <1>2, <2>1, <2>2, <2>3, ShownStep
<1>6. CASE ServeStatus
  <2>1. /\ UNCHANGED << reconnect, banner, gap >>
        /\ status' = IF isolated THEN "isolated" ELSE "connected"
    BY <1>6 DEF ServeStatus, server, runner, monitor
  <2>2. QED
    BY <1>1, <1>2, <2>1, ShownStep
<1>7. CASE StatusAnswered
  <2>1. /\ UNCHANGED << reconnect, gap >> /\ status' = "none" /\ status \in {"isolated", "connected"}
        /\ banner' = (status = "isolated")
    BY <1>7 DEF StatusAnswered, server, runner, monitor
  <2>2. banner' \in BOOLEAN
    BY <2>1, Zenon
  <2>3. ~gap /\ user /\ Silent => (banner' <=> isolated)
    <3>1. CASE status = "isolated"
      BY <1>3, <2>1, <3>1, Zenon
    <3>2. CASE status = "connected"
      <4>1. status # "isolated"
        BY <3>2
      <4>2. QED
        BY <1>3, <2>1, <3>2, <4>1, Zenon
    <3>3. QED
      BY <2>1, <3>1, <3>2
  <2>4. QED
    BY <1>1, <1>2, <2>1, <2>2, <2>3, ShownStep
<1>8. CASE StatusFails
  <2>1. UNCHANGED << reconnect, banner >> /\ gap' = TRUE
    BY <1>8 DEF StatusFails, server, runner, monitor
  <2>2. QED
    BY <1>1, <1>2, <2>1, ShownStep
<1>9. QED
  BY <1>4, <1>5, <1>6, <1>7, <1>8

-------------------------------------------------------------------------------
(* The page's session and socket *)

\* Signing in asks for the state, and news that is no longer true is a gap.
LEMMA LoginStep == ASSUME FeedInv, Login PROVE FeedInv'
<1>1. HubInv /\ PageInv
  BY DEF FeedInv
<1>2. /\ UNCHANGED << hub, wire, outbox, isolated, run, tick, reconnect, banner, socket >>
      /\ user' = TRUE /\ status' = "asked" /\ socket = NoConn /\ gap' = Outdated
  BY <1>1 DEF Login, server, runner, monitor, PageInv
<1>3. gap' \in BOOLEAN
  BY <1>2, Zenon DEF Outdated
<1>4. ASSUME ~gap' PROVE (outbox[Tick] # << >> => isolated) /\ (outbox[Admin] # << >> => ~isolated)
  <2>1. \A s \in Sender : \A i \in DOMAIN outbox[s] :
           IsState(outbox[s][i]) => (isolated = (outbox[s][i].type = "isolated"))
    BY <1>2, <1>4, Zenon DEF Outdated
  <2>2. ASSUME outbox[Tick] # << >> PROVE isolated
    <3>1. outbox[Tick] = << [type |-> "isolated"] >>
      BY <1>1, <2>2 DEF HubInv
    <3>2. 1 \in DOMAIN outbox[Tick] /\ outbox[Tick][1].type = "isolated" /\ Tick \in Sender
      BY <3>1, NamesAssumption
    <3>3. IsState(outbox[Tick][1])
      BY <3>2 DEF IsState
    <3>4. isolated = (outbox[Tick][1].type = "isolated")
      BY <2>1, <3>2, <3>3, Zenon
    <3>5. QED
      BY <3>2, <3>4, Zenon
  <2>3. ASSUME outbox[Admin] # << >> PROVE ~isolated
    <3>1. outbox[Admin] = << [type |-> "reconnected"] >>
      BY <1>1, <2>3 DEF HubInv
    <3>2. 1 \in DOMAIN outbox[Admin] /\ outbox[Admin][1].type = "reconnected" /\ Admin \in Sender
      BY <3>1, NamesAssumption
    <3>3. IsState(outbox[Admin][1]) /\ outbox[Admin][1].type # "isolated"
      BY <3>2 DEF IsState
    <3>4. isolated = (outbox[Admin][1].type = "isolated")
      BY <2>1, <3>2, <3>3, Zenon
    <3>5. QED
      BY <3>3, <3>4, Zenon
  <2>4. QED
    BY <2>2, <2>3
<1>5. HubInv'
  BY <1>1, <1>2, HubStays
<1>6. PageInv'
  BY <1>1, <1>2, <1>3 DEF PageInv
<1>7. NewsInv'
  BY <1>2, <1>4 DEF NewsInv
<1>8. TruthInv'
  BY <1>2, NamesAssumption DEF TruthInv
<1>9. QED
  BY <1>5, <1>6, <1>7, <1>8 DEF FeedInv

\* A link is cut: what was on it is lost.
LEMMA CutStep ==
  ASSUME HubInv, NEW c \in Conn, link[c] = "up", CutLink(c), UNCHANGED << hub, outbox >>
  PROVE  /\ HubInv' /\ pipe'[c] = << >>
         /\ \A d \in Conn : link[d] = "cut" => link'[d] = "cut"
<1>1. UNCHANGED << clients, mu, todo, handler, outbox >>
  BY DEF hub
<1>2. /\ DOMAIN link' = Conn /\ DOMAIN pipe' = Conn /\ link'[c] = "cut" /\ pipe'[c] = << >>
      /\ \A d \in Conn : d # c => link'[d] = link[d] /\ pipe'[d] = pipe[d]
  BY DEF CutLink, HubInv
<1>3. \A d \in Conn : Queue(pipe[d])'
  <2>1. Queue(pipe[c])'
    BY <1>2 DEF Queue
  <2>2. ASSUME NEW d \in Conn, d # c PROVE Queue(pipe[d])'
    BY <1>2, <2>2 DEF HubInv, Queue
  <2>3. QED
    BY <2>1, <2>2
<1>4. (\A r \in Run : SpeaksFor(outbox[r], r)')
  BY <1>1, MessagesStay
<1>5. HubInv'
  BY <1>1, <1>2, <1>3, <1>4 DEF HubInv
<1>6. QED
  BY <1>2, <1>5

\* The user signs out: the page lets its connection go.
LEMMA LogoutStep == ASSUME FeedInv, Logout PROVE FeedInv'
<1>1. HubInv /\ PageInv /\ NewsInv
  BY DEF FeedInv
<1>2. /\ UNCHANGED << hub, outbox, isolated, run, tick, reconnect, banner, gap >>
      /\ user' = FALSE /\ socket' = NoConn /\ ws' = "closed"
  BY DEF Logout, monitor, view
<1>3. HubInv'
  <2>1. CASE socket \in Conn /\ link[socket] = "up"
    BY <1>1, <1>2, <2>1, CutStep DEF Logout
  <2>2. CASE ~(socket \in Conn /\ link[socket] = "up")
    BY <1>1, <1>2, <2>2, HubStays DEF Logout
  <2>3. QED
    BY <2>1, <2>2
<1>4. PageInv' /\ NewsInv' /\ TruthInv'
  BY <1>1, <1>2 DEF PageInv, NewsInv, TruthInv
<1>5. QED
  BY <1>3, <1>4 DEF FeedInv

\* The network breaks under the page's socket.
LEMMA BreakStep == ASSUME FeedInv, LinkBreaks PROVE FeedInv'
<1>1. HubInv /\ PageInv /\ NewsInv /\ TruthInv
  BY DEF FeedInv
<1>2. /\ UNCHANGED << hub, outbox, isolated, run, tick, reconnect, banner, status, user, ws, socket >>
      /\ socket \in Conn /\ link[socket] = "up" /\ CutLink(socket)
      /\ gap' = (gap \/ \E i \in DOMAIN pipe[socket] : IsState(pipe[socket][i]))
  BY DEF LinkBreaks, runner, monitor, page, view
<1>3. /\ HubInv' /\ pipe'[socket] = << >>
      /\ \A d \in Conn : link[d] = "cut" => link'[d] = "cut"
  BY <1>1, <1>2, CutStep
<1>4. /\ gap' \in BOOLEAN /\ (gap => gap')
      /\ ~gap' => \A i \in DOMAIN pipe[socket] : ~IsState(pipe[socket][i])
  BY <1>1, <1>2, Zenon DEF PageInv
<1>5. ~gap' => Quiet(pipe[socket])
  <2>1. DOMAIN pipe[socket] = 1..Len(pipe[socket])
    BY <1>1, <1>2 DEF HubInv, Queue
  <2>2. QED
    BY <1>4, <2>1 DEF Quiet
<1>6. PageInv'
  BY <1>1, <1>2, <1>4 DEF PageInv
<1>7. NewsInv'
  BY <1>1, <1>2, <1>4 DEF NewsInv
<1>8. Pending => Pending'
  BY <1>1, <1>2, <1>3 DEF Pending, Coming, hub, HubInv
<1>9. LastTrue(pipe[socket])'
  BY <1>2, <1>3 DEF LastTrue
<1>10. TruthInv'
  <2>1. CASE gap'
    BY <2>1 DEF TruthInv
  <2>2. CASE ~gap'
    <3>1. Silent' => Silent
      BY <1>5, <1>8, <2>2 DEF Silent
    <3>2. QED
      BY <1>1, <1>2, <1>4, <1>8, <1>9, <3>1, StillTrue DEF PageInv
  <2>3. QED
    BY <2>1, <2>2
<1>11. QED
  BY <1>3, <1>6, <1>7, <1>10 DEF FeedInv

\* The page lets a broken socket go.
LEMMA CloseStep == ASSUME FeedInv, OnClose PROVE FeedInv'
<1>1. HubInv /\ PageInv /\ NewsInv /\ TruthInv
  BY DEF FeedInv
<1>2. /\ UNCHANGED << hub, wire, outbox, isolated, run, tick, reconnect, banner, gap, status, user >>
      /\ link[socket] # "up" /\ socket' = NoConn /\ ws = "live"
  BY DEF OnClose, server, runner, monitor, view
<1>3. UNCHANGED << clients, mu, todo, handler, link, pipe >>
  BY <1>2 DEF hub, wire
<1>4. HubInv' /\ PageInv' /\ NewsInv'
  BY <1>1, <1>2, HubStays DEF PageInv, NewsInv
<1>5. socket \in todo => link[socket] = "cut"
  BY <1>1, <1>2 DEF HubInv
<1>6. Pending => Pending'
  BY <1>2, <1>3, <1>5 DEF Pending, Coming
<1>7. socket \in Conn => Quiet(pipe[socket])
  BY <1>1, <1>2 DEF HubInv, Quiet
<1>8. Silent' => Silent
  BY <1>6, <1>7 DEF Silent
<1>9. TruthInv'
  BY <1>1, <1>2, <1>6, <1>8, NamesAssumption, StillTrue DEF PageInv
<1>10. QED
  BY <1>4, <1>9 DEF FeedInv

\* The page opens a socket, which no broadcast under way writes to.
LEMMA OpenStep == ASSUME FeedInv, Open PROVE FeedInv'
<1>1. HubInv /\ PageInv /\ NewsInv /\ TruthInv
  BY DEF FeedInv
<1>2. PICK c \in Conn : Upgrade(c) /\ socket' = c
  BY DEF Open
<1>3. /\ UNCHANGED << clients, mu, todo, pipe, outbox, isolated, run, tick, reconnect, banner, gap, status, user >>
      /\ socket = NoConn /\ handler[c] = "none" /\ link[c] = "free"
  BY <1>2 DEF Open, Upgrade, Free, runner, monitor, view
<1>4. /\ DOMAIN handler' = Conn /\ DOMAIN link' = Conn /\ handler'[c] = "accepted" /\ link'[c] = "up"
      /\ \A d \in Conn : d # c => handler'[d] = handler[d] /\ link'[d] = link[d]
  BY <1>1, <1>2 DEF Upgrade, HubInv
<1>5. c \notin clients /\ c \notin todo /\ pipe[c] = << >> /\ NoConn \notin todo
  BY <1>1, <1>3, NamesAssumption DEF HubInv
<1>6. HubInv'
  <2>1. (\A r \in Run : SpeaksFor(outbox[r], r)') /\ \A d \in Conn : Queue(pipe[d])'
    BY <1>1, <1>3, MessagesStay
  <2>2. /\ \A d \in Conn : link'[d] # "up" => pipe'[d] = << >>
        /\ \A d \in Conn : handler'[d] # "none" => link'[d] \in {"up", "cut"}
        /\ \A d \in Conn : handler'[d] = "leaving" => link'[d] = "cut"
        /\ \A d \in clients' : d \in Conn /\ handler'[d] # "none"
    BY <1>1, <1>3, <1>4, <1>5 DEF HubInv
  <2>3. QED
    BY <1>1, <1>3, <1>4, <2>1, <2>2 DEF HubInv
<1>7. user
  BY <1>1, <1>3, NamesAssumption DEF Open, PageInv
<1>8. PageInv' /\ NewsInv'
  BY <1>1, <1>2, <1>3, <1>7 DEF PageInv, NewsInv
<1>9. Pending => Pending'
  <2>1. \A d \in todo : link'[d] = link[d]
    BY <1>1, <1>4, <1>5 DEF HubInv
  <2>2. QED
    BY <1>3, <1>5, <2>1 DEF Pending, Coming
<1>10. Silent' => Silent
  BY <1>3, <1>9, NamesAssumption DEF Silent
<1>11. LastTrue(pipe[socket])'
  BY <1>2, <1>3, <1>5 DEF LastTrue
<1>12. TruthInv'
  BY <1>1, <1>3, <1>9, <1>10, <1>11, StillTrue DEF PageInv
<1>13. QED
  BY <1>6, <1>8, <1>12 DEF FeedInv

-------------------------------------------------------------------------------
(* The page's messages *)

\* The oldest message is taken, and shown if it is about the state.
LEMMA ReceiveStep == ASSUME FeedInv, Receive PROVE FeedInv'
<1>1. HubInv /\ PageInv /\ NewsInv /\ TruthInv
  BY DEF FeedInv
<1> DEFINE q == pipe[socket]
           m == Head(q)
<1>2. /\ UNCHANGED << hub, link, outbox, isolated, run, tick, reconnect, status, user, ws, socket >>
      /\ socket \in Conn /\ q # << >> /\ ShowState(m)
      /\ pipe' = [pipe EXCEPT ![socket] = Tail(q)]
  BY DEF Receive, runner, monitor, page
<1>3. UNCHANGED << clients, mu, todo, handler, link >>
  BY <1>2 DEF hub
<1>4. /\ Queue(Tail(q)) /\ Len(q) \in Nat \ {0} /\ Len(Tail(q)) = Len(q) - 1 /\ m = q[1]
      /\ \A i \in 1..Len(Tail(q)) : Tail(q)[i] = q[i + 1]
  BY <1>1, <1>2, Popped DEF HubInv
<1>5. /\ DOMAIN pipe' = Conn /\ pipe'[socket] = Tail(q)
      /\ \A c \in Conn : c # socket => pipe'[c] = pipe[c]
  BY <1>1, <1>2 DEF HubInv
<1>6. HubInv'
  <2>1. (\A r \in Run : SpeaksFor(outbox[r], r)')
    BY <1>1, <1>2, MessagesStay
  <2>2. ASSUME NEW c \in Conn PROVE Queue(pipe[c])'
    <3>1. Queue(pipe'[c])
      BY <1>1, <1>4, <1>5 DEF HubInv
    <3>2. QED
      BY <3>1 DEF Queue
  <2>3. \A c \in Conn : link'[c] # "up" => pipe'[c] = << >>
    BY <1>1, <1>2, <1>5 DEF HubInv
  <2>4. QED
    BY <1>1, <1>2, <1>3, <1>5, <2>1, <2>2, <2>3 DEF HubInv
<1>7. Pending' = Pending
  BY <1>2, <1>3, SamePending
<1> HIDE DEF q, m
<1>8. Quiet(q) => Quiet(pipe[socket])' /\ ~IsState(m)
  BY <1>2, <1>4, <1>5 DEF Quiet, IsState
<1>9. CASE ~IsState(m)
  <2>1. UNCHANGED << banner, gap >>
    BY <1>2, <1>9 DEF ShowState
  <2>2. PageInv' /\ NewsInv'
    BY <1>1, <1>2, <2>1 DEF PageInv, NewsInv
  <2>3. Quiet(pipe[socket])' => Quiet(q)
    <3> SUFFICES ASSUME Quiet(pipe[socket])', NEW i \in 1..Len(q) PROVE ~IsState(q[i])
      BY DEF Quiet
    <3>1. CASE i = 1
      BY <1>4, <1>9, <3>1
    <3>2. CASE i # 1
      <4>1. i - 1 \in 1..Len(Tail(q)) /\ (i - 1) + 1 = i
        BY <1>4, <3>2
      <4>2. Tail(q)[i - 1] = q[i]
        BY <1>4, <4>1
      <4>3. QED
        BY <1>2, <1>5, <4>1, <4>2 DEF Quiet, IsState
    <3>3. QED
      BY <3>1, <3>2
  <2>4. Silent' => Silent
    BY <1>2, <1>7, <2>3 DEF Silent, q
  <2>5. ASSUME user /\ ~gap PROVE TruthInv'
    <3>1. ASSUME ~Pending PROVE LastTrue(pipe[socket])'
      <4>1. LastTrue(Tail(q))
        BY <1>1, <1>2, <2>5, <3>1, FirstTaken DEF TruthInv, HubInv, q
      <4>2. QED
        BY <1>2, <1>5, <4>1 DEF LastTrue, IsState
    <3>2. user' = user /\ gap' = gap /\ {gap, gap', user, user'} \subseteq BOOLEAN
      BY <1>1, <1>2, <2>1 DEF PageInv
    <3>3. Pending => Pending'
      BY <1>7, Zenon
    <3>4. ~Pending' => LastTrue(pipe[socket])'
      BY <1>7, <3>1, Zenon
    <3>5. QED
      BY <1>1, <1>2, <2>1, <2>4, <3>2, <3>3, <3>4, StillTrue
  <2>6. ASSUME ~(user /\ ~gap) PROVE TruthInv'
    <3>1. user' = user /\ gap' = gap
      BY <1>2, <2>1
    <3>2. QED
      BY <2>6, <3>1, Zenon DEF TruthInv
  <2>7. QED
    BY <1>6, <2>2, <2>5, <2>6 DEF FeedInv
<1>10. CASE IsState(m)
  <2>1. banner' = (m.type = "isolated") /\ gap' = (gap \/ Overtaken)
    BY <1>2, <1>10 DEF ShowState
  <2>2. /\ banner' \in BOOLEAN /\ gap' \in BOOLEAN
        /\ ~gap' => ~gap /\ ~Overtaken
    BY <1>1, <2>1, Zenon DEF PageInv, Overtaken
  <2>3. PageInv' /\ NewsInv'
    BY <1>1, <1>2, <2>2 DEF PageInv, NewsInv
  <2>4. TruthInv'
    <3> SUFFICES ASSUME user, ~gap, ~gap', ~Overtaken PROVE TruthInv'
      BY <1>2, <2>2 DEF TruthInv
    <3>1. ASSUME ~Pending
          PROVE  /\ LastTrue(Tail(q))
                 /\ Quiet(Tail(q)) => (m.type = "isolated" <=> isolated)
      BY <1>1, <1>2, <1>10, <3>1, FirstTaken DEF TruthInv, HubInv, q, m
    <3>2. ~Pending' => LastTrue(pipe[socket])'
      BY <1>2, <1>5, <1>7, <3>1 DEF LastTrue, IsState
    <3>3. Silent' => ~Pending /\ Quiet(Tail(q))
      BY <1>2, <1>5, <1>7 DEF Silent, Quiet, IsState
    <3>4. Silent' => (banner' <=> isolated)
      BY <2>1, <3>1, <3>3, Zenon
    <3>5. status \notin {"isolated", "connected"}
      BY DEF Overtaken
    <3>6. QED
      BY <1>2, <3>2, <3>4, <3>5 DEF TruthInv
  <2>5. QED
    BY <1>6, <2>3, <2>4 DEF FeedInv
<1>11. QED
  BY <1>9, <1>10

-------------------------------------------------------------------------------
(* The hub's steps *)

\* A connection is registered, breaks off or is removed.
LEMMA HandlesStep ==
  ASSUME FeedInv, NEW c \in Conn, Handles(c) PROVE FeedInv'
<1>1. HubInv /\ PageInv /\ NewsInv /\ TruthInv
  BY DEF FeedInv
<1>2. /\ UNCHANGED << mu, todo, pipe, outbox, isolated, run, tick, reconnect, banner, gap, status >>
      /\ UNCHANGED << user, ws, socket >>
  BY DEF Handles, Register, ReadFails, Unregister, wire, runner, monitor, page, view
<1>3. DOMAIN handler' = Conn /\ \A d \in Conn : d # c => handler'[d] = handler[d]
  BY <1>1 DEF Handles, Register, ReadFails, Unregister, HubInv
<1>4. /\ DOMAIN link' = Conn /\ \A d \in Conn : d # c => link'[d] = link[d]
      /\ link'[c] = link[c] \/ mu = Nobody
  BY <1>1 DEF Handles, Register, ReadFails, Unregister, HubInv, wire
<1>5. HubInv'
  <2>1. (\A r \in Run : SpeaksFor(outbox[r], r)') /\ \A d \in Conn : Queue(pipe[d])'
    BY <1>1, <1>2, MessagesStay
  <2>2. CASE Register(c)
    <3>1. /\ handler[c] = "accepted" /\ handler'[c] = "reading" /\ clients' = clients \cup {c}
          /\ UNCHANGED link /\ mu = Nobody
      BY <1>1, <2>2 DEF Register, HubInv, wire
    <3>2. QED
      BY <1>1, <1>2, <1>3, <2>1, <3>1 DEF HubInv
  <2>3. CASE ReadFails(c)
    <3>1. /\ handler[c] = "reading" /\ handler'[c] = "leaving" /\ link[c] = "cut"
          /\ UNCHANGED << clients, link >>
      BY <1>1, <2>3 DEF ReadFails, HubInv, wire
    <3>2. QED
      BY <1>1, <1>2, <1>3, <2>1, <3>1 DEF HubInv
  <2>4. CASE Unregister(c)
    <3>1. /\ handler[c] = "leaving" /\ handler'[c] = "none" /\ clients' = clients \ {c}
          /\ link'[c] = "free" /\ mu = Nobody
      BY <1>1, <2>4 DEF Unregister, HubInv
    <3>2. pipe'[c] = << >> /\ todo' = {}
      BY <1>1, <1>2, <3>1 DEF HubInv
    <3>3. QED
      BY <1>1, <1>2, <1>3, <1>4, <2>1, <3>1, <3>2 DEF HubInv
  <2>5. QED
    BY <2>2, <2>3, <2>4 DEF Handles
<1>6. PageInv' /\ NewsInv'
  BY <1>1, <1>2 DEF PageInv, NewsInv
<1>7. Pending => Pending'
  <2>1. CASE mu = Nobody
    BY <1>2, <2>1, NamesAssumption DEF Pending, Coming
  <2>2. CASE mu # Nobody
    <3>1. \A d \in todo : link'[d] = link[d]
      BY <1>1, <1>4, <2>2 DEF HubInv
    <3>2. QED
      BY <1>2, <3>1 DEF Pending, Coming
  <2>3. QED
    BY <2>1, <2>2
<1>8. Silent' => Silent
  BY <1>2, <1>7 DEF Silent, Quiet, IsState
<1>9. TruthInv'
  BY <1>1, <1>2, <1>7, <1>8, StillTrue DEF PageInv
<1>10. QED
  BY <1>5, <1>6, <1>9 DEF FeedInv

\* What a sender has to say.
LEMMA NextMessage ==
  ASSUME HubInv, NEW s \in Sender, outbox[s] # << >>
  PROVE  IF s \in Run THEN ~IsState(Message(s)) /\ (Message(s).type = "event" => Message(s).run = s)
         ELSE /\ IsState(Message(s)) /\ Tail(outbox[s]) = << >>
              /\ Message(s).type = "isolated" <=> s = Tick
<1>1. CASE s \in Run
  <2>1. SpeaksFor(outbox[s], s)
    BY <1>1 DEF HubInv
  <2>2. Message(s) = outbox[s][1] /\ Len(outbox[s]) \in Nat \ {0}
    BY <2>1, Popped DEF Message, SpeaksFor
  <2>3. 1 \in 1..Len(outbox[s])
    BY <2>2
  <2>4. QED
    BY <1>1, <2>1, <2>2, <2>3 DEF SpeaksFor, Quiet
<1>2. CASE s = Tick
  <2>1. outbox[s] = << [type |-> "isolated"] >>
    BY <1>2 DEF HubInv
  <2>2. Message(s) = [type |-> "isolated"] /\ Tail(outbox[s]) = << >>
    BY <2>1 DEF Message
  <2>3. QED
    BY <1>2, <2>2, NamesAssumption DEF IsState
<1>3. CASE s = Admin
  <2>1. outbox[s] = << [type |-> "reconnected"] >>
    BY <1>3 DEF HubInv
  <2>2. Message(s) = [type |-> "reconnected"] /\ Tail(outbox[s]) = << >>
    BY <2>1 DEF Message
  <2>3. QED
    BY <1>3, <2>2, NamesAssumption DEF IsState
<1>4. QED
  BY <1>1, <1>2, <1>3, NamesAssumption

\* A broadcast begins.  News that begins without the page is a gap.
LEMMA BeginStep ==
  ASSUME FeedInv, NEW s \in Sender, Begin(s), UNCHANGED << runner, monitor, page, view >> PROVE FeedInv'
<1>1. HubInv /\ PageInv /\ NewsInv /\ TruthInv
  BY DEF FeedInv
<1>2. /\ UNCHANGED << clients, handler, link, pipe, outbox, isolated, run, tick, reconnect, banner, status >>
      /\ UNCHANGED << user, ws, socket >>
      /\ mu = Nobody /\ outbox[s] # << >> /\ mu' = s /\ todo' = clients
      /\ gap' = (gap \/ (IsState(Message(s)) /\ ~Listening))
  BY DEF Begin, StartBroadcast, wire, runner, monitor, page, view
<1>3. /\ gap' \in BOOLEAN /\ (gap => gap')
      /\ ~gap' => s \in Run \/ socket \in clients
  <2>1. gap' \in BOOLEAN /\ (gap => gap') /\ (~gap' => ~IsState(Message(s)) \/ Listening)
    BY <1>1, <1>2, Zenon DEF PageInv
  <2>2. s \in Run \/ IsState(Message(s))
    BY <1>1, <1>2, NextMessage
  <2>3. QED
    BY <2>1, <2>2 DEF Listening
<1>4. HubInv'
  <2>1. (\A r \in Run : SpeaksFor(outbox[r], r)') /\ \A d \in Conn : Queue(pipe[d])'
    BY <1>1, <1>2, MessagesStay
  <2>2. QED
    BY <1>1, <1>2, <2>1, NamesAssumption DEF HubInv
<1>5. PageInv' /\ NewsInv'
  BY <1>1, <1>2, <1>3 DEF PageInv, NewsInv
<1>6. ASSUME ~gap' PROVE TruthInv'
  <2>1. Pending => Pending'
    BY <1>2, <1>3, <1>6, NamesAssumption DEF Pending, Coming
  <2>2. Silent' => Silent
    BY <1>2, <2>1 DEF Silent, Quiet, IsState
  <2>3. QED
    BY <1>1, <1>2, <1>3, <2>1, <2>2, StillTrue DEF PageInv
<1>7. TruthInv'
  BY <1>6 DEF TruthInv
<1>8. QED
  BY <1>4, <1>5, <1>7 DEF FeedInv

\* The broadcast ends when everybody has been written to.
LEMMA EndStep ==
  ASSUME FeedInv, NEW s \in Sender, EndBroadcast(s), UNCHANGED << runner, monitor, page, view, gap >>
  PROVE  FeedInv'
<1>1. HubInv /\ PageInv /\ NewsInv /\ TruthInv
  BY DEF FeedInv
<1>2. /\ UNCHANGED << clients, handler, link, pipe, isolated, run, tick, reconnect, banner, status >>
      /\ UNCHANGED << user, ws, socket, gap, todo >>
      /\ mu = s /\ todo = {} /\ mu' = Nobody
      /\ outbox' = [outbox EXCEPT ![s] = Tail(outbox[s])]
  BY DEF EndBroadcast, wire, runner, monitor, page, view
<1>3. /\ DOMAIN outbox' = Sender /\ outbox'[s] = Tail(outbox[s])
      /\ \A r \in Sender : r # s => outbox'[r] = outbox[r]
  BY <1>1, <1>2 DEF HubInv
<1>4. \A r \in {Tick, Admin} : outbox'[r] = IF r = s THEN << >> ELSE outbox[r]
  BY <1>1, <1>2, <1>3, NextMessage, NamesAssumption DEF HubInv
<1>5. \A r \in Run : SpeaksFor(outbox'[r], r) /\ (outbox[r] = << >> => outbox'[r] = << >>)
  <2> SUFFICES ASSUME NEW r \in Run
               PROVE  SpeaksFor(outbox'[r], r) /\ (outbox[r] = << >> => outbox'[r] = << >>)
    OBVIOUS
  <2>1. CASE s = r
    <3> DEFINE q == outbox[r]
               p == Tail(q)
    <3>1. SpeaksFor(q, r) /\ q # << >>
      BY <1>1, <1>2, <2>1 DEF HubInv
    <3>2. /\ Queue(p) /\ Len(q) \in Nat /\ Len(p) = Len(q) - 1
          /\ \A i \in 1..Len(p) : p[i] = q[i + 1]
      BY <3>1, Popped DEF SpeaksFor
    <3> HIDE DEF p
    <3>3. ASSUME NEW i \in 1..Len(p) PROVE ~IsState(p[i]) /\ (p[i].type = "event" => p[i].run = r)
      <4>1. i + 1 \in 1..Len(q)
        BY <3>2
      <4>2. QED
        BY <3>1, <3>2, <4>1 DEF SpeaksFor, Quiet
    <3>4. SpeaksFor(p, r)
      BY <3>2, <3>3 DEF SpeaksFor, Quiet
    <3>5. QED
      BY <1>3, <2>1, <3>1, <3>4 DEF p
  <2>2. CASE s # r
    BY <1>1, <1>3, <2>2, NamesAssumption DEF HubInv
  <2>3. QED
    BY <2>1, <2>2
<1>6. HubInv'
  <2>1. \A r \in Run : SpeaksFor(outbox[r], r)'
    BY <1>5 DEF SpeaksFor, Quiet, Queue, IsState
  <2>2. \A d \in Conn : Queue(pipe[d])'
    BY <1>1, <1>2 DEF HubInv, Queue
  <2>3. QED
    BY <1>1, <1>2, <1>3, <1>4, <2>1, <2>2, NamesAssumption DEF HubInv
<1>7. PageInv' /\ NewsInv'
  BY <1>1, <1>2, <1>4, <1>5 DEF PageInv, NewsInv
<1>8. Pending => Pending'
  BY <1>2, <1>4, NamesAssumption DEF Pending, Coming
<1>9. Silent' => Silent
  BY <1>2, <1>8 DEF Silent, Quiet, IsState
<1>10. TruthInv'
  BY <1>1, <1>2, <1>8, <1>9, StillTrue DEF PageInv
<1>11. QED
  BY <1>6, <1>7, <1>10 DEF FeedInv

\* A connection is written to.  News that a broken one was to be given is a gap.
LEMMA WriteStep ==
  ASSUME FeedInv, NEW s \in Sender, NEW c \in Conn, Write(s, c),
         UNCHANGED << runner, monitor, page, view >>
  PROVE  FeedInv'
<1>1. HubInv /\ PageInv /\ NewsInv /\ TruthInv
  BY DEF FeedInv
<1> DEFINE m == Message(s)
           q == pipe[c]
<1>2. /\ UNCHANGED << clients, mu, handler, link, outbox, isolated, run, tick, reconnect, banner, status >>
      /\ UNCHANGED << user, ws, socket >>
      /\ mu = s /\ c \in todo /\ todo' = todo \ {c}
      /\ gap' = (gap \/ (IsState(m) /\ link[c] = "cut"))
  BY DEF Write, WriteMessage, runner, monitor, page, view
<1>3. \/ link[c] = "cut" /\ UNCHANGED pipe
      \/ link[c] = "up" /\ pipe' = [pipe EXCEPT ![c] = Append(q, m)]
  BY DEF Write, WriteMessage
<1>4. /\ gap' \in BOOLEAN /\ (gap => gap')
      /\ ~gap' => ~IsState(m) \/ link[c] # "cut"
  BY <1>1, <1>2, Zenon DEF PageInv
<1>5. outbox[s] # << >> /\ (s \in Run \/ s = Tick \/ s = Admin) /\ Queue(q)
  BY <1>1, <1>2, NamesAssumption DEF HubInv
<1>6. IF s \in Run THEN ~IsState(m) ELSE IsState(m) /\ (m.type = "isolated" <=> s = Tick)
  BY <1>1, <1>5, NextMessage
<1>7. /\ Queue(Append(q, m)) /\ Len(q) \in Nat /\ Len(Append(q, m)) = Len(q) + 1
      /\ \A i \in 1..Len(q) : Append(q, m)[i] = q[i]
      /\ Append(q, m)[Len(q) + 1] = m
  BY <1>5, Pushed
<1> HIDE DEF m, q
<1>8. /\ DOMAIN pipe' = Conn /\ \A d \in Conn : d # c => pipe'[d] = pipe[d]
      /\ pipe'[c] = q \/ (link[c] = "up" /\ pipe'[c] = Append(q, m))
  BY <1>1, <1>3 DEF HubInv, q
<1>9. HubInv'
  <2>1. (\A r \in Run : SpeaksFor(outbox[r], r)')
    BY <1>1, <1>2, MessagesStay
  <2>2. ASSUME NEW d \in Conn PROVE Queue(pipe[d])'
    <3>1. Queue(pipe'[d])
      BY <1>1, <1>5, <1>7, <1>8 DEF HubInv
    <3>2. QED
      BY <3>1 DEF Queue
  <2>3. \A d \in Conn : link'[d] # "up" => pipe'[d] = << >>
    BY <1>1, <1>2, <1>8 DEF HubInv, q
  <2>4. QED
    BY <1>1, <1>2, <1>8, <2>1, <2>2, <2>3, NamesAssumption DEF HubInv
<1>10. PageInv' /\ NewsInv'
  BY <1>1, <1>2, <1>4 DEF PageInv, NewsInv
<1>11. ASSUME ~gap', ~gap, user PROVE TruthInv'
  <2>1. CASE s \notin Run /\ c = socket
    <3>1. IsState(m) /\ link[c] = "up" /\ pipe'[c] = Append(q, m)
      BY <1>3, <1>4, <1>6, <1>8, <1>11, <2>1 DEF q
    <3>2. m.type = "isolated" <=> isolated
      BY <1>1, <1>5, <1>6, <1>11, <2>1, NamesAssumption DEF NewsInv
    <3>3. LastTrue(Append(q, m))
      <4> SUFFICES ASSUME NEW i \in 1..(Len(q) + 1), IsState(Append(q, m)[i]),
                          \A j \in 1..(Len(q) + 1) : j > i => ~IsState(Append(q, m)[j])
                   PROVE  Append(q, m)[i].type = "isolated" <=> isolated
        BY <1>7 DEF LastTrue
      <4>1. Len(q) + 1 \in 1..(Len(q) + 1)
        BY <1>7
      <4>2. i = Len(q) + 1
        BY <1>7, <3>1, <4>1
      <4>3. QED
        BY <1>7, <3>2, <4>2
    <3>4. ~Quiet(Append(q, m))
      <4>1. Len(q) + 1 \in 1..Len(Append(q, m))
        BY <1>7
      <4>2. QED
        BY <1>7, <3>1, <4>1 DEF Quiet
    <3>5. LastTrue(pipe[socket])' /\ ~Silent'
      BY <1>2, <2>1, <3>1, <3>3, <3>4 DEF LastTrue, Silent, Quiet, IsState
    <3>6. QED
      BY <3>5 DEF TruthInv
  <2>2. CASE s \notin Run /\ c # socket
    <3>1. link[c] # "cut"
      BY <1>4, <1>6, <1>11, <2>2
    <3>2. Pending => Pending'
      BY <1>2, <2>2, <3>1 DEF Pending, Coming
    <3>3. socket \in Conn => pipe'[socket] = pipe[socket]
      BY <1>8, <2>2
    <3>4. Silent' => Silent
      BY <1>2, <3>2, <3>3 DEF Silent, Quiet, IsState
    <3>5. QED
      BY <1>1, <1>2, <1>4, <3>2, <3>3, <3>4, StillTrue DEF PageInv
  <2>3. CASE s \in Run
    <3>1. Pending => Pending'
      BY <1>2, <2>3, NamesAssumption DEF Pending, Coming
    <3>2. ~IsState(m)
      BY <1>6, <2>3
    <3>3. Quiet(Append(q, m)) => Quiet(q)
      <4>1. \A i \in 1..Len(q) : i \in 1..Len(Append(q, m))
        BY <1>7
      <4>2. QED
        BY <1>7, <4>1 DEF Quiet
    <3>4. LastTrue(q) => LastTrue(Append(q, m))
      <4> SUFFICES ASSUME LastTrue(q), NEW i \in 1..(Len(q) + 1), IsState(Append(q, m)[i]),
                          \A j \in 1..(Len(q) + 1) : j > i => ~IsState(Append(q, m)[j])
                   PROVE  Append(q, m)[i].type = "isolated" <=> isolated
        BY <1>7 DEF LastTrue
      <4>1. i \in 1..Len(q) /\ Append(q, m)[i] = q[i]
        BY <1>7, <3>2
      <4>2. \A j \in 1..Len(q) : j > i => ~IsState(q[j])
        BY <1>7
      <4>3. QED
        BY <4>1, <4>2 DEF LastTrue
    <3>5. Silent' => Silent
      BY <1>2, <1>8, <3>1, <3>3 DEF Silent, Quiet, IsState, q
    <3>6. ~Pending' /\ socket \in Conn => LastTrue(pipe[socket])'
      <4>1. ~Pending' /\ socket \in Conn => LastTrue(pipe[socket])
        BY <1>1, <1>11, <3>1 DEF TruthInv
      <4>2. ~Pending' /\ socket \in Conn => LastTrue(pipe'[socket])
        BY <1>8, <3>4, <4>1 DEF q
      <4>3. QED
        BY <1>2, <4>2 DEF LastTrue, IsState
    <3>7. QED
      BY <1>1, <1>2, <1>4, <3>1, <3>5, <3>6, StillTrue DEF PageInv
  <2>4. QED
    BY <2>1, <2>2, <2>3
<1>12. TruthInv'
  BY <1>2, <1>4, <1>11 DEF TruthInv
<1>13. QED
  BY <1>9, <1>10, <1>12 DEF FeedInv

-------------------------------------------------------------------------------
(* The banner *)

\* Every step keeps the invariant.
LEMMA FeedStep == FeedInv /\ [Next]_vars => FeedInv'
<1> SUFFICES ASSUME FeedInv, [Next]_vars PROVE FeedInv'
  OBVIOUS
<1>1. ASSUME NEW c \in Conn, Handles(c) PROVE FeedInv'
  BY <1>1, HandlesStep
<1>2. ASSUME NEW s \in Sender, Sends(s) PROVE FeedInv'
  <2>1. UNCHANGED << runner, monitor, page, view >>
    BY <1>2 DEF Sends
  <2>2. CASE Begin(s)
    BY <2>1, <2>2, BeginStep
  <2>3. ASSUME NEW c \in Conn, Write(s, c) PROVE FeedInv'
    BY <2>1, <2>3, WriteStep
  <2>4. CASE EndBroadcast(s) /\ UNCHANGED << gap, whole >>
    BY <2>1, <2>4, EndStep
  <2>5. QED
    BY <1>2, <2>2, <2>3, <2>4 DEF Sends
<1>3. CASE OtherRun \/ Upload \/ \E r \in Run : Score(r) \/ RunFails(r) \/ Answer(r)
  BY <1>3, RunSteps
<1>4. CASE \/ TickEnds \/ ClickReconnect \/ AnswerReconnect \/ ConnectFails \/ Retry
           \/ UNCHANGED vars
  BY <1>4, WaitingSteps
<1>5. CASE Isolate \/ ServeReconnect
  BY <1>5, MonitorSteps
<1>6. CASE ReconnectAnswered \/ ServeStatus \/ StatusAnswered \/ StatusFails
  BY <1>6, AnswerSteps
<1>7. CASE Login \/ Logout \/ Open \/ LinkBreaks \/ OnClose \/ Receive
  BY <1>7, LoginStep, LogoutStep, OpenStep, BreakStep, CloseStep, ReceiveStep
<1>8. QED
  BY <1>1, <1>2, <1>3, <1>4, <1>5, <1>6, <1>7 DEF Next

\* The invariant holds at the start.
LEMMA FeedStarts == Init => FeedInv
<1> SUFFICES ASSUME Init PROVE FeedInv
  OBVIOUS
<1>1. HubInv
  BY NamesAssumption DEF Init, HubInit, HubInv, SpeaksFor, Queue, Quiet
<1>2. PageInv
  BY NamesAssumption DEF Init, HubInit, PageInv
<1>3. NewsInv /\ TruthInv
  BY NamesAssumption DEF Init, HubInit, NewsInv, TruthInv
<1>4. QED
  BY <1>1, <1>2, <1>3 DEF FeedInv

\* For any number of connections, logins, runs, isolations and faults, and any
\* order in which messages and answers reach the page: when nothing is under way,
\* the banner of a signed-in page shows the backend's flag, unless the page missed
\* a message, got an answer that a message had overtaken, or an isolation and a
\* reconnection crossed (App.tsx:59-80).
THEOREM BannerIsExplained == Spec => []BannerExplained
<1>1. Init => FeedInv
  BY FeedStarts
<1>2. FeedInv => BannerExplained
  <2> SUFFICES ASSUME FeedInv, user, ~gap, status = "none", ~StateComing PROVE banner = isolated
    BY DEF BannerExplained
  <2>1. HubInv /\ PageInv /\ TruthInv
    BY DEF FeedInv
  <2>2. outbox[Tick] = << >> /\ outbox[Admin] = << >>
    <3>1. \A s \in Sender : \A i \in DOMAIN outbox[s] : ~IsState(outbox[s][i])
      BY DEF StateComing
    <3>2. ASSUME outbox[Tick] = << [type |-> "isolated"] >> PROVE FALSE
      <4>1. 1 \in DOMAIN outbox[Tick] /\ IsState(outbox[Tick][1])
        BY <3>2 DEF IsState
      <4>2. QED
        BY <3>1, <4>1, NamesAssumption
    <3>3. ASSUME outbox[Admin] = << [type |-> "reconnected"] >> PROVE FALSE
      <4>1. 1 \in DOMAIN outbox[Admin] /\ IsState(outbox[Admin][1])
        BY <3>3 DEF IsState
      <4>2. QED
        BY <3>1, <4>1, NamesAssumption
    <3>4. QED
      BY <2>1, <3>2, <3>3 DEF HubInv
  <2>3. socket \in Conn => Quiet(pipe[socket])
    BY <2>1 DEF StateComing, HubInv, Queue, Quiet
  <2>4. Silent
    BY <2>2, <2>3 DEF Silent, Pending, Coming
  <2>5. banner <=> isolated
    BY <2>1, <2>4 DEF TruthInv
  <2>6. QED
    BY <2>1, <2>5 DEF PageInv
<1>3. QED
  BY <1>1, <1>2, FeedStep, PTL DEF Spec

-------------------------------------------------------------------------------
(* The feed: what the page is told of its own run *)

\* q tells the events of run r from after the a-th to the b-th, in order and each
\* once, whatever else it holds: done[i] is the last of them among the first i.
Counts(q, done, told, r) ==
  \A i \in 1..Len(q) :
    IF IsEventOf(q[i], r)
    THEN /\ done[i] = done[i - 1] + 1
         /\ q[i].place = done[i] /\ q[i].data = told[done[i]] /\ q[i].source = "sample"
    ELSE done[i] = done[i - 1]

Tells(q, a, b, told, r) ==
  \E done \in [0..Len(q) -> 0..Len(told)] :
    Counts(q, done, told, r) /\ done[0] = a /\ done[Len(q)] = b

\* The event that is being broadcast has been written to the page.
Written == mu = mine /\ socket \notin todo

\* How many events have been written to the page.
Sent ==
  IF run[mine] = "stream" THEN Len(script) - Len(outbox[mine]) + (IF Written THEN 1 ELSE 0)
  ELSE Len(script)

\* What is left to broadcast is the rest of the script, and then the verdict.
RestInv ==
  whole => /\ Queue(script) /\ mine \in Run /\ run[mine] # "idle"
           /\ IF run[mine] = "stream"
              THEN /\ Len(outbox[mine]) <= Len(script)
                   /\ \A i \in 1..Len(outbox[mine]) :
                        LET k == Len(script) - Len(outbox[mine]) + i
                        IN outbox[mine][i] = Event(script[k], "sample", mine, k)
              ELSE \A i \in 1..Len(outbox[mine]) : ~IsEventOf(outbox[mine][i], mine)

\* What has been written and not received follows what is shown, and what is not
\* shown any more was pushed out.
ToldInv ==
  whole => /\ Listening /\ Queue(feed) /\ Len(feed) <= MaxEvents
           /\ \E a, b \in 0..Len(script) :
                /\ Tells(feed, a, b, script, mine)
                /\ Tells(pipe[socket], b, Sent, script, mine)
                /\ a = 0 \/ Len(feed) = MaxEvents

WholeInv == RestInv /\ ToldInv

\* A queue without an event of the run tells none.
LEMMA TellsNone ==
  ASSUME NEW q, Queue(q), NEW told, Len(told) \in Nat, NEW r,
         \A i \in DOMAIN q : ~IsEventOf(q[i], r)
  PROVE  Tells(q, 0, 0, told, r)
<1> DEFINE done == [i \in 0..Len(q) |-> 0]
<1>1. Len(q) \in Nat /\ DOMAIN q = 1..Len(q)
  BY DEF Queue
<1>2. done \in [0..Len(q) -> 0..Len(told)] /\ done[0] = 0 /\ done[Len(q)] = 0
  BY <1>1
<1>3. \A i \in 1..Len(q) : done[i] = done[i - 1]
  BY <1>1
<1> HIDE DEF done
<1>4. Counts(q, done, told, r)
  BY <1>1, <1>3 DEF Counts
<1>5. QED
  BY <1>2, <1>4 DEF Tells

\* A message is written to the page, or applied.
LEMMA TellsMore ==
  ASSUME NEW q, Queue(q), NEW told, Len(told) \in Nat, NEW r, NEW a, NEW b, Tells(q, a, b, told, r),
         NEW m, IsEventOf(m, r) => /\ b < Len(told) /\ m.data = told[b + 1] /\ m.place = b + 1
                                   /\ m.source = "sample"
  PROVE  Tells(Append(q, m), a, IF IsEventOf(m, r) THEN b + 1 ELSE b, told, r)
<1>1. PICK done \in [0..Len(q) -> 0..Len(told)] :
        Counts(q, done, told, r) /\ done[0] = a /\ done[Len(q)] = b
  BY DEF Tells
<1> DEFINE p == Append(q, m)
           n == Len(q)
           last == IF IsEventOf(m, r) THEN b + 1 ELSE b
           more == [i \in 0..(n + 1) |-> IF i = n + 1 THEN last ELSE done[i]]
<1>2. n \in Nat /\ Len(p) = n + 1 /\ p[n + 1] = m /\ \A i \in 1..n : p[i] = q[i]
  BY Pushed
<1>3. b \in 0..Len(told)
  BY <1>1, <1>2
<1>4. last \in 0..Len(told)
  BY <1>3
<1> HIDE DEF last, p
<1>5. more \in [0..(n + 1) -> 0..Len(told)]
  BY <1>1, <1>2, <1>4
<1>6. more[0] = a /\ more[n + 1] = last
  BY <1>1, <1>2
<1>7. ASSUME NEW i \in 1..(n + 1)
      PROVE  IF IsEventOf(p[i], r)
             THEN /\ more[i] = more[i - 1] + 1
                  /\ p[i].place = more[i] /\ p[i].data = told[more[i]] /\ p[i].source = "sample"
             ELSE more[i] = more[i - 1]
  <2>1. CASE i = n + 1
    <3>1. p[i] = m /\ more[i] = last /\ more[i - 1] = b
      BY <1>1, <1>2, <2>1
    <3>2. QED
      BY <1>3, <3>1 DEF last
  <2>2. CASE i # n + 1
    <3>1. i \in 1..n /\ p[i] = q[i] /\ more[i] = done[i] /\ more[i - 1] = done[i - 1]
      BY <1>2, <2>2
    <3>2. QED
      BY <1>1, <3>1 DEF Counts
  <2>3. QED
    BY <2>1, <2>2
<1> HIDE DEF more
<1>8. Counts(p, more, told, r)
  BY <1>2, <1>7 DEF Counts
<1>9. QED
  BY <1>2, <1>5, <1>6, <1>8 DEF p, last, Tells

\* The first message is taken.
LEMMA TellsFewer ==
  ASSUME NEW q, Queue(q), q # << >>, NEW told, Len(told) \in Nat, NEW r, NEW a, NEW b,
         Tells(q, a, b, told, r)
  PROVE  IF IsEventOf(Head(q), r)
         THEN /\ a \in Nat /\ a < Len(told) /\ Tells(Tail(q), a + 1, b, told, r)
              /\ Head(q).place = a + 1 /\ Head(q).data = told[a + 1] /\ Head(q).source = "sample"
         ELSE Tells(Tail(q), a, b, told, r)
<1>1. PICK done \in [0..Len(q) -> 0..Len(told)] :
        Counts(q, done, told, r) /\ done[0] = a /\ done[Len(q)] = b
  BY DEF Tells
<1> DEFINE p == Tail(q)
           n == Len(q)
           rest == [i \in 0..(n - 1) |-> done[i + 1]]
<1>2. n \in Nat \ {0} /\ Head(q) = q[1] /\ Len(p) = n - 1 /\ \A i \in 1..Len(p) : p[i] = q[i + 1]
  BY Popped
<1> HIDE DEF p
<1>3. rest \in [0..(n - 1) -> 0..Len(told)] /\ rest[0] = done[1] /\ rest[n - 1] = b
  BY <1>1, <1>2
<1>4. ASSUME NEW i \in 1..(n - 1)
      PROVE  IF IsEventOf(p[i], r)
             THEN /\ rest[i] = rest[i - 1] + 1
                  /\ p[i].place = rest[i] /\ p[i].data = told[rest[i]] /\ p[i].source = "sample"
             ELSE rest[i] = rest[i - 1]
  <2>1. p[i] = q[i + 1] /\ rest[i] = done[i + 1] /\ rest[i - 1] = done[i] /\ i + 1 \in 1..n
    BY <1>2
  <2>2. (i + 1) - 1 = i
    OBVIOUS
  <2>3. QED
    BY <1>1, <2>1, <2>2 DEF Counts
<1> HIDE DEF rest
<1>5. Counts(p, rest, told, r)
  BY <1>2, <1>4 DEF Counts
<1>6. Tells(p, done[1], b, told, r)
  BY <1>2, <1>3, <1>5 DEF Tells
<1>7. IF IsEventOf(q[1], r)
      THEN /\ done[1] = done[0] + 1
           /\ q[1].place = done[1] /\ q[1].data = told[done[1]] /\ q[1].source = "sample"
      ELSE done[1] = done[0]
  <2>1. 1 \in 1..Len(q) /\ 1 - 1 = 0
    BY <1>2
  <2>2. QED
    BY <1>1, <2>1 DEF Counts
<1>8. done[0] \in 0..Len(told) /\ done[1] \in 0..Len(told)
  BY <1>1, <1>2
<1>9. QED
  BY <1>1, <1>2, <1>6, <1>7, <1>8 DEF p

\* By induction along the queue: it holds each of these events, and no others of
\* the run, in their order.
LEMMA TellsAll ==
  ASSUME NEW q, Queue(q), NEW told, Len(told) \in Nat, NEW r, NEW a, NEW b, Tells(q, a, b, told, r)
  PROVE  /\ a \in Nat /\ b \in Nat /\ a <= b /\ b <= Len(told)
         /\ \A i \in 1..Len(q) : IsEventOf(q[i], r) =>
              /\ q[i].place \in (a + 1)..b /\ q[i].data = told[q[i].place]
              /\ \A j \in 1..Len(q) : IsEventOf(q[j], r) /\ i < j => q[i].place < q[j].place
         /\ \A k \in (a + 1)..b : \E i \in 1..Len(q) : IsEventOf(q[i], r) /\ q[i].place = k
<1>1. PICK done \in [0..Len(q) -> 0..Len(told)] :
        Counts(q, done, told, r) /\ done[0] = a /\ done[Len(q)] = b
  BY DEF Tells
<1>2. Len(q) \in Nat
  BY Pushed
<1>3. \A i \in 0..Len(q) : done[i] \in Nat /\ done[i] <= Len(told)
  BY <1>1, <1>2
<1>4. \A i \in 1..Len(q) :
        IF IsEventOf(q[i], r)
        THEN done[i] = done[i - 1] + 1 /\ q[i].place = done[i] /\ q[i].data = told[done[i]]
        ELSE done[i] = done[i - 1]
  BY <1>1 DEF Counts
<1> DEFINE Rises(n) ==
             /\ \A i \in 0..n : done[i] <= done[n]
             /\ \A k \in (a + 1)..done[n] : \E i \in 1..n : IsEventOf(q[i], r) /\ q[i].place = k
           P == {n \in Nat : n <= Len(q) => Rises(n)}
<1>5. 0 \in P
  BY <1>1, <1>2, <1>3
<1>6. ASSUME NEW n \in P PROVE n + 1 \in P
  <2> SUFFICES ASSUME n + 1 <= Len(q) PROVE Rises(n + 1)
    OBVIOUS
  <2>1. n \in Nat /\ Rises(n)
    BY <1>2
  <2>2. /\ n + 1 \in 1..Len(q) /\ (n + 1) - 1 = n
        /\ done[n] \in Nat /\ done[n + 1] \in Nat /\ a \in Nat
    BY <1>1, <1>2, <1>3, <2>1
  <2>3. IF IsEventOf(q[n + 1], r) THEN done[n + 1] = done[n] + 1 /\ q[n + 1].place = done[n + 1]
                                  ELSE done[n + 1] = done[n]
    BY <1>4, <2>2
  <2>4. \A i \in 0..(n + 1) : done[i] <= done[n + 1]
    BY <1>3, <2>1, <2>2, <2>3
  <2>5. ASSUME NEW k \in (a + 1)..done[n + 1]
        PROVE  \E i \in 1..(n + 1) : IsEventOf(q[i], r) /\ q[i].place = k
    <3>1. CASE k <= done[n]
      BY <2>1, <2>2, <3>1
    <3>2. CASE ~(k <= done[n])
      <4>1. IsEventOf(q[n + 1], r) /\ k = done[n + 1]
        BY <2>2, <2>3, <3>2
      <4>2. n + 1 \in 1..(n + 1)
        BY <2>1
      <4>3. QED
        BY <2>3, <4>1, <4>2
    <3>3. QED
      BY <3>1, <3>2
  <2>6. QED
    BY <2>4, <2>5
<1> HIDE DEF P, Rises
<1>7. P = Nat
  <2>1. P \in SUBSET Nat
    BY DEF P
  <2>2. QED
    BY <1>5, <1>6, <2>1, Induction
<1>8. \A n \in 0..Len(q) : Rises(n)
  BY <1>2, <1>7 DEF P
<1>9. \A n \in 0..Len(q) : \A i \in 0..n : done[i] <= done[n]
  BY <1>8 DEF Rises
<1>10. \A k \in (a + 1)..b : \E i \in 1..Len(q) : IsEventOf(q[i], r) /\ q[i].place = k
  <2>1. Len(q) \in 0..Len(q)
    BY <1>2
  <2>2. QED
    BY <1>1, <1>8, <2>1 DEF Rises
<1>11. a \in Nat /\ b \in Nat /\ a <= b /\ b <= Len(told)
  <2>1. 0 \in 0..Len(q) /\ Len(q) \in 0..Len(q)
    BY <1>2
  <2>2. QED
    BY <1>1, <1>3, <1>9, <2>1
<1>12. ASSUME NEW i \in 1..Len(q), IsEventOf(q[i], r)
       PROVE  q[i].place \in (a + 1)..b /\ q[i].data = told[q[i].place]
  <2>1. /\ i \in 0..Len(q) /\ i - 1 \in 0..Len(q) /\ 0 \in 0..(i - 1) /\ i \in 0..Len(q)
        /\ Len(q) \in 0..Len(q)
    BY <1>2
  <2>2. a <= done[i - 1] /\ done[i] <= b /\ done[i - 1] \in Nat /\ done[i] \in Nat
    BY <1>1, <1>3, <1>9, <2>1
  <2>3. QED
    BY <1>4, <1>11, <1>12, <2>2
<1>13. ASSUME NEW i \in 1..Len(q), NEW j \in 1..Len(q), IsEventOf(q[i], r), IsEventOf(q[j], r), i < j
       PROVE  q[i].place < q[j].place
  <2>1. i \in 0..(j - 1) /\ j - 1 \in 0..Len(q) /\ i \in 0..Len(q) /\ j \in 0..Len(q)
    BY <1>2, <1>13
  <2>2. done[i] <= done[j - 1]
    BY <1>9, <2>1
  <2>3. done[j] = done[j - 1] + 1 /\ q[i].place = done[i] /\ q[j].place = done[j]
    BY <1>4, <1>13
  <2>4. done[i] \in Nat /\ done[j - 1] \in Nat
    BY <1>3, <2>1
  <2>5. QED
    BY <2>2, <2>3, <2>4
<1>14. QED
  BY <1>10, <1>11, <1>12, <1>13

\* What is shown and under way stays, and as much has been written.
LEMMA ToldStays ==
  ASSUME WholeInv, whole, Listening', Sent' = Sent, pipe'[socket] = pipe[socket],
         UNCHANGED << mine, script, feed, socket >>
  PROVE  ToldInv'
<1>1. PICK a \in 0..Len(script), b \in 0..Len(script) :
             /\ Tells(feed, a, b, script, mine)
             /\ Tells(pipe[socket], b, Sent, script, mine)
             /\ a = 0 \/ Len(feed) = MaxEvents
  BY DEF WholeInv, ToldInv
<1>2. pipe'[socket'] = pipe[socket] /\ script' = script /\ feed' = feed /\ mine' = mine
  OBVIOUS
<1>3. /\ a \in 0..Len(script') /\ b \in 0..Len(script')
      /\ Tells(feed', a, b, script', mine')
      /\ Tells(pipe'[socket'], b, Sent', script', mine')
      /\ a = 0 \/ Len(feed') = MaxEvents
  BY <1>1, <1>2, Zenon
<1>4. Queue(feed') /\ Len(feed') <= MaxEvents
  BY DEF WholeInv, ToldInv
<1>5. QED
  BY <1>3, <1>4 DEF ToldInv, Tells, Counts, Queue, IsEventOf

\* The run says nothing more, and the page is given nothing and takes nothing.
LEMMA Kept ==
  ASSUME WholeInv, whole' => whole,
         whole' => /\ UNCHANGED << mine, script, feed, socket >>
                   /\ run'[mine] = run[mine] /\ outbox'[mine] = outbox[mine]
                   /\ Listening' /\ pipe'[socket] = pipe[socket] /\ (Written' <=> Written)
  PROVE  WholeInv'
<1> SUFFICES ASSUME whole' PROVE WholeInv'
  BY DEF WholeInv, RestInv, ToldInv
<1>1. RestInv'
  <2>1. Queue(script) => Queue(script)'
    BY DEF Queue
  <2>2. QED
    BY <2>1 DEF WholeInv, RestInv, IsEventOf, Event
<1>2. ToldInv'
  <2>1. Sent' = Sent
    BY DEF Sent
  <2>2. QED
    BY <2>1, ToldStays
<1>3. QED
  BY <1>1, <1>2 DEF WholeInv

\* While the page misses nothing its connection is registered and whole.
LEMMA Connected ==
  ASSUME FeedInv, WholeInv, whole
  PROVE  /\ socket \in Conn /\ socket \in clients /\ link[socket] = "up" /\ socket # NoConn
         /\ handler[socket] # "leaving" /\ Queue(pipe[socket]) /\ Queue(script)
         /\ mine \in Run /\ mine \in Sender /\ run[mine] # "idle"
         /\ Len(script) \in Nat /\ Len(pipe[socket]) \in Nat
<1>1. Listening /\ HubInv /\ Queue(script) /\ mine \in Run /\ run[mine] # "idle"
  BY DEF WholeInv, ToldInv, RestInv, FeedInv
<1>2. socket \in clients /\ link[socket] = "up"
  BY <1>1 DEF Listening
<1>3. socket \in Conn
  BY <1>1, <1>2 DEF HubInv
<1>4. Queue(pipe[socket]) /\ handler[socket] # "leaving" /\ socket # NoConn /\ mine \in Sender
  BY <1>1, <1>2, <1>3, NamesAssumption DEF HubInv
<1>5. Len(script) \in Nat /\ Len(pipe[socket]) \in Nat
  BY <1>1, <1>4, Pushed
<1>6. QED
  BY <1>1, <1>2, <1>3, <1>4, <1>5

\* Steps of other runs, and the end of one.
LEMMA RunsTold ==
  ASSUME FeedInv, WholeInv,
         OtherRun \/ \E r \in Run : RunFails(r) \/ Answer(r) \/ (Score(r) /\ r # mine)
  PROVE  WholeInv'
<1>1. HubInv /\ PageInv
  BY DEF FeedInv
<1>2. ASSUME NEW r \in Run, whole => r # mine,
             UNCHANGED << hub, wire, mine, feed, socket, whole >>, whole => UNCHANGED script,
             \E stage : run' = [run EXCEPT ![r] = stage],
             UNCHANGED outbox \/ \E q : outbox' = [outbox EXCEPT ![r] = q]
      PROVE  WholeInv'
  <2>1. UNCHANGED << clients, mu, todo, link, pipe >>
    BY <1>2 DEF hub, wire
  <2>2. ASSUME whole PROVE run'[mine] = run[mine] /\ outbox'[mine] = outbox[mine]
    BY <1>1, <1>2, <2>2, Connected DEF HubInv, PageInv
  <2>3. (Written' <=> Written) /\ (whole => Listening')
    BY <1>2, <2>1 DEF Written, Listening, WholeInv, ToldInv
  <2>4. QED
    BY <1>2, <2>1, <2>2, <2>3, Kept
<1>3. CASE OtherRun
  <2>1. PICK r \in Run, source \in {"sample", "interceptor"} : StartRun(r, source, FALSE)
    BY <1>3 DEF OtherRun
  <2>2. /\ UNCHANGED << hub, wire, mine, feed, socket, whole >>
        /\ run[r] = "idle" /\ run' = [run EXCEPT ![r] = "stream"]
    BY <1>3, <2>1 DEF OtherRun, StartRun, Unused, page
  <2>3. UNCHANGED script /\ \E q : outbox' = [outbox EXCEPT ![r] = q]
    BY <2>1, Zenon DEF StartRun
  <2>4. whole => r # mine
    BY <2>2, Connected
  <2>5. QED
    BY <1>2, <2>2, <2>3, <2>4
<1>4. ASSUME NEW r \in Run, RunFails(r) \/ Answer(r) PROVE WholeInv'
  <2>1. RunEnds(r)
    BY <1>4 DEF RunFails, Answer
  <2>2. CASE r = mine
    <3>1. ~whole'
      BY <2>1, <2>2 DEF RunEnds, Forget
    <3>2. QED
      BY <3>1 DEF WholeInv, RestInv, ToldInv
  <2>3. CASE r # mine
    <3>1. /\ UNCHANGED << hub, wire, mine, script, feed, socket, whole, outbox >>
          /\ run' = [run EXCEPT ![r] = "idle"]
      BY <2>1, <2>3 DEF RunEnds, page, view
    <3>2. QED
      BY <1>2, <2>3, <3>1
  <2>4. QED
    BY <2>2, <2>3
<1>5. ASSUME NEW r \in Run, Score(r), r # mine PROVE WholeInv'
  <2>1. /\ UNCHANGED << hub, wire, mine, script, feed, socket, whole >>
        /\ run' = [run EXCEPT ![r] = "verdict"]
        /\ \E q : outbox' = [outbox EXCEPT ![r] = q]
    BY <1>5, Zenon DEF Score, page, view
  <2>2. QED
    BY <1>2, <1>5, <2>1
<1>6. QED
  BY <1>3, <1>4, <1>5

\* Steps that have nothing to do with a run.
LEMMA OtherSteps ==
  ASSUME FeedInv, WholeInv,
         \/ Isolate \/ TickEnds
         \/ ClickReconnect \/ ServeReconnect \/ AnswerReconnect \/ ReconnectAnswered
         \/ Login \/ Logout \/ ServeStatus \/ StatusAnswered \/ StatusFails
         \/ Open \/ ConnectFails \/ LinkBreaks \/ OnClose \/ Retry \/ UNCHANGED vars
  PROVE  WholeInv'
<1>1. HubInv
  BY DEF FeedInv
<1>2. CASE Logout \/ Open \/ LinkBreaks \/ OnClose
  <2>1. CASE Logout \/ LinkBreaks
    <3>1. ~whole'
      BY <2>1 DEF Logout, Forget, LinkBreaks
    <3>2. QED
      BY <3>1 DEF WholeInv, RestInv, ToldInv
  <2>2. CASE Open \/ OnClose
    <3>1. whole' = whole /\ (socket = NoConn \/ link[socket] # "up")
      BY <2>2 DEF Open, OnClose
    <3>2. ~whole
      BY <3>1, Connected
    <3>3. QED
      BY <3>1, <3>2 DEF WholeInv, RestInv, ToldInv
  <2>3. QED
    BY <1>2, <2>1, <2>2
<1>3. CASE \/ Isolate \/ TickEnds
           \/ ClickReconnect \/ ServeReconnect \/ AnswerReconnect \/ ReconnectAnswered
           \/ Login \/ ServeStatus \/ StatusAnswered \/ StatusFails
           \/ ConnectFails \/ Retry \/ UNCHANGED vars
  <2>1. UNCHANGED << hub, wire, run, mine, script, feed, socket, whole >>
    BY <1>3 DEF Isolate, TickEnds, ClickReconnect, ServeReconnect, AnswerReconnect, ReconnectAnswered,
                Login, ServeStatus, StatusAnswered, StatusFails, ConnectFails, Retry, vars,
                server, runner, monitor, page, view
  <2>2. ASSUME whole PROVE outbox'[mine] = outbox[mine]
    <3>1. CASE Isolate \/ ServeReconnect
      <4>1. mine \in Run /\ mine # Tick /\ mine # Admin /\ mine \in DOMAIN outbox
        BY <1>1, <2>2, Connected, NamesAssumption DEF HubInv
      <4>2. QED
        BY <3>1, <4>1 DEF Isolate, ServeReconnect
    <3>2. CASE ~(Isolate \/ ServeReconnect)
      BY <1>3, <3>2 DEF TickEnds, ClickReconnect, AnswerReconnect, ReconnectAnswered,
                Login, ServeStatus, StatusAnswered, StatusFails, ConnectFails, Retry, vars, server
    <3>3. QED
      BY <3>1, <3>2
  <2>3. UNCHANGED << clients, mu, todo, link, pipe >>
    BY <2>1 DEF hub, wire
  <2>4. (Written' <=> Written) /\ (whole => Listening')
    BY <2>1, <2>3 DEF Written, Listening, WholeInv, ToldInv
  <2>5. QED
    BY <2>1, <2>2, <2>3, <2>4, Kept
<1>4. QED
  BY <1>2, <1>3

\* A connection is registered, breaks off or is removed.
LEMMA HandlesTold ==
  ASSUME FeedInv, WholeInv, NEW c \in Conn, Handles(c) PROVE WholeInv'
<1>1. HubInv
  BY DEF FeedInv
<1>2. UNCHANGED << mu, todo, pipe, outbox, run, mine, script, feed, socket, whole >>
  BY DEF Handles, Register, ReadFails, Unregister, wire, runner, page, view
<1>3. Written' <=> Written
  BY <1>2 DEF Written
<1>4. ASSUME whole PROVE Listening'
  <2>1. socket \in clients /\ link[socket] = "up" /\ handler[socket] # "leaving" /\ socket \in Conn
    BY <1>4, Connected
  <2>2. c # socket \/ ~Unregister(c)
    BY <2>1 DEF Unregister
  <2>3. socket \in clients'
    BY <2>1, <2>2 DEF Handles, Register, ReadFails, Unregister
  <2>4. link'[socket] = link[socket]
    BY <1>1, <2>1, <2>2 DEF Handles, Register, ReadFails, Unregister, wire, HubInv
  <2>5. QED
    BY <1>2, <2>1, <2>3, <2>4 DEF Listening
<1>5. QED
  BY <1>2, <1>3, <1>4, Kept

\* A run of the page begins: nothing of it is written, nothing is shown.
LEMMA UploadTold == ASSUME FeedInv, WholeInv, Upload PROVE WholeInv'
<1>1. HubInv /\ PageInv
  BY DEF FeedInv
<1>2. PICK r \in Run : StartRun(r, "sample", TRUE) /\ mine' = r
  BY DEF Upload
<1>3. feed' = << >> /\ whole' = Listening
  BY DEF Upload
<1>4. PICK calls \in Programs : \E split \in SUBSET DOMAIN calls :
        LET events == ParseTraceLog(StripRootExecve(StraceLog(calls, split)))
        IN \E n \in 0..Len(events) :
             /\ outbox' = [outbox EXCEPT ![r] = [i \in 1..n |-> Event(events[i], "sample", r, i)]]
             /\ script' = SubSeq(Reported(calls), 1, n)
  BY <1>2, Zenon DEF StartRun
<1>5. PICK split \in SUBSET DOMAIN calls :
        LET events == ParseTraceLog(StripRootExecve(StraceLog(calls, split)))
        IN \E n \in 0..Len(events) :
             /\ outbox' = [outbox EXCEPT ![r] = [i \in 1..n |-> Event(events[i], "sample", r, i)]]
             /\ script' = SubSeq(Reported(calls), 1, n)
  BY <1>4
<1> DEFINE events == Reported(calls)
<1>6. /\ ParseTraceLog(StripRootExecve(StraceLog(calls, split))) = events
      /\ \E E : events \in Seq(E)
  BY ProgramsAssumption, SensorReportsTheCalls
<1>7. PICK n \in 0..Len(events) :
        /\ outbox' = [outbox EXCEPT ![r] = [i \in 1..n |-> Event(events[i], "sample", r, i)]]
        /\ script' = SubSeq(events, 1, n)
  BY <1>5, <1>6
<1> HIDE DEF events
<1>8. PICK E : events \in Seq(E)
  BY <1>6
<1>9. /\ run[r] = "idle" /\ run' = [run EXCEPT ![r] = "stream"]
      /\ UNCHANGED << clients, mu, todo, link, pipe, socket >>
      /\ \A c \in Conn : \A i \in DOMAIN pipe[c] : ~IsEventOf(pipe[c][i], r)
  BY <1>2 DEF StartRun, Unused, hub, wire, page
<1> SUFFICES ASSUME whole' PROVE WholeInv'
  BY DEF WholeInv, RestInv, ToldInv
<1>10. Listening /\ socket \in Conn /\ Queue(pipe[socket])
  BY <1>1, <1>3 DEF Listening, HubInv
<1> DEFINE told == SubSeq(events, 1, n)
           rest == [i \in 1..n |-> Event(events[i], "sample", r, i)]
<1>11. /\ n \in Nat /\ told \in Seq(E) /\ Len(told) = n /\ \A i \in 1..n : told[i] = events[i]
  <2>1. n \in Nat /\ n <= Len(events)
    BY <1>8
  <2>2. QED
    BY <1>8, <2>1
<1>12. Queue(told)
  <2> HIDE DEF told
  <2>1. told \in Seq({told[i] : i \in DOMAIN told})
    BY <1>11
  <2>2. QED
    BY <2>1 DEF Queue
<1>13. Len(rest) = n /\ \A i \in 1..n : rest[i] = Event(told[i], "sample", r, i)
  BY <1>11
<1>14. outbox'[r] = rest /\ script' = told /\ run'[r] = "stream"
  BY <1>1, <1>7, <1>9, NamesAssumption DEF HubInv, PageInv
<1> HIDE DEF told, rest
<1>15. mu # r
  BY <1>1, <1>9, NamesAssumption DEF HubInv, PageInv
<1>16. RestInv'
  <2>1. Queue(script)'
    BY <1>12, <1>14 DEF Queue
  <2>2. Len(outbox'[r]) = n /\ Len(script') = n
    BY <1>11, <1>13, <1>14
  <2>3. ASSUME NEW i \in 1..n
        PROVE  outbox'[r][i] = Event(script'[n - n + i], "sample", r, n - n + i)
    <3>1. n - n + i = i
      BY <1>11
    <3>2. QED
      BY <1>13, <1>14, <3>1
  <2>4. QED
    BY <1>2, <1>11, <1>14, <2>1, <2>2, <2>3 DEF RestInv, Event
<1>17. ToldInv'
  <2>1. Sent' = 0
    BY <1>2, <1>9, <1>11, <1>13, <1>14, <1>15 DEF Sent, Written
  <2>2. Queue(<< >>) /\ Len(<< >>) = 0 /\ \A i \in DOMAIN << >> : ~IsEventOf(<< >>[i], r)
    BY DEF Queue
  <2>3. Tells(<< >>, 0, 0, told, r)
    <3>1. Len(told) \in Nat
      BY <1>11
    <3> DEFINE none == << >>
    <3>2. Queue(none) /\ \A i \in DOMAIN none : ~IsEventOf(none[i], r)
      BY <2>2
    <3> HIDE DEF none
    <3>3. Tells(none, 0, 0, told, r)
      BY <3>1, <3>2, TellsNone
    <3>4. QED
      BY <3>3 DEF none
  <2>4. Tells(pipe[socket], 0, 0, told, r)
    BY <1>9, <1>10, <1>11, TellsNone
  <2>5. Listening'
    BY <1>9, <1>10 DEF Listening
  <2>6. /\ 0 \in 0..Len(script')
        /\ Tells(feed', 0, 0, script', mine')
        /\ Tells(pipe'[socket'], 0, Sent', script', mine')
    BY <1>2, <1>3, <1>9, <1>11, <1>14, <2>1, <2>3, <2>4
  <2>7. Queue(feed') /\ Len(feed') <= MaxEvents
    BY <1>3, <2>2, MaxEventsAssumption
  <2>8. QED
    BY <2>5, <2>6, <2>7 DEF ToldInv, Tells, Counts, Queue, IsEventOf
<1>18. QED
  BY <1>16, <1>17 DEF WholeInv

\* All events of the page's run are sent, and the verdict is next.
LEMMA ScoreTold == ASSUME FeedInv, WholeInv, mine \in Run, Score(mine) PROVE WholeInv'
<1>1. HubInv /\ PageInv
  BY DEF FeedInv
<1>2. /\ run[mine] = "stream" /\ run' = [run EXCEPT ![mine] = "verdict"] /\ outbox[mine] = << >>
      /\ outbox' = [outbox EXCEPT ![mine] = << [type |-> "verdict", source |-> src[mine]] >>]
      /\ UNCHANGED << clients, mu, todo, link, pipe, mine, script, feed, socket, whole >>
  BY DEF Score, hub, wire, page, view
<1>3. whole' => whole
  BY <1>2
<1> SUFFICES ASSUME whole, whole' PROVE WholeInv'
  BY <1>3 DEF WholeInv, RestInv, ToldInv
<1>4. /\ outbox'[mine] = << [type |-> "verdict", source |-> src[mine]] >> /\ run'[mine] = "verdict"
  BY <1>1, <1>2, NamesAssumption DEF HubInv, PageInv
<1>5. RestInv'
  <2>1. \A i \in 1..Len(outbox'[mine]) : ~IsEventOf(outbox'[mine][i], mine)
    BY <1>4 DEF IsEventOf
  <2>2. Queue(script) => Queue(script)'
    BY <1>2 DEF Queue
  <2>3. QED
    BY <1>2, <1>4, <2>1, <2>2 DEF WholeInv, RestInv, IsEventOf
<1>6. Sent' = Sent
  <2>1. mu # mine
    BY <1>1, <1>2, NamesAssumption DEF HubInv
  <2>2. Len(script) \in Nat /\ Len(outbox[mine]) = 0
    BY <1>2, Connected
  <2>3. QED
    BY <1>2, <1>4, <2>1, <2>2 DEF Sent, Written
<1>7. Listening'
  BY <1>2 DEF Listening, WholeInv, ToldInv
<1>8. QED
  BY <1>2, <1>5, <1>6, <1>7, ToldStays DEF WholeInv

\* A broadcast begins, with the page among those it is for.
LEMMA BeginTold ==
  ASSUME FeedInv, WholeInv, NEW s \in Sender, Begin(s), UNCHANGED << runner, monitor, page, view >>
  PROVE  WholeInv'
<1>1. /\ mu = Nobody /\ mu' = s /\ todo' = clients /\ whole' = (whole /\ Listening)
      /\ UNCHANGED << clients, link, pipe, outbox, run, mine, script, feed, socket >>
  BY DEF Begin, StartBroadcast, wire, runner, page, view
<1>2. whole' => whole /\ Listening'
  BY <1>1, Zenon DEF Listening
<1>3. whole' => (Written' <=> Written)
  BY <1>1, <1>2, Connected, NamesAssumption DEF Written, Listening
<1>4. QED
  BY <1>1, <1>2, <1>3, Kept

\* A broadcast ends: the run's event that was written is no longer to be sent.
LEMMA EndTold ==
  ASSUME FeedInv, WholeInv, NEW s \in Sender, EndBroadcast(s),
         UNCHANGED << runner, monitor, page, view, gap, whole >>
  PROVE  WholeInv'
<1>1. HubInv
  BY DEF FeedInv
<1>2. /\ mu = s /\ mu' = Nobody /\ todo = {} /\ outbox' = [outbox EXCEPT ![s] = Tail(outbox[s])]
      /\ UNCHANGED << clients, todo, link, pipe, run, mine, script, feed, socket, whole >>
  BY DEF EndBroadcast, wire, runner, page, view
<1>3. whole' => whole
  BY <1>2
<1> SUFFICES ASSUME whole, whole' PROVE WholeInv'
  BY <1>3 DEF WholeInv, RestInv, ToldInv
<1>4. /\ ~Written' /\ (Listening => Listening') /\ outbox[s] # << >>
      /\ mine \in Run /\ mine \in Sender
  BY <1>1, <1>2, NamesAssumption, Connected DEF Written, Listening, HubInv
<1>5. Listening'
  BY <1>4 DEF WholeInv, ToldInv
<1>6. CASE s # mine
  <2>1. outbox'[mine] = outbox[mine] /\ ~Written
    BY <1>1, <1>2, <1>4, <1>6 DEF HubInv, Written
  <2>2. QED
    BY <1>2, <1>4, <1>5, <2>1, Kept
<1>7. CASE s = mine
  <2> DEFINE q == outbox[mine]
             p == Tail(q)
             n == Len(script)
  <2>1. /\ Len(q) \in Nat \ {0} /\ Len(p) = Len(q) - 1
        /\ \A i \in 1..Len(p) : p[i] = q[i + 1]
    BY <1>1, <1>4, <1>7, Popped DEF HubInv, SpeaksFor
  <2>2. outbox'[mine] = p /\ Written
    BY <1>1, <1>2, <1>4, <1>7 DEF HubInv, Written
  <2>3. n \in Nat /\ run[mine] # "idle" /\ Queue(script)
    BY Connected
  <2> HIDE DEF p
  <2>4. RestInv'
    <3>1. Queue(script)'
      BY <1>2, <2>3 DEF Queue
    <3>2. CASE run[mine] = "stream"
      <4>1. /\ Len(q) <= n
            /\ \A i \in 1..Len(q) : q[i] = Event(script[n - Len(q) + i], "sample", mine, n - Len(q) + i)
        BY <3>2 DEF WholeInv, RestInv
      <4>2. ASSUME NEW i \in 1..Len(p)
            PROVE  p[i] = Event(script[n - Len(p) + i], "sample", mine, n - Len(p) + i)
        <5>1. i + 1 \in 1..Len(q) /\ n - Len(q) + (i + 1) = n - Len(p) + i
          BY <2>1, <2>3
        <5>2. QED
          BY <2>1, <4>1, <5>1
      <4>3. Len(p) <= n
        BY <2>1, <2>3, <4>1
      <4>4. QED
        BY <1>2, <1>4, <2>2, <2>3, <3>1, <3>2, <4>2, <4>3 DEF RestInv, Event
    <3>3. CASE run[mine] # "stream"
      <4>1. \A i \in 1..Len(q) : ~IsEventOf(q[i], mine)
        BY <3>3 DEF WholeInv, RestInv
      <4>2. ASSUME NEW i \in 1..Len(p) PROVE ~IsEventOf(p[i], mine)
        <5>1. i + 1 \in 1..Len(q)
          BY <2>1
        <5>2. QED
          BY <2>1, <4>1, <5>1
      <4>3. QED
        BY <1>2, <1>4, <2>2, <2>3, <3>1, <3>3, <4>2 DEF RestInv, IsEventOf
    <3>4. QED
      BY <3>2, <3>3
  <2>5. Sent' = Sent
    <3>1. Len(outbox'[mine]) = Len(outbox[mine]) - 1 /\ Len(outbox[mine]) \in Nat
      BY <2>1, <2>2
    <3>2. /\ run' = run /\ script' = script /\ mine' = mine /\ Len(script) \in Nat
          /\ Written /\ ~Written'
      BY <1>2, <1>4, <2>2, <2>3
    <3>3. Sent = IF run[mine] = "stream" THEN Len(script) - Len(outbox[mine]) + 1 ELSE Len(script)
      BY <3>2 DEF Sent
    <3>4. Sent' = IF run[mine] = "stream" THEN Len(script) - Len(outbox'[mine]) + 0 ELSE Len(script)
      BY <3>2 DEF Sent
    <3> HIDE DEF q, n
    <3>5. QED
      BY <3>1, <3>2, <3>3, <3>4
  <2>6. QED
    BY <1>2, <1>5, <2>4, <2>5, ToldStays DEF WholeInv
<1>8. QED
  BY <1>6, <1>7

\* A connection is written to: what the page is given is the script's next event,
\* or none of the run's.
LEMMA WriteTold ==
  ASSUME FeedInv, WholeInv, NEW s \in Sender, NEW c \in Conn, Write(s, c),
         UNCHANGED << runner, monitor, page, view >>
  PROVE  WholeInv'
<1>1. HubInv
  BY DEF FeedInv
<1> DEFINE m == Message(s)
           q == pipe[socket]
           n == Len(script)
           l == Len(outbox[mine])
<1>2. /\ mu = s /\ c \in todo /\ todo' = todo \ {c}
      /\ UNCHANGED << clients, mu, link, outbox, run, mine, script, feed, socket, whole >>
  BY DEF Write, WriteMessage, runner, page, view
<1>3. \/ link[c] = "cut" /\ UNCHANGED pipe
      \/ link[c] = "up" /\ pipe' = [pipe EXCEPT ![c] = Append(pipe[c], m)]
  BY DEF Write, WriteMessage
<1>4. (Listening => Listening') /\ outbox[s] # << >>
  BY <1>1, <1>2 DEF Listening, HubInv
<1>5. whole' => whole
  BY <1>2
<1> SUFFICES ASSUME whole, whole' PROVE WholeInv'
  BY <1>5 DEF WholeInv, RestInv, ToldInv
<1>6. Listening'
  BY <1>4 DEF WholeInv, ToldInv
<1>7. CASE c # socket
  <2>1. pipe'[socket] = pipe[socket]
    BY <1>1, <1>3, <1>7, Connected DEF HubInv
  <2>2. Written' <=> Written
    BY <1>2, <1>7 DEF Written
  <2>3. QED
    BY <1>2, <1>6, <1>5, <2>1, <2>2, Kept
<1>8. CASE c = socket
  <2>1. /\ link[socket] = "up" /\ socket \in Conn /\ Queue(q) /\ n \in Nat /\ Queue(script)
        /\ run[mine] # "idle" /\ mine \in Run /\ mine \in Sender
    BY Connected
  <2>2. pipe'[socket] = Append(q, m)
    BY <1>1, <1>3, <1>8, <2>1 DEF HubInv
  <2>3. PICK a \in 0..n, b \in 0..n :
             /\ Tells(feed, a, b, script, mine) /\ Tells(q, b, Sent, script, mine)
             /\ a = 0 \/ Len(feed) = MaxEvents
    BY DEF WholeInv, ToldInv
  <2>4. /\ IsEventOf(m, mine) => /\ Sent < n /\ m.data = script[Sent + 1] /\ m.place = Sent + 1
                                 /\ m.source = "sample"
        /\ Sent' = IF IsEventOf(m, mine) THEN Sent + 1 ELSE Sent
    <3>1. CASE s = mine
      <4>1. l \in Nat \ {0} /\ m = outbox[mine][1]
        BY <1>1, <1>4, <2>1, <3>1, Popped DEF HubInv, SpeaksFor, Message
      <4>2. ~Written /\ Written'
        BY <1>2, <1>8, <3>1 DEF Written
      <4>3. CASE run[mine] = "stream"
        <5>1. l <= n /\ \A i \in 1..l : outbox[mine][i] = Event(script[n - l + i], "sample", mine, n - l + i)
          BY <4>3 DEF WholeInv, RestInv
        <5>2. m = Event(script[n - l + 1], "sample", mine, n - l + 1)
          <6>1. 1 \in 1..l
            BY <4>1
          <6>2. QED
            BY <4>1, <5>1, <6>1
        <5>3. Sent = n - l /\ Sent' = n - l + 1
          BY <1>2, <2>1, <4>1, <4>2, <4>3 DEF Sent
        <5>4. IsEventOf(m, mine) /\ m.data = script[n - l + 1] /\ m.place = n - l + 1 /\ m.source = "sample"
          BY <5>2 DEF IsEventOf, Event
        <5>5. QED
          BY <2>1, <4>1, <5>1, <5>3, <5>4
      <4>4. CASE run[mine] # "stream"
        <5>1. ~IsEventOf(m, mine)
          BY <4>1, <4>4 DEF WholeInv, RestInv
        <5>2. Sent = n /\ Sent' = n
          BY <1>2, <4>4 DEF Sent
        <5>3. QED
          BY <5>1, <5>2
      <4>5. QED
        BY <4>3, <4>4
    <3>2. CASE s # mine
      <4>1. ~IsEventOf(m, mine)
        BY <1>1, <1>4, <3>2, NextMessage DEF IsState, IsEventOf
      <4>2. ~Written /\ ~Written'
        BY <1>2, <3>2 DEF Written
      <4>3. Sent' = Sent
        BY <1>2, <4>2 DEF Sent
      <4>4. QED
        BY <4>1, <4>3
    <3>3. QED
      BY <3>1, <3>2
  <2> HIDE DEF m, q
  <2>5. Tells(Append(q, m), b, IF IsEventOf(m, mine) THEN Sent + 1 ELSE Sent, script, mine)
    BY <2>1, <2>3, <2>4, TellsMore
  <2>6. /\ pipe'[socket'] = Append(q, m) /\ script' = script /\ feed' = feed /\ mine' = mine
    BY <1>2, <2>2
  <2>7. /\ Tells(feed', a, b, script', mine') /\ Tells(pipe'[socket'], b, Sent', script', mine')
        /\ a = 0 \/ Len(feed') = MaxEvents
        /\ a \in 0..Len(script') /\ b \in 0..Len(script')
    BY <2>3, <2>4, <2>5, <2>6
  <2>8. Queue(feed') /\ Len(feed') <= MaxEvents
    BY <2>6 DEF WholeInv, ToldInv
  <2>9. ToldInv'
    BY <1>6, <2>7, <2>8 DEF ToldInv, Tells, Counts, Queue, IsEventOf
  <2>10. RestInv'
    <3>1. Queue(script)'
      BY <1>2, <2>1 DEF Queue
    <3>2. QED
      BY <1>2, <3>1 DEF WholeInv, RestInv, IsEventOf, Event
  <2>11. QED
    BY <2>9, <2>10 DEF WholeInv
<1>9. QED
  BY <1>7, <1>8

\* A message more in the feed pushes out the first when there are too many.
LEMMA FeedGrows ==
  ASSUME Queue(feed), Len(feed) <= MaxEvents, NEW m, NEW told, Len(told) \in Nat, NEW r,
         NEW a \in 0..Len(told), NEW b \in 0..Len(told), Tells(feed, a, b, told, r),
         a = 0 \/ Len(feed) = MaxEvents,
         IsEventOf(m, r) => /\ b < Len(told) /\ m.data = told[b + 1] /\ m.place = b + 1
                            /\ m.source = "sample"
  PROVE  /\ Queue(Applied(m)) /\ Len(Applied(m)) <= MaxEvents
         /\ \E c \in 0..Len(told) :
              /\ Tells(Applied(m), c, IF IsEventOf(m, r) THEN b + 1 ELSE b, told, r)
              /\ c = 0 \/ Len(Applied(m)) = MaxEvents
<1> DEFINE longer == Append(feed, m)
           last == IF IsEventOf(m, r) THEN b + 1 ELSE b
<1>1. CASE ~(m.type = "event" /\ m.source = "sample")
  <2>1. Applied(m) = feed /\ ~IsEventOf(m, r)
    BY <1>1 DEF Applied, IsEventOf
  <2>2. QED
    BY <2>1
<1>2. CASE m.type = "event" /\ m.source = "sample"
  <2>1. Applied(m) = SubSeq(longer, IF Len(longer) > MaxEvents THEN 2 ELSE 1, Len(longer))
    BY <1>2 DEF Applied
  <2>2. /\ Queue(longer) /\ Len(longer) = Len(feed) + 1 /\ Len(feed) \in Nat /\ MaxEvents \in Nat
    BY Pushed, MaxEventsAssumption
  <2>3. Tells(longer, a, last, told, r)
    BY TellsMore
  <2> HIDE DEF longer, last
  <2>4. CASE Len(longer) > MaxEvents
    <3>1. longer # << >> /\ Len(longer) = MaxEvents + 1
      BY <2>2, <2>4
    <3>2. Applied(m) = Tail(longer)
      <4> DEFINE S == {longer[i] : i \in DOMAIN longer}
      <4>1. longer \in Seq(S)
        BY <2>2 DEF Queue
      <4> HIDE DEF S
      <4>2. SubSeq(longer, 2, Len(longer)) = Tail(longer)
        BY <3>1, <4>1
      <4>3. QED
        BY <2>1, <2>4, <4>2
    <3>3. Queue(Tail(longer)) /\ Len(Tail(longer)) = MaxEvents
      BY <2>2, <3>1, Popped
    <3>4. \E c \in 0..Len(told) : Tells(Tail(longer), c, last, told, r)
      <4>1. IF IsEventOf(Head(longer), r)
            THEN a \in Nat /\ a < Len(told) /\ Tells(Tail(longer), a + 1, last, told, r)
            ELSE Tells(Tail(longer), a, last, told, r)
        BY <2>2, <2>3, <3>1, TellsFewer
      <4>2. QED
        BY <4>1
    <3>5. QED
      BY <2>2, <3>2, <3>3, <3>4 DEF last
  <2>5. CASE ~(Len(longer) > MaxEvents)
    <3>1. Applied(m) = longer
      <4>1. SubSeq(longer, 1, Len(longer)) = longer
        BY <2>2 DEF Queue
      <4>2. QED
        BY <2>1, <2>5, <4>1
    <3>2. a = 0 /\ Len(longer) <= MaxEvents
      BY <2>2, <2>5
    <3>3. QED
      BY <2>2, <2>3, <3>1, <3>2 DEF last
  <2>6. QED
    BY <2>4, <2>5
<1>3. QED
  BY <1>1, <1>2

\* The page takes a message and applies it.
LEMMA ReceiveTold == ASSUME FeedInv, WholeInv, Receive PROVE WholeInv'
<1>1. HubInv
  BY DEF FeedInv
<1> DEFINE q == pipe[socket]
           m == Head(q)
           n == Len(script)
<1>2. /\ socket \in Conn /\ q # << >> /\ feed' = Applied(m)
      /\ pipe' = [pipe EXCEPT ![socket] = Tail(q)]
      /\ UNCHANGED << clients, mu, todo, link, outbox, run, mine, script, socket, whole >>
  BY DEF Receive, hub, runner, page
<1>3. whole' => whole
  BY <1>2
<1> SUFFICES ASSUME whole, whole' PROVE WholeInv'
  BY <1>3 DEF WholeInv, RestInv, ToldInv
<1>4. Queue(q) /\ Queue(script) /\ n \in Nat
  BY Connected
<1>5. pipe'[socket'] = Tail(q) /\ Sent' = Sent
  BY <1>1, <1>2 DEF HubInv, Sent, Written
<1>6. PICK a \in 0..n, b \in 0..n :
             /\ Tells(feed, a, b, script, mine) /\ Tells(q, b, Sent, script, mine)
             /\ a = 0 \/ Len(feed) = MaxEvents
  BY DEF WholeInv, ToldInv
<1> HIDE DEF q, m
<1> DEFINE last == IF IsEventOf(m, mine) THEN b + 1 ELSE b
<1>7. /\ Tells(Tail(q), last, Sent, script, mine) /\ last \in 0..n
      /\ IsEventOf(m, mine) => /\ b < n /\ m.data = script[b + 1] /\ m.place = b + 1
                               /\ m.source = "sample"
  BY <1>2, <1>4, <1>6, TellsFewer DEF m
<1>8. /\ Queue(feed') /\ Len(feed') <= MaxEvents
      /\ \E e \in 0..n : Tells(feed', e, last, script, mine) /\ (e = 0 \/ Len(feed') = MaxEvents)
  <2>1. Queue(feed) /\ Len(feed) <= MaxEvents
    BY DEF WholeInv, ToldInv
  <2>2. QED
    BY <1>2, <1>4, <1>6, <1>7, <2>1, FeedGrows
<1> HIDE DEF last
<1>9. ToldInv'
  <2>1. PICK e \in 0..n : Tells(feed', e, last, script, mine) /\ (e = 0 \/ Len(feed') = MaxEvents)
    BY <1>8
  <2>2. /\ e \in 0..Len(script') /\ last \in 0..Len(script')
        /\ Tells(feed', e, last, script', mine')
        /\ Tells(pipe'[socket'], last, Sent', script', mine')
        /\ e = 0 \/ Len(feed') = MaxEvents
    BY <1>2, <1>5, <1>7, <2>1
  <2>3. Listening'
    BY <1>2 DEF Listening, WholeInv, ToldInv
  <2>4. QED
    BY <1>8, <2>2, <2>3 DEF ToldInv, Tells, Counts, Queue, IsEventOf
<1>10. RestInv'
  <2>1. Queue(script)'
    BY <1>2, <1>4 DEF Queue
  <2>2. QED
    BY <1>2, <2>1 DEF WholeInv, RestInv, IsEventOf, Event
<1>11. QED
  BY <1>9, <1>10 DEF WholeInv

-------------------------------------------------------------------------------
\* For any sample and any way strace cuts up its trace, any number of connections
\* and of other runs that are broadcast meanwhile, and any pace of the page: when a
\* run of this page has been scored and the page has been connected all along, what
\* its feed shows of the run is what the sample did, in order; what is missing is
\* the beginning, pushed out by MaxEvents newer events (parser.rs,
\* samples.go:129-138, api.ts:203-206).
THEOREM FeedIsTheRun == Spec => []FeedTellsTheRun
<1>1. Init => FeedInv /\ WholeInv
  BY FeedStarts DEF Init, WholeInv, RestInv, ToldInv
<1>2. FeedInv /\ WholeInv /\ [Next]_vars => (FeedInv /\ WholeInv)'
  <2> SUFFICES ASSUME FeedInv, WholeInv, [Next]_vars PROVE FeedInv' /\ WholeInv'
    OBVIOUS
  <2>1. FeedInv'
    BY FeedStep
  <2>2. ASSUME NEW s \in Sender, Sends(s) PROVE WholeInv'
    <3>1. UNCHANGED << runner, monitor, page, view >>
      BY <2>2 DEF Sends
    <3>2. CASE Begin(s)
      BY <3>1, <3>2, BeginTold
    <3>3. ASSUME NEW c \in Conn, Write(s, c) PROVE WholeInv'
      BY <3>1, <3>3, WriteTold
    <3>4. CASE EndBroadcast(s) /\ UNCHANGED << gap, whole >>
      BY <3>1, <3>4, EndTold
    <3>5. QED
      BY <2>2, <3>2, <3>3, <3>4 DEF Sends
  <2>3. ASSUME NEW c \in Conn, Handles(c) PROVE WholeInv'
    BY <2>3, HandlesTold
  <2>4. CASE Upload \/ Receive
    BY <2>1, <2>4, UploadTold, ReceiveTold
  <2>5. CASE OtherRun
    BY <2>1, <2>5, RunsTold
  <2>6. ASSUME NEW r \in Run, Score(r) \/ RunFails(r) \/ Answer(r) PROVE WholeInv'
    BY <2>6, RunsTold, ScoreTold
  <2>7. CASE \/ Isolate \/ TickEnds
             \/ ClickReconnect \/ ServeReconnect \/ AnswerReconnect \/ ReconnectAnswered
             \/ Login \/ Logout \/ ServeStatus \/ StatusAnswered \/ StatusFails
             \/ Open \/ ConnectFails \/ LinkBreaks \/ OnClose \/ Retry \/ UNCHANGED vars
    BY <2>1, <2>7, OtherSteps
  <2>8. QED
    BY <2>1, <2>2, <2>3, <2>4, <2>5, <2>6, <2>7 DEF Next
<1>3. FeedInv /\ WholeInv => FeedTellsTheRun
  <2> DEFINE own == {i \in DOMAIN feed : IsEventOf(feed[i], mine)}
  <2> SUFFICES ASSUME FeedInv, WholeInv, whole, run[mine] = "verdict",
                      \A i \in DOMAIN pipe[socket] : ~IsEventOf(pipe[socket][i], mine)
               PROVE  /\ \A i \in own : feed[i].data = script[feed[i].place]
                      /\ \A i, j \in own : i < j => feed[i].place < feed[j].place
                      /\ \A k \in DOMAIN script :
                           \/ \E i \in own : feed[i].place = k
                           \/ Len(feed) = MaxEvents /\ \A i \in own : feed[i].place > k
    BY DEF FeedTellsTheRun
  <2>1. /\ Queue(script) /\ Len(script) \in Nat /\ Queue(pipe[socket]) /\ Queue(feed)
        /\ Len(pipe[socket]) \in Nat
    BY Connected DEF WholeInv, ToldInv
  <2>2. /\ DOMAIN script = 1..Len(script) /\ DOMAIN feed = 1..Len(feed)
        /\ DOMAIN pipe[socket] = 1..Len(pipe[socket])
    BY <2>1 DEF Queue
  <2>3. PICK a \in 0..Len(script), b \in 0..Len(script) :
               /\ Tells(feed, a, b, script, mine)
               /\ Tells(pipe[socket], b, Len(script), script, mine)
               /\ a = 0 \/ Len(feed) = MaxEvents
    BY DEF ToldInv, WholeInv, Sent
  <2>4. \A k \in (b + 1)..Len(script) :
          \E i \in 1..Len(pipe[socket]) : IsEventOf(pipe[socket][i], mine) /\ pipe[socket][i].place = k
    BY <2>1, <2>3, TellsAll
  <2>5. b = Len(script)
    <3>1. ASSUME b # Len(script) PROVE FALSE
      <4>1. Len(script) \in (b + 1)..Len(script)
        BY <2>1, <3>1
      <4>2. QED
        BY <2>2, <2>4, <4>1
    <3>2. QED
      BY <3>1
  <2>6. /\ a \in Nat
        /\ \A i \in 1..Len(feed) : IsEventOf(feed[i], mine) =>
             /\ feed[i].place \in (a + 1)..Len(script) /\ feed[i].data = script[feed[i].place]
             /\ \A j \in 1..Len(feed) : IsEventOf(feed[j], mine) /\ i < j => feed[i].place < feed[j].place
        /\ \A k \in (a + 1)..Len(script) :
             \E i \in 1..Len(feed) : IsEventOf(feed[i], mine) /\ feed[i].place = k
    <3>1. Tells(feed, a, Len(script), script, mine)
      BY <2>3, <2>5
    <3>2. QED
      BY <2>1, <3>1, TellsAll
  <2>7. ASSUME NEW k \in 1..Len(script)
        PROVE  \/ \E i \in own : feed[i].place = k
               \/ Len(feed) = MaxEvents /\ \A i \in own : feed[i].place > k
    <3>1. CASE k > a
      BY <2>1, <2>2, <2>6, <3>1
    <3>2. CASE ~(k > a)
      <4>1. a # 0 /\ \A i \in own : feed[i].place > k
        BY <2>1, <2>2, <2>6, <3>2
      <4>2. QED
        BY <2>3, <4>1
    <3>3. QED
      BY <3>1, <3>2
  <2>8. QED
    BY <2>2, <2>6, <2>7
<1>4. QED
  BY <1>1, <1>2, <1>3, PTL DEF Spec

-------------------------------------------------------------------------------
(* The types of the hub and the page *)

\* Who holds the hub, where the handlers and the links are, and what fits in a link.
WireTyped ==
  /\ mu \in Sender \cup {Nobody}
  /\ handler \in [Conn -> {"none", "accepted", "reading", "leaving"}]
  /\ link \in [Conn -> {"free", "up", "cut"}]
  /\ \A c \in Conn : Queue(pipe[c]) /\ Len(pipe[c]) <= PipeCap

\* Where the backend's senders are.
StageTyped ==
  /\ run \in [Run -> {"idle", "stream", "verdict"}] /\ src \in [Run -> {"sample", "interceptor"}]
  /\ mine \in Run \cup {NoRun} /\ work \in 0..MaxWork
  /\ tick \in {"idle", "announce"}
  /\ reconnect \in {"idle", "asked", "announce", "refused", "answer"}

\* What the page keeps.
ViewTyped ==
  /\ ws \in {"closed", "connecting", "live", "offline"}
  /\ status \in {"none", "asked", "isolated", "connected"}
  /\ Queue(feed) /\ Len(feed) <= MaxEvents
  /\ whole \in BOOLEAN /\ logins \in 0..MaxLogins /\ faults \in 0..MaxFaults

\* A part of a queue is one.
LEMMA PartOfQueue ==
  ASSUME NEW q, Queue(q), NEW m \in Nat \ {0}
  PROVE  /\ Len(q) \in Nat /\ Queue(SubSeq(q, m, Len(q)))
         /\ Len(SubSeq(q, m, Len(q))) = IF m <= Len(q) THEN Len(q) - m + 1 ELSE 0
<1> DEFINE S == {q[i] : i \in DOMAIN q}
           p == SubSeq(q, m, Len(q))
<1>1. q \in Seq(S)
  BY DEF Queue
<1> HIDE DEF S
<1>2. /\ Len(q) \in Nat /\ p \in Seq(S)
      /\ Len(p) = IF m <= Len(q) THEN Len(q) - m + 1 ELSE 0
  BY <1>1
<1> HIDE DEF p
<1>3. p \in Seq(S) => p \in Seq({p[i] : i \in DOMAIN p})
  OBVIOUS
<1>4. QED
  BY <1>2, <1>3 DEF Queue, p

\* One link's queue is exchanged for another that fits.
LEMMA PipeTyped ==
  ASSUME HubInv, WireTyped, NEW c \in Conn, NEW q, Queue(q), Len(q) <= PipeCap,
         pipe' = [pipe EXCEPT ![c] = q]
  PROVE  \A d \in Conn : Queue(pipe'[d]) /\ Len(pipe'[d]) <= PipeCap
<1>1. DOMAIN pipe = Conn
  BY DEF HubInv
<1>2. \A d \in Conn : pipe'[d] = IF d = c THEN q ELSE pipe[d]
  BY <1>1
<1>3. QED
  BY <1>2 DEF WireTyped

\* The link of one socket breaks, and what was under way is lost.
LEMMA CutTyped ==
  ASSUME HubInv, WireTyped, NEW c \in Conn, CutLink(c), UNCHANGED << mu, handler >>
  PROVE  WireTyped'
<1>1. link' \in [Conn -> {"free", "up", "cut"}]
  BY DEF CutLink, WireTyped
<1>2. Queue(<< >>) /\ Len(<< >>) <= PipeCap
  BY BoundsAssumption DEF Queue
<1>3. \A d \in Conn : Queue(pipe'[d]) /\ Len(pipe'[d]) <= PipeCap
  BY <1>2, PipeTyped DEF CutLink
<1>4. QED
  BY <1>1, <1>3 DEF WireTyped

\* A broadcast never puts more into a link than fits.
LEMMA WriteTyped ==
  ASSUME HubInv, WireTyped, NEW s \in Sender, NEW c \in Conn, Write(s, c)
  PROVE  WireTyped'
<1>1. UNCHANGED << mu, handler, link >>
  BY DEF Write, WriteMessage
<1>2. \A d \in Conn : Queue(pipe'[d]) /\ Len(pipe'[d]) <= PipeCap
  <2>1. CASE UNCHANGED pipe
    BY <2>1 DEF WireTyped
  <2>2. CASE Len(pipe[c]) < PipeCap /\ pipe' = [pipe EXCEPT ![c] = Append(@, Message(s))]
    <3> DEFINE q == Append(pipe[c], Message(s))
    <3>1. Queue(q) /\ Len(q) = Len(pipe[c]) + 1 /\ Len(pipe[c]) \in Nat
      BY Pushed DEF WireTyped
    <3>2. pipe' = [pipe EXCEPT ![c] = q]
      BY <2>2
    <3>3. Len(q) <= PipeCap
      BY <2>2, <3>1, BoundsAssumption
    <3> HIDE DEF q
    <3>4. QED
      BY <3>1, <3>2, <3>3, PipeTyped
  <2>3. QED
    BY <2>1, <2>2 DEF Write, WriteMessage
<1>3. QED
  BY <1>1, <1>2 DEF WireTyped

\* Steps of handlers, senders and browsers keep the types of the hub.
LEMMA WireStep == HubInv /\ PageInv /\ WireTyped /\ [Next]_vars => WireTyped'
<1> SUFFICES ASSUME HubInv, PageInv, WireTyped, [Next]_vars PROVE WireTyped'
  OBVIOUS
<1>1. ASSUME UNCHANGED << hub, wire >> PROVE WireTyped'
  BY <1>1 DEF hub, wire, WireTyped
<1>2. CASE \/ OtherRun \/ Upload \/ \E r \in Run : Score(r) \/ RunFails(r) \/ Answer(r)
           \/ Isolate \/ TickEnds
           \/ ClickReconnect \/ ServeReconnect \/ AnswerReconnect \/ ReconnectAnswered
           \/ Login \/ ServeStatus \/ StatusAnswered \/ StatusFails
           \/ ConnectFails \/ OnClose \/ Retry \/ UNCHANGED vars
  <2>1. UNCHANGED << hub, wire >>
    BY <1>2 DEF OtherRun, Upload, StartRun, Score, RunFails, Answer, RunEnds, Isolate, TickEnds,
                ClickReconnect, ServeReconnect, AnswerReconnect, ReconnectAnswered, Login,
                ServeStatus, StatusAnswered, StatusFails, ConnectFails, OnClose, Retry,
                vars, server
  <2>2. QED
    BY <1>1, <2>1
<1>3. ASSUME NEW c \in Conn, Handles(c) PROVE WireTyped'
  <2>1. UNCHANGED << mu, pipe >>
    BY <1>3 DEF Handles, Register, ReadFails, Unregister, wire
  <2>2. handler' \in [Conn -> {"none", "accepted", "reading", "leaving"}]
    BY <1>3 DEF Handles, Register, ReadFails, Unregister, WireTyped
  <2>3. link' \in [Conn -> {"free", "up", "cut"}]
    BY <1>3 DEF Handles, Register, ReadFails, Unregister, WireTyped, wire
  <2>4. QED
    BY <2>1, <2>2, <2>3 DEF WireTyped
<1>4. ASSUME NEW s \in Sender, Sends(s) PROVE WireTyped'
  <2>1. CASE Begin(s)
    BY <1>4, <2>1 DEF Begin, StartBroadcast, WireTyped, wire
  <2>2. ASSUME NEW c \in Conn, Write(s, c) PROVE WireTyped'
    BY <2>2, WriteTyped
  <2>3. CASE EndBroadcast(s)
    BY <2>3 DEF EndBroadcast, WireTyped, wire
  <2>4. QED
    BY <1>4, <2>1, <2>2, <2>3 DEF Sends
<1>5. CASE Open
  <2>1. PICK c \in Conn : Upgrade(c)
    BY <1>5 DEF Open
  <2>2. QED
    BY <2>1 DEF Upgrade, WireTyped
<1>6. CASE Logout
  <2>1. UNCHANGED hub /\ ((socket \in Conn /\ CutLink(socket)) \/ UNCHANGED wire)
    BY <1>6 DEF Logout
  <2>2. QED
    BY <1>1, <2>1, CutTyped DEF hub
<1>7. CASE LinkBreaks
  BY <1>7, CutTyped DEF LinkBreaks, hub
<1>8. CASE Receive
  <2>1. /\ socket \in Conn /\ pipe[socket] # << >>
        /\ pipe' = [pipe EXCEPT ![socket] = Tail(@)] /\ UNCHANGED << mu, handler, link >>
    BY <1>8 DEF Receive, hub
  <2>2. Queue(pipe[socket]) /\ Len(pipe[socket]) <= PipeCap
    BY <2>1 DEF WireTyped
  <2> DEFINE q == Tail(pipe[socket])
  <2>3. Queue(q) /\ Len(q) = Len(pipe[socket]) - 1 /\ Len(pipe[socket]) \in Nat
    BY <2>1, <2>2, Popped
  <2>4. pipe' = [pipe EXCEPT ![socket] = q]
    BY <2>1
  <2>5. Len(q) <= PipeCap
    BY <2>2, <2>3, BoundsAssumption
  <2> HIDE DEF q
  <2>6. \A d \in Conn : Queue(pipe'[d]) /\ Len(pipe'[d]) <= PipeCap
    BY <2>1, <2>3, <2>4, <2>5, PipeTyped
  <2>7. QED
    BY <2>1, <2>6 DEF WireTyped
<1>9. QED
  BY <1>2, <1>3, <1>4, <1>5, <1>6, <1>7, <1>8 DEF Next

\* The senders go from one stage to another.
LEMMA StageStep == StageTyped /\ [Next]_vars => StageTyped'
<1> SUFFICES ASSUME StageTyped, [Next]_vars PROVE StageTyped'
  OBVIOUS
<1>1. ASSUME UNCHANGED << run, src, mine, work, tick, reconnect >> PROVE StageTyped'
  BY <1>1 DEF StageTyped
<1>2. CASE \/ Login \/ ServeStatus \/ StatusAnswered \/ StatusFails
           \/ Open \/ ConnectFails \/ LinkBreaks \/ OnClose \/ Retry \/ Receive \/ UNCHANGED vars
           \/ \E c \in Conn : Handles(c)
           \/ \E s \in Sender : Sends(s)
  <2>1. UNCHANGED << runner, monitor, work >>
    BY <1>2 DEF Login, ServeStatus, StatusAnswered, StatusFails, Open, ConnectFails,
                LinkBreaks, OnClose, Retry, Receive, Handles, Sends, vars, server
  <2>2. QED
    BY <1>1, <2>1 DEF runner, monitor
<1>3. ASSUME Work PROVE work' \in 0..MaxWork
  BY <1>3, BoundsAssumption DEF Work, StageTyped
<1>4. CASE Logout
  BY <1>4 DEF Logout, Forget, StageTyped, monitor
<1>5. ASSUME NEW r \in Run, NEW source \in {"sample", "interceptor"}, NEW own,
             StartRun(r, source, own), mine' \in Run \cup {NoRun}
      PROVE  StageTyped'
  <2>1. /\ run' = [run EXCEPT ![r] = "stream"] /\ src' = [src EXCEPT ![r] = source]
        /\ UNCHANGED << tick, reconnect >>
    BY <1>5 DEF StartRun, monitor
  <2>2. work' \in 0..MaxWork
    BY <1>3, <1>5 DEF StartRun
  <2>3. QED
    BY <1>5, <2>1, <2>2 DEF StageTyped
<1>6. CASE OtherRun
  <2>1. PICK r \in Run, source \in {"sample", "interceptor"} : StartRun(r, source, FALSE)
    BY <1>6 DEF OtherRun
  <2>2. mine' \in Run \cup {NoRun}
    BY <1>6 DEF OtherRun, StageTyped
  <2>3. QED
    BY <1>5, <2>1, <2>2
<1>7. CASE Upload
  <2>1. PICK r \in Run : StartRun(r, "sample", TRUE) /\ mine' = r
    BY <1>7 DEF Upload
  <2>2. QED
    BY <1>5, <2>1
<1>8. ASSUME NEW r \in Run, RunFails(r) \/ Answer(r) PROVE StageTyped'
  <2>1. mine' \in {mine, NoRun}
    BY <1>8 DEF RunFails, Answer, RunEnds, Forget
  <2>2. /\ run' = [run EXCEPT ![r] = "idle"] /\ src' = [src EXCEPT ![r] = "sample"]
        /\ UNCHANGED << tick, reconnect, work >>
    BY <1>8 DEF RunFails, Answer, RunEnds, monitor
  <2>3. QED
    BY <2>1, <2>2 DEF StageTyped
<1>9. ASSUME NEW r \in Run, Score(r) PROVE StageTyped'
  BY <1>9 DEF Score, StageTyped, monitor
<1>10. CASE Isolate
  <2>1. tick' = "announce" /\ UNCHANGED << run, src, mine, reconnect >> /\ Work
    BY <1>10 DEF Isolate, runner
  <2>2. QED
    BY <1>3, <2>1 DEF StageTyped
<1>11. CASE TickEnds \/ ClickReconnect \/ AnswerReconnect \/ ReconnectAnswered
  BY <1>11 DEF TickEnds, ClickReconnect, AnswerReconnect, ReconnectAnswered, StageTyped, runner
<1>12. CASE ServeReconnect
  <2>1. reconnect' \in {"refused", "announce"} /\ UNCHANGED << run, src, mine, work, tick >>
    BY <1>12 DEF ServeReconnect, runner
  <2>2. QED
    BY <2>1 DEF StageTyped
<1>13. QED
  BY <1>2, <1>4, <1>6, <1>7, <1>8, <1>9, <1>10, <1>11, <1>12 DEF Next

\* The feed never grows beyond what it keeps.
LEMMA AppliedTyped ==
  ASSUME ViewTyped, NEW m
  PROVE  Queue(Applied(m)) /\ Len(Applied(m)) <= MaxEvents
<1>1. Queue(feed) /\ Len(feed) <= MaxEvents
  BY DEF ViewTyped
<1>2. CASE ~(m.type = "event" /\ m.source = "sample")
  BY <1>1, <1>2 DEF Applied
<1>3. CASE m.type = "event" /\ m.source = "sample"
  <2> DEFINE longer == Append(feed, m)
             from == IF Len(longer) > MaxEvents THEN 2 ELSE 1
  <2>1. Applied(m) = SubSeq(longer, from, Len(longer))
    BY <1>3 DEF Applied
  <2>2. Queue(longer) /\ Len(longer) = Len(feed) + 1 /\ Len(feed) \in Nat
    BY <1>1, Pushed
  <2> HIDE DEF longer
  <2>3. from \in {1, 2}
    OBVIOUS
  <2>4. /\ Queue(SubSeq(longer, from, Len(longer)))
        /\ Len(SubSeq(longer, from, Len(longer)))
             = IF from <= Len(longer) THEN Len(longer) - from + 1 ELSE 0
    <3> HIDE DEF from
    <3>1. QED
      BY <2>2, <2>3, PartOfQueue
  <2>5. Len(SubSeq(longer, from, Len(longer))) <= MaxEvents
    BY <1>1, <2>2, <2>4, MaxEventsAssumption
  <2>6. QED
    BY <2>1, <2>4, <2>5
<1>4. QED
  BY <1>2, <1>3

\* The page's own steps, and what the senders' steps do to it.
LEMMA ViewStep == ViewTyped /\ [Next]_vars => ViewTyped'
<1> SUFFICES ASSUME ViewTyped, [Next]_vars PROVE ViewTyped'
  OBVIOUS
<1>1. ASSUME UNCHANGED << ws, status, logins, feed >>, UNCHANGED faults \/ Fault, whole' \in BOOLEAN
      PROVE  ViewTyped'
  <2>1. faults' \in 0..MaxFaults
    BY <1>1, BoundsAssumption DEF Fault, ViewTyped
  <2>2. QED
    BY <1>1, <2>1 DEF ViewTyped, Queue
<1>2. whole \in BOOLEAN /\ FALSE \in BOOLEAN
  BY DEF ViewTyped
<1>3. CASE \/ (\E r \in Run : Score(r)) \/ Isolate \/ TickEnds \/ ClickReconnect \/ ServeReconnect \/ AnswerReconnect
           \/ ReconnectAnswered \/ UNCHANGED vars \/ \E c \in Conn : Handles(c)
  <2>1. UNCHANGED << ws, status, logins, feed, faults, whole >>
    BY <1>3 DEF Score, Isolate, TickEnds, ClickReconnect, ServeReconnect, AnswerReconnect,
                ReconnectAnswered, Handles, page, view, vars
  <2>2. QED
    BY <1>1, <1>2, <2>1
<1>4. CASE OtherRun
  <2>1. UNCHANGED << ws, status, logins, feed, faults, whole >>
    BY <1>4 DEF OtherRun, StartRun, page
  <2>2. QED
    BY <1>1, <1>2, <2>1
<1>5. CASE Upload
  <2>1. UNCHANGED << ws, status, logins, faults >> /\ feed' = << >>
    BY <1>5 DEF Upload, StartRun, page
  <2>2. whole' \in BOOLEAN
    BY <1>5, Zenon DEF Upload, Listening
  <2>3. Queue(<< >>) /\ Len(<< >>) <= MaxEvents
    BY MaxEventsAssumption DEF Queue
  <2>4. QED
    BY <2>1, <2>2, <2>3 DEF ViewTyped, Queue
<1>6. ASSUME NEW r \in Run, RunFails(r) \/ Answer(r) PROVE ViewTyped'
  <2>1. RunEnds(r) /\ (UNCHANGED faults \/ Fault)
    BY <1>6 DEF RunFails, Answer
  <2>2. whole' \in {whole, FALSE}
    BY <2>1 DEF RunEnds, Forget
  <2>3. QED
    BY <1>1, <1>2, <2>1, <2>2 DEF RunEnds, page, view
<1>7. ASSUME NEW s \in Sender, Sends(s) PROVE ViewTyped'
  <2>1. UNCHANGED << ws, status, logins, feed, faults >>
    BY <1>7 DEF Sends, page, view
  <2>2. whole' \in {whole, whole /\ Listening}
    BY <1>7, Zenon DEF Sends, Begin, Write
  <2>3. whole' \in BOOLEAN
    BY <1>2, <2>2, Zenon
  <2>4. QED
    BY <1>1, <2>1, <2>3
<1>8. CASE Login
  <2>1. /\ ws' = "connecting" /\ status' = "asked" /\ logins < MaxLogins /\ logins' = logins + 1
        /\ UNCHANGED << feed, whole, faults >>
    BY <1>8 DEF Login
  <2>2. logins' \in 0..MaxLogins
    BY <2>1, BoundsAssumption DEF ViewTyped
  <2>3. QED
    BY <2>1, <2>2 DEF ViewTyped, Queue
<1>9. CASE Logout
  <2>1. ws' = "closed" /\ UNCHANGED << status, feed, logins, faults >>
    BY <1>9 DEF Logout, view
  <2>2. whole' \in BOOLEAN
    BY <1>9, Zenon DEF Logout, Forget
  <2>3. QED
    BY <2>1, <2>2 DEF ViewTyped, Queue
<1>10. CASE ServeStatus \/ StatusAnswered
  <2>1. /\ status' \in {"none", "isolated", "connected"}
        /\ UNCHANGED << ws, logins, feed, whole, faults >>
    BY <1>10 DEF ServeStatus, StatusAnswered, page
  <2>2. QED
    BY <2>1 DEF ViewTyped, Queue
<1>11. CASE StatusFails
  <2>1. status' = "none" /\ Fault /\ UNCHANGED << ws, logins, feed, whole >>
    BY <1>11 DEF StatusFails, page
  <2>2. faults' \in 0..MaxFaults
    BY <2>1, BoundsAssumption DEF Fault, ViewTyped
  <2>3. QED
    BY <2>1, <2>2 DEF ViewTyped, Queue
<1>12. CASE Open \/ OnClose \/ Retry
  <2>1. ws' \in {"live", "offline", "connecting"} /\ UNCHANGED << logins, status, feed, whole, faults >>
    BY <1>12 DEF Open, OnClose, Retry, view
  <2>2. QED
    BY <2>1 DEF ViewTyped, Queue
<1>13. CASE ConnectFails
  <2>1. ws' = "offline" /\ Fault /\ UNCHANGED << logins, status, feed, whole >>
    BY <1>13 DEF ConnectFails, view
  <2>2. faults' \in 0..MaxFaults
    BY <2>1, BoundsAssumption DEF Fault, ViewTyped
  <2>3. QED
    BY <2>1, <2>2 DEF ViewTyped, Queue
<1>14. CASE LinkBreaks
  <2>1. Fault /\ UNCHANGED << ws, status, logins, feed >>
    BY <1>14 DEF LinkBreaks, page, view
  <2>2. whole' \in BOOLEAN
    BY <1>14, Zenon DEF LinkBreaks
  <2>3. QED
    BY <1>1, <2>1, <2>2
<1>15. CASE Receive
  <2>1. feed' = Applied(Head(pipe[socket])) /\ UNCHANGED << ws, status, logins, whole, faults >>
    BY <1>15 DEF Receive, page
  <2>2. Queue(feed') /\ Len(feed') <= MaxEvents
    BY <2>1, AppliedTyped
  <2>3. QED
    BY <2>1, <2>2 DEF ViewTyped, Queue
<1>16. QED
  BY <1>3, <1>4, <1>5, <1>6, <1>7, <1>8, <1>9, <1>10, <1>11, <1>12, <1>13, <1>14, <1>15 DEF Next

\* For any connections, samples and bounds, every variable of the hub and the page
\* keeps its type: in particular no link is given more than fits between
\* WriteMessage and a browser that is not reading, and the feed never shows more
\* than MAX_EVENTS (hub.go:62-77, api.ts:203-206).
THEOREM TypeCorrect == Spec => []TypeOK
<1>1. Init => FeedInv /\ WireTyped /\ StageTyped /\ ViewTyped
  <2> SUFFICES ASSUME Init PROVE WireTyped /\ StageTyped /\ ViewTyped
    BY FeedStarts
  <2>1. Queue(<< >>) /\ Len(<< >>) = 0
    BY DEF Queue
  <2>2. WireTyped
    BY <2>1, BoundsAssumption DEF Init, HubInit, WireTyped
  <2>3. mine \in Run \cup {NoRun} /\ whole \in BOOLEAN
    BY Zenon DEF Init
  <2>4. StageTyped
    BY <2>3, BoundsAssumption DEF Init, StageTyped
  <2>5. ViewTyped
    BY <2>1, <2>3, BoundsAssumption, MaxEventsAssumption DEF Init, ViewTyped
  <2>6. QED
    BY <2>2, <2>4, <2>5
<1>2. FeedInv /\ WireTyped /\ StageTyped /\ ViewTyped /\ [Next]_vars
        => (FeedInv /\ WireTyped /\ StageTyped /\ ViewTyped)'
  BY FeedStep, WireStep, StageStep, ViewStep DEF FeedInv
<1>3. FeedInv /\ WireTyped /\ StageTyped /\ ViewTyped => TypeOK
  <2> SUFFICES ASSUME HubInv, PageInv, WireTyped, StageTyped, ViewTyped PROVE TypeOK
    BY DEF FeedInv
  <2>1. clients \subseteq Conn /\ todo \subseteq clients
    BY DEF HubInv
  <2>2. {isolated, user, banner, whole, gap} \subseteq BOOLEAN
    BY DEF PageInv, StageTyped, ViewTyped
  <2>3. socket \in Conn \cup {NoConn}
    BY DEF PageInv
  <2>4. QED
    BY <2>1, <2>2, <2>3 DEF WireTyped, StageTyped, ViewTyped, TypeOK
<1>4. QED
  BY <1>1, <1>2, <1>3, PTL DEF Spec
===============================================================================
