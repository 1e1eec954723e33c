--------------------------- MODULE DataPathProofs ---------------------------
(***************************************************************************)
(* Proofs about the data paths: UdpSessions for any number of session ids  *)
(* and objects; that UdpPath, which adds the contents of packets,          *)
(* implements it, and that the fragments of a reply are the reply; the     *)
(* fragment table of UdpReassembler for any set of keys, any table size,   *)
(* any number of fragments and any timeout; and TcpStream, the way of a    *)
(* stream through header, connection and relay, for any clients, answers   *)
(* and addresses.                                                          *)
(*                                                                         *)
(* The codecs of Wire, on which both paths rest, come first: FlattenSeq,   *)
(* the readers, integers and varints are recursive or read prefixes, and   *)
(* each decoder is shown to undo its encoder.                              *)
(* Induction is over sets of numbers (SetInduction), and an equation       *)
(* between sequences is kept behind a predicate such as Joins.             *)
(***************************************************************************)
EXTENDS UdpPath, UdpReassembler, TcpStream,
        SequenceTheorems, WellFoundedInduction, FiniteSetTheorems, TLAPS

----------------------------------------------------------------------------
(* Induction and recursion.                                                 *)

\* Induction over the naturals, for a set.
LEMMA SetInduction ==
    ASSUME NEW S, 0 \in S, \A n \in Nat : n \in S => n + 1 \in S
    PROVE  Nat \subseteq S
  <1> SUFFICES ASSUME Nat \ S # {} PROVE FALSE
    OBVIOUS
  <1>1. PICK x \in Nat \ S : \A y \in Nat \ S : <<y, x>> \notin OpToRel(<, Nat)
    BY WFMin, NatLessThanWellFounded
  <1>2. x - 1 \in Nat /\ x - 1 \notin S
    OBVIOUS
  <1>3. <<x - 1, x>> \in OpToRel(<, Nat)
    BY <1>2 DEF OpToRel
  <1> QED BY <1>1, <1>2, <1>3

\* f is what recursion makes of start and step, up to m.
Recursive(f, start, step, m) ==
    f = [n \in 0 .. m |-> IF n = 0 THEN start ELSE step[n][f[n - 1]]]

\* A recursion over 0 .. m whose step is a function defines a function.
LEMMA RecursionExists ==
    ASSUME NEW V, NEW start \in V, NEW step \in [Nat -> [V -> V]]
    PROVE  \A m \in Nat : \E f \in [0 .. m -> V] : Recursive(f, start, step, m)
  <1> DEFINE S == {m \in Nat : \E f \in [0 .. m -> V] : Recursive(f, start, step, m)}
  <1>1. 0 \in S
    <2> DEFINE f == [n \in 0 .. 0 |-> start]
    <2>1. Recursive(f, start, step, 0) /\ f \in [0 .. 0 -> V]
      BY DEF Recursive
    <2> QED BY <2>1
  <1>2. ASSUME NEW m \in Nat, m \in S PROVE m + 1 \in S
    <2>1. PICK f \in [0 .. m -> V] : Recursive(f, start, step, m)
      BY <1>2
    <2> DEFINE g == [n \in 0 .. m + 1 |-> IF n = m + 1 THEN step[n][f[m]] ELSE f[n]]
    <2>2. \A n \in 0 .. m : g[n] = f[n]
      OBVIOUS
    <2>3. \A n \in 0 .. m : f[n] = IF n = 0 THEN start ELSE step[n][f[n - 1]]
      BY <2>1 DEF Recursive
    <2>4. g[m + 1] = step[m + 1][f[m]]
      OBVIOUS
    <2>5. DOMAIN g = 0 .. m + 1 /\ g = [n \in 0 .. m + 1 |-> g[n]]
      OBVIOUS
    <2>6. g \in [0 .. m + 1 -> V]
      <3>1. step[m + 1] \in [V -> V] /\ f[m] \in V
        OBVIOUS
      <3>2. step[m + 1][f[m]] \in V
        BY <3>1
      <3> QED BY <3>2
    <2> HIDE DEF g
    <2>7. \A n \in 0 .. m + 1 : g[n] = IF n = 0 THEN start ELSE step[n][g[n - 1]]
      <3> SUFFICES ASSUME NEW n \in 0 .. m + 1
                   PROVE  g[n] = IF n = 0 THEN start ELSE step[n][g[n - 1]]
        OBVIOUS
      <3>1. CASE n = m + 1
        <4>1. g[n - 1] = f[m] /\ n # 0
          BY <2>2, <3>1
        <4> QED BY <2>4, <3>1, <4>1
      <3>2. CASE n \in 0 .. m
        <4>1. n # 0 => n - 1 \in 0 .. m
          BY <3>2
        <4> QED BY <2>2, <2>3, <3>2, <4>1
      <3> QED BY <3>1, <3>2
    <2>8. Recursive(g, start, step, m + 1)
      BY <2>5, <2>7 DEF Recursive
    <2> QED BY <2>6, <2>8
  <1>3. Nat \subseteq S
    <2> HIDE DEF S
    <2> QED BY <1>1, <1>2, SetInduction
  <1> QED BY <1>3

----------------------------------------------------------------------------
(* Slices.                                                                  *)

\* A slice is its first n bytes followed by the rest.
LEMMA TakenDropped ==
    ASSUME NEW E, NEW s \in Seq(E), NEW n \in 0 .. Len(s)
    PROVE  /\ Taken(s, n) \in Seq(E) /\ Len(Taken(s, n)) = n
           /\ Dropped(s, n) \in Seq(E) /\ Len(Dropped(s, n)) = Len(s) - n
           /\ \A i \in 1 .. n : Taken(s, n)[i] = s[i]
           /\ \A i \in 1 .. Len(s) - n : Dropped(s, n)[i] = s[n + i]
           /\ Taken(s, n) \o Dropped(s, n) = s
  <1>1. /\ Taken(s, n) \in Seq(E) /\ Len(Taken(s, n)) = n
        /\ \A i \in 1 .. n : Taken(s, n)[i] = s[i]
    <2>1. \A i \in 1 .. n : s[i] \in E
      OBVIOUS
    <2>2. /\ SubSeq(s, 1, n) \in Seq(E)
          /\ Len(SubSeq(s, 1, n)) = IF 1 <= n THEN n - 1 + 1 ELSE 0
          /\ \A i \in 1 .. n - 1 + 1 : SubSeq(s, 1, n)[i] = s[1 + i - 1]
      BY <2>1, SubSeqProperties
    <2> QED BY <2>2 DEF Taken
  <1>2. /\ Dropped(s, n) \in Seq(E) /\ Len(Dropped(s, n)) = Len(s) - n
        /\ \A i \in 1 .. Len(s) - n : Dropped(s, n)[i] = s[n + i]
    <2>1. \A i \in n + 1 .. Len(s) : s[i] \in E
      OBVIOUS
    <2>2. /\ SubSeq(s, n + 1, Len(s)) \in Seq(E)
          /\ Len(SubSeq(s, n + 1, Len(s))) = IF n + 1 <= Len(s) THEN Len(s) - (n + 1) + 1 ELSE 0
          /\ \A i \in 1 .. Len(s) - (n + 1) + 1 :
               SubSeq(s, n + 1, Len(s))[i] = s[(n + 1) + i - 1]
      BY <2>1, SubSeqProperties
    <2> QED BY <2>2 DEF Dropped
  <1>3. Taken(s, n) \o Dropped(s, n) = s
    <2>1. 1 \in 1 .. Len(s) + 1 /\ n \in 1 - 1 .. Len(s) /\ Len(s) \in n .. Len(s)
      OBVIOUS
    <2>2. SubSeq(s, 1, n) \o SubSeq(s, n + 1, Len(s)) = SubSeq(s, 1, Len(s))
      BY <2>1, ConcatAdjacentSubSeq
    <2> QED BY <2>2, SubSeqFull DEF Taken, Dropped
  <1> QED BY <1>1, <1>2, <1>3

\* What follows a slice does not matter to the first n bytes of it.
LEMMA TakenOfConcat ==
    ASSUME NEW E, NEW x \in Seq(E), NEW z \in Seq(E), NEW n \in 0 .. Len(x)
    PROVE  /\ Taken(x \o z, n) = Taken(x, n)
           /\ Dropped(x \o z, n) = Dropped(x, n) \o z
  <1>0. PICK y : y = x \o z
    OBVIOUS
  <1>1. /\ y = x \o z /\ y \in Seq(E) /\ Len(y) = Len(x) + Len(z)
        /\ \A i \in 1 .. Len(x) + Len(z) : y[i] = IF i <= Len(x) THEN x[i] ELSE z[i - Len(x)]
    BY <1>0, ConcatProperties
  <1>2. Len(x) \in Nat /\ Len(z) \in Nat /\ n \in 0 .. Len(y)
    BY <1>1
  <1>3. /\ Taken(x, n) \in Seq(E) /\ Len(Taken(x, n)) = n
        /\ Dropped(x, n) \in Seq(E) /\ Len(Dropped(x, n)) = Len(x) - n
        /\ \A i \in 1 .. n : Taken(x, n)[i] = x[i]
        /\ \A i \in 1 .. Len(x) - n : Dropped(x, n)[i] = x[n + i]
    BY TakenDropped
  <1>4. /\ Taken(y, n) \in Seq(E) /\ Len(Taken(y, n)) = n
        /\ Dropped(y, n) \in Seq(E) /\ Len(Dropped(y, n)) = Len(y) - n
        /\ \A i \in 1 .. n : Taken(y, n)[i] = y[i]
        /\ \A i \in 1 .. Len(y) - n : Dropped(y, n)[i] = y[n + i]
    BY <1>1, <1>2, TakenDropped
  <1>5. Taken(y, n) = Taken(x, n)
    <2>1. \A i \in 1 .. n : Taken(y, n)[i] = Taken(x, n)[i]
      BY <1>1, <1>2, <1>3, <1>4
    <2> QED BY <1>3, <1>4, <2>1, SeqEqual
  <1>6. Dropped(y, n) = Dropped(x, n) \o z
    <2>1. PICK d : d = Dropped(x, n)
      OBVIOUS
    <2>2. d \in Seq(E) /\ Len(d) = Len(x) - n /\ \A i \in 1 .. Len(x) - n : d[i] = x[n + i]
      BY <1>3, <2>1
    <2>0. PICK w : w = d \o z
      OBVIOUS
    <2>3. /\ w = d \o z /\ w \in Seq(E) /\ Len(w) = Len(d) + Len(z)
          /\ \A i \in 1 .. Len(d) + Len(z) :
               w[i] = IF i <= Len(d) THEN d[i] ELSE z[i - Len(d)]
      BY <2>0, <2>2, ConcatProperties
    <2>4. \A i \in 1 .. Len(w) : Dropped(y, n)[i] = w[i]
      <3> SUFFICES ASSUME NEW i \in 1 .. Len(w) PROVE Dropped(y, n)[i] = w[i]
        OBVIOUS
      <3>0. i \in Int /\ 1 <= i /\ i <= Len(x) - n + Len(z)
        BY <1>2, <2>2, <2>3
      <3>1. Dropped(y, n)[i] = y[n + i]
        BY <1>1, <1>2, <1>4, <3>0
      <3>2. y[n + i] = IF n + i <= Len(x) THEN x[n + i] ELSE z[n + i - Len(x)]
        BY <1>1, <1>2, <3>0
      <3>3. w[i] = IF i <= Len(d) THEN d[i] ELSE z[i - Len(d)]
        BY <1>2, <2>2, <2>3
      <3>4. CASE n + i <= Len(x)
        BY <1>2, <2>2, <3>0, <3>1, <3>2, <3>3, <3>4, SMTT(60)
      <3>5. CASE n + i > Len(x)
        <4>1. n + i - Len(x) = i - Len(d) /\ ~(i <= Len(d)) /\ ~(n + i <= Len(x))
          BY <1>2, <2>2, <3>0, <3>5
        <4> QED BY <3>1, <3>2, <3>3, <4>1
      <3> QED BY <1>2, <3>0, <3>4, <3>5
    <2>5. Len(Dropped(y, n)) = Len(w)
      BY <1>1, <1>2, <1>4, <2>2, <2>3
    <2>6. Dropped(y, n) = w
      BY <1>4, <2>3, <2>4, <2>5, SeqEqual
    <2> QED BY <2>1, <2>3, <2>6
  <1> QED BY <1>1, <1>5, <1>6

\* A concatenation is cut where it was joined.
LEMMA ConcatCut ==
    ASSUME NEW E, NEW x \in Seq(E), NEW z \in Seq(E)
    PROVE  Taken(x \o z, Len(x)) = x /\ Dropped(x \o z, Len(x)) = z
  <1>1. /\ Taken(x \o z, Len(x)) = Taken(x, Len(x))
        /\ Dropped(x \o z, Len(x)) = Dropped(x, Len(x)) \o z
    <2>1. Len(x) \in 0 .. Len(x)
      OBVIOUS
    <2> QED BY <2>1, TakenOfConcat
  <1>2. Taken(x, Len(x)) = x
    BY SubSeqFull DEF Taken
  <1>3. Dropped(x, Len(x)) = <<>>
    BY SubSeqEmpty DEF Dropped
  <1>4. <<>> \o z = z
    OBVIOUS
  <1> QED BY <1>1, <1>2, <1>3, <1>4

\* A sequence that starts like another is a prefix of it.
LEMMA ConcatPrefix ==
    ASSUME NEW E, NEW x \in Seq(E), NEW z \in Seq(E)
    PROVE  IsPrefix(x, x \o z)
  <1>1. Len(x) <= Len(x \o z)
    OBVIOUS
  <1>2. SubSeq(x \o z, 1, Len(x)) = x
    BY ConcatCut DEF Taken
  <1>3. SubSeq(x, 1, Len(x)) = x
    BY SubSeqFull
  <1> QED BY <1>1, <1>2, <1>3 DEF IsPrefix

\* And a prefix is followed by the rest.
LEMMA PrefixRest ==
    ASSUME NEW E, NEW x \in Seq(E), NEW y \in Seq(E), IsPrefix(x, y)
    PROVE  y = x \o Dropped(y, Len(x)) /\ Dropped(y, Len(x)) \in Seq(E)
  <1>1. Len(x) \in 0 .. Len(y) /\ SubSeq(x, 1, Len(x)) = SubSeq(y, 1, Len(x))
    BY DEF IsPrefix
  <1>2. x = Taken(y, Len(x))
    BY <1>1, SubSeqFull DEF Taken
  <1>3. Taken(y, Len(x)) \o Dropped(y, Len(x)) = y /\ Dropped(y, Len(x)) \in Seq(E)
    BY <1>1, TakenDropped
  <1> QED BY <1>2, <1>3

----------------------------------------------------------------------------
(* FlattenSeq.                                                              *)

\* The function flatten of FlattenSeq, and what it computes one after another.
Flattening(h, s) == h = [i \in 1 .. Len(s) |-> IF i = 1 THEN s[i] ELSE h[i - 1] \o s[i]]
\* What flatten has after n pieces.
Chain(f, s) == f[0] = <<>> /\ \A n \in 1 .. Len(s) : f[n] = f[n - 1] \o s[n]

\* There is such a chain.
LEMMA ChainExists ==
    ASSUME NEW E, NEW s \in Seq(Seq(E))
    PROVE  \E f \in [0 .. Len(s) -> Seq(E)] : Chain(f, s)
  <1> DEFINE step == [n \in Nat |-> [v \in Seq(E) |-> IF n \in 1 .. Len(s) THEN v \o s[n] ELSE v]]
  <1>1. <<>> \in Seq(E) /\ Len(s) \in Nat
    OBVIOUS
  <1>2. step \in [Nat -> [Seq(E) -> Seq(E)]]
    <2>1. ASSUME NEW n \in Nat, NEW v \in Seq(E), n \in 1 .. Len(s) PROVE v \o s[n] \in Seq(E)
      <3>1. s[n] \in Seq(E)
        BY <2>1
      <3> QED BY <3>1
    <2> QED BY <2>1
  <1>3. \A n \in 1 .. Len(s) : \A v \in Seq(E) : step[n][v] = v \o s[n]
    BY SMTT(60)
  <1> HIDE DEF step
  <1>4. PICK f \in [0 .. Len(s) -> Seq(E)] : Recursive(f, <<>>, step, Len(s))
    BY <1>1, <1>2, RecursionExists
  <1>5. \A n \in 0 .. Len(s) : f[n] = IF n = 0 THEN <<>> ELSE step[n][f[n - 1]]
    BY <1>4 DEF Recursive
  <1>6. \A n \in 1 .. Len(s) : f[n] = f[n - 1] \o s[n]
    <2> TAKE n \in 1 .. Len(s)
    <2>1. n \in 0 .. Len(s) /\ n - 1 \in 0 .. Len(s) /\ n # 0
      OBVIOUS
    <2>2. f[n - 1] \in Seq(E)
      BY <2>1
    <2> QED BY <1>3, <1>5, <2>1, <2>2
  <1>7. f[0] = <<>>
    BY <1>1, <1>5
  <1> QED BY <1>6, <1>7 DEF Chain

\* Every such chain ends in the concatenation.
LEMMA FlattenChain ==
    ASSUME NEW E, NEW s \in Seq(Seq(E)), NEW f \in [0 .. Len(s) -> Seq(E)], Chain(f, s)
    PROVE  FlattenSeq(s) = f[Len(s)]
  <1>1. CASE Len(s) = 0
    BY <1>1 DEF FlattenSeq, Chain
  <1>2. CASE Len(s) # 0
    <2> DEFINE flatten == CHOOSE h : Flattening(h, s)
               g == [i \in 1 .. Len(s) |-> f[i]]
    <2>0. Len(s) \in Nat
      OBVIOUS
    <2>1. Flattening(g, s)
      <3> SUFFICES ASSUME NEW i \in 1 .. Len(s)
                   PROVE  f[i] = IF i = 1 THEN s[i] ELSE g[i - 1] \o s[i]
        BY DEF Flattening
      <3>1. f[i] = f[i - 1] \o s[i] /\ f[0] = <<>> /\ s[i] \in Seq(E)
        BY DEF Chain
      <3>2. CASE i = 1
        <4>0. i - 1 = 0
          BY <3>2
        <4>1. f[i] = f[0] \o s[i]
          BY <3>1, <4>0
        <4>2. <<>> \o s[i] = s[i]
          BY <3>1
        <4> HIDE DEF g
        <4> QED BY <3>1, <3>2, <4>1, <4>2
      <3>3. CASE i # 1
        <4>1. g[i - 1] = f[i - 1]
          BY <3>3
        <4> HIDE DEF g
        <4> QED BY <3>1, <3>3, <4>1
      <3> QED BY <3>2, <3>3
    <2>2. Flattening(flatten, s)
      <3> HIDE DEF g
      <3> QED BY <2>1
    <2>3. FlattenSeq(s) = flatten[Len(s)]
      BY <1>2 DEF FlattenSeq, Flattening
    <2> HIDE DEF flatten, g
    <2>4. \A i \in 1 .. Len(s) : flatten[i] = IF i = 1 THEN s[i] ELSE flatten[i - 1] \o s[i]
      BY <2>2 DEF Flattening
    <2> DEFINE S == {n \in Nat : n + 1 <= Len(s) => flatten[n + 1] = f[n + 1]}
    <2>5. 0 \in S
      <3>1. 1 \in 1 .. Len(s) /\ f[0] = <<>> /\ s[1] \in Seq(E) /\ 0 = 1 - 1 /\ 0 \in 0 .. Len(s)
        BY <1>2, <2>0 DEF Chain
      <3>5. f[1] = f[0] \o s[1]
        <4>1. f[1] = f[1 - 1] \o s[1]
          BY <3>1 DEF Chain
        <4> QED BY <3>1, <4>1
      <3>2. f[1] = s[1]
        BY <3>1, <3>5
      <3>3. flatten[1] = s[1]
        BY <2>4, <3>1
      <3>4. flatten[0 + 1] = f[0 + 1]
        BY <3>1, <3>2, <3>3
      <3> QED BY <3>4
    <2>6. ASSUME NEW n \in Nat, n \in S PROVE n + 1 \in S
      <3> SUFFICES ASSUME n + 1 + 1 <= Len(s) PROVE flatten[n + 1 + 1] = f[n + 1 + 1]
        OBVIOUS
      <3>1. flatten[n + 1] = f[n + 1]
        BY <2>0, <2>6
      <3>2. PICK m, p : m = n + 1 + 1 /\ p = n + 1
        OBVIOUS
      <3>3. m \in 1 .. Len(s) /\ m # 1 /\ p = m - 1 /\ p \in 0 .. Len(s)
        BY <2>0, <3>2
      <3>4. f[m] = f[p] \o s[m]
        <4>1. f[m] = f[m - 1] \o s[m]
          BY <3>3 DEF Chain
        <4> QED BY <3>3, <4>1
      <3>5. flatten[m] = flatten[p] \o s[m]
        BY <2>4, <3>3
      <3> QED BY <3>1, <3>2, <3>4, <3>5
    <2>7. Nat \subseteq S
      <3> HIDE DEF S
      <3> QED BY <2>5, <2>6, SetInduction
    <2>8. flatten[Len(s)] = f[Len(s)]
      <3>0. Len(s) - 1 \in Nat
        BY <1>2, <2>0
      <3>1. Len(s) - 1 \in S
        BY <2>7, <3>0
      <3>2. Len(s) - 1 + 1 = Len(s)
        BY <2>0
      <3> QED BY <2>0, <3>1, <3>2
    <2> QED BY <2>3, <2>8
  <1> QED BY <1>1, <1>2

\* The first k links of a chain.
LEMMA FlattenPrefixes ==
    ASSUME NEW E, NEW s \in Seq(Seq(E)), NEW f \in [0 .. Len(s) -> Seq(E)], Chain(f, s),
           NEW k \in 0 .. Len(s)
    PROVE  FlattenSeq(SubSeq(s, 1, k)) = f[k]
  <1>1. PICK t : t = SubSeq(s, 1, k)
    OBVIOUS
  <1>2. t \in Seq(Seq(E)) /\ Len(t) = k /\ \A i \in 1 .. k : t[i] = s[i]
    <2>1. Taken(s, k) \in Seq(Seq(E)) /\ Len(Taken(s, k)) = k /\ \A i \in 1 .. k : Taken(s, k)[i] = s[i]
      BY TakenDropped
    <2> QED BY <1>1, <2>1 DEF Taken
  <1>3. PICK g : g = [i \in 0 .. k |-> f[i]]
    OBVIOUS
  <1>4. g \in [0 .. Len(t) -> Seq(E)]
    <2>1. \A i \in 0 .. k : i \in 0 .. Len(s)
      OBVIOUS
    <2> QED BY <1>2, <1>3, <2>1
  <1>5. Chain(g, t)
    <2>1. \A n \in 1 .. k : g[n] = f[n] /\ g[n - 1] = f[n - 1] /\ t[n] = s[n]
      BY <1>2, <1>3
    <2>2. \A n \in 1 .. k : f[n] = f[n - 1] \o s[n]
      <3>1. \A n \in 1 .. k : n \in 1 .. Len(s)
        OBVIOUS
      <3> QED BY <3>1 DEF Chain
    <2>3. g[0] = <<>>
      BY <1>3 DEF Chain
    <2> QED BY <1>2, <2>1, <2>2, <2>3 DEF Chain
  <1>6. FlattenSeq(t) = g[Len(t)]
    BY <1>2, <1>4, <1>5, FlattenChain
  <1> QED BY <1>1, <1>2, <1>3, <1>6

\* Concatenating one sequence more.
LEMMA FlattenStep ==
    ASSUME NEW E, NEW s \in Seq(Seq(E))
    PROVE  /\ FlattenSeq(s) \in Seq(E)
           /\ FlattenSeq(SubSeq(s, 1, 0)) = <<>>
           /\ \A k \in 1 .. Len(s) :
                /\ FlattenSeq(SubSeq(s, 1, k - 1)) \in Seq(E)
                /\ FlattenSeq(SubSeq(s, 1, k)) = FlattenSeq(SubSeq(s, 1, k - 1)) \o s[k]
  <1>1. PICK f \in [0 .. Len(s) -> Seq(E)] : Chain(f, s)
    BY ChainExists
  <1>2. FlattenSeq(s) = f[Len(s)] /\ Len(s) \in Nat
    BY <1>1, FlattenChain
  <1>3. \A k \in 0 .. Len(s) : FlattenSeq(SubSeq(s, 1, k)) = f[k]
    BY <1>1, FlattenPrefixes
  <1>4. FlattenSeq(SubSeq(s, 1, 0)) = <<>>
    <2>1. 0 \in 0 .. Len(s)
      BY <1>2
    <2> QED BY <1>1, <1>3, <2>1 DEF Chain
  <1>5. ASSUME NEW k \in 1 .. Len(s)
        PROVE  /\ FlattenSeq(SubSeq(s, 1, k - 1)) \in Seq(E)
               /\ FlattenSeq(SubSeq(s, 1, k)) = FlattenSeq(SubSeq(s, 1, k - 1)) \o s[k]
    <2>1. k \in 0 .. Len(s) /\ k - 1 \in 0 .. Len(s)
      OBVIOUS
    <2>2. FlattenSeq(SubSeq(s, 1, k)) = f[k] /\ FlattenSeq(SubSeq(s, 1, k - 1)) = f[k - 1]
      BY <1>3, <2>1
    <2>3. f[k] = f[k - 1] \o s[k] /\ f[k - 1] \in Seq(E)
      BY <1>1, <2>1 DEF Chain
    <2> QED BY <2>2, <2>3
  <1>6. FlattenSeq(s) \in Seq(E)
    BY <1>1, <1>2
  <1> QED BY <1>4, <1>5, <1>6

\* The same for a sequence that grows.
LEMMA FlattenAppend ==
    ASSUME NEW E, NEW s \in Seq(Seq(E)), NEW e \in Seq(E)
    PROVE  /\ FlattenSeq(s) \in Seq(E)
           /\ FlattenSeq(Append(s, e)) = FlattenSeq(s) \o e
  <1>1. PICK t : t = Append(s, e)
    OBVIOUS
  <1>2. t \in Seq(Seq(E)) /\ Len(t) = Len(s) + 1 /\ t[Len(s) + 1] = e
    BY <1>1, AppendProperties
  <1>3. \A i \in 1 .. Len(s) : t[i] = s[i]
    BY <1>1, AppendProperties
  <1>4. SubSeq(t, 1, Len(s)) = s
    <2>0. Len(s) \in Nat /\ Len(s) \in 0 .. Len(t)
      BY <1>2
    <2>1. /\ Taken(t, Len(s)) \in Seq(Seq(E)) /\ Len(Taken(t, Len(s))) = Len(s)
          /\ \A i \in 1 .. Len(s) : Taken(t, Len(s))[i] = t[i]
      <3>1. PICK n \in 0 .. Len(t) : n = Len(s)
        BY <2>0
      <3>2. t \in Seq(Seq(E))
        BY <1>2
      <3>3. /\ Taken(t, n) \in Seq(Seq(E)) /\ Len(Taken(t, n)) = n
            /\ \A i \in 1 .. n : Taken(t, n)[i] = t[i]
        BY <3>2, TakenDropped, Zenon
      <3> QED BY <3>1, <3>3, Zenon
    <2>2. Taken(t, Len(s)) = s
      BY <1>3, <2>1, SeqEqual
    <2> QED BY <2>2 DEF Taken
  <1>5. SubSeq(t, 1, Len(t)) = t
    BY <1>2, SubSeqFull
  <1>6. Len(t) \in 1 .. Len(t) /\ Len(t) - 1 = Len(s)
    BY <1>2
  <1>7. FlattenSeq(SubSeq(t, 1, Len(t))) = FlattenSeq(SubSeq(t, 1, Len(t) - 1)) \o t[Len(t)]
    BY <1>2, <1>6, FlattenStep
  <1>8. FlattenSeq(s) \in Seq(E)
    BY FlattenStep
  <1> QED BY <1>1, <1>2, <1>4, <1>5, <1>6, <1>7, <1>8

\* What was concatenated first comes first.
LEMMA FlattenIsPrefix ==
    ASSUME NEW E, NEW s \in Seq(Seq(E))
    PROVE  \A k \in 0 .. Len(s) :
             \E z \in Seq(E) : FlattenSeq(s) = FlattenSeq(SubSeq(s, 1, k)) \o z
  <1>1. PICK f \in [0 .. Len(s) -> Seq(E)] : Chain(f, s)
    BY ChainExists
  <1>2. Len(s) \in Nat /\ FlattenSeq(s) = f[Len(s)]
    BY <1>1, FlattenChain
  <1>3. \A k \in 0 .. Len(s) : FlattenSeq(SubSeq(s, 1, k)) = f[k]
    BY <1>1, FlattenPrefixes
  <1> DEFINE P(n) == n <= Len(s) => \E z \in Seq(E) : f[Len(s)] = f[Len(s) - n] \o z
             S == {n \in Nat : P(n)}
  <1>4. 0 \in S
    <2>1. <<>> \in Seq(E) /\ f[Len(s)] \in Seq(E) /\ Len(s) - 0 = Len(s)
      BY <1>1, <1>2
    <2>2. f[Len(s)] = f[Len(s) - 0] \o <<>>
      BY <2>1
    <2> QED BY <2>1, <2>2
  <1>5. ASSUME NEW n \in Nat, n \in S PROVE n + 1 \in S
    <2> SUFFICES P(n + 1)
      <3> HIDE DEF P
      <3> QED OBVIOUS
    <2> SUFFICES ASSUME n + 1 <= Len(s)
                 PROVE  \E z \in Seq(E) : f[Len(s)] = f[Len(s) - (n + 1)] \o z
      OBVIOUS
    <2>0. n <= Len(s)
      BY <1>2
    <2>1. PICK z \in Seq(E) : f[Len(s)] = f[Len(s) - n] \o z
      BY <1>5, <2>0
    <2>2. PICK k : k = Len(s) - n
      OBVIOUS
    <2>3. k \in 1 .. Len(s) /\ k - 1 \in 0 .. Len(s) /\ Len(s) - (n + 1) = k - 1
      BY <1>2, <2>2
    <2>4. PICK j \in 0 .. Len(s) : j = k - 1
      BY <2>3
    <2>7. f[k] = f[j] \o s[k]
      <3>1. f[k] = f[k - 1] \o s[k]
        BY <1>1, <2>3 DEF Chain
      <3> QED BY <2>4, <3>1
    <2>8. f[j] \in Seq(E)
      OBVIOUS
    <2>9. s[k] \in Seq(E)
      BY <2>3
    <2>5. (f[j] \o s[k]) \o z = f[j] \o (s[k] \o z)
      <3>1. PICK a \in Seq(E), b \in Seq(E) : a = f[j] /\ b = s[k]
        BY <2>8, <2>9
      <3>2. (a \o b) \o z = a \o (b \o z)
        BY ConcatAssociative, SMTT(120)
      <3> QED BY <3>1, <3>2
    <2>6. s[k] \o z \in Seq(E)
      BY <2>9
    <2> QED BY <2>1, <2>2, <2>3, <2>4, <2>5, <2>6, <2>7
  <1>6. Nat \subseteq S
    <2> HIDE DEF S
    <2> QED BY <1>4, <1>5, SetInduction
  <1> SUFFICES ASSUME NEW k \in 0 .. Len(s)
               PROVE  \E z \in Seq(E) : FlattenSeq(s) = FlattenSeq(SubSeq(s, 1, k)) \o z
    OBVIOUS
  <1>7. Len(s) - k \in Nat /\ Len(s) - (Len(s) - k) = k /\ Len(s) - k <= Len(s)
    BY <1>2
  <1>9. Len(s) - k \in S
    BY <1>6, <1>7
  <1>8. PICK z \in Seq(E) : f[Len(s)] = f[k] \o z
    BY <1>7, <1>9
  <1> QED BY <1>2, <1>3, <1>8

----------------------------------------------------------------------------
(* Addresses.                                                               *)

\* The function target of Family, on the first m addresses.
Targets(f, addresses, family, m) ==
    f = [n \in 0 .. m |->
           IF n = 0 THEN <<>>
           ELSE LET before == f[n - 1] IN
                IF addresses[n].family = family /\ addresses[n] \notin ToSet(before)
                THEN Append(before, addresses[n]) ELSE before]

\* What it computes one after another.
Found(f, addresses, family) ==
    /\ Family(addresses, family) = f[Len(addresses)]
    /\ f[0] = <<>>
    /\ \A n \in 1 .. Len(addresses) :
         f[n] = IF addresses[n].family = family /\ addresses[n] \notin ToSet(f[n - 1])
                THEN Append(f[n - 1], addresses[n]) ELSE f[n - 1]

\* The addresses of one family are found one after another.
LEMMA FamilyTargets ==
    ASSUME NEW a \in Seq(Address), NEW fam
    PROVE  \E f \in [0 .. Len(a) -> Seq(Address)] : Found(f, a, fam)
  <1> DEFINE step == [n \in Nat |-> [v \in Seq(Address) |->
                        IF n \in 1 .. Len(a) /\ a[n].family = fam /\ a[n] \notin ToSet(v)
                        THEN Append(v, a[n]) ELSE v]]
             chosenTarget == CHOOSE f : Targets(f, a, fam, Len(a))
  <1>1. <<>> \in Seq(Address) /\ Len(a) \in Nat
    OBVIOUS
  <1>2. step \in [Nat -> [Seq(Address) -> Seq(Address)]]
    <2>1. ASSUME NEW n \in Nat, NEW v \in Seq(Address), n \in 1 .. Len(a) PROVE Append(v, a[n]) \in Seq(Address)
      <3>1. a[n] \in Address
        BY <2>1
      <3> QED BY <3>1
    <2> QED BY <2>1
  <1>3. \A n \in 1 .. Len(a) : \A v \in Seq(Address) :
          step[n][v] = IF a[n].family = fam /\ a[n] \notin ToSet(v) THEN Append(v, a[n]) ELSE v
    OBVIOUS
  <1> HIDE DEF step
  <1>4. PICK g \in [0 .. Len(a) -> Seq(Address)] : Recursive(g, <<>>, step, Len(a))
    BY <1>1, <1>2, RecursionExists
  <1>5. \A n \in 0 .. Len(a) : g[n] = IF n = 0 THEN <<>> ELSE step[n][g[n - 1]]
    BY <1>4 DEF Recursive
  <1>6. g[0] = <<>>
    BY <1>1, <1>5
  <1>7. \A n \in 1 .. Len(a) :
          g[n] = IF a[n].family = fam /\ a[n] \notin ToSet(g[n - 1])
                 THEN Append(g[n - 1], a[n]) ELSE g[n - 1]
    <2> TAKE n \in 1 .. Len(a)
    <2>1. n \in 0 .. Len(a) /\ n - 1 \in 0 .. Len(a) /\ n # 0
      OBVIOUS
    <2>2. g[n - 1] \in Seq(Address)
      BY <2>1
    <2> QED BY <1>3, <1>5, <2>1, <2>2
  <1>8. Targets(g, a, fam, Len(a))
    <2>1. \A n \in 0 .. Len(a) : n = 0 \/ n \in 1 .. Len(a)
      OBVIOUS
    <2>2. g = [n \in 0 .. Len(a) |-> g[n]]
      BY <1>4
    <2>3. \A n \in 0 .. Len(a) :
            g[n] = IF n = 0 THEN <<>>
                   ELSE IF a[n].family = fam /\ a[n] \notin ToSet(g[n - 1])
                        THEN Append(g[n - 1], a[n]) ELSE g[n - 1]
      BY <1>6, <1>7, <2>1
    <2> QED BY <2>2, <2>3 DEF Targets
  <1>9. Targets(chosenTarget, a, fam, Len(a))
    BY <1>8
  <1>10. Family(a, fam) = chosenTarget[Len(a)]
    BY DEF Family, Targets
  <1> HIDE DEF chosenTarget
  <1>11. \A n \in 0 .. Len(a) :
           chosenTarget[n] = IF n = 0 THEN <<>>
                             ELSE IF a[n].family = fam /\ a[n] \notin ToSet(chosenTarget[n - 1])
                                  THEN Append(chosenTarget[n - 1], a[n]) ELSE chosenTarget[n - 1]
    BY <1>9 DEF Targets
  <1> DEFINE S == {n \in Nat : n <= Len(a) => chosenTarget[n] = g[n]}
  <1>12. 0 \in S
    BY <1>1, <1>6, <1>11
  <1>13. ASSUME NEW n \in Nat, n \in S PROVE n + 1 \in S
    <2> SUFFICES ASSUME n + 1 <= Len(a) PROVE chosenTarget[n + 1] = g[n + 1]
      OBVIOUS
    <2>1. PICK m : m = n + 1
      OBVIOUS
    <2>2. m \in 1 .. Len(a) /\ m \in 0 .. Len(a) /\ m # 0 /\ m - 1 = n /\ n <= Len(a)
      BY <1>1, <2>1
    <2>3. chosenTarget[m - 1] = g[m - 1]
      BY <1>13, <2>2
    <2>4. chosenTarget[m] = g[m]
      BY <1>7, <1>11, <2>2, <2>3
    <2> QED BY <2>1, <2>4
  <1>14. Nat \subseteq S
    <2> HIDE DEF S
    <2> QED BY <1>12, <1>13, SetInduction
  <1>15. chosenTarget[Len(a)] = g[Len(a)]
    <2>1. Len(a) \in S
      BY <1>1, <1>14
    <2> QED BY <1>1, <2>1
  <1> QED BY <1>6, <1>7, <1>10, <1>15 DEF Found

\* The addresses of one family: all of them and no others, each once.
LEMMA FamilyOf ==
    ASSUME NEW a \in Seq(Address), NEW fam
    PROVE  /\ Family(a, fam) \in Seq(Address)
           /\ ToSet(Family(a, fam)) = {x \in ToSet(a) : x.family = fam}
           /\ \A j, k \in DOMAIN Family(a, fam) : j # k => Family(a, fam)[j] # Family(a, fam)[k]
  <1>0. PICK f \in [0 .. Len(a) -> Seq(Address)] : Found(f, a, fam)
    BY FamilyTargets
  <1>1. /\ Family(a, fam) = f[Len(a)]
        /\ f[0] = <<>>
        /\ \A n \in 1 .. Len(a) :
             f[n] = IF a[n].family = fam /\ a[n] \notin ToSet(f[n - 1])
                    THEN Append(f[n - 1], a[n]) ELSE f[n - 1]
    BY <1>0 DEF Found
  <1>2. Len(a) \in Nat
    OBVIOUS
  <1> DEFINE P(n) == /\ ToSet(f[n]) = {x \in {a[i] : i \in 1 .. n} : x.family = fam}
                     /\ \A j, k \in 1 .. Len(f[n]) : j # k => f[n][j] # f[n][k]
             S == {n \in Nat : n <= Len(a) => P(n)}
  <1>3. 0 \in S
    BY <1>1 DEF ToSet
  <1>4. ASSUME NEW n \in Nat, n \in S PROVE n + 1 \in S
    <2> SUFFICES ASSUME n + 1 <= Len(a) PROVE P(n + 1)
      <3> HIDE DEF P
      <3> QED OBVIOUS
    <2>1. n \in 0 .. Len(a) /\ n + 1 \in 1 .. Len(a) /\ n + 1 - 1 = n
      BY <1>2
    <2>2. P(n)
      <3> HIDE DEF P
      <3>1. n <= Len(a)
        BY <2>1
      <3> QED BY <1>4, <3>1
    <2>3. f[n + 1] = IF a[n + 1].family = fam /\ a[n + 1] \notin ToSet(f[n])
                     THEN Append(f[n], a[n + 1]) ELSE f[n]
      BY <1>1, <2>1
    <2>4. PICK s \in Seq(Address) : s = f[n]
      BY <2>1
    <2>5. PICK e \in Address : e = a[n + 1]
      BY <2>1
    <2>6. {a[i] : i \in 1 .. n + 1} = {a[i] : i \in 1 .. n} \cup {e}
      BY <2>5
    <2>7. CASE e.family = fam /\ e \notin ToSet(s)
      <3>1. PICK t : t = Append(s, e)
        OBVIOUS
      <3>2. f[n + 1] = t
        BY <2>3, <2>4, <2>5, <2>7, <3>1
      <3>3. /\ t \in Seq(Address) /\ Len(t) = Len(s) + 1 /\ Len(s) \in Nat
            /\ \A i \in 1 .. Len(s) : t[i] = s[i]
            /\ t[Len(s) + 1] = e
        BY <3>1, AppendProperties
      <3>4. DOMAIN t = 1 .. Len(s) + 1 /\ DOMAIN s = 1 .. Len(s)
        BY <3>3
      <3>5. ToSet(t) = ToSet(s) \cup {e}
        <4>1. \A i \in DOMAIN t : t[i] \in ToSet(s) \cup {e}
          <5>1. \A i \in 1 .. Len(s) : s[i] \in ToSet(s)
            BY <3>4 DEF ToSet
          <5>2. \A i \in DOMAIN t : i \in 1 .. Len(s) \/ i = Len(s) + 1
            BY <3>3, <3>4
          <5> QED BY <3>3, <5>1, <5>2
        <4>2. \A i \in DOMAIN s : i \in DOMAIN t /\ t[i] = s[i]
          BY <3>3, <3>4
        <4>3. Len(s) + 1 \in DOMAIN t
          BY <3>3, <3>4
        <4>4. ToSet(t) \subseteq ToSet(s) \cup {e}
          BY <4>1 DEF ToSet
        <4>5. ToSet(s) \subseteq ToSet(t) /\ e \in ToSet(t)
          BY <3>3, <4>2, <4>3 DEF ToSet
        <4> QED BY <4>4, <4>5
      <3>6. ToSet(t) = {x \in {a[i] : i \in 1 .. n + 1} : x.family = fam}
        BY <2>2, <2>4, <2>6, <2>7, <3>5
      <3>7. \A j, k \in 1 .. Len(t) : j # k => t[j] # t[k]
        <4>1. \A j \in 1 .. Len(s) : s[j] # e
          BY <2>7, <3>4 DEF ToSet
        <4>2. \A j, k \in 1 .. Len(s) : j # k => s[j] # s[k]
          BY <2>2, <2>4
        <4>3. \A i \in 1 .. Len(t) : i \in 1 .. Len(s) \/ i = Len(s) + 1
          BY <3>3
        <4> SUFFICES ASSUME NEW j \in 1 .. Len(t), NEW k \in 1 .. Len(t), j # k PROVE t[j] # t[k]
          OBVIOUS
        <4>4. CASE j \in 1 .. Len(s) /\ k \in 1 .. Len(s)
          BY <3>3, <4>2, <4>4
        <4>5. CASE j = Len(s) + 1 /\ k \in 1 .. Len(s)
          BY <3>3, <4>1, <4>5
        <4>6. CASE j \in 1 .. Len(s) /\ k = Len(s) + 1
          BY <3>3, <4>1, <4>6
        <4> QED BY <4>3, <4>4, <4>5, <4>6
      <3> QED BY <3>2, <3>6, <3>7
    <2>8. CASE ~(e.family = fam /\ e \notin ToSet(s))
      <3>1. f[n + 1] = s
        BY <2>3, <2>4, <2>5, <2>8
      <3>2. ToSet(s) = {x \in {a[i] : i \in 1 .. n + 1} : x.family = fam}
        BY <2>2, <2>4, <2>6, <2>8
      <3> QED BY <2>2, <2>4, <3>1, <3>2
    <2> QED BY <2>7, <2>8
  <1>5. Nat \subseteq S
    <2> HIDE DEF S
    <2> QED BY <1>3, <1>4, SetInduction
  <1>6. P(Len(a))
    <2> HIDE DEF P
    <2> QED BY <1>2, <1>5
  <1>7. f[Len(a)] \in Seq(Address)
    BY <1>2
  <1>8. ToSet(a) = {a[i] : i \in 1 .. Len(a)}
    BY DEF ToSet
  <1>9. DOMAIN f[Len(a)] = 1 .. Len(f[Len(a)])
    BY <1>7
  <1> QED BY <1>1, <1>6, <1>7, <1>8, <1>9

\* The addresses that are tried: every one the mode allows, once, IPv4 first.
Allowed(a, m) == {x \in ToSet(a) : \/ m = "prefer_ipv4"
                                   \/ m = "ipv4_only" /\ x.family = "ipv4"
                                   \/ m = "ipv6_only" /\ x.family = "ipv6"}

\* order_addresses keeps exactly those, each once, and IPv4 before IPv6.
LEMMA OrderedAddresses ==
    ASSUME NEW a \in Seq(Address), NEW m \in {"prefer_ipv4", "ipv4_only", "ipv6_only"}
    PROVE  LET A == order_addresses(a, m) IN
           /\ A \in Seq(Address)
           /\ ToSet(A) = Allowed(a, m)
           /\ \A j, k \in DOMAIN A : j # k => A[j] # A[k]
           /\ \A j, k \in DOMAIN A : j < k => ~(A[j].family = "ipv6" /\ A[k].family = "ipv4")
  <1>1. PICK v4, v6 : v4 = Family(a, "ipv4") /\ v6 = Family(a, "ipv6")
    OBVIOUS
  <1>2. /\ v4 \in Seq(Address) /\ ToSet(v4) = {x \in ToSet(a) : x.family = "ipv4"}
        /\ \A j, k \in DOMAIN v4 : j # k => v4[j] # v4[k]
    BY <1>1, FamilyOf
  <1>3. /\ v6 \in Seq(Address) /\ ToSet(v6) = {x \in ToSet(a) : x.family = "ipv6"}
        /\ \A j, k \in DOMAIN v6 : j # k => v6[j] # v6[k]
    BY <1>1, FamilyOf
  <1>4. \A x \in ToSet(a) : x.family \in {"ipv4", "ipv6"}
    <2>1. \A i \in DOMAIN a : a[i] \in Address
      OBVIOUS
    <2> QED BY <2>1 DEF ToSet, Address
  <1>5. \A k \in DOMAIN v4 : v4[k].family = "ipv4"
    BY <1>2 DEF ToSet
  <1>6. \A k \in DOMAIN v6 : v6[k].family = "ipv6"
    BY <1>3 DEF ToSet
  <1>7. CASE m = "prefer_ipv4"
    <2>1. order_addresses(a, m) = v4 \o v6
      BY <1>1, <1>7 DEF order_addresses
    <2>2. PICK A : A = v4 \o v6
      OBVIOUS
    <2>3. /\ A \in Seq(Address) /\ Len(A) = Len(v4) + Len(v6) /\ Len(v4) \in Nat /\ Len(v6) \in Nat
          /\ \A i \in 1 .. Len(v4) + Len(v6) : A[i] = IF i <= Len(v4) THEN v4[i] ELSE v6[i - Len(v4)]
      BY <1>2, <1>3, <2>2, ConcatProperties
    <2>4. DOMAIN A = 1 .. Len(v4) + Len(v6) /\ DOMAIN v4 = 1 .. Len(v4) /\ DOMAIN v6 = 1 .. Len(v6)
      BY <1>2, <1>3, <2>3
    <2>5. \A k \in DOMAIN A : \/ k \in DOMAIN v4 /\ A[k] = v4[k]
                              \/ k > Len(v4) /\ k - Len(v4) \in DOMAIN v6 /\ A[k] = v6[k - Len(v4)]
      BY <2>3, <2>4
    <2>6. ToSet(A) = ToSet(v4) \cup ToSet(v6)
      <3>1. ToSet(A) \subseteq ToSet(v4) \cup ToSet(v6)
        BY <2>5 DEF ToSet
      <3>2. ToSet(v4) \subseteq ToSet(A)
        <4>1. \A k \in DOMAIN v4 : k \in DOMAIN A /\ A[k] = v4[k]
          BY <2>3, <2>4
        <4> QED BY <4>1 DEF ToSet
      <3>3. ToSet(v6) \subseteq ToSet(A)
        <4>1. ASSUME NEW k \in DOMAIN v6 PROVE \E i \in DOMAIN A : A[i] = v6[k]
          <5>1. PICK i : i = k + Len(v4)
            OBVIOUS
          <5>2. i \in DOMAIN A /\ ~(i <= Len(v4)) /\ i - Len(v4) = k
            BY <2>3, <2>4, <5>1
          <5>3. A[i] = v6[k]
            BY <2>3, <2>4, <5>2
          <5> QED BY <5>2, <5>3
        <4> QED BY <4>1 DEF ToSet
      <3> QED BY <3>1, <3>2, <3>3
    <2>7. ToSet(A) = Allowed(a, m)
      BY <1>2, <1>3, <1>4, <1>7, <2>6 DEF Allowed
    <2>8. \A j, k \in DOMAIN A : j # k => A[j] # A[k]
      <3> SUFFICES ASSUME NEW j \in DOMAIN A, NEW k \in DOMAIN A, j # k PROVE A[j] # A[k]
        OBVIOUS
      <3>1. CASE j \in DOMAIN v4 /\ A[j] = v4[j] /\ k \in DOMAIN v4 /\ A[k] = v4[k]
        BY <1>2, <3>1
      <3>2. CASE /\ j > Len(v4) /\ j - Len(v4) \in DOMAIN v6 /\ A[j] = v6[j - Len(v4)]
                 /\ k > Len(v4) /\ k - Len(v4) \in DOMAIN v6 /\ A[k] = v6[k - Len(v4)]
        <4>1. j - Len(v4) # k - Len(v4)
          BY <2>3, <2>4
        <4> QED BY <1>3, <3>2, <4>1
      <3>3. CASE A[j].family # A[k].family
        BY <3>3
      <3> QED BY <1>5, <1>6, <2>5, <3>1, <3>2, <3>3
    <2>9. \A j, k \in DOMAIN A : j < k => ~(A[j].family = "ipv6" /\ A[k].family = "ipv4")
      <3> SUFFICES ASSUME NEW j \in DOMAIN A, NEW k \in DOMAIN A, j < k,
                          A[j].family = "ipv6", A[k].family = "ipv4"
                   PROVE  FALSE
        OBVIOUS
      <3>1. j > Len(v4)
        BY <1>5, <2>5
      <3>2. k \in DOMAIN v4
        BY <1>6, <2>5
      <3> QED BY <2>3, <2>4, <3>1, <3>2
    <2> QED BY <2>1, <2>2, <2>3, <2>7, <2>8, <2>9
  <1>8. CASE m = "ipv4_only"
    <2>1. order_addresses(a, m) = v4
      BY <1>1, <1>8 DEF order_addresses
    <2>2. ToSet(v4) = Allowed(a, m)
      BY <1>2, <1>8 DEF Allowed
    <2> QED BY <1>2, <1>5, <2>1, <2>2
  <1>9. CASE m = "ipv6_only"
    <2>1. order_addresses(a, m) = v6
      BY <1>1, <1>9 DEF order_addresses
    <2>2. ToSet(v6) = Allowed(a, m)
      BY <1>3, <1>9 DEF Allowed
    <2> QED BY <1>3, <1>6, <2>1, <2>2
  <1> QED BY <1>7, <1>8, <1>9

----------------------------------------------------------------------------
(* Readers.                                                                 *)

\* The only element of a set is the one that is chosen.
LEMMA Singleton == \A x : (CHOOSE r \in {x} : TRUE) = x
  OBVIOUS

\* What the readers make of the result before.
LEMMA ReadU8 ==
    ASSUME NEW f
    PROVE  read_u8(f) = IF f.is # "read" THEN f
                        ELSE IF f.rest = <<>> THEN More
                        ELSE [is |-> "read", value |-> f.rest[1], rest |-> Dropped(f.rest, 1)]
  BY Singleton DEF read_u8

\* The same of a varint.
LEMMA ReadVarint ==
    ASSUME NEW f, NEW allowed
    PROVE  read_varint(f, allowed) =
             IF f.is # "read" THEN f
             ELSE LET varint == decode_varint(f.rest) IN
                  IF ~varint.ok THEN More
                  ELSE IF varint.value \notin allowed THEN Wrong
                  ELSE [is |-> "read", value |-> varint.value, rest |-> varint.rest]
  BY Singleton DEF read_varint

\* The same of a field of a length that was read.
LEMMA ReadExact ==
    ASSUME NEW f
    PROVE  read_exact(f) = IF f.is # "read" THEN f
                           ELSE IF Len(f.rest) < f.value THEN More
                           ELSE [is |-> "read", value |-> Taken(f.rest, f.value),
                                 rest |-> Dropped(f.rest, f.value)]
  BY Singleton DEF read_exact

\* The same of the length of an address.
LEMMA ReadAddressLength ==
    ASSUME NEW f
    PROVE  read_address_length(f) =
             IF f.is # "read" THEN f
             ELSE IF f.value \notin DOMAIN AddressWidth THEN Wrong
             ELSE IF AddressWidth[f.value] > 0
                  THEN [is |-> "read", value |-> AddressWidth[f.value], rest |-> f.rest]
             ELSE LET length == read_u8(f) IN
                  IF length.is = "read" /\ length.value = 0 THEN Wrong ELSE length
  BY Singleton DEF read_address_length

\* A byte has one of four quarters.
LEMMA ByteQuarter ==
    ASSUME NEW b \in Byte
    PROVE  b \div (Base \div 4) \in 0 .. 3
  <1>1. PICK q : q = Base \div 4
    OBVIOUS
  <1>2. q \in Nat /\ q >= 2 /\ Base = 4 * q /\ b \in Nat /\ b < 4 * q
    BY <1>1, WireAssumption DEF WireAssumption, Byte, MaxByte
  <1>3. b \div q \in 0 .. 3
    BY <1>2
  <1> QED BY <1>1, <1>3

\* The width of a varint is one of four.
LEMMA VarintWidth ==
    ASSUME NEW b \in Byte
    PROVE  varint_width(b) \in {1, 2, 4, 8}
  <1>1. b \div (Base \div 4) \in 0 .. 3
    BY ByteQuarter
  <1>2. Widths[1] = 1 /\ Widths[2] = 2 /\ Widths[3] = 4 /\ Widths[4] = 8
    BY DEF Widths
  <1> QED BY <1>1, <1>2 DEF varint_width

\* A varint is read from the bytes it announces, whatever follows them.
LEMMA VarintContinued ==
    ASSUME NEW x \in Seq(Byte), NEW z \in Seq(Byte), decode_varint(x).ok
    PROVE  /\ \E n \in 0 .. Len(x) : decode_varint(x).rest = Dropped(x, n)
           /\ decode_varint(x \o z).ok
           /\ decode_varint(x \o z).value = decode_varint(x).value
           /\ decode_varint(x \o z).rest = decode_varint(x).rest \o z
  <1>1. PICK w : w = varint_width(x[1])
    OBVIOUS
  <1>2. x # <<>> /\ Len(x) >= w
    <2>1. CASE x = <<>>
      BY <2>1 DEF decode_varint, Error
    <2>2. CASE x # <<>> /\ Len(x) < w
      BY <1>1, <2>2 DEF decode_varint, Error
    <2>3. (x[1] \in Byte /\ Len(x) \in Nat) \/ x = <<>>
      OBVIOUS
    <2>4. x # <<>> => w \in {1, 2, 4, 8}
      BY <1>1, <2>3, VarintWidth
    <2> QED BY <2>1, <2>2, <2>3, <2>4
  <1>3. x[1] \in Byte /\ Len(x) \in Nat
    BY <1>2
  <1>4. w \in {1, 2, 4, 8} /\ w \in 0 .. Len(x)
    BY <1>1, <1>2, <1>3, VarintWidth
  <1>5. PICK y : y = x \o z
    OBVIOUS
  <1>6. y \in Seq(Byte) /\ Len(y) = Len(x) + Len(z) /\ Len(z) \in Nat /\ y # <<>> /\ y[1] = x[1]
    <2>1. Len(x) >= 1 /\ Len(x) \in Nat
      BY <1>2, <1>3
    <2>2. y \in Seq(Byte) /\ Len(y) = Len(x) + Len(z) /\ Len(z) \in Nat
      BY <1>5, ConcatProperties
    <2>3. y[1] = x[1]
      BY <1>5, <2>1, <2>2, ConcatProperties
    <2> QED BY <2>1, <2>2, <2>3
  <1>7. Taken(y, w) = Taken(x, w) /\ Dropped(y, w) = Dropped(x, w) \o z
    BY <1>4, <1>5, TakenOfConcat
  <1>8. Len(Taken(x, w)) = w
    BY <1>4, TakenDropped
  <1>9. decode_varint(x) = [ok |-> TRUE, rest |-> Dropped(x, w),
                            value |-> from_be_bytes([Taken(x, w) EXCEPT ![1] = @ % (Base \div 4)])]
    <2>1. ~(x = <<>> \/ Len(x) < w)
      BY <1>2, <1>3, <1>4
    <2> QED BY <1>1, <1>8, <2>1 DEF decode_varint
  <1>10. decode_varint(y) = [ok |-> TRUE, rest |-> Dropped(x, w) \o z,
                             value |-> from_be_bytes([Taken(x, w) EXCEPT ![1] = @ % (Base \div 4)])]
    <2>1. ~(y = <<>> \/ Len(y) < w) /\ varint_width(y[1]) = w
      BY <1>1, <1>2, <1>3, <1>4, <1>6
    <2> QED BY <1>7, <1>8, <2>1 DEF decode_varint
  <1> QED BY <1>4, <1>5, <1>9, <1>10

----------------------------------------------------------------------------
\* a was read from x: what is left of x is its end.
Reading(a, x) ==
    a.is = "read" => a.rest \in Seq(Byte) /\ \E h \in Seq(Byte) : x = h \o a.rest

\* b is what a becomes when z follows the bytes that a was read from.
Continues(a, b, z) ==
    a.is = "read" => b.is = "read" /\ b.value = a.value /\ b.rest = a.rest \o z

\* A number was read.
Natural(a) == a.is = "read" => a.value \in Nat

\* Reading further leaves the end of the end.
LEMMA Consumed ==
    ASSUME NEW x, NEW r \in Seq(Byte), NEW h \in Seq(Byte), x = h \o r, NEW n \in 0 .. Len(r)
    PROVE  Dropped(r, n) \in Seq(Byte) /\ \E g \in Seq(Byte) : x = g \o Dropped(r, n)
  <1>1. PICK t, d : t = Taken(r, n) /\ d = Dropped(r, n)
    OBVIOUS
  <1>2. t \in Seq(Byte) /\ d \in Seq(Byte) /\ r = t \o d
    BY <1>1, TakenDropped
  <1>3. (h \o t) \o d = h \o (t \o d)
    BY <1>2, ConcatAssociative, SMTT(30)
  <1>4. h \o t \in Seq(Byte)
    BY <1>2
  <1> QED BY <1>1, <1>2, <1>3, <1>4

\* The start of an input.
LEMMA StartReads ==
    ASSUME NEW x \in Seq(Byte), NEW z \in Seq(Byte), NEW n \in Nat
    PROVE  /\ Reading(Start(x, n), x) /\ Natural(Start(x, n))
           /\ Continues(Start(x, n), Start(x \o z, n), z)
  <1>1. <<>> \in Seq(Byte) /\ x = <<>> \o x
    OBVIOUS
  <1> QED BY <1>1 DEF Start, Reading, Natural, Continues

\* A byte.
LEMMA U8Reads ==
    ASSUME NEW x, NEW z \in Seq(Byte), NEW a, NEW b, Reading(a, x), Continues(a, b, z)
    PROVE  /\ Reading(read_u8(a), x) /\ Natural(read_u8(a))
           /\ Continues(read_u8(a), read_u8(b), z)
  <1>1. PICK c, d : c = read_u8(a) /\ d = read_u8(b)
    OBVIOUS
  <1>2. c = IF a.is # "read" THEN a
            ELSE IF a.rest = <<>> THEN More
            ELSE [is |-> "read", value |-> a.rest[1], rest |-> Dropped(a.rest, 1)]
    BY <1>1, ReadU8
  <1>3. d = IF b.is # "read" THEN b
            ELSE IF b.rest = <<>> THEN More
            ELSE [is |-> "read", value |-> b.rest[1], rest |-> Dropped(b.rest, 1)]
    BY <1>1, ReadU8
  <1>4. CASE c.is # "read"
    BY <1>1, <1>4 DEF Reading, Natural, Continues
  <1>5. CASE c.is = "read"
    <2>1. a.is = "read" /\ a.rest # <<>>
      BY <1>2, <1>5 DEF More
    <2>2. PICK r \in Seq(Byte), h \in Seq(Byte) : r = a.rest /\ x = h \o r
      BY <2>1 DEF Reading
    <2>3. b.is = "read" /\ b.rest = r \o z
      BY <2>1, <2>2 DEF Continues
    <2>4. Len(r) \in Nat /\ 1 \in 0 .. Len(r) /\ r[1] \in Byte
      BY <2>1, <2>2
    <2>5. PICK s : s = r \o z
      OBVIOUS
    <2>6. s # <<>> /\ s[1] = r[1]
      <3>1. Len(s) = Len(r) + Len(z) /\ Len(z) \in Nat /\ s \in Seq(Byte)
        BY <2>5, ConcatProperties
      <3>2. s[1] = r[1]
        BY <2>4, <2>5, <3>1, ConcatProperties
      <3> QED BY <2>4, <3>1, <3>2
    <2>7. Dropped(s, 1) = Dropped(r, 1) \o z
      BY <2>4, <2>5, TakenOfConcat
    <2>8. c.value = r[1] /\ c.rest = Dropped(r, 1)
      BY <1>2, <2>1, <2>2
    <2>9. d.is = "read" /\ d.value = r[1] /\ d.rest = Dropped(r, 1) \o z
      BY <1>3, <2>3, <2>5, <2>6, <2>7
    <2>10. Dropped(r, 1) \in Seq(Byte) /\ \E g \in Seq(Byte) : x = g \o Dropped(r, 1)
      BY <2>2, <2>4, Consumed, ZenonT(60)
    <2>11. c.value \in Nat
      BY <2>4, <2>8, WireAssumption DEF Byte
    <2> QED BY <1>1, <2>8, <2>9, <2>10, <2>11 DEF Reading, Natural, Continues
  <1> QED BY <1>4, <1>5

\* A varint.
LEMMA VarintReads ==
    ASSUME NEW x, NEW z \in Seq(Byte), NEW a, NEW b, Reading(a, x), Continues(a, b, z),
           NEW allowed \in SUBSET Nat
    PROVE  /\ Reading(read_varint(a, allowed), x) /\ Natural(read_varint(a, allowed))
           /\ Continues(read_varint(a, allowed), read_varint(b, allowed), z)
  <1>1. PICK c, d : c = read_varint(a, allowed) /\ d = read_varint(b, allowed)
    OBVIOUS
  <1>2. PICK v, w : v = decode_varint(a.rest) /\ w = decode_varint(b.rest)
    OBVIOUS
  <1>3. c = IF a.is # "read" THEN a
            ELSE IF ~v.ok THEN More
            ELSE IF v.value \notin allowed THEN Wrong
            ELSE [is |-> "read", value |-> v.value, rest |-> v.rest]
    BY <1>1, <1>2, ReadVarint
  <1>4. d = IF b.is # "read" THEN b
            ELSE IF ~w.ok THEN More
            ELSE IF w.value \notin allowed THEN Wrong
            ELSE [is |-> "read", value |-> w.value, rest |-> w.rest]
    BY <1>1, <1>2, ReadVarint
  <1>5. CASE c.is # "read"
    BY <1>1, <1>5 DEF Reading, Natural, Continues
  <1>6. CASE c.is = "read"
    <2>1. a.is = "read" /\ v.ok /\ v.value \in allowed
      BY <1>3, <1>6 DEF More, Wrong
    <2>2. PICK r \in Seq(Byte), h \in Seq(Byte) : r = a.rest /\ x = h \o r
      BY <2>1 DEF Reading
    <2>3. b.is = "read" /\ b.rest = r \o z
      BY <2>1, <2>2 DEF Continues
    <2>4. decode_varint(r).ok
      BY <1>2, <2>1, <2>2
    <2>5. /\ \E n \in 0 .. Len(r) : decode_varint(r).rest = Dropped(r, n)
          /\ decode_varint(r \o z).ok
          /\ decode_varint(r \o z).value = decode_varint(r).value
          /\ decode_varint(r \o z).rest = decode_varint(r).rest \o z
      BY <2>4, VarintContinued
    <2>6. w.ok /\ w.value = v.value /\ w.rest = v.rest \o z
      BY <1>2, <2>2, <2>3, <2>5
    <2>7. PICK n \in 0 .. Len(r) : v.rest = Dropped(r, n)
      BY <1>2, <2>2, <2>5
    <2>8. v.rest \in Seq(Byte) /\ \E g \in Seq(Byte) : x = g \o v.rest
      <3>1. Dropped(r, n) \in Seq(Byte) /\ \E g \in Seq(Byte) : x = g \o Dropped(r, n)
        BY <2>2, Consumed, ZenonT(60)
      <3> QED BY <2>7, <3>1
    <2>9. c.value = v.value /\ c.rest = v.rest
      BY <1>3, <2>1
    <2>10. d.is = "read" /\ d.value = v.value /\ d.rest = v.rest \o z
      BY <1>4, <2>1, <2>3, <2>6
    <2>11. c.value \in Nat
      BY <2>1, <2>9
    <2> QED BY <1>1, <2>8, <2>9, <2>10, <2>11 DEF Reading, Natural, Continues
  <1> QED BY <1>5, <1>6

\* As many bytes as the number before says.
LEMMA ExactReads ==
    ASSUME NEW x, NEW z \in Seq(Byte), NEW a, NEW b, Reading(a, x), Natural(a), Continues(a, b, z)
    PROVE  /\ Reading(read_exact(a), x)
           /\ Continues(read_exact(a), read_exact(b), z)
           /\ read_exact(a).is = "read" =>
                /\ a.is = "read" /\ read_exact(a).value \in Seq(Byte)
                /\ Len(read_exact(a).value) = a.value
  <1>1. PICK c, d : c = read_exact(a) /\ d = read_exact(b)
    OBVIOUS
  <1>2. c = IF a.is # "read" THEN a
            ELSE IF Len(a.rest) < a.value THEN More
            ELSE [is |-> "read", value |-> Taken(a.rest, a.value), rest |-> Dropped(a.rest, a.value)]
    BY <1>1, ReadExact
  <1>3. d = IF b.is # "read" THEN b
            ELSE IF Len(b.rest) < b.value THEN More
            ELSE [is |-> "read", value |-> Taken(b.rest, b.value), rest |-> Dropped(b.rest, b.value)]
    BY <1>1, ReadExact
  <1>4. CASE c.is # "read"
    BY <1>1, <1>4 DEF Reading, Continues
  <1>5. CASE c.is = "read"
    <2>1. a.is = "read" /\ ~(Len(a.rest) < a.value)
      BY <1>2, <1>5 DEF More
    <2>2. PICK r \in Seq(Byte), h \in Seq(Byte) : r = a.rest /\ x = h \o r
      BY <2>1 DEF Reading
    <2>3. PICK n \in Nat : n = a.value
      BY <2>1 DEF Natural
    <2>4. b.is = "read" /\ b.rest = r \o z /\ b.value = n
      BY <2>1, <2>2, <2>3 DEF Continues
    <2>5. Len(r) \in Nat /\ n \in 0 .. Len(r)
      BY <2>1, <2>2, <2>3
    <2>6. PICK s : s = r \o z
      OBVIOUS
    <2>7. Len(s) = Len(r) + Len(z) /\ Len(z) \in Nat
      BY <2>6, ConcatProperties
    <2>8. Taken(s, n) = Taken(r, n) /\ Dropped(s, n) = Dropped(r, n) \o z
      BY <2>5, <2>6, TakenOfConcat
    <2>9. c.value = Taken(r, n) /\ c.rest = Dropped(r, n)
      BY <1>2, <2>1, <2>2, <2>3
    <2>10. ~(Len(s) < n)
      BY <2>5, <2>7
    <2>11. d.is = "read" /\ d.value = Taken(r, n) /\ d.rest = Dropped(r, n) \o z
      BY <1>3, <2>4, <2>6, <2>8, <2>10
    <2>12. Dropped(r, n) \in Seq(Byte) /\ \E g \in Seq(Byte) : x = g \o Dropped(r, n)
      BY <2>2, <2>5, Consumed, ZenonT(60)
    <2>13. Taken(r, n) \in Seq(Byte) /\ Len(Taken(r, n)) = n
      BY <2>5, TakenDropped
    <2> QED BY <1>1, <2>1, <2>3, <2>9, <2>11, <2>12, <2>13 DEF Reading, Continues
  <1> QED BY <1>4, <1>5

\* The length of an address.
LEMMA AddressLengthReads ==
    ASSUME NEW x, NEW z \in Seq(Byte), NEW a, NEW b, Reading(a, x), Continues(a, b, z)
    PROVE  /\ Reading(read_address_length(a), x) /\ Natural(read_address_length(a))
           /\ Continues(read_address_length(a), read_address_length(b), z)
           /\ read_address_length(a).is = "read" => a.is = "read"
  <1>1. PICK c, d : c = read_address_length(a) /\ d = read_address_length(b)
    OBVIOUS
  <1>2. PICK l, m : l = read_u8(a) /\ m = read_u8(b)
    OBVIOUS
  <1>3. c = IF a.is # "read" THEN a
            ELSE IF a.value \notin DOMAIN AddressWidth THEN Wrong
            ELSE IF AddressWidth[a.value] > 0
                 THEN [is |-> "read", value |-> AddressWidth[a.value], rest |-> a.rest]
            ELSE IF l.is = "read" /\ l.value = 0 THEN Wrong ELSE l
    BY <1>1, <1>2, ReadAddressLength
  <1>4. d = IF b.is # "read" THEN b
            ELSE IF b.value \notin DOMAIN AddressWidth THEN Wrong
            ELSE IF AddressWidth[b.value] > 0
                 THEN [is |-> "read", value |-> AddressWidth[b.value], rest |-> b.rest]
            ELSE IF m.is = "read" /\ m.value = 0 THEN Wrong ELSE m
    BY <1>1, <1>2, ReadAddressLength
  <1>5. Reading(l, x) /\ Natural(l) /\ Continues(l, m, z)
    BY <1>2, U8Reads
  <1>6. CASE c.is # "read"
    BY <1>1, <1>6 DEF Reading, Natural, Continues
  <1>7. CASE c.is = "read"
    <2>1. a.is = "read" /\ a.value \in DOMAIN AddressWidth
      BY <1>3, <1>7 DEF Wrong
    <2>2. b.is = "read" /\ b.value = a.value /\ b.rest = a.rest \o z
      BY <2>1 DEF Continues
    <2>3. CASE AddressWidth[a.value] > 0
      <3>1. AddressWidth[a.value] \in Nat
        BY <2>1, StreamAssumption DEF StreamAssumption
      <3>2. c.value = AddressWidth[a.value] /\ c.rest = a.rest
        BY <1>3, <2>1, <2>3
      <3>3. d.is = "read" /\ d.value = AddressWidth[a.value] /\ d.rest = b.rest
        BY <1>4, <2>1, <2>2, <2>3
      <3> QED BY <1>1, <2>1, <2>2, <3>1, <3>2, <3>3 DEF Reading, Natural, Continues
    <2>4. CASE ~(AddressWidth[a.value] > 0)
      <3>1. c = l /\ l.is = "read" /\ l.value # 0
        BY <1>3, <1>7, <2>1, <2>4 DEF Wrong
      <3>2. m.is = "read" /\ m.value = l.value
        BY <1>5, <3>1 DEF Continues
      <3>3. d = m
        BY <1>4, <2>1, <2>2, <2>4, <3>1, <3>2
      <3> QED BY <1>1, <1>5, <2>1, <3>1, <3>3
    <2> QED BY <2>3, <2>4
  <1> QED BY <1>6, <1>7

----------------------------------------------------------------------------
\* A TCP request that is read from a part of a stream is the request of the whole:
\* more bytes change nothing but what is left, which is the end of the stream.
LEMMA RequestReads ==
    ASSUME NEW x \in Seq(Byte), NEW z \in Seq(Byte), read_tcp_request(x).is = "read"
    PROVE  /\ Reading(read_tcp_request(x), x)
           /\ read_tcp_request(x \o z).is = "read"
           /\ read_tcp_request(x \o z).destination = read_tcp_request(x).destination
           /\ read_tcp_request(x \o z).rest = read_tcp_request(x).rest \o z
  <1>1. PICK y : y = x \o z
    OBVIOUS
  <1>2. PICK a0, b0 : a0 = Start(x, 0) /\ b0 = Start(y, 0)
    OBVIOUS
  <1>3. PICK a1, b1 : /\ a1 = read_varint(a0, {FRAME_TYPE_TCP_REQUEST})
                      /\ b1 = read_varint(b0, {FRAME_TYPE_TCP_REQUEST})
    OBVIOUS
  <1>4. PICK a2, b2 : /\ a2 = read_varint(a1, 1 .. MAX_ADDRESS_LENGTH)
                      /\ b2 = read_varint(b1, 1 .. MAX_ADDRESS_LENGTH)
    OBVIOUS
  <1>5. PICK a3, b3 : a3 = read_exact(a2) /\ b3 = read_exact(b2)
    OBVIOUS
  <1>6. PICK a4, b4 : /\ a4 = read_varint(a3, 0 .. MAX_PADDING_LENGTH)
                      /\ b4 = read_varint(b3, 0 .. MAX_PADDING_LENGTH)
    OBVIOUS
  <1>7. PICK a5, b5 : a5 = read_exact(a4) /\ b5 = read_exact(b4)
    OBVIOUS
  <1>8. /\ {FRAME_TYPE_TCP_REQUEST} \in SUBSET Nat
        /\ 1 .. MAX_ADDRESS_LENGTH \in SUBSET Nat
        /\ 0 .. MAX_PADDING_LENGTH \in SUBSET Nat
    BY WireAssumption DEF WireAssumption
  <1>9. Reading(a0, x) /\ Continues(a0, b0, z)
    BY <1>1, <1>2, StartReads
  <1>10. Reading(a1, x) /\ Continues(a1, b1, z)
    BY <1>3, <1>8, <1>9, VarintReads
  <1>11. Reading(a2, x) /\ Natural(a2) /\ Continues(a2, b2, z)
    BY <1>4, <1>8, <1>10, VarintReads
  <1>12. Reading(a3, x) /\ Continues(a3, b3, z)
    BY <1>5, <1>11, ExactReads
  <1>13. Reading(a4, x) /\ Natural(a4) /\ Continues(a4, b4, z)
    BY <1>6, <1>8, <1>12, VarintReads
  <1>14. Reading(a5, x) /\ Continues(a5, b5, z) /\ (a5.is = "read" => a4.is = "read")
    BY <1>7, <1>13, ExactReads
  <1>15. read_tcp_request(x) = IF a5.is # "read" THEN a5
                               ELSE [is |-> "read", rest |-> a5.rest, destination |-> a3.value]
    BY <1>2, <1>3, <1>4, <1>5, <1>6, <1>7 DEF read_tcp_request
  <1>16. read_tcp_request(y) = IF b5.is # "read" THEN b5
                               ELSE [is |-> "read", rest |-> b5.rest, destination |-> b3.value]
    BY <1>2, <1>3, <1>4, <1>5, <1>6, <1>7 DEF read_tcp_request
  <1>17. a5.is = "read"
    BY <1>15
  <1>18. a3.is = "read"
    <2>1. a4.is = "read"
      BY <1>14, <1>17
    <2> QED BY <1>6, <2>1, ReadVarint
  <1>19. b5.is = "read" /\ b5.rest = a5.rest \o z /\ b3.value = a3.value
    BY <1>12, <1>14, <1>17, <1>18 DEF Continues
  <1>20. read_tcp_request(x).rest = a5.rest /\ read_tcp_request(x).destination = a3.value
    BY <1>15, <1>17
  <1>21. /\ read_tcp_request(y).is = "read" /\ read_tcp_request(y).rest = b5.rest
         /\ read_tcp_request(y).destination = b3.value
    BY <1>16, <1>19
  <1>22. Reading(read_tcp_request(x), x)
    BY <1>14, <1>17, <1>20 DEF Reading
  <1> QED BY <1>1, <1>19, <1>20, <1>21, <1>22

\* And it is the one that TcpRequest::decode finds.
LEMMA RequestDecodes ==
    ASSUME NEW x \in Seq(Byte), read_tcp_request(x).is = "read"
    PROVE  /\ TcpRequest_decode(x).ok
           /\ TcpRequest_decode(x).destination = read_tcp_request(x).destination
           /\ TcpRequest_decode(x).payload = read_tcp_request(x).rest
  <1>1. PICK a0 : a0 = Start(x, 0)
    OBVIOUS
  <1>2. PICK a1 : a1 = read_varint(a0, {FRAME_TYPE_TCP_REQUEST})
    OBVIOUS
  <1>3. PICK a2 : a2 = read_varint(a1, 1 .. MAX_ADDRESS_LENGTH)
    OBVIOUS
  <1>4. PICK a3 : a3 = read_exact(a2)
    OBVIOUS
  <1>5. PICK a4 : a4 = read_varint(a3, 0 .. MAX_PADDING_LENGTH)
    OBVIOUS
  <1>6. PICK a5 : a5 = read_exact(a4)
    OBVIOUS
  <1>7. read_tcp_request(x) = IF a5.is # "read" THEN a5
                              ELSE [is |-> "read", rest |-> a5.rest, destination |-> a3.value]
    BY <1>1, <1>2, <1>3, <1>4, <1>5, <1>6 DEF read_tcp_request
  <1>8. a5.is = "read" /\ read_tcp_request(x).rest = a5.rest /\ read_tcp_request(x).destination = a3.value
    BY <1>7
  <1>9. /\ a4.is = "read" /\ ~(Len(a4.rest) < a4.value)
        /\ a5.rest = Dropped(a4.rest, a4.value)
    BY <1>6, <1>8, ReadExact DEF More
  <1>10. PICK v4 : v4 = decode_varint(a3.rest)
    OBVIOUS
  <1>11. /\ a3.is = "read" /\ v4.ok /\ v4.value \in 0 .. MAX_PADDING_LENGTH
         /\ a4.value = v4.value /\ a4.rest = v4.rest
    BY <1>5, <1>9, <1>10, ReadVarint DEF More, Wrong
  <1>12. /\ a2.is = "read" /\ ~(Len(a2.rest) < a2.value)
         /\ a3.value = Taken(a2.rest, a2.value) /\ a3.rest = Dropped(a2.rest, a2.value)
    BY <1>4, <1>11, ReadExact DEF More
  <1>13. PICK v2 : v2 = decode_varint(a1.rest)
    OBVIOUS
  <1>14. /\ a1.is = "read" /\ v2.ok /\ v2.value \in 1 .. MAX_ADDRESS_LENGTH
         /\ a2.value = v2.value /\ a2.rest = v2.rest
    BY <1>3, <1>12, <1>13, ReadVarint DEF More, Wrong
  <1>15. PICK v1 : v1 = decode_varint(x)
    OBVIOUS
  <1>16. v1.ok /\ v1.value = FRAME_TYPE_TCP_REQUEST /\ a1.rest = v1.rest
    <2>1. a0.is = "read" /\ a0.rest = x
      BY <1>1 DEF Start
    <2> QED BY <1>2, <1>14, <1>15, <2>1, ReadVarint DEF More, Wrong
  <1>17. MAX_ADDRESS_LENGTH \in Nat /\ MAX_PADDING_LENGTH \in Nat
    BY WireAssumption DEF WireAssumption
  <1>18. read_limited(v1.rest, MAX_ADDRESS_LENGTH) = [ok |-> TRUE, value |-> a3.value, rest |-> a3.rest]
    <2>1. ~(~v2.ok \/ v2.value > MAX_ADDRESS_LENGTH \/ Len(v2.rest) < v2.value)
      BY <1>12, <1>14, <1>17
    <2> QED BY <1>12, <1>13, <1>14, <1>16, <2>1 DEF read_limited
  <1>19. a3.value # <<>>
    <2>1. Reading(a0, x) /\ Continues(a0, a0, <<>>)
      <3>1. <<>> \in Seq(Byte) /\ x \o <<>> = x
        OBVIOUS
      <3>2. 0 \in Nat
        OBVIOUS
      <3> QED BY <1>1, <3>1, <3>2, StartReads
    <2>2. {FRAME_TYPE_TCP_REQUEST} \in SUBSET Nat /\ 1 .. MAX_ADDRESS_LENGTH \in SUBSET Nat
          /\ <<>> \in Seq(Byte)
      BY WireAssumption DEF WireAssumption
    <2>3. Reading(a1, x) /\ Continues(a1, a1, <<>>)
      BY <1>2, <2>1, <2>2, VarintReads
    <2>4. Reading(a2, x) /\ Natural(a2) /\ Continues(a2, a2, <<>>)
      BY <1>3, <2>2, <2>3, VarintReads
    <2>5. Len(a3.value) = a2.value
      BY <1>4, <1>11, <2>2, <2>4, ExactReads
    <2> QED BY <1>14, <1>17, <2>5
  <1>20. read_limited(a3.rest, MAX_PADDING_LENGTH).ok /\ read_limited(a3.rest, MAX_PADDING_LENGTH).rest = a5.rest
    <2>1. ~(~v4.ok \/ v4.value > MAX_PADDING_LENGTH \/ Len(v4.rest) < v4.value)
      BY <1>9, <1>11, <1>17
    <2> QED BY <1>9, <1>10, <1>11, <2>1 DEF read_limited
  <1>21. TcpRequest_decode(x) = [ok |-> TRUE, destination |-> a3.value, payload |-> a5.rest]
    <2>1. PICK p : p = read_limited(a3.rest, MAX_PADDING_LENGTH)
      OBVIOUS
    <2>2. PICK q : q = read_limited(v1.rest, MAX_ADDRESS_LENGTH)
      OBVIOUS
    <2>3. q.ok /\ q.value = a3.value /\ q.rest = a3.rest /\ p.ok /\ p.rest = a5.rest
      BY <1>18, <1>20, <2>1, <2>2
    <2>4. ~(~v1.ok \/ v1.value # FRAME_TYPE_TCP_REQUEST) /\ ~(~q.ok \/ q.value = <<>>)
      BY <1>16, <1>19, <2>3
    <2> QED BY <1>15, <2>1, <2>2, <2>3, <2>4 DEF TcpRequest_decode
  <1> QED BY <1>8, <1>21

\* The version and the user id of VLESS.
LEMMA PrefixReads ==
    ASSUME NEW x \in Seq(Byte), NEW z \in Seq(Byte), read_prefix(x).is = "read"
    PROVE  /\ Reading(read_prefix(x), x)
           /\ read_prefix(x \o z).is = "read"
           /\ read_prefix(x \o z).rest = read_prefix(x).rest \o z
  <1>1. PICK a, b : a = read_exact(Start(x, 2)) /\ b = read_exact(Start(x \o z, 2))
    OBVIOUS
  <1>2. Reading(a, x) /\ Continues(a, b, z)
    <2>1. 2 \in Nat
      OBVIOUS
    <2>2. Reading(Start(x, 2), x) /\ Natural(Start(x, 2)) /\ Continues(Start(x, 2), Start(x \o z, 2), z)
      BY <2>1, StartReads
    <2> QED BY <1>1, <2>2, ExactReads
  <1>3. read_prefix(x) = a /\ a.is = "read" /\ ~(a.value[1] # 0 \/ a.value[2] \notin VlessUsers)
    BY <1>1 DEF read_prefix, Wrong
  <1>4. b.is = "read" /\ b.value = a.value /\ b.rest = a.rest \o z
    BY <1>2, <1>3 DEF Continues
  <1>5. read_prefix(x \o z) = b
    BY <1>1, <1>3, <1>4 DEF read_prefix
  <1> QED BY <1>2, <1>3, <1>4, <1>5

\* The destination of VLESS.
LEMMA DestinationReads ==
    ASSUME NEW x, NEW z \in Seq(Byte), NEW a, NEW b, Reading(a, x), Continues(a, b, z)
    PROVE  /\ Reading(read_destination(a), x)
           /\ Continues(read_destination(a), read_destination(b), z)
           /\ read_destination(a).is = "read" => a.is = "read"
  <1>1. PICK a1, b1 : a1 = read_u8(a) /\ b1 = read_u8(b)
    OBVIOUS
  <1>2. PICK a2, b2 : a2 = read_u8(a1) /\ b2 = read_u8(b1)
    OBVIOUS
  <1>3. PICK a3, b3 : a3 = read_address_length(a2) /\ b3 = read_address_length(b2)
    OBVIOUS
  <1>4. PICK a4, b4 : a4 = read_exact(a3) /\ b4 = read_exact(b3)
    OBVIOUS
  <1>5. Reading(a1, x) /\ Continues(a1, b1, z)
    BY <1>1, U8Reads
  <1>6. Reading(a2, x) /\ Continues(a2, b2, z)
    BY <1>2, <1>5, U8Reads
  <1>7. Reading(a3, x) /\ Natural(a3) /\ Continues(a3, b3, z) /\ (a3.is = "read" => a2.is = "read")
    BY <1>3, <1>6, AddressLengthReads
  <1>8. Reading(a4, x) /\ Continues(a4, b4, z) /\ (a4.is = "read" => a3.is = "read")
    BY <1>4, <1>7, ExactReads
  <1>9. read_destination(a) = IF a4.is = "read" /\ a2.value = 2 /\ ~IsUtf8(a4.value) THEN Wrong ELSE a4
    BY <1>1, <1>2, <1>3, <1>4 DEF read_destination
  <1>10. read_destination(b) = IF b4.is = "read" /\ b2.value = 2 /\ ~IsUtf8(b4.value) THEN Wrong ELSE b4
    BY <1>1, <1>2, <1>3, <1>4 DEF read_destination
  <1>11. CASE read_destination(a).is # "read"
    BY <1>11 DEF Reading, Continues
  <1>12. CASE read_destination(a).is = "read"
    <2>1. read_destination(a) = a4 /\ a4.is = "read"
      BY <1>9, <1>12 DEF Wrong
    <2>2. a2.is = "read" /\ a1.is = "read" /\ a.is = "read"
      BY <1>1, <1>2, <1>7, <1>8, <2>1, ReadU8
    <2>3. b4.is = "read" /\ b4.value = a4.value /\ b2.value = a2.value
      BY <1>6, <1>8, <2>1, <2>2 DEF Continues
    <2>4. read_destination(b) = b4
      BY <1>9, <1>10, <2>1, <2>3 DEF Wrong
    <2> QED BY <1>8, <2>1, <2>2, <2>4
  <1> QED BY <1>11, <1>12

\* The header of VLESS.
LEMMA HeaderReads ==
    ASSUME NEW x \in Seq(Byte), NEW z \in Seq(Byte), read_vless_header(x).is = "read"
    PROVE  /\ Reading(read_vless_header(x), x)
           /\ read_vless_header(x).command \in {COMMAND_TCP, COMMAND_UDP}
           /\ read_vless_header(x \o z).is = "read"
           /\ read_vless_header(x \o z).command = read_vless_header(x).command
           /\ read_vless_header(x \o z).rest = read_vless_header(x).rest \o z
  <1>1. PICK y : y = x \o z
    OBVIOUS
  <1>2. PICK a0, b0 : a0 = Start(x, 0) /\ b0 = Start(y, 0)
    OBVIOUS
  <1>3. PICK a1, b1 : a1 = read_u8(a0) /\ b1 = read_u8(b0)
    OBVIOUS
  <1>4. PICK a2, b2 : a2 = read_exact(a1) /\ b2 = read_exact(b1)
    OBVIOUS
  <1>5. PICK a3, b3 : a3 = read_u8(a2) /\ b3 = read_u8(b2)
    OBVIOUS
  <1>6. PICK a4, b4 : a4 = read_destination(a3) /\ b4 = read_destination(b3)
    OBVIOUS
  <1>7. Reading(a0, x) /\ Continues(a0, b0, z)
    BY <1>1, <1>2, StartReads
  <1>8. Reading(a1, x) /\ Natural(a1) /\ Continues(a1, b1, z)
    BY <1>3, <1>7, U8Reads
  <1>9. Reading(a2, x) /\ Continues(a2, b2, z)
    BY <1>4, <1>8, ExactReads
  <1>10. Reading(a3, x) /\ Continues(a3, b3, z)
    BY <1>5, <1>9, U8Reads
  <1>11. Reading(a4, x) /\ Continues(a4, b4, z) /\ (a4.is = "read" => a3.is = "read")
    BY <1>6, <1>10, DestinationReads
  <1>12. read_vless_header(x) =
           IF a2.is = "read" /\ a2.value # <<>> THEN Wrong
           ELSE IF a4.is # "read" THEN a4
           ELSE IF a3.value \notin {COMMAND_TCP, COMMAND_UDP} THEN Wrong
           ELSE [is |-> "read", rest |-> a4.rest, command |-> a3.value]
    BY <1>2, <1>3, <1>4, <1>5, <1>6 DEF read_vless_header
  <1>13. read_vless_header(y) =
           IF b2.is = "read" /\ b2.value # <<>> THEN Wrong
           ELSE IF b4.is # "read" THEN b4
           ELSE IF b3.value \notin {COMMAND_TCP, COMMAND_UDP} THEN Wrong
           ELSE [is |-> "read", rest |-> b4.rest, command |-> b3.value]
    BY <1>2, <1>3, <1>4, <1>5, <1>6 DEF read_vless_header
  <1>14. ~(a2.is = "read" /\ a2.value # <<>>) /\ a4.is = "read" /\ a3.value \in {COMMAND_TCP, COMMAND_UDP}
    BY <1>12 DEF Wrong
  <1>15. read_vless_header(x).rest = a4.rest /\ read_vless_header(x).command = a3.value
    BY <1>12, <1>14
  <1>16. a3.is = "read" /\ a2.is = "read"
    BY <1>5, <1>11, <1>14, ReadU8
  <1>17. b4.is = "read" /\ b4.rest = a4.rest \o z /\ b3.value = a3.value /\ b2.value = a2.value
    BY <1>9, <1>10, <1>11, <1>14, <1>16 DEF Continues
  <1>18. /\ read_vless_header(y).is = "read" /\ read_vless_header(y).rest = b4.rest
         /\ read_vless_header(y).command = b3.value
    BY <1>13, <1>14, <1>16, <1>17
  <1>19. Reading(read_vless_header(x), x)
    BY <1>11, <1>14, <1>15 DEF Reading
  <1> QED BY <1>1, <1>14, <1>15, <1>17, <1>18, <1>19

----------------------------------------------------------------------------
(* Integers and varints.                                                    *)

\* The function power of Power, up to n.
Powers(f, n) == f = [i \in 0 .. n |-> IF i = 0 THEN 1 ELSE f[i - 1] * Base]
\* What it computes, step by step.
Raised(f, n) == f[0] = 1 /\ \A i \in 1 .. n : f[i] = f[i - 1] * Base

\* A product of positive numbers is positive.
LEMMA PositiveProduct == \A x, y \in Nat \ {0} : x * y \in Nat \ {0}
  OBVIOUS

\* Base is positive.
LEMMA BasePositive == Base \in Nat \ {0}
  BY WireAssumption DEF WireAssumption

\* Power is computed step by step.
LEMMA PowerFunction ==
    ASSUME NEW m \in Nat
    PROVE  \E f \in [0 .. m -> Nat \ {0}] : Raised(f, m) /\ Power(m) = f[m]
  <1> DEFINE V == Nat \ {0}
             step == [n \in Nat |-> [v \in V |-> v * Base]]
             chosenPower == CHOOSE f : Powers(f, m)
  <1>1. 1 \in V
    OBVIOUS
  <1>2. step \in [Nat -> [V -> V]]
    BY BasePositive, PositiveProduct
  <1>3. \A n \in Nat : \A v \in V : step[n][v] = v * Base
    OBVIOUS
  <1> HIDE DEF step, V
  <1>4. PICK g \in [0 .. m -> V] : Recursive(g, 1, step, m)
    BY <1>1, <1>2, RecursionExists
  <1>5. \A n \in 0 .. m : g[n] = IF n = 0 THEN 1 ELSE step[n][g[n - 1]]
    BY <1>4 DEF Recursive
  <1>6. \A n \in 0 .. m : g[n] = IF n = 0 THEN 1 ELSE g[n - 1] * Base
    <2> TAKE n \in 0 .. m
    <2>1. n # 0 => n - 1 \in 0 .. m /\ n \in Nat
      OBVIOUS
    <2>2. n # 0 => g[n - 1] \in V
      BY <2>1
    <2> QED BY <1>3, <1>5, <2>1, <2>2
  <1>7. Powers(g, m)
    <2>1. g = [n \in 0 .. m |-> g[n]]
      BY <1>4
    <2> QED BY <1>6, <2>1 DEF Powers
  <1>8. Powers(chosenPower, m)
    BY <1>7
  <1>9. Power(m) = chosenPower[m]
    BY DEF Power, Powers
  <1> HIDE DEF chosenPower
  <1>10. \A n \in 0 .. m : chosenPower[n] = IF n = 0 THEN 1 ELSE chosenPower[n - 1] * Base
    BY <1>8 DEF Powers
  <1> DEFINE S == {n \in Nat : n <= m => chosenPower[n] = g[n]}
  <1>11. 0 \in S
    BY <1>6, <1>10
  <1>12. ASSUME NEW n \in Nat, n \in S PROVE n + 1 \in S
    <2> SUFFICES ASSUME n + 1 <= m PROVE chosenPower[n + 1] = g[n + 1]
      OBVIOUS
    <2>1. PICK k : k = n + 1
      OBVIOUS
    <2>2. k \in 0 .. m /\ k # 0 /\ k - 1 = n /\ n <= m
      BY <2>1
    <2>3. chosenPower[k - 1] = g[k - 1]
      BY <1>12, <2>2
    <2>4. chosenPower[k] = g[k]
      BY <1>6, <1>10, <2>2, <2>3
    <2> QED BY <2>1, <2>4
  <1>13. Nat \subseteq S
    <2> HIDE DEF S
    <2> QED BY <1>11, <1>12, SetInduction
  <1>14. chosenPower[m] = g[m]
    BY <1>13
  <1>15. Raised(g, m)
    <2>1. g[0] = 1
      BY <1>6
    <2>2. \A i \in 1 .. m : i \in 0 .. m /\ i # 0
      OBVIOUS
    <2> QED BY <1>6, <2>1, <2>2 DEF Raised
  <1> QED BY <1>9, <1>14, <1>15 DEF V

\* Base to the n, step by step.
LEMMA PowerStep ==
    ASSUME NEW n \in Nat
    PROVE  Power(0) = 1 /\ Power(n) \in Nat \ {0} /\ Power(n + 1) = Power(n) * Base
  <1>1. Power(0) = 1
    <2>1. PICK f \in [0 .. 0 -> Nat \ {0}] : Raised(f, 0) /\ Power(0) = f[0]
      BY PowerFunction
    <2> QED BY <2>1 DEF Raised
  <1>2. PICK f \in [0 .. n -> Nat \ {0}] : Raised(f, n) /\ Power(n) = f[n]
    BY PowerFunction
  <1>3. PICK m : m = n + 1
    OBVIOUS
  <1>4. m \in Nat /\ m - 1 = n /\ m \in 1 .. m
    BY <1>3
  <1>5. PICK g \in [0 .. m -> Nat \ {0}] : Raised(g, m) /\ Power(m) = g[m]
    BY <1>4, PowerFunction
  <1> DEFINE S == {i \in Nat : i <= n => f[i] = g[i]}
  <1>6. 0 \in S
    BY <1>2, <1>5 DEF Raised
  <1>7. ASSUME NEW i \in Nat, i \in S PROVE i + 1 \in S
    <2> SUFFICES ASSUME i + 1 <= n PROVE f[i + 1] = g[i + 1]
      OBVIOUS
    <2>1. PICK k : k = i + 1
      OBVIOUS
    <2>2. k \in 1 .. n /\ k \in 1 .. m /\ k - 1 = i /\ i <= n
      BY <1>3, <2>1
    <2>3. f[k - 1] = g[k - 1]
      BY <1>7, <2>2
    <2>4. f[k] = f[k - 1] * Base /\ g[k] = g[k - 1] * Base
      BY <1>2, <1>5, <2>2 DEF Raised
    <2> QED BY <2>1, <2>3, <2>4
  <1>8. Nat \subseteq S
    <2> HIDE DEF S
    <2> QED BY <1>6, <1>7, SetInduction
  <1>9. f[n] = g[n]
    BY <1>8
  <1>10. g[m] = g[m - 1] * Base
    BY <1>4, <1>5 DEF Raised
  <1>11. Power(n) \in Nat \ {0}
    <2>1. n \in 0 .. n
      OBVIOUS
    <2> QED BY <1>2, <2>1
  <1> QED BY <1>1, <1>2, <1>3, <1>4, <1>5, <1>9, <1>10, <1>11

\* Division with remainder.
LEMMA DivMod ==
    ASSUME NEW x \in Nat, NEW d \in Nat \ {0}
    PROVE  x \div d \in Nat /\ x % d \in 0 .. d - 1 /\ x = (x \div d) * d + (x % d)
  <1>1. x \div d \in Int
    OBVIOUS
  <1>2. x % d \in 0 .. d - 1
    OBVIOUS
  <1>3. x = (x \div d) * d + (x % d)
    OBVIOUS
  <1>4. PICK q \in Int, r \in 0 .. d - 1 : q = x \div d /\ r = x % d /\ x = q * d + r
    BY <1>1, <1>2, <1>3
  <1>5. q >= 0
    BY <1>4
  <1> QED BY <1>2, <1>3, <1>4, <1>5

\* A product that is smaller has a smaller factor.
LEMMA FactorLess ==
    ASSUME NEW a \in Int, NEW b \in Int, NEW d \in Nat \ {0}, a * d < b * d
    PROVE  a < b
  OBVIOUS

\* A larger factor makes no smaller product.
LEMMA ProductMonotone ==
    ASSUME NEW a \in Int, NEW b \in Int, NEW d \in Nat, a <= b
    PROVE  a * d <= b * d
  OBVIOUS

\* Quotient and remainder are the only ones.
LEMMA DivModUnique ==
    ASSUME NEW q \in Nat, NEW d \in Nat \ {0}, NEW r \in 0 .. d - 1
    PROVE  (q * d + r) \div d = q /\ (q * d + r) % d = r
  <1>1. PICK x : x = q * d + r
    OBVIOUS
  <1>2. x \in Nat
    <2>1. q * d \in Nat
      OBVIOUS
    <2> QED BY <1>1, <2>1
  <1>3. PICK p \in Nat, s \in 0 .. d - 1 : p = x \div d /\ s = x % d /\ x = p * d + s
    BY <1>2, DivMod
  <1>4. p * d < (q + 1) * d /\ q * d < (p + 1) * d
    <2>1. (q + 1) * d = q * d + d /\ (p + 1) * d = p * d + d
      OBVIOUS
    <2>2. q * d \in Int /\ p * d \in Int
      OBVIOUS
    <2> QED BY <1>1, <1>3, <2>1, <2>2
  <1>5. p < q + 1 /\ q < p + 1
    BY <1>4, FactorLess
  <1>6. p = q
    BY <1>5
  <1>7. s = r
    <2>1. q * d \in Int
      OBVIOUS
    <2> QED BY <1>1, <1>3, <1>6, <2>1
  <1> QED BY <1>1, <1>3, <1>6, <1>7

\* A quotient is bounded.
LEMMA DivLess ==
    ASSUME NEW x \in Nat, NEW d \in Nat \ {0}, NEW c \in Nat, x < c * d
    PROVE  x \div d < c
  <1>1. PICK p \in Nat, s \in 0 .. d - 1 : p = x \div d /\ x = p * d + s
    BY DivMod
  <1>2. p * d \in Int /\ c * d \in Int
    OBVIOUS
  <1>3. p * d < c * d
    BY <1>1, <1>2
  <1> QED BY <1>1, <1>3, FactorLess

\* Dividing twice.
LEMMA DivDiv ==
    ASSUME NEW x \in Nat, NEW d \in Nat \ {0}, NEW e \in Nat \ {0}
    PROVE  x \div (d * e) = (x \div d) \div e
  <1>1. PICK u \in Nat, r \in 0 .. d - 1 : u = x \div d /\ x = u * d + r
    BY DivMod
  <1>2. PICK t \in Nat, s \in 0 .. e - 1 : t = u \div e /\ u = t * e + s
    BY DivMod
  <1>3. PICK f : f = d * e
    OBVIOUS
  <1>4. f \in Nat \ {0}
    BY <1>3, PositiveProduct
  <1>5. PICK k : k = s * d + r
    OBVIOUS
  <1>6. k \in 0 .. f - 1
    <2>1. s * d <= (e - 1) * d
      BY ProductMonotone
    <2>2. (e - 1) * d = f - d
      BY <1>3
    <2>3. s * d \in Nat
      OBVIOUS
    <2> QED BY <1>3, <1>4, <1>5, <2>1, <2>2, <2>3
  <1>7. x = t * f + k
    <2>1. u * d = (t * e + s) * d
      BY <1>2
    <2>2. (t * e + s) * d = t * (d * e) + s * d
      OBVIOUS
    <2> QED BY <1>1, <1>3, <1>5, <2>1, <2>2
  <1>8. x \div f = t
    BY <1>4, <1>6, <1>7, DivModUnique
  <1> QED BY <1>1, <1>2, <1>3, <1>8

\* Digits to the base.
LEMMA ToBeBytes ==
    ASSUME NEW v \in Nat, NEW w \in Nat
    PROVE  /\ to_be_bytes(v, w) \in Seq(Byte) /\ Len(to_be_bytes(v, w)) = w
           /\ \A i \in 1 .. w : to_be_bytes(v, w)[i] = (v \div Power(w - i)) % Base
  <1>1. ASSUME NEW i \in 1 .. w PROVE (v \div Power(w - i)) % Base \in Byte
    <2>1. w - i \in Nat
      OBVIOUS
    <2>2. Power(w - i) \in Nat \ {0}
      BY <2>1, PowerStep
    <2>3. PICK q \in Nat : q = v \div Power(w - i)
      BY <2>2, DivMod
    <2>4. q % Base \in 0 .. Base - 1
      BY BasePositive, DivMod
    <2> QED BY <2>3, <2>4 DEF Byte, MaxByte
  <1>2. to_be_bytes(v, w) \in [1 .. w -> Byte]
    BY <1>1 DEF to_be_bytes
  <1>3. to_be_bytes(v, w) \in Seq(Byte) /\ Len(to_be_bytes(v, w)) = w
    BY <1>2
  <1> QED BY <1>3 DEF to_be_bytes

\* The function value of from_be_bytes, and what it computes.
Values(f, bytes) == f = [n \in 0 .. Len(bytes) |-> IF n = 0 THEN 0 ELSE f[n - 1] * Base + bytes[n]]
\* The same, step by step.
Digits(f, bytes) == f[0] = 0 /\ \A n \in 1 .. Len(bytes) : f[n] = f[n - 1] * Base + bytes[n]

\* A function that is computed in these steps is the value.
LEMMA FromBeBytes ==
    ASSUME NEW b \in Seq(Nat), NEW g \in [0 .. Len(b) -> Nat], Digits(g, b)
    PROVE  from_be_bytes(b) = g[Len(b)]
  <1> DEFINE chosenValue == CHOOSE f : Values(f, b)
  <1>1. Len(b) \in Nat
    OBVIOUS
  <1>2. \A n \in 0 .. Len(b) : g[n] = IF n = 0 THEN 0 ELSE g[n - 1] * Base + b[n]
    <2>1. \A n \in 0 .. Len(b) : n = 0 \/ n \in 1 .. Len(b)
      OBVIOUS
    <2> QED BY <2>1 DEF Digits
  <1>3. Values(g, b)
    <2>1. g = [n \in 0 .. Len(b) |-> g[n]]
      OBVIOUS
    <2> QED BY <1>2, <2>1 DEF Values
  <1>4. Values(chosenValue, b)
    BY <1>3
  <1>5. from_be_bytes(b) = chosenValue[Len(b)]
    BY DEF from_be_bytes, Values
  <1> HIDE DEF chosenValue
  <1>6. \A n \in 0 .. Len(b) : chosenValue[n] = IF n = 0 THEN 0 ELSE chosenValue[n - 1] * Base + b[n]
    BY <1>4 DEF Values
  <1> DEFINE S == {n \in Nat : n <= Len(b) => chosenValue[n] = g[n]}
  <1>7. 0 \in S
    BY <1>1, <1>2, <1>6
  <1>8. ASSUME NEW n \in Nat, n \in S PROVE n + 1 \in S
    <2> SUFFICES ASSUME n + 1 <= Len(b) PROVE chosenValue[n + 1] = g[n + 1]
      OBVIOUS
    <2>1. PICK k : k = n + 1
      OBVIOUS
    <2>2. k \in 0 .. Len(b) /\ k # 0 /\ k - 1 = n /\ n <= Len(b)
      BY <1>1, <2>1
    <2>3. chosenValue[k - 1] = g[k - 1]
      BY <1>8, <2>2
    <2>4. chosenValue[k] = g[k]
      BY <1>2, <1>6, <2>2, <2>3
    <2> QED BY <2>1, <2>4
  <1>9. Nat \subseteq S
    <2> HIDE DEF S
    <2> QED BY <1>7, <1>8, SetInduction
  <1> QED BY <1>1, <1>5, <1>9

\* Reading digits back.
LEMMA FromToBytes ==
    ASSUME NEW v \in Nat, NEW w \in Nat, v < Power(w)
    PROVE  from_be_bytes(to_be_bytes(v, w)) = v
  <1>1. PICK b : b = to_be_bytes(v, w)
    OBVIOUS
  <1>2. b \in Seq(Byte) /\ Len(b) = w /\ \A i \in 1 .. w : b[i] = (v \div Power(w - i)) % Base
    BY <1>1, ToBeBytes
  <1>3. b \in Seq(Nat)
    <2>1. Byte \subseteq Nat
      BY DEF Byte
    <2> QED BY <1>2, <2>1, SeqMonotonic
  <1> DEFINE g == [n \in 0 .. w |-> v \div Power(w - n)]
  <1>4. g \in [0 .. w -> Nat]
    <2>1. ASSUME NEW n \in 0 .. w PROVE v \div Power(w - n) \in Nat
      <3>1. w - n \in Nat
        OBVIOUS
      <3> QED BY <3>1, PowerStep, DivMod
    <2> QED BY <2>1
  <1>5. g[0] = 0
    <2>1. Power(w) \in Nat \ {0} /\ w - 0 = w
      BY PowerStep
    <2>2. v \div Power(w) < 1
      BY <2>1, DivLess
    <2>3. v \div Power(w) \in Nat
      BY <2>1, DivMod
    <2> QED BY <2>1, <2>2, <2>3
  <1>6. ASSUME NEW n \in 1 .. w PROVE g[n] = g[n - 1] * Base + b[n]
    <2>1. PICK p \in Nat : p = w - n
      OBVIOUS
    <2>2. w - (n - 1) = p + 1 /\ n \in 0 .. w /\ n - 1 \in 0 .. w
      BY <2>1
    <2>3. PICK P \in Nat \ {0} : P = Power(p) /\ Power(p + 1) = P * Base
      BY PowerStep
    <2>4. PICK q \in Nat : q = v \div P
      BY <2>3, DivMod
    <2>5. v \div (P * Base) = q \div Base
      BY <2>4, BasePositive, DivDiv
    <2>6. q = (q \div Base) * Base + (q % Base)
      BY BasePositive, DivMod
    <2>7. g[n] = q /\ g[n - 1] = q \div Base
      BY <2>1, <2>2, <2>3, <2>4, <2>5
    <2>8. b[n] = q % Base
      BY <1>2, <2>1, <2>3, <2>4
    <2> QED BY <2>6, <2>7, <2>8
  <1>7. g[w] = v
    <2>1. w - w = 0 /\ w \in 0 .. w /\ Power(0) = 1
      BY PowerStep
    <2> QED BY <2>1
  <1> HIDE DEF g
  <1>8. Digits(g, b)
    BY <1>2, <1>5, <1>6 DEF Digits
  <1>9. from_be_bytes(b) = g[Len(b)]
    BY <1>2, <1>3, <1>4, <1>8, FromBeBytes
  <1> QED BY <1>1, <1>2, <1>7, <1>9

\* A quarter of the base.
LEMMA BaseQuarter ==
    Base \div 4 \in Nat \ {0} /\ Base = 4 * (Base \div 4)
  BY WireAssumption DEF WireAssumption

\* The size of a varint is the smallest width that it fits.
LEMMA VarintSize ==
    ASSUME NEW v \in Nat, Fits(v, 8)
    PROVE  /\ varint_size(v) \in {1, 2, 4, 8}
           /\ Fits(v, varint_size(v))
  <1>1. ToSet(Widths) = {1, 2, 4, 8}
    <2>1. DOMAIN Widths = 1 .. 4 /\ Widths[1] = 1 /\ Widths[2] = 2 /\ Widths[3] = 4 /\ Widths[4] = 8
      BY DEF Widths
    <2>2. 1 .. 4 = {1, 2, 3, 4}
      OBVIOUS
    <2>3. ToSet(Widths) = {Widths[i] : i \in {1, 2, 3, 4}}
      BY <2>1, <2>2 DEF ToSet
    <2> QED BY <2>1, <2>3
  <1> DEFINE P(w) == Fits(v, w) /\ \A u \in {1, 2, 4, 8} : Fits(v, u) => w <= u
  <1>2. \E w \in {1, 2, 4, 8} : P(w)
    <2>1. CASE Fits(v, 1)
      <3>1. P(1)
        BY <2>1
      <3> QED BY <3>1
    <2>2. CASE ~Fits(v, 1) /\ Fits(v, 2)
      <3>1. P(2)
        BY <2>2
      <3> QED BY <3>1
    <2>3. CASE ~Fits(v, 1) /\ ~Fits(v, 2) /\ Fits(v, 4)
      <3>1. P(4)
        BY <2>3
      <3> QED BY <3>1
    <2>4. CASE ~Fits(v, 1) /\ ~Fits(v, 2) /\ ~Fits(v, 4)
      <3>1. P(8)
        BY <2>4
      <3> QED BY <3>1
    <2> QED BY <2>1, <2>2, <2>3, <2>4
  <1>3. varint_size(v) = CHOOSE w \in {1, 2, 4, 8} : P(w)
    BY <1>1 DEF varint_size
  <1> HIDE DEF P
  <1>4. varint_size(v) \in {1, 2, 4, 8} /\ P(varint_size(v))
    BY <1>2, <1>3
  <1> QED BY <1>4 DEF P

\* A varint: its width in the first byte and its digits.
LEMMA EncodeVarint ==
    ASSUME NEW v \in Nat, Fits(v, 8)
    PROVE  \E w \in {1, 2, 4, 8}, c \in 1 .. 4, q \in 0 .. (Base \div 4) - 1 :
             /\ Widths[c] = w /\ w = varint_size(v) /\ v < Power(w)
             /\ q = to_be_bytes(v, w)[1]
             /\ encode_varint(v) = [to_be_bytes(v, w) EXCEPT ![1] = @ + (c - 1) * (Base \div 4)]
             /\ q + (c - 1) * (Base \div 4) \in Byte
  <1>1. PICK w \in {1, 2, 4, 8} : w = varint_size(v) /\ Fits(v, w)
    BY VarintSize
  <1> DEFINE code == CHOOSE k \in DOMAIN Widths : Widths[k] = w
  <1>2. DOMAIN Widths = 1 .. 4 /\ \E k \in 1 .. 4 : Widths[k] = w
    BY <1>1 DEF Widths
  <1>3. code \in 1 .. 4 /\ Widths[code] = w
    BY <1>2
  <1>4. encode_varint(v) = [to_be_bytes(v, w) EXCEPT ![1] = @ + (code - 1) * (Base \div 4)]
    BY <1>1, <1>3 DEF encode_varint
  <1> HIDE DEF code
  <1>5. PICK n \in Nat : w = n + 1
    BY <1>1
  <1>6. PICK P \in Nat \ {0} : P = Power(n) /\ Power(w) = P * Base
    BY <1>5, PowerStep
  <1>7. PICK Q \in Nat \ {0} : Q = Base \div 4 /\ Base = 4 * Q
    BY BaseQuarter
  <1>8. v < Q * P
    <2>1. 4 * v < P * Base
      BY <1>1, <1>6 DEF Fits
    <2>2. P * Base = 4 * (Q * P)
      BY <1>7
    <2>3. Q * P \in Nat
      OBVIOUS
    <2> QED BY <2>1, <2>2, <2>3
  <1>9. v \div P \in 0 .. Q - 1
    <2>1. v \div P < Q
      BY <1>8, DivLess
    <2>2. v \div P \in Nat
      BY DivMod
    <2> QED BY <2>1, <2>2
  <1>10. (v \div P) % Base = v \div P
    <2>1. PICK d \in 0 .. Base - 1 : d = v \div P
      BY <1>7, <1>9
    <2>2. (0 * Base + d) % Base = d
      BY BasePositive, DivModUnique
    <2>3. 0 * Base + d = d
      BY <1>7
    <2>4. d % Base = d
      BY <2>2, <2>3
    <2> QED BY <2>1, <2>4
  <1>11. to_be_bytes(v, w)[1] = v \div P
    <2>1. 1 \in 1 .. w /\ w - 1 = n /\ w \in Nat
      BY <1>1, <1>5
    <2> QED BY <1>6, <1>10, <2>1, ToBeBytes
  <1>12. v < Power(w)
    <2>1. Q * P \in Nat /\ P * Base = 4 * (Q * P)
      BY <1>7
    <2> QED BY <1>6, <1>8, <2>1
  <1>13. PICK q \in 0 .. Q - 1 : q = v \div P
    BY <1>9
  <1>14. q + (code - 1) * Q \in Byte
    <2>1. (code - 1) * Q <= 3 * Q /\ (code - 1) * Q \in Nat
      BY <1>3
    <2> QED BY <1>7, <2>1 DEF Byte, MaxByte
  <1> QED BY <1>1, <1>3, <1>4, <1>7, <1>11, <1>12, <1>13, <1>14

\* A varint is bytes.
LEMMA VarintBytes ==
    ASSUME NEW v \in Nat, Fits(v, 8)
    PROVE  encode_varint(v) \in Seq(Byte) /\ Len(encode_varint(v)) = varint_size(v)
  <1>1. PICK w \in {1, 2, 4, 8}, c \in 1 .. 4, q \in 0 .. (Base \div 4) - 1 :
             /\ Widths[c] = w /\ w = varint_size(v) /\ v < Power(w)
             /\ q = to_be_bytes(v, w)[1]
             /\ encode_varint(v) = [to_be_bytes(v, w) EXCEPT ![1] = @ + (c - 1) * (Base \div 4)]
             /\ q + (c - 1) * (Base \div 4) \in Byte
    BY EncodeVarint
  <1>2. PICK b \in Seq(Byte) : b = to_be_bytes(v, w) /\ Len(b) = w
    <2>1. w \in Nat
      BY <1>1
    <2>2. to_be_bytes(v, w) \in Seq(Byte) /\ Len(to_be_bytes(v, w)) = w
      BY <2>1, ToBeBytes
    <2> QED BY <2>2
  <1>3. PICK e \in Byte : e = b[1] + (c - 1) * (Base \div 4)
    BY <1>1, <1>2
  <1>4. encode_varint(v) = [b EXCEPT ![1] = e]
    BY <1>1, <1>2, <1>3
  <1>5. 1 \in 1 .. Len(b)
    BY <1>1, <1>2
  <1>6. [b EXCEPT ![1] = e] \in Seq(Byte) /\ Len([b EXCEPT ![1] = e]) = Len(b)
    BY <1>5, ExceptSeq
  <1> QED BY <1>1, <1>2, <1>4, <1>6

\* A varint is decoded to what was encoded, whatever follows it.
LEMMA DecodeVarint ==
    ASSUME NEW v \in Nat, Fits(v, 8), NEW z \in Seq(Byte)
    PROVE  decode_varint(encode_varint(v) \o z) = [ok |-> TRUE, rest |-> z, value |-> v]
  <1>1. PICK w \in {1, 2, 4, 8}, c \in 1 .. 4, q \in 0 .. (Base \div 4) - 1 :
             /\ Widths[c] = w /\ w = varint_size(v) /\ v < Power(w)
             /\ q = to_be_bytes(v, w)[1]
             /\ encode_varint(v) = [to_be_bytes(v, w) EXCEPT ![1] = @ + (c - 1) * (Base \div 4)]
             /\ q + (c - 1) * (Base \div 4) \in Byte
    BY EncodeVarint
  <1>2. PICK b \in Seq(Byte) : b = to_be_bytes(v, w) /\ Len(b) = w
    <2>1. w \in Nat
      BY <1>1
    <2>2. to_be_bytes(v, w) \in Seq(Byte) /\ Len(to_be_bytes(v, w)) = w
      BY <2>1, ToBeBytes
    <2> QED BY <2>2
  <1>3. PICK x \in Seq(Byte) : x = encode_varint(v) /\ Len(x) = w
    BY <1>1, VarintBytes
  <1>4. PICK Q \in Nat \ {0} : Q = Base \div 4
    BY BaseQuarter
  <1>5. PICK e \in Byte : e = q + (c - 1) * Q
    BY <1>1, <1>4
  <1>6. x = [b EXCEPT ![1] = e] /\ b[1] = q
    BY <1>1, <1>2, <1>3, <1>4, <1>5
  <1>7. 1 \in 1 .. Len(b) /\ w \in Nat /\ w # 0
    BY <1>1, <1>2
  <1>8. x[1] = e
    BY <1>6, <1>7
  <1>9. e \div Q = c - 1 /\ e % Q = q
    <2>1. PICK d \in Nat : d = c - 1
      OBVIOUS
    <2>2. (d * Q + q) \div Q = d /\ (d * Q + q) % Q = q
      BY <1>4, DivModUnique
    <2>3. e = d * Q + q
      <3>1. d * Q \in Int
        OBVIOUS
      <3> QED BY <1>5, <2>1, <3>1
    <2> QED BY <2>1, <2>2, <2>3
  <1>10. varint_width(e) = w
    <2>1. e \div Q + 1 = c
      BY <1>9
    <2> QED BY <1>1, <1>4, <2>1 DEF varint_width
  <1>11. PICK y \in Seq(Byte) : y = x \o z
    BY ConcatProperties
  <1>12. Len(y) = Len(x) + Len(z) /\ y[1] = x[1]
    BY <1>3, <1>7, <1>11, ConcatProperties
  <1>13. Taken(y, w) = x /\ Dropped(y, w) = z
    BY <1>3, <1>11, ConcatCut
  <1>14. [x EXCEPT ![1] = @ % Q] = b
    <2>1. PICK r \in Byte : r = x[1] % Q
      BY <1>1, <1>2, <1>6, <1>7, <1>8, <1>9
    <2>2. [x EXCEPT ![1] = @ % Q] = [x EXCEPT ![1] = r]
      BY <2>1
    <2>3. [x EXCEPT ![1] = r] = b
      <3>1. PICK u : u = [x EXCEPT ![1] = r]
        OBVIOUS
      <3>2. 1 \in 1 .. Len(x) /\ r = q
        BY <1>2, <1>3, <1>7, <1>8, <1>9, <2>1
      <3>3. u \in Seq(Byte) /\ Len(u) = Len(x) /\ \A j \in 1 .. Len(x) : u[j] = IF j = 1 THEN r ELSE x[j]
        BY <3>1, <3>2, ExceptSeq
      <3>4. \A j \in 1 .. Len(b) : x[j] = IF j = 1 THEN e ELSE b[j]
        BY <1>6, <1>7, ExceptSeq
      <3>5. Len(u) = Len(b) /\ \A j \in 1 .. Len(u) : u[j] = b[j]
        BY <1>2, <1>3, <1>6, <3>2, <3>3, <3>4
      <3>6. u = b
        BY <3>3, <3>5, SeqEqual
      <3> QED BY <3>1, <3>6
    <2> QED BY <2>2, <2>3
  <1>15. from_be_bytes(b) = v
    BY <1>1, <1>2, <1>7, FromToBytes
  <1>16. y # <<>> /\ ~(Len(y) < varint_width(y[1])) /\ varint_width(y[1]) = w
    BY <1>3, <1>7, <1>8, <1>10, <1>11, <1>12
  <1>17. decode_varint(y) = [ok |-> TRUE, rest |-> Dropped(y, Len(x)), value |-> from_be_bytes([x EXCEPT ![1] = @ % Q])]
    BY <1>4, <1>13, <1>16 DEF decode_varint
  <1> QED BY <1>3, <1>11, <1>13, <1>14, <1>15, <1>17

\* Bytes behind their length.
LEMMA WriteBytes ==
    ASSUME NEW s \in Seq(Byte), Fits(Len(s), 8)
    PROVE  /\ write_bytes(s) \in Seq(Byte)
           /\ Len(write_bytes(s)) = varint_size(Len(s)) + Len(s)
  <1>1. Len(s) \in Nat
    OBVIOUS
  <1>2. PICK x \in Seq(Byte) : x = encode_varint(Len(s)) /\ Len(x) = varint_size(Len(s))
    BY <1>1, VarintBytes
  <1> QED BY <1>2, ConcatProperties DEF write_bytes

\* They are read back, whatever follows them.
LEMMA ReadWritten ==
    ASSUME NEW s \in Seq(Byte), NEW maximum \in Nat, Len(s) <= maximum, Fits(Len(s), 8),
           NEW z \in Seq(Byte)
    PROVE  read_limited(write_bytes(s) \o z, maximum) = [ok |-> TRUE, value |-> s, rest |-> z]
  <1>1. Len(s) \in Nat
    OBVIOUS
  <1>2. PICK x \in Seq(Byte) : x = encode_varint(Len(s))
    BY <1>1, VarintBytes
  <1>3. PICK y \in Seq(Byte) : y = s \o z
    BY ConcatProperties
  <1>4. write_bytes(s) \o z = x \o y
    <2>1. (x \o s) \o z = x \o (s \o z)
      <3>1. x \in Seq(Byte) /\ s \in Seq(Byte) /\ z \in Seq(Byte)
        OBVIOUS
      <3> QED BY <3>1, ConcatAssociative, SMTT(60)
    <2> QED BY <1>2, <1>3, <2>1 DEF write_bytes
  <1>5. decode_varint(x \o y) = [ok |-> TRUE, rest |-> y, value |-> Len(s)]
    BY <1>1, <1>2, DecodeVarint
  <1>6. Taken(y, Len(s)) = s /\ Dropped(y, Len(s)) = z
    BY <1>3, ConcatCut
  <1>7. Len(y) = Len(s) + Len(z) /\ Len(z) \in Nat
    BY <1>3, ConcatProperties
  <1>8. ~(Len(s) > maximum) /\ ~(Len(y) < Len(s))
    BY <1>1, <1>7
  <1>9. read_limited(x \o y, maximum) = [ok |-> TRUE, value |-> Taken(y, Len(s)), rest |-> Dropped(y, Len(s))]
    BY <1>5, <1>8 DEF read_limited
  <1> QED BY <1>4, <1>6, <1>9

\* What fits, fits when it is smaller.
LEMMA FitsSmaller ==
    ASSUME NEW n \in Nat, NEW m \in Nat, n <= m, Fits(m, 8)
    PROVE  Fits(n, 8)
  <1>1. Power(8) \in Nat
    BY PowerStep
  <1> QED BY <1>1 DEF Fits

\* A response is bytes.
LEMMA ResponseBytes ==
    ASSUME NEW status \in {0, 1}, NEW text \in Seq(Byte), Len(text) <= 1, NEW padding \in Paddings
    PROVE  TcpResponse_encode(status, text, padding).bytes \in Seq(Byte)
  <1>1. padding \in Seq(Byte) /\ Len(padding) <= MAX_PADDING_LENGTH
    BY StreamAssumption DEF StreamAssumption
  <1>2. /\ MAX_PADDING_LENGTH \in Nat /\ MAX_MESSAGE_LENGTH \in Nat \ {0}
        /\ Fits(MAX_PADDING_LENGTH, 8) /\ Fits(MAX_MESSAGE_LENGTH, 8)
    BY WireAssumption, LengthsFit DEF WireAssumption, LengthsFit
  <1>3. Len(text) <= MAX_MESSAGE_LENGTH /\ Len(text) \in Nat /\ Len(padding) \in Nat
    BY <1>1, <1>2
  <1>4. write_bytes(text) \in Seq(Byte)
    <2>1. Fits(Len(text), 8)
      BY <1>2, <1>3, FitsSmaller
    <2> QED BY <2>1, WriteBytes
  <1>5. write_bytes(padding) \in Seq(Byte)
    <2>1. Fits(Len(padding), 8)
      BY <1>1, <1>2, <1>3, FitsSmaller
    <2> QED BY <1>1, <2>1, WriteBytes
  <1>6. <<status>> \in Seq(Byte)
    <2>1. status \in Byte
      BY WireAssumption DEF WireAssumption, Byte, MaxByte
    <2> QED BY <2>1
  <1>7. <<status>> \o write_bytes(text) \o write_bytes(padding) \in Seq(Byte)
    BY <1>4, <1>5, <1>6, ConcatProperties
  <1> QED BY <1>1, <1>2, <1>3, <1>7 DEF TcpResponse_encode

----------------------------------------------------------------------------
(* One stream.                                                              *)

\* Three sequences of bytes are the same however they are put together.
LEMMA BytesAssociate ==
    \A x \in Seq(Byte), y \in Seq(Byte), z \in Seq(Byte) : (x \o y) \o z = x \o (y \o z)
  <1> SUFFICES ASSUME NEW x \in Seq(Byte), NEW y \in Seq(Byte), NEW z \in Seq(Byte)
               PROVE  (x \o y) \o z = x \o (y \o z)
    OBVIOUS
  <1> QED BY ConcatAssociative, SMTT(60)

\* s is x and then y.
Joins(x, y, s) == s = x \o y
\* w is what was written, what is in the buffer and what is left.
Carries(written, buffer, left, w) == (written \o buffer) \o left = w

\* What the server has not read.
Left == Dropped(client.bytes, pos)
\* What it has not read of the answer.
LeftAnswer == Dropped(answer, downPos)

\* What a packet is in a stream.
FrameSeq(packets) == [k \in DOMAIN packets |-> <<Len(packets[k])>> \o packets[k]]
\* The packets of the answer.
AnswerPackets == [k \in DOMAIN answer |-> Packet(answer[k])]

\* How far the header was read, and which destination it led to.
Placed ==
    /\ pc \in {"request", "early", "abort", "forward"} => client.kind = "hy2"
    /\ pc \in {"sniff", "ssh", "tls", "prefix", "header", "bind", "udp"} => client.kind = "tcp"
    /\ pc \in {"request", "sniff", "ssh", "tls"} => pos = 0
    /\ pc = "prefix" =>
         LET prefix == read_prefix(Left) IN
         VlessRequest(client.bytes) = IF prefix.is # "read" THEN prefix ELSE read_vless_header(prefix.rest)
    /\ pc = "header" => VlessRequest(client.bytes) = read_vless_header(Left)
    /\ pc = "early" => LET request == read_tcp_request(client.bytes) IN
                       request.is = "read" /\ request.rest = Left
    /\ (pc = "connect" \/ dest \in Address) =>
         /\ client.asks = "tcp"
         /\ client.kind = "hy2" => read_tcp_request(client.bytes).is = "read"
    /\ (pc = "bind" \/ dest = UdpDest) => client.asks = "udp"
    /\ pc \in {"respond", "forward", "relay", "udp"} => dest # NoDest
    /\ pc = "forward" => dest \in Address
    /\ pc = "udp" => dest = UdpDest
    /\ dest = UdpDest => client.kind = "tcp" /\ pc \in {"respond", "udp", "failed"}
    /\ dest = SshUpstream => client.kind = "tcp" /\ pc \in {"relay", "done", "failed"}
    /\ dest \in Address => pc \in {"respond", "forward", "relay", "done", "failed"}

\* The way to the destination.
Uploads ==
    /\ fin = "fin" => arrived = Len(client.bytes)
    /\ pc \notin {"relay", "udp", "done", "failed"} => toDest = <<>> /\ uploaded = 0
    /\ dest = NoDest => toDest = <<>>
    /\ pc \in {"request", "sniff", "ssh", "tls", "prefix", "header", "early", "bind"} => upBuf = <<>>
    /\ dest = UdpDest => upBuf = <<>>
    /\ up = "shut" => upBuf = <<>> /\ pos = Len(client.bytes) /\ pc \in {"relay", "done", "failed"}
    /\ destEnd = "fin" => up = "shut" \/ pc = "failed"
    /\ pc = "done" /\ dest # NoDest => up = "shut" /\ down = "shut"
    /\ pc \in {"connect", "respond", "forward", "relay", "done"} /\ dest \in Address \cup {NoDest} =>
         Carries(toDest, upBuf, Left, client.payload)
    /\ pc # "failed" /\ dest = SshUpstream => Carries(toDest, upBuf, Left, client.bytes)
    /\ pc = "failed" /\ dest \in Address => IsPrefix(toDest, client.payload)
    /\ pc = "failed" /\ dest = SshUpstream => IsPrefix(toDest, client.bytes)
    /\ dest = SshUpstream => uploaded = 0
    /\ dest \in Address =>
         /\ uploaded <= Len(toDest)
         /\ Len(toDest) <= uploaded + (IF pc = "failed" THEN Len(upBuf) ELSE 0)

\* The packets that were sent are the first of the client's, and what is left
\* follows them.
PacketsSent ==
    /\ toDest \in Seq(Seq(Byte)) /\ Len(toDest) <= Len(client.payload)
    /\ toDest = SubSeq(client.payload, 1, Len(toDest))
    /\ Packets(VlessRequest(client.bytes).rest, client.payload)
    /\ Joins(FlattenSeq(SubSeq(FrameSeq(client.payload), 1, Len(toDest))), Left,
             VlessRequest(client.bytes).rest)
    /\ uploaded = Len(FlattenSeq(toDest))
\* From the moment the client asks for UDP.
UdpUploads == (pc = "bind" \/ dest = UdpDest) => PacketsSent

\* The way back.
Downloads ==
    /\ destFin = "fin" => answered = Len(answer)
    /\ pc \notin {"forward", "relay", "udp", "done", "failed"} => toClient = <<>>
    /\ pc \notin {"relay", "udp", "done", "failed"} => downBuf = <<>> /\ downPos = 0 /\ downloaded = 0
    /\ dest = UdpDest => downBuf = <<>>
    /\ down = "shut" => downBuf = <<>> /\ downPos = Len(answer)
    /\ dest = SshUpstream => downloaded = 0
    /\ dest \in Address => downloaded + Len(downBuf) = downPos
    /\ pc \in {"forward", "relay", "done"} /\ dest # NoDest =>
         \E response \in Responses :
           response \in Seq(Byte) /\ Carries(toClient, downBuf, LeftAnswer, response \o answer)
    /\ pc = "udp" => toClient = <<0, 0>> \o FlattenSeq(SubSeq(FrameSeq(AnswerPackets), 1, downPos))
    /\ pc = "failed" /\ dest = UdpDest => IsPrefix(toClient, <<0, 0>> \o Framed)
    /\ pc = "failed" /\ dest \in Address \cup {SshUpstream} =>
         \E response \in Responses : response \in Seq(Byte) /\ IsPrefix(toClient, response \o answer)

\* The addresses are tried in their order.
Tries ==
    /\ Len(tried) <= Len(Addresses) /\ tried = SubSeq(Addresses, 1, Len(tried))
    /\ pc = "done" /\ dest = NoDest => Len(tried) = Len(Addresses)

\* The inductive invariant of a stream.
StreamIInv == StreamTypeOK /\ Placed /\ Uploads /\ UdpUploads /\ Downloads /\ Tries
\* What arrived is followed by what did not.
LEMMA UnreadSplit ==
    ASSUME NEW E, NEW b \in Seq(E), NEW a \in 0 .. Len(b), NEW p \in 0 .. a
    PROVE  /\ SubSeq(b, p + 1, a) \in Seq(E) /\ Len(SubSeq(b, p + 1, a)) = a - p
           /\ \A i \in 1 .. a - p : SubSeq(b, p + 1, a)[i] = b[p + i]
           /\ Dropped(b, a) \in Seq(E) /\ Dropped(b, p) \in Seq(E)
           /\ Dropped(b, p) = SubSeq(b, p + 1, a) \o Dropped(b, a)
  <1>1. Len(b) \in Nat /\ a \in Int /\ p + 1 \in Int /\ p \in 0 .. Len(b)
    OBVIOUS
  <1>2. \A i \in p + 1 .. a : b[i] \in E
    <2> TAKE i \in p + 1 .. a
    <2>1. i \in 1 .. Len(b)
      OBVIOUS
    <2> QED BY <2>1, ElementOfSeq
  <1>3. /\ SubSeq(b, p + 1, a) \in Seq(E)
        /\ Len(SubSeq(b, p + 1, a)) = IF p + 1 <= a THEN a - (p + 1) + 1 ELSE 0
        /\ \A i \in 1 .. a - (p + 1) + 1 : SubSeq(b, p + 1, a)[i] = b[p + 1 + i - 1]
    BY <1>1, <1>2, SubSeqProperties
  <1>4. a - (p + 1) + 1 = a - p /\ \A i \in 1 .. a - p : p + 1 + i - 1 = p + i
    OBVIOUS
  <1>5. Len(SubSeq(b, p + 1, a)) = a - p
    BY <1>3
  <1>6. \A i \in 1 .. a - p : SubSeq(b, p + 1, a)[i] = b[p + i]
    BY <1>3, <1>4
  <1>7. Dropped(b, a) \in Seq(E)
    BY <1>1, TakenDropped
  <1>8. Dropped(b, p) \in Seq(E)
    BY <1>1, TakenDropped
  <1>9. SubSeq(b, p + 1, a) \o SubSeq(b, a + 1, Len(b)) = SubSeq(b, p + 1, Len(b))
    <2>1. p + 1 \in 1 .. Len(b) + 1 /\ a \in (p + 1) - 1 .. Len(b) /\ Len(b) \in a .. Len(b)
      BY <1>1
    <2> QED BY <2>1, ConcatAdjacentSubSeq
  <1> QED BY <1>3, <1>5, <1>6, <1>7, <1>8, <1>9 DEF Dropped

\* Reading the first n of what arrived.
LEMMA UnreadTaken ==
    ASSUME NEW E, NEW b \in Seq(E), NEW a \in 0 .. Len(b), NEW p \in 0 .. a, NEW n \in 0 .. a - p
    PROVE  /\ Taken(SubSeq(b, p + 1, a), n) \in Seq(E) /\ Len(Taken(SubSeq(b, p + 1, a), n)) = n
           /\ Dropped(b, p) = Taken(SubSeq(b, p + 1, a), n) \o Dropped(b, p + n)
  <1>1. PICK c : c = p + n
    OBVIOUS
  <1>2. c \in 0 .. Len(b) /\ p \in 0 .. c /\ c - p = n /\ c <= a
    BY <1>1
  <1>3. PICK u : u = SubSeq(b, p + 1, a)
    OBVIOUS
  <1>4. u \in Seq(E) /\ Len(u) = a - p /\ \A i \in 1 .. a - p : u[i] = b[p + i]
    BY <1>3, UnreadSplit
  <1>5. PICK t : t = SubSeq(b, p + 1, c)
    OBVIOUS
  <1>6. /\ t \in Seq(E) /\ Len(t) = c - p /\ \A i \in 1 .. c - p : t[i] = b[p + i]
        /\ Dropped(b, p) = t \o Dropped(b, c)
    BY <1>2, <1>5, UnreadSplit
  <1>7. n \in 0 .. Len(u)
    BY <1>4
  <1>8. PICK s : s = Taken(u, n)
    OBVIOUS
  <1>9. s \in Seq(E) /\ Len(s) = n /\ \A i \in 1 .. n : s[i] = u[i]
    BY <1>4, <1>7, <1>8, TakenDropped
  <1>10. Len(s) = Len(t) /\ \A i \in 1 .. Len(s) : s[i] = t[i]
    <2>1. \A i \in 1 .. n : i \in 1 .. a - p
      OBVIOUS
    <2> QED BY <1>2, <1>4, <1>6, <1>9, <2>1
  <1>11. s = t
    BY <1>6, <1>9, <1>10, SeqEqual
  <1> QED BY <1>1, <1>3, <1>6, <1>8, <1>9, <1>11

\* Reading all of it but r.
LEMMA UnreadRest ==
    ASSUME NEW E, NEW b \in Seq(E), NEW a \in 0 .. Len(b), NEW p \in 0 .. a,
           NEW h \in Seq(E), NEW r \in Seq(E), NEW v, v = SubSeq(b, p + 1, a), Joins(h, r, v)
    PROVE  a - Len(r) \in p .. a /\ Joins(r, Dropped(b, a), Dropped(b, a - Len(r)))
  <1>0. v = h \o r
    BY DEF Joins
  <1>1. PICK u \in Seq(E), d \in Seq(E) : u = SubSeq(b, p + 1, a) /\ d = Dropped(b, a) /\ Len(u) = a - p
    BY UnreadSplit
  <1>2. PICK n \in Nat : n = Len(h)
    OBVIOUS
  <1>3. Len(u) = n + Len(r) /\ Len(r) \in Nat
    BY <1>0, <1>1, <1>2, ConcatProperties
  <1>4. n \in 0 .. a - p /\ p + n = a - Len(r)
    <2>1. PICK k \in Nat : k = Len(r)
      BY <1>3
    <2>2. a - p = n + k
      BY <1>1, <1>3, <2>1
    <2> QED BY <2>1, <2>2
  <1>5. Taken(u, n) = h
    BY <1>0, <1>1, <1>2, ConcatCut
  <1>6. Dropped(b, p) = h \o Dropped(b, p + n)
    <2>1. n \in 0 .. a - p
      BY <1>4
    <2>2. Dropped(b, p) = Taken(SubSeq(b, p + 1, a), n) \o Dropped(b, p + n)
      BY <2>1, UnreadTaken, ZenonT(60)
    <2> QED BY <1>1, <1>5, <2>2
  <1>7. Dropped(b, p) = u \o d
    BY <1>1, UnreadSplit
  <1>8. (h \o r) \o d = h \o (r \o d)
    BY <1>1, ConcatAssociative, SMTT(120)
  <1>9. PICK x \in Seq(E) : x = r \o d
    BY ConcatProperties
  <1>10. PICK w \in Seq(E) : w = Dropped(b, p + n)
    <2>1. p + n \in 0 .. Len(b)
      BY <1>4
    <2> QED BY <2>1, TakenDropped
  <1>11. h \o w = h \o x
    BY <1>0, <1>1, <1>6, <1>7, <1>8, <1>9, <1>10
  <1>12. w = x
    BY <1>11, ConcatSimplifications
  <1>13. a - Len(r) \in p .. a
    BY <1>4
  <1>14. Joins(r, d, Dropped(b, p + n))
    BY <1>9, <1>10, <1>12 DEF Joins
  <1> QED BY <1>1, <1>4, <1>13, <1>14

\* What the constants say of a stream.
LEMMA ScenarioFacts ==
    ASSUME StreamTypeOK
    PROVE  /\ Described(client) /\ client.bytes \in Seq(Byte) /\ client.kind \in {"hy2", "tcp"}
           /\ ssh \in BOOLEAN /\ mode \in {"prefer_ipv4", "ipv4_only", "ipv6_only"}
           /\ lookup \in Seq(Address) /\ answer \in Seq(Byte)
  <1>1. PICK s \in Scenarios :
          client = s.client /\ ssh = s.ssh /\ mode = s.mode /\ lookup = s.lookup /\ answer = s.answer
    BY DEF StreamTypeOK
  <1>2. s.client = client /\ s.ssh = ssh /\ s.mode = mode /\ s.lookup = lookup /\ s.answer = answer
    BY <1>1
  <1>3. /\ Described(s.client) /\ s.ssh \in BOOLEAN /\ s.mode \in {"prefer_ipv4", "ipv4_only", "ipv6_only"}
        /\ s.lookup \in Seq(Address) /\ s.answer \in Seq(Byte)
    BY ScenariosAssumption DEF ScenariosAssumption
  <1>4. client.bytes \in Seq(Byte) /\ client.kind \in {"hy2", "tcp"}
    BY <1>2, <1>3 DEF Described
  <1> QED BY <1>2, <1>3, <1>4

\* The same of bytes.
LEMMA BytesRest ==
    ASSUME NEW b \in Seq(Byte), NEW a \in 0 .. Len(b), NEW p \in 0 .. a,
           NEW h \in Seq(Byte), NEW r \in Seq(Byte), Joins(h, r, SubSeq(b, p + 1, a))
    PROVE  a - Len(r) \in p .. a /\ Joins(r, Dropped(b, a), Dropped(b, a - Len(r)))
  <1>1. PICK v : v = SubSeq(b, p + 1, a)
    OBVIOUS
  <1>2. v = SubSeq(b, p + 1, a) /\ Joins(h, r, v)
    BY <1>1
  <1> QED BY <1>2, UnreadRest

\* A header that was read from what arrived is the one of the whole stream.
LEMMA HeaderRead ==
    ASSUME StreamTypeOK, Reads, Header.is = "read", NEW p, p = arrived - Len(Header.rest)
    PROVE  /\ p \in pos .. arrived
           /\ pc = "request" => /\ read_tcp_request(Left).is = "read"
                                /\ read_tcp_request(Left).rest = Dropped(client.bytes, p)
           /\ pc = "prefix" => /\ read_prefix(Left).is = "read"
                               /\ read_prefix(Left).rest = Dropped(client.bytes, p)
           /\ pc = "header" => /\ read_vless_header(Left).is = "read"
                               /\ read_vless_header(Left).command = Header.command
                               /\ Header.command \in {COMMAND_TCP, COMMAND_UDP}
                               /\ read_vless_header(Left).rest = Dropped(client.bytes, p)
  <1>1. PICK b \in Seq(Byte) : b = client.bytes
    BY ScenarioFacts
  <1>2. arrived \in 0 .. Len(b) /\ pos \in 0 .. arrived
    BY <1>1 DEF StreamTypeOK
  <1>3. PICK u \in Seq(Byte), d \in Seq(Byte) :
          u = Unread /\ d = Dropped(b, arrived) /\ Left = u \o d /\ u = SubSeq(b, pos + 1, arrived)
    BY <1>1, <1>2, UnreadSplit DEF Unread, Left
  <1>4. /\ pc = "request" => Header = read_tcp_request(u)
        /\ pc = "prefix" => Header = read_prefix(u)
        /\ pc = "header" => Header = read_vless_header(u)
        /\ pc \in {"request", "prefix", "header"}
    BY <1>3 DEF Header, Reads
  <1>5. Reading(Header, u)
    BY <1>4, RequestReads, PrefixReads, HeaderReads
  <1>6. PICK r \in Seq(Byte), h \in Seq(Byte) : r = Header.rest /\ u = h \o r
    BY <1>5 DEF Reading
  <1>7. p \in pos .. arrived /\ Dropped(b, p) = r \o d
    <2>1. Joins(h, r, SubSeq(b, pos + 1, arrived))
      BY <1>3, <1>6 DEF Joins
    <2>2. arrived - Len(r) \in pos .. arrived /\ Joins(r, Dropped(b, arrived), Dropped(b, arrived - Len(r)))
      BY <1>2, <2>1, BytesRest
    <2>3. p \in pos .. arrived /\ Joins(r, d, Dropped(b, p))
      BY <1>3, <1>6, <2>2
    <2> QED BY <2>3 DEF Joins
  <1>8. pc = "request" => read_tcp_request(u \o d).is = "read" /\ read_tcp_request(u \o d).rest = r \o d
    <2> SUFFICES ASSUME pc = "request" PROVE read_tcp_request(u).is = "read" /\ read_tcp_request(u \o d).is = "read" /\ read_tcp_request(u \o d).rest = read_tcp_request(u).rest \o d
      BY <1>4, <1>6
    <2>1. read_tcp_request(u).is = "read"
      BY <1>4
    <2> QED BY <2>1, RequestReads
  <1>9. pc = "prefix" => read_prefix(u \o d).is = "read" /\ read_prefix(u \o d).rest = r \o d
    <2> SUFFICES ASSUME pc = "prefix" PROVE read_prefix(u).is = "read" /\ read_prefix(u \o d).is = "read" /\ read_prefix(u \o d).rest = read_prefix(u).rest \o d
      BY <1>4, <1>6
    <2>1. read_prefix(u).is = "read"
      BY <1>4
    <2> QED BY <2>1, PrefixReads
  <1>10. pc = "header" => /\ read_vless_header(u \o d).is = "read"
                          /\ read_vless_header(u \o d).rest = r \o d
                          /\ read_vless_header(u \o d).command = Header.command
                          /\ Header.command \in {COMMAND_TCP, COMMAND_UDP}
    <2> SUFFICES ASSUME pc = "header" PROVE read_vless_header(u).is = "read" /\ read_vless_header(u \o d).is = "read" /\ read_vless_header(u \o d).rest = read_vless_header(u).rest \o d /\ read_vless_header(u \o d).command = read_vless_header(u).command /\ read_vless_header(u).command \in {COMMAND_TCP, COMMAND_UDP}
      BY <1>4, <1>6
    <2>1. read_vless_header(u).is = "read"
      BY <1>4
    <2> QED BY <2>1, HeaderReads
  <1> QED BY <1>1, <1>3, <1>7, <1>8, <1>9, <1>10

\* The handshake is what a VLESS request begins with.
LEMMA HelloRead ==
    ASSUME StreamTypeOK, pos = 0, Len(Unread) >= Len(ClientHello),
           Taken(Unread, Len(ClientHello)) = ClientHello
    PROVE  /\ Len(ClientHello) \in 0 .. arrived
           /\ LET prefix == read_prefix(Dropped(client.bytes, Len(ClientHello))) IN
              VlessRequest(client.bytes) = IF prefix.is # "read" THEN prefix
                                           ELSE read_vless_header(prefix.rest)
  <1>1. PICK b \in Seq(Byte) : b = client.bytes
    BY ScenarioFacts
  <1>2. arrived \in 0 .. Len(b) /\ pos \in 0 .. arrived /\ Len(b) \in Nat
    BY <1>1 DEF StreamTypeOK
  <1>3. ClientHello \in Seq(Byte)
    BY StreamAssumption DEF StreamAssumption
  <1>4. PICK n \in Nat : n = Len(ClientHello)
    BY <1>3
  <1>5. PICK u \in Seq(Byte), d \in Seq(Byte) :
          u = Unread /\ d = Dropped(b, arrived) /\ Left = u \o d /\ Len(u) = arrived - pos
    BY <1>1, <1>2, UnreadSplit, ZenonT(60) DEF Unread, Left
  <1>6. n \in 0 .. Len(u) /\ n \in 0 .. arrived /\ n \in 0 .. Len(b)
    BY <1>2, <1>4, <1>5
  <1>7. Left = b
    BY <1>1, SubSeqFull DEF Left, Dropped
  <1>8. Taken(b, n) = ClientHello
    <2>1. Taken(u \o d, n) = Taken(u, n)
      BY <1>6, TakenOfConcat
    <2> QED BY <1>4, <1>5, <1>7, <2>1
  <1>9. PICK hello : hello = read_exact(Start(b, n))
    OBVIOUS
  <1>10. hello = [is |-> "read", value |-> Taken(b, n), rest |-> Dropped(b, n)]
    BY <1>2, <1>6, <1>9, ReadExact DEF Start
  <1>11. hello.is = "read" /\ hello.value = ClientHello /\ hello.rest = Dropped(b, n)
    BY <1>8, <1>10
  <1>12. VlessRequest(b) = IF read_prefix(hello.rest).is # "read" THEN read_prefix(hello.rest)
                           ELSE read_vless_header(read_prefix(hello.rest).rest)
    BY <1>4, <1>9, <1>11 DEF VlessRequest
  <1> QED BY <1>1, <1>4, <1>6, <1>11, <1>12

\* What was read is what the client asks for.
LEMMA RequestAsks ==
    ASSUME StreamTypeOK, client.kind = "hy2", read_tcp_request(client.bytes).is = "read"
    PROVE  /\ TcpRequest_decode(client.bytes).ok
           /\ TcpRequest_decode(client.bytes).destination = Destination
           /\ TcpRequest_decode(client.bytes).payload = read_tcp_request(client.bytes).rest
           /\ IsUtf8(Destination) =>
                client.asks = "tcp" /\ client.payload = read_tcp_request(client.bytes).rest
  <1>1. PICK b \in Seq(Byte) : b = client.bytes
    BY ScenarioFacts
  <1>2. /\ TcpRequest_decode(b).ok
        /\ TcpRequest_decode(b).destination = Destination
        /\ TcpRequest_decode(b).payload = read_tcp_request(b).rest
    BY <1>1, RequestDecodes DEF Destination
  <1>3. Described(client)
    BY ScenarioFacts
  <1> QED BY <1>1, <1>2, <1>3 DEF Described

\* The same of a VLESS header: the destination and the payload are the client's.
LEMMA VlessAsks ==
    ASSUME StreamTypeOK, client.kind = "tcp", VlessRequest(client.bytes).is = "read"
    PROVE  IF VlessRequest(client.bytes).command = COMMAND_TCP
           THEN client.asks = "tcp" /\ client.payload = VlessRequest(client.bytes).rest
           ELSE client.asks = "udp" /\ Packets(VlessRequest(client.bytes).rest, client.payload)
  BY ScenarioFacts DEF Described

\* What an error writes: nothing before the relay, then a part of each buffer.
LEMMA FailsWrites ==
    ASSUME StreamTypeOK, Placed, Fails
    PROVE  /\ pc \notin {"forward", "relay"} => toDest' = toDest
           /\ pc \in {"forward", "relay"} =>
                \E t \in Seq(Byte), s \in Seq(Byte) : Joins(t, s, upBuf) /\ Joins(toDest, t, toDest')
           /\ \E t \in Seq(Byte), s \in Seq(Byte) : Joins(t, s, downBuf) /\ Joins(toClient, t, toClient')
  <1>1. upBuf \in Seq(Byte) /\ downBuf \in Seq(Byte)
    BY DEF StreamTypeOK
  <1>2. ASSUME NEW buf \in Seq(Byte), NEW k \in 0 .. Len(buf), NEW old, NEW new, new = old \o Taken(buf, k)
        PROVE  \E t \in Seq(Byte), s \in Seq(Byte) : Joins(t, s, buf) /\ Joins(old, t, new)
    <2>1. PICK t, s : t = Taken(buf, k) /\ s = Dropped(buf, k)
      OBVIOUS
    <2>2. t \in Seq(Byte) /\ s \in Seq(Byte) /\ t \o s = buf
      BY <2>1, TakenDropped
    <2>3. Joins(t, s, buf) /\ Joins(old, t, new)
      BY <1>2, <2>1, <2>2 DEF Joins
    <2> QED BY <2>2, <2>3
  <1>3. PICK k \in 0 .. Len(upBuf) : toDest' = toDest \o Taken(upBuf, IF pc \in {"forward", "relay"} THEN k ELSE 0)
    BY DEF Fails
  <1>4. PICK n \in 0 .. Len(downBuf) : toClient' = toClient \o Taken(downBuf, n)
    BY DEF Fails
  <1>5. ASSUME pc \notin {"forward", "relay"} PROVE toDest' = toDest
    <2>1. Taken(upBuf, 0) = <<>>
      BY SubSeqEmpty DEF Taken
    <2>2. toDest' = toDest \o <<>>
      BY <1>3, <1>5, <2>1
    <2>3. toDest \in Seq(Byte) \/ toDest \in Seq(Seq(Byte))
      BY DEF StreamTypeOK
    <2>4. toDest \o <<>> = toDest
      BY <2>3, ConcatEmptySeq
    <2> QED BY <2>2, <2>4
  <1>6. ASSUME pc \in {"forward", "relay"}
        PROVE  \E t \in Seq(Byte), s \in Seq(Byte) : Joins(t, s, upBuf) /\ Joins(toDest, t, toDest')
    <2>1. toDest' = toDest \o Taken(upBuf, k)
      BY <1>3, <1>6
    <2> QED BY <1>1, <1>2, <2>1
  <1>7. \E t \in Seq(Byte), s \in Seq(Byte) : Joins(t, s, downBuf) /\ Joins(toClient, t, toClient')
    BY <1>1, <1>2, <1>4
  <1> QED BY <1>5, <1>6, <1>7

\* Joining bytes gives bytes.
LEMMA JoinedBytes ==
    ASSUME NEW x \in Seq(Byte), NEW y \in Seq(Byte), NEW s, Joins(x, y, s)
    PROVE  s \in Seq(Byte) /\ Len(s) = Len(x) + Len(y)
  BY ConcatProperties DEF Joins

\* The initial states.
LEMMA StreamInitType == StreamInit => StreamTypeOK
  <1> SUFFICES ASSUME StreamInit PROVE StreamTypeOK
    OBVIOUS
  <1>1. PICK s \in Scenarios :
          client = s.client /\ ssh = s.ssh /\ mode = s.mode /\ lookup = s.lookup /\ answer = s.answer
    BY DEF StreamInit
  <1>2. Described(s.client) /\ s.answer \in Seq(Byte)
    BY ScenariosAssumption DEF ScenariosAssumption
  <1>3. Len(client.bytes) \in Nat /\ Len(answer) \in Nat
    BY <1>1, <1>2 DEF Described
  <1>4. dest # UdpDest /\ <<>> \in Seq(Byte)
    BY DEF StreamInit, NoDest, UdpDest
  <1> QED BY <1>1, <1>3, <1>4 DEF StreamInit, StreamTypeOK

\* Every step keeps the types.
LEMMA StreamNextType ==
    ASSUME StreamIInv, [StreamNext]_streamVars
    PROVE  StreamTypeOK'
  <1>1. StreamTypeOK /\ Placed /\ Uploads
    BY DEF StreamIInv
  <1>2. PICK b \in Seq(Byte) : b = client.bytes
    BY <1>1, ScenarioFacts
  <1>3. answer \in Seq(Byte) /\ Len(b) \in Nat /\ Len(answer) \in Nat
    BY <1>1, ScenarioFacts
  <1>4. arrived \in 0 .. Len(b) /\ pos \in 0 .. arrived
    BY <1>1, <1>2 DEF StreamTypeOK
  <1>5. PICK u \in Seq(Byte) : u = Unread /\ Len(u) = arrived - pos
    <2>1. SubSeq(b, pos + 1, arrived) \in Seq(Byte) /\ Len(SubSeq(b, pos + 1, arrived)) = arrived - pos
      BY <1>4, UnreadSplit
    <2> QED BY <1>2, <2>1 DEF Unread
  <1>6. PICK v \in Seq(Byte) : v = UnreadAnswer /\ Len(v) = answered - downPos
    <2>1. answered \in 0 .. Len(answer) /\ downPos \in 0 .. answered
      BY <1>1 DEF StreamTypeOK
    <2>2. /\ SubSeq(answer, downPos + 1, answered) \in Seq(Byte)
          /\ Len(SubSeq(answer, downPos + 1, answered)) = answered - downPos
      BY <1>3, <2>1, UnreadSplit
    <2> QED BY <2>2 DEF UnreadAnswer
  <1>7. CASE ClientSends \/ ClientEnds
    <2>1. UNCHANGED <<chosen, answered, destFin, pc, pos, outbound, upload, download>>
      BY <1>7 DEF ClientSends, ClientEnds
    <2>2. fin' \in {"open", "fin", "reset"}
      BY <1>1, <1>7 DEF ClientSends, ClientEnds, StreamTypeOK
    <2>3. arrived' \in arrived .. Len(b)
      BY <1>2, <1>3, <1>4, <1>7 DEF ClientSends, ClientEnds
    <2>4. arrived' \in 0 .. Len(client'.bytes) /\ pos' \in 0 .. arrived'
      BY <1>2, <1>3, <1>4, <2>1, <2>3 DEF chosen
    <2> QED BY <1>1, <2>1, <2>2, <2>4 DEF StreamTypeOK, chosen, outbound, upload, download
  <1>8. CASE DestSends \/ DestEnds
    <2>1. UNCHANGED <<chosen, arrived, fin, pc, pos, outbound, upload, download>>
      BY <1>8 DEF DestSends, DestEnds
    <2>2. destFin' \in {"open", "fin", "reset"}
      BY <1>1, <1>8 DEF DestSends, DestEnds, StreamTypeOK
    <2>3. answered \in 0 .. Len(answer) /\ downPos \in 0 .. answered
      BY <1>1 DEF StreamTypeOK
    <2>4. answered' \in answered .. Len(answer)
      BY <1>3, <1>8, <2>3 DEF DestSends, DestEnds
    <2>5. answered' \in 0 .. Len(answer') /\ downPos' \in 0 .. answered'
      BY <1>3, <2>1, <2>3, <2>4 DEF chosen, download
    <2> QED BY <1>1, <2>1, <2>2, <2>5 DEF StreamTypeOK, chosen, outbound, upload, download
  <1>9. CASE Fails
    <2>1. toClient' \in Seq(Byte)
      <3>1. PICK t \in Seq(Byte), s \in Seq(Byte) : Joins(t, s, downBuf) /\ Joins(toClient, t, toClient')
        BY <1>1, <1>9, FailsWrites
      <3>2. toClient \in Seq(Byte)
        BY <1>1 DEF StreamTypeOK
      <3> QED BY <3>1, <3>2, JoinedBytes
    <2>2. dest' = dest /\ (pc \in {"forward", "relay"} => dest # UdpDest)
      BY <1>1, <1>9 DEF Fails, outbound, Placed
    <2>3. toDest' \in IF dest' = UdpDest THEN Seq(Seq(Byte)) ELSE Seq(Byte)
      <3>1. CASE pc \in {"forward", "relay"}
        <4>1. PICK t \in Seq(Byte), s \in Seq(Byte) : Joins(t, s, upBuf) /\ Joins(toDest, t, toDest')
          BY <1>1, <1>9, <3>1, FailsWrites
        <4>2. toDest \in Seq(Byte)
          BY <1>1, <2>2, <3>1 DEF StreamTypeOK
        <4>3. toDest' \in Seq(Byte)
          BY <4>1, <4>2, JoinedBytes
        <4> QED BY <2>2, <3>1, <4>3
      <3>2. CASE pc \notin {"forward", "relay"}
        <4>1. toDest' = toDest
          BY <1>1, <1>9, <3>2, FailsWrites
        <4> QED BY <1>1, <2>2, <4>1 DEF StreamTypeOK
      <3> QED BY <3>1, <3>2
    <2> QED BY <1>1, <1>9, <2>1, <2>2, <2>3 DEF Fails, StreamTypeOK, chosen, peers, outbound
  <1>10. CASE Sniff
    BY <1>1, <1>10 DEF Sniff, StreamTypeOK, chosen, peers, outbound, upload, download
  <1>11. CASE Handshake
    <2>1. pos = 0
      BY <1>1, <1>11 DEF Handshake, Placed
    <2>2. Len(ClientHello) \in 0 .. arrived
      BY <1>1, <1>11, <2>1, HelloRead DEF Handshake
    <2> QED BY <1>1, <1>11, <2>2 DEF Handshake, StreamTypeOK, chosen, peers, outbound, upload, download
  <1>12. CASE ReadHeader
    <2>1. pos' \in pos .. arrived /\ pos' \in 0 .. arrived
      <3>1. pos' = arrived - Len(Header.rest) /\ Header.is = "read" /\ Reads
        BY <1>12 DEF ReadHeader
      <3>2. pos' \in pos .. arrived
        BY <1>1, <3>1, HeaderRead
      <3> QED BY <1>4, <3>2
    <2>2. pc' \in {"early", "header", "connect", "bind"}
      BY <1>12 DEF ReadHeader, Reads
    <2>3. UNCHANGED <<chosen, peers, outbound, upload, download>>
      BY <1>12 DEF ReadHeader
    <2> QED BY <1>1, <2>1, <2>2, <2>3 DEF StreamTypeOK, chosen, peers, outbound, upload, download
  <1>13. CASE ReadEarly
    <2>1. upBuf' \in Seq(Byte) /\ pos' \in 0 .. arrived
      <3>1. CASE \E n \in 1 .. Len(Unread) : upBuf' = Taken(Unread, n) /\ pos' = pos + n
        <4>1. PICK n \in 1 .. Len(u) : upBuf' = Taken(u, n) /\ pos' = pos + n
          BY <1>5, <3>1
        <4>2. n \in 0 .. Len(u)
          OBVIOUS
        <4>3. Taken(u, n) \in Seq(Byte)
          BY <4>2, TakenDropped
        <4> QED BY <1>4, <1>5, <4>1, <4>3
      <3>2. CASE UNCHANGED <<upBuf, pos>>
        BY <1>1, <1>4, <3>2 DEF StreamTypeOK
      <3> QED BY <1>13, <3>1, <3>2 DEF ReadEarly
    <2> QED BY <1>1, <1>13, <2>1 DEF ReadEarly, StreamTypeOK, chosen, peers, outbound, download
  <1>14. CASE Connect
    <2>1. Addresses \in Seq(Address)
      BY <1>1, ScenarioFacts, OrderedAddresses DEF Addresses
    <2>2. tried \in Seq(Address) /\ Len(tried) \in Nat
      BY <1>1 DEF StreamTypeOK
    <2>3. PICK a \in Address : a = Addresses[Len(tried) + 1]
      BY <1>14, <2>1, <2>2 DEF Connect
    <2>4. tried' \in Seq(Address) /\ dest' \in {a, dest} /\ (dest = UdpDest => dest' = dest)
      BY <1>1, <1>14, <2>2, <2>3 DEF Connect, Placed
    <2>5. dest' = UdpDest <=> dest = UdpDest
      BY <1>1, <1>14, <2>3, <2>4 DEF Address, UdpDest
    <2> QED BY <1>1, <1>14, <2>4, <2>5 DEF Connect, StreamTypeOK, chosen, peers, upload, download
  <1>15. CASE ConnectFails /\ ~Fails
    <2>1. PICK padding \in Paddings : toClient' = TcpResponse_encode(1, <<1>>, padding).bytes
      BY <1>15 DEF ConnectFails
    <2>2. <<1>> \in Seq(Byte) /\ Len(<<1>>) <= 1
      BY WireAssumption DEF WireAssumption, Byte, MaxByte
    <2>3. toClient' \in Seq(Byte)
      BY <2>1, <2>2, ResponseBytes
    <2> QED BY <1>1, <1>15, <2>3 DEF ConnectFails, StreamTypeOK, chosen, peers, outbound, upload
  <1>16. CASE (ConnectSsh \/ OpenUdp) /\ ~Fails
    <2>1. toDest = <<>>
      BY <1>1, <1>16 DEF ConnectSsh, OpenUdp, Uploads
    <2>2. <<>> \in Seq(Byte) /\ <<>> \in Seq(Seq(Byte))
      OBVIOUS
    <2> QED BY <1>1, <1>16, <2>1, <2>2 DEF ConnectSsh, OpenUdp, StreamTypeOK, chosen, peers, upload, download
  <1>17. CASE Respond
    <2>1. toClient' \in Seq(Byte)
      <3>1. CASE \E padding \in Paddings : toClient' = TcpResponse_encode(0, <<>>, padding).bytes
        <4>1. <<>> \in Seq(Byte) /\ Len(<<>>) <= 1
          OBVIOUS
        <4> QED BY <3>1, <4>1, ResponseBytes
      <3>2. CASE toClient' = <<0, 0>>
        BY <3>2, WireAssumption DEF WireAssumption, Byte, MaxByte
      <3> QED BY <1>17, <3>1, <3>2 DEF Respond
    <2> QED BY <1>1, <1>17, <2>1 DEF Respond, StreamTypeOK, chosen, peers, outbound, upload
  <1>18. CASE Forward
    <2>1. dest # UdpDest /\ upBuf \in Seq(Byte) /\ Len(upBuf) \in Nat /\ <<>> \in Seq(Byte)
      BY <1>1, <1>18 DEF Forward, Placed, StreamTypeOK
    <2> QED BY <1>1, <1>18, <2>1 DEF Forward, StreamTypeOK, chosen, peers, outbound, download
  <1>19. CASE UpRead
    <2>1. PICK n \in 1 .. Len(u) : upBuf' = Taken(u, n) /\ pos' = pos + n
      BY <1>5, <1>19 DEF UpRead
    <2>2. n \in 0 .. Len(u)
      OBVIOUS
    <2>3. upBuf' \in Seq(Byte)
      BY <2>1, <2>2, TakenDropped
    <2>4. pos' \in 0 .. arrived
      BY <1>4, <1>5, <2>1
    <2> QED BY <1>1, <1>19, <2>3, <2>4 DEF UpRead, StreamTypeOK, chosen, peers, outbound, download
  <1>20. CASE UpWrite
    <2>1. dest # UdpDest /\ upBuf \in Seq(Byte) /\ Len(upBuf) \in Nat /\ <<>> \in Seq(Byte) /\ toDest \in Seq(Byte)
      BY <1>1, <1>20 DEF UpWrite, Relaying, Placed, StreamTypeOK
    <2>2. toDest' \in Seq(Byte)
      BY <1>20, <2>1, ConcatProperties DEF UpWrite
    <2>3. uploaded' \in Nat
      BY <1>1, <1>20, <2>1 DEF UpWrite, StreamTypeOK
    <2> QED BY <1>1, <1>20, <2>1, <2>2, <2>3 DEF UpWrite, StreamTypeOK, chosen, peers, outbound, download
  <1>21. CASE UpEof \/ DownEof \/ RelayDone
    BY <1>1, <1>21 DEF UpEof, DownEof, RelayDone, StreamTypeOK, chosen, peers, outbound, upload, download
  <1>22. CASE DownRead
    <2>1. PICK n \in 1 .. Len(v) : downBuf' = Taken(v, n) /\ downPos' = downPos + n
      BY <1>6, <1>22 DEF DownRead
    <2>2. n \in 0 .. Len(v)
      OBVIOUS
    <2>3. downBuf' \in Seq(Byte)
      BY <2>1, <2>2, TakenDropped
    <2>4. downPos' \in 0 .. answered
      BY <1>1, <1>6, <2>1 DEF StreamTypeOK
    <2> QED BY <1>1, <1>22, <2>3, <2>4 DEF DownRead, StreamTypeOK, chosen, peers, outbound, upload
  <1>23. CASE DownWrite
    <2>1. downBuf \in Seq(Byte) /\ Len(downBuf) \in Nat /\ <<>> \in Seq(Byte) /\ toClient \in Seq(Byte)
      BY <1>1 DEF StreamTypeOK
    <2>2. toClient' \in Seq(Byte)
      BY <1>23, <2>1, ConcatProperties DEF DownWrite
    <2>3. downloaded' \in Nat
      BY <1>1, <1>23, <2>1 DEF DownWrite, StreamTypeOK
    <2> QED BY <1>1, <1>23, <2>1, <2>2, <2>3 DEF DownWrite, StreamTypeOK, chosen, peers, outbound, upload
  <1>24. CASE UdpUp
    <2>1. dest = UdpDest /\ toDest \in Seq(Seq(Byte))
      BY <1>1, <1>24 DEF UdpUp, Placed, StreamTypeOK
    <2>2. u # <<>> /\ u[1] > 0 /\ Len(u) > u[1] /\ u[1] \in Nat
      <3>1. u # <<>> /\ u[1] > 0 /\ Len(u) > u[1]
        BY <1>5, <1>24 DEF UdpUp
      <3>2. u[1] \in Byte
        BY <3>1
      <3> QED BY <3>1, <3>2 DEF Byte
    <2>3. SubSeq(u, 2, u[1] + 1) \in Seq(Byte)
      <3>1. \A i \in 2 .. u[1] + 1 : u[i] \in Byte
        <4> TAKE i \in 2 .. u[1] + 1
        <4>1. i \in 1 .. Len(u)
          BY <2>2
        <4> QED BY <4>1, ElementOfSeq
      <3> QED BY <2>2, <3>1, SubSeqProperties
    <2>4. toDest' \in Seq(Seq(Byte))
      BY <1>5, <1>24, <2>1, <2>3, AppendProperties DEF UdpUp
    <2>5. pos' \in 0 .. arrived /\ uploaded' \in Nat
      <3>1. PICK n \in Nat : n = u[1] /\ Len(u) > n
        BY <2>2
      <3>2. pos' = (pos + n) + 1 /\ uploaded' = uploaded + n
        BY <1>5, <1>24, <3>1 DEF UdpUp
      <3>3. uploaded' \in Nat
        <4>1. uploaded \in Nat
          BY <1>1 DEF StreamTypeOK
        <4> QED BY <3>1, <3>2, <4>1
      <3>4. arrived - pos > n
        BY <1>5, <3>1
      <3>5. pos' \in 0 .. arrived
        BY <1>4, <3>1, <3>2, <3>4, SMTT(60)
      <3> QED BY <3>3, <3>5
    <2> QED BY <1>1, <1>24, <2>1, <2>4, <2>5 DEF UdpUp, StreamTypeOK, chosen, peers, outbound, download
  <1>25. CASE UdpDown
    <2>1. v # <<>> /\ v[1] \in Byte
      BY <1>6, <1>25 DEF UdpDown
    <2>2. Packet(v[1]) \in Seq(Byte) /\ Len(Packet(v[1])) = v[1]
      BY <2>1 DEF Packet, Byte
    <2>3. PICK x \in Seq(Byte) : x = Packet(v[1])
      BY <2>2
    <2>4. toClient \in Seq(Byte) /\ <<Len(x)>> \in Seq(Byte) /\ Len(x) \in Nat
      BY <1>1, <2>1, <2>2, <2>3 DEF StreamTypeOK
    <2>5. (toClient \o <<Len(x)>>) \o x \in Seq(Byte)
      BY <2>3, <2>4, ConcatProperties
    <2>6. toClient' \in Seq(Byte) /\ downloaded' \in Nat
      BY <1>1, <1>6, <1>25, <2>3, <2>4, <2>5 DEF UdpDown, StreamTypeOK
    <2>7. downPos' \in 0 .. answered
      BY <1>1, <1>6, <1>25, <2>1 DEF UdpDown, StreamTypeOK
    <2> QED BY <1>1, <1>25, <2>6, <2>7 DEF UdpDown, StreamTypeOK, chosen, peers, outbound, upload
  <1>26. CASE UNCHANGED streamVars
    BY <1>1, <1>26 DEF StreamTypeOK, streamVars, chosen, peers, outbound, upload, download
  <1> QED BY <1>7, <1>8, <1>9, <1>10, <1>11, <1>12, <1>13, <1>14, <1>15, <1>16, <1>17, <1>18, <1>19,
             <1>20, <1>21, <1>22, <1>23, <1>24, <1>25, <1>26
          DEF StreamNext, Server, HeaderFails, Abort, RelayFails

\* No two kinds of destination are the same.
LEMMA DestinationKinds ==
    /\ NoDest # SshUpstream /\ NoDest # UdpDest /\ SshUpstream # UdpDest
    /\ NoDest \notin Address /\ SshUpstream \notin Address /\ UdpDest \notin Address
    /\ NoDest.family = "none" /\ SshUpstream.family = "ssh" /\ UdpDest.family = "udp"
    /\ \A a \in Address : a.family \notin {"none", "ssh", "udp"}
  BY DEF NoDest, SshUpstream, UdpDest, Address

\* The initial states.
LEMMA StreamInitPlaced ==
    ASSUME StreamInit, StreamTypeOK
    PROVE  Placed /\ Uploads /\ UdpUploads /\ Downloads /\ Tries
  <1>1. Len(<<>>) = 0
    OBVIOUS
  <1>2. dest = NoDest /\ pc \in {"request", "sniff", "tls"} /\ toDest = <<>> /\ tried = <<>>
    BY DEF StreamInit
  <1>3. Placed
    BY <1>2, ScenarioFacts, DestinationKinds DEF StreamInit, Placed
  <1>4. Uploads
    BY <1>2, DestinationKinds DEF StreamInit, Uploads
  <1>5. Downloads /\ UdpUploads
    BY <1>2, DestinationKinds DEF StreamInit, Downloads, UdpUploads
  <1>6. Tries
    <2>1. Addresses \in Seq(Address)
      BY ScenarioFacts, OrderedAddresses DEF Addresses
    <2>2. SubSeq(Addresses, 1, 0) = <<>>
      BY SubSeqEmpty
    <2> QED BY <1>1, <1>2, <2>1, <2>2 DEF Tries
  <1> QED BY <1>3, <1>4, <1>5, <1>6

\* Addresses are tried in their order.
LEMMA StreamNextTries ==
    ASSUME StreamIInv, [StreamNext]_streamVars
    PROVE  Tries'
  <1>1. StreamTypeOK /\ Placed /\ Tries
    BY DEF StreamIInv
  <1>2. Addresses \in Seq(Address) /\ Len(Addresses) \in Nat
    BY <1>1, ScenarioFacts, OrderedAddresses DEF Addresses
  <1>3. Addresses' = Addresses
    <2>1. lookup' = lookup /\ mode' = mode
      BY SMTT(60) DEF StreamNext, Server, streamVars, chosen, ClientSends, ClientEnds, DestSends, DestEnds,
             Fails, Sniff, Handshake, ReadHeader, HeaderFails, ReadEarly, Abort, Connect, ConnectFails,
             ConnectSsh, OpenUdp, Respond, Forward, UpRead, UpWrite, UpEof, DownRead, DownWrite, DownEof,
             RelayDone, UdpUp, UdpDown, RelayFails
    <2> QED BY <2>1, SMTT(30) DEF Addresses
  <1>4. CASE Connect
    <2>1. PICK n \in Nat : n = Len(tried) /\ n < Len(Addresses) /\ tried = SubSeq(Addresses, 1, n) /\ tried \in Seq(Address)
      <3>1. tried \in Seq(Address)
        BY <1>1 DEF StreamTypeOK
      <3>2. Len(tried) \in Nat
        BY <3>1
      <3>3. Len(tried) < Len(Addresses) /\ tried = SubSeq(Addresses, 1, Len(tried))
        BY <1>1, <1>4 DEF Tries, Connect
      <3> QED BY <3>1, <3>2, <3>3
    <2>2. PICK m : m = n + 1
      OBVIOUS
    <2>3. m \in 1 .. Len(Addresses) /\ m - 1 = n /\ m \in 0 .. Len(Addresses) /\ 1 \in 1 .. Len(Addresses) /\ m \in 1 .. m
      BY <1>2, <2>1, <2>2
    <2>4. SubSeq(Addresses, 1, m) = SubSeq(Addresses, 1, m - 1) \o <<Addresses[m]>>
      BY <1>2, <2>3, SubSeqRecursiveSecond
    <2>5. Addresses[m] \in Address
      BY <1>2, <2>3
    <2>6. tried' = Append(tried, Addresses[m])
      BY <1>4, <2>1, <2>2 DEF Connect
    <2>7. tried' = SubSeq(Addresses, 1, m)
      BY <2>1, <2>3, <2>4, <2>5, <2>6, AppendIsConcat
    <2>8. Len(tried') = m
      BY <2>1, <2>2, <2>5, <2>6, AppendProperties
    <2>9. pc' # "done"
      BY <1>4, SMTT(30) DEF Connect
    <2> QED BY <1>2, <1>3, <2>3, <2>7, <2>8, <2>9, SMTT(60) DEF Tries
  <1>5. CASE ~Connect
    <2>1. tried' = tried
      BY <1>5 DEF StreamNext, Server, streamVars, outbound, ClientSends, ClientEnds, DestSends, DestEnds,
             Fails, Sniff, Handshake, ReadHeader, HeaderFails, ReadEarly, Abort, ConnectFails,
             ConnectSsh, OpenUdp, Respond, Forward, UpRead, UpWrite, UpEof, DownRead, DownWrite, DownEof,
             RelayDone, UdpUp, UdpDown, RelayFails
    <2>2. pc' = "done" /\ dest' = NoDest => Len(tried) = Len(Addresses)
      <3>1. CASE ConnectFails
        BY <3>1 DEF ConnectFails
      <3>2. CASE RelayDone
        BY <1>1, <3>2 DEF RelayDone, Relaying, Placed, outbound
      <3>3. CASE UNCHANGED <<pc, dest>>
        BY <1>1, <3>3 DEF Tries
      <3>4. ConnectFails \/ RelayDone \/ UNCHANGED <<pc, dest>> \/ pc' # "done"
        BY <1>5 DEF StreamNext, Server, streamVars, outbound, ClientSends, ClientEnds, DestSends, DestEnds,
             Fails, Sniff, Handshake, ReadHeader, HeaderFails, ReadEarly, Abort, Reads,
             ConnectSsh, OpenUdp, Respond, Forward, UpRead, UpWrite, UpEof, DownRead, DownWrite, DownEof,
             UdpUp, UdpDown, RelayFails
      <3> QED BY <3>1, <3>2, <3>3, <3>4
    <2> QED BY <1>1, <1>3, <2>1, <2>2, SMTT(30) DEF Tries
  <1> QED BY <1>4, <1>5

\* Tried in their order, the addresses fall back as they should.
LEMMA TriesFallBack ==
    ASSUME StreamTypeOK, Tries
    PROVE  Fallback
  <1>1. /\ Addresses \in Seq(Address) /\ ToSet(Addresses) = Allowed(lookup, mode)
        /\ \A j, k \in DOMAIN Addresses : j # k => Addresses[j] # Addresses[k]
        /\ \A j, k \in DOMAIN Addresses :
             j < k => ~(Addresses[j].family = "ipv6" /\ Addresses[k].family = "ipv4")
    BY ScenarioFacts, OrderedAddresses DEF Addresses
  <1>2. Usable = Allowed(lookup, mode)
    BY DEF Usable, Allowed
  <1>3. PICK n \in 0 .. Len(Addresses) : n = Len(tried) /\ tried = Taken(Addresses, n)
    <2>1. tried \in Seq(Address)
      BY DEF StreamTypeOK
    <2>2. Len(tried) \in Nat /\ Len(Addresses) \in Nat
      BY <1>1, <2>1
    <2>3. Len(tried) <= Len(Addresses) /\ tried = Taken(Addresses, Len(tried))
      BY DEF Tries, Taken
    <2> QED BY <2>2, <2>3
  <1>4. tried \in Seq(Address) /\ DOMAIN tried = 1 .. n /\ DOMAIN Addresses = 1 .. Len(Addresses)
    BY <1>1, <1>3 DEF StreamTypeOK
  <1>5. \A i \in 1 .. n : tried[i] = Addresses[i] /\ i \in 1 .. Len(Addresses)
    <2>1. \A i \in 1 .. n : Taken(Addresses, n)[i] = Addresses[i]
      BY <1>1, TakenDropped
    <2>2. \A i \in 1 .. n : i \in 1 .. Len(Addresses)
      BY <1>1
    <2> QED BY <1>3, <2>1, <2>2
  <1>6. ToSet(tried) = {Addresses[i] : i \in 1 .. n} /\ ToSet(Addresses) = {Addresses[i] : i \in 1 .. Len(Addresses)}
    BY <1>4, <1>5 DEF ToSet
  <1>7. ToSet(tried) \subseteq Usable
    BY <1>1, <1>2, <1>5, <1>6
  <1>8. \A j, k \in DOMAIN tried :
          /\ j # k => tried[j] # tried[k]
          /\ j < k => ~(tried[j].family = "ipv6" /\ tried[k].family = "ipv4")
    BY <1>1, <1>4, <1>5
  <1>9. ASSUME NEW k \in DOMAIN tried, NEW a \in Usable, tried[k].family = "ipv6", a.family = "ipv4"
        PROVE  a \in ToSet(tried)
    <2>1. PICK i \in 1 .. Len(Addresses) : a = Addresses[i]
      BY <1>1, <1>2, <1>6
    <2>2. k \in 1 .. n /\ tried[k] = Addresses[k] /\ k \in 1 .. Len(Addresses)
      BY <1>4, <1>5
    <2>3. i \in 1 .. n
      <3>1. CASE i <= n
        BY <3>1
      <3>2. CASE i > n
        <4>1. k < i
          BY <2>2, <3>2
        <4> QED BY <1>1, <1>4, <1>9, <2>1, <2>2, <4>1
      <3> QED BY <3>1, <3>2
    <2> QED BY <1>6, <2>1, <2>3
  <1>10. pc = "done" /\ dest = NoDest => ToSet(tried) = Usable
    BY <1>1, <1>2, <1>3, <1>6 DEF Tries
  <1> QED BY <1>7, <1>8, <1>9, <1>10 DEF Fallback

\* A step that does not leave where the server is.
LEMMA StaysPlaced ==
    ASSUME Placed, UNCHANGED <<client, pc, dest>>, pos' = pos \/ pc \in {"relay", "udp"}
    PROVE  Placed'
  <1>1. CASE pos' = pos
    BY <1>1 DEF Placed, Left
  <1>2. CASE pc \in {"relay", "udp"}
    BY <1>2 DEF Placed, Left
  <1> QED BY <1>1, <1>2

\* Every step leads to the right place.
LEMMA StreamNextPlaced ==
    ASSUME StreamIInv, [StreamNext]_streamVars
    PROVE  Placed'
  <1>1. StreamTypeOK /\ Placed
    BY DEF StreamIInv
  <1>2. CASE UNCHANGED <<client, pc, dest>> /\ (pos' = pos \/ pc \in {"relay", "udp"})
    BY <1>1, <1>2, StaysPlaced
  <1>3. CASE Fails
    <2>1. client' = client /\ dest' = dest /\ pc' = "failed"
      BY <1>3 DEF Fails, chosen, outbound
    <2> QED BY <1>1, <2>1, DestinationKinds DEF Placed
  <1>4. CASE Sniff
    <2>1. client' = client /\ dest' = dest /\ pos' = pos /\ pc = "sniff" /\ pc' \in {"tls", "ssh"}
      BY <1>4 DEF Sniff, chosen, outbound
    <2> QED BY <1>1, <2>1, DestinationKinds DEF Placed
  <1>5. CASE Handshake
    <2>1. client' = client /\ dest' = dest /\ pos' = Len(ClientHello) /\ pc = "tls" /\ pc' = "prefix"
      BY <1>5 DEF Handshake, chosen, outbound
    <2>2. Left' = Dropped(client.bytes, Len(ClientHello))
      BY <2>1 DEF Left
    <2>3. pos = 0
      BY <1>1, <2>1 DEF Placed
    <2>4. LET prefix == read_prefix(Left') IN
          VlessRequest(client.bytes) = IF prefix.is # "read" THEN prefix ELSE read_vless_header(prefix.rest)
      BY <1>1, <1>5, <2>2, <2>3, HelloRead DEF Handshake
    <2> QED BY <1>1, <2>1, <2>4, DestinationKinds DEF Placed
  <1>6. CASE ReadHeader
    <2>1. /\ client' = client /\ dest' = dest /\ Reads /\ Header.is = "read"
          /\ pos' = arrived - Len(Header.rest)
      BY <1>6 DEF ReadHeader, chosen, outbound
    <2>2. Left' = Dropped(client.bytes, pos')
      BY <2>1 DEF Left
    <2>3. dest = NoDest
      BY <1>1, <2>1, DestinationKinds DEF StreamTypeOK, Placed, Reads
    <2>4. CASE pc = "request"
      <3>1. pc' = "early" /\ pos = 0 /\ client.kind = "hy2"
        BY <1>1, <1>6, <2>4 DEF ReadHeader, Placed
      <3>2. client.bytes \in Seq(Byte)
        BY <1>1, ScenarioFacts
      <3>3. Left = client.bytes
        BY <3>1, <3>2, SubSeqFull DEF Left, Dropped
      <3>4. read_tcp_request(Left).is = "read" /\ read_tcp_request(Left).rest = Left'
        BY <1>1, <2>1, <2>2, <2>4, HeaderRead
      <3>5. read_tcp_request(client.bytes).is = "read" /\ read_tcp_request(client.bytes).rest = Left'
        BY <3>3, <3>4
      <3> QED BY <1>1, <2>1, <2>3, <3>1, <3>5, DestinationKinds DEF Placed
    <2>5. CASE pc = "prefix"
      <3>1. pc' = "header" /\ client.kind = "tcp"
        BY <1>1, <1>6, <2>5 DEF ReadHeader, Placed
      <3>2. read_prefix(Left).is = "read" /\ read_prefix(Left).rest = Left'
        BY <1>1, <2>1, <2>2, <2>5, HeaderRead
      <3>3. VlessRequest(client.bytes) = read_vless_header(Left')
        BY <1>1, <2>5, <3>2 DEF Placed
      <3> QED BY <1>1, <2>1, <2>3, <3>1, <3>3, DestinationKinds DEF Placed
    <2>6. CASE pc = "header"
      <3>1. pc' = (IF Header.command = COMMAND_TCP THEN "connect" ELSE "bind") /\ client.kind = "tcp"
        BY <1>1, <1>6, <2>6 DEF ReadHeader, Placed
      <3>2. read_vless_header(Left).is = "read" /\ read_vless_header(Left).command = Header.command
        BY <1>1, <2>1, <2>6, HeaderRead
      <3>3. VlessRequest(client.bytes) = read_vless_header(Left)
        BY <1>1, <2>6 DEF Placed
      <3>4. client.asks = IF pc' = "connect" THEN "tcp" ELSE "udp"
        BY <1>1, <3>1, <3>2, <3>3, VlessAsks
      <3> QED BY <1>1, <2>1, <2>3, <3>1, <3>4, DestinationKinds DEF Placed
    <2> QED BY <2>1, <2>4, <2>5, <2>6 DEF Reads
  <1>7. CASE ReadEarly
    <2>1. /\ client' = client /\ dest' = dest /\ pc = "early"
          /\ pc' = IF IsUtf8(Destination) THEN "connect" ELSE "abort"
      BY <1>7 DEF ReadEarly, chosen, outbound
    <2>2. client.kind = "hy2" /\ read_tcp_request(client.bytes).is = "read" /\ dest = NoDest
      BY <1>1, <2>1, DestinationKinds DEF StreamTypeOK, Placed
    <2>3. pc' = "connect" => client.asks = "tcp"
      BY <1>1, <2>1, <2>2, RequestAsks
    <2> QED BY <1>1, <2>1, <2>2, <2>3, DestinationKinds DEF Placed
  <1>8. CASE Connect /\ ~UNCHANGED <<client, pc, dest>>
    <2>1. PICK a \in Address : dest' = a
      <3>1. Addresses \in Seq(Address)
        BY <1>1, ScenarioFacts, OrderedAddresses DEF Addresses
      <3>2. tried \in Seq(Address) /\ Len(tried) \in Nat
        BY <1>1 DEF StreamTypeOK
      <3>3. Addresses[Len(tried) + 1] \in Address
        BY <1>8, <3>1, <3>2 DEF Connect
      <3> QED BY <1>8, <3>3 DEF Connect, chosen
    <2>2. client' = client /\ pc = "connect" /\ pc' = "respond"
      BY <1>8 DEF Connect, chosen
    <2> QED BY <1>1, <2>1, <2>2, DestinationKinds DEF Placed
  <1>9. CASE ConnectFails /\ ~Fails
    <2>1. client' = client /\ dest' = dest /\ pc = "connect" /\ pc' = "done"
      BY <1>9 DEF ConnectFails, chosen, outbound
    <2> QED BY <1>1, <2>1, DestinationKinds DEF Placed
  <1>10. CASE ConnectSsh /\ ~Fails
    <2>1. client' = client /\ dest' = SshUpstream /\ pc = "ssh" /\ pc' = "relay"
      BY <1>10 DEF ConnectSsh, chosen
    <2> QED BY <1>1, <2>1, DestinationKinds DEF Placed
  <1>11. CASE OpenUdp /\ ~Fails
    <2>1. client' = client /\ dest' = UdpDest /\ pc = "bind" /\ pc' = "respond"
      BY <1>11 DEF OpenUdp, chosen
    <2> QED BY <1>1, <2>1, DestinationKinds DEF Placed
  <1>12. CASE Respond
    <2>1. client' = client /\ dest' = dest /\ pc = "respond"
      BY <1>12 DEF Respond, chosen, outbound
    <2>2. \/ client.kind = "hy2" /\ pc' = "forward"
          \/ client.kind = "tcp" /\ pc' = IF dest = UdpDest THEN "udp" ELSE "relay"
      BY <1>12 DEF Respond
    <2>3. dest \in Address \cup {UdpDest}
      BY <1>1, <2>1, DestinationKinds DEF StreamTypeOK, Placed
    <2> QED BY <1>1, <2>1, <2>2, <2>3, DestinationKinds DEF Placed
  <1>13. CASE Forward
    <2>1. client' = client /\ dest' = dest /\ pc = "forward" /\ pc' = "relay"
      BY <1>13 DEF Forward, chosen, outbound
    <2> QED BY <1>1, <2>1, DestinationKinds DEF Placed
  <1>14. CASE RelayDone
    <2>1. client' = client /\ dest' = dest /\ pc = "relay" /\ pc' = "done"
      BY <1>14 DEF RelayDone, Relaying, chosen, outbound
    <2> QED BY <1>1, <2>1, DestinationKinds DEF Placed
  <1>15. CASE \/ ClientSends \/ ClientEnds \/ DestSends \/ DestEnds
              \/ UpRead \/ UpWrite \/ UpEof \/ DownRead \/ DownWrite \/ DownEof \/ UdpUp \/ UdpDown
              \/ UNCHANGED streamVars
    BY <1>2, <1>15 DEF ClientSends, ClientEnds, DestSends, DestEnds, UpRead, UpWrite, UpEof,
          DownRead, DownWrite, DownEof, UdpUp, UdpDown, Relaying, streamVars, chosen, outbound
  <1>16. CASE Connect
    BY <1>2, <1>8, <1>16 DEF Connect
  <1> QED BY <1>3, <1>4, <1>5, <1>6, <1>7, <1>9, <1>10, <1>11, <1>12, <1>13, <1>14, <1>15, <1>16
          DEF StreamNext, Server, HeaderFails, Abort, RelayFails

\* Nothing was written or buffered yet.
LEMMA CarriesAll ==
    ASSUME NEW z \in Seq(Byte)
    PROVE  Carries(<<>>, <<>>, z, z)
  <1>1. <<>> \o <<>> = <<>> /\ <<>> \o z = z
    BY ConcatEmptySeq
  <1> QED BY <1>1 DEF Carries

\* The next piece is read into an empty buffer.
LEMMA CarriesRead ==
    ASSUME NEW x \in Seq(Byte), NEW t \in Seq(Byte), NEW z \in Seq(Byte), NEW left, Joins(t, z, left),
           NEW w, Carries(x, <<>>, left, w)
    PROVE  Carries(x, t, z, w)
  <1>1. x \o <<>> = x
    BY ConcatEmptySeq
  <1>2. (x \o t) \o z = x \o (t \o z)
    BY BytesAssociate, Zenon
  <1> QED BY <1>1, <1>2 DEF Carries, Joins

\* The buffer is written.
LEMMA CarriesWrite ==
    ASSUME NEW x \in Seq(Byte), NEW y \in Seq(Byte), NEW z, NEW new, Joins(x, y, new),
           NEW w, Carries(x, y, z, w)
    PROVE  Carries(new, <<>>, z, w)
  <1>1. new \in Seq(Byte)
    BY JoinedBytes
  <1>2. new \o <<>> = new
    BY <1>1, ConcatEmptySeq
  <1> QED BY <1>2 DEF Carries, Joins

\* Only a part of it is written.
LEMMA CarriesPart ==
    ASSUME NEW x \in Seq(Byte), NEW y \in Seq(Byte), NEW z \in Seq(Byte), NEW w, Carries(x, y, z, w),
           NEW t \in Seq(Byte), NEW s \in Seq(Byte), Joins(t, s, y), NEW new, Joins(x, t, new)
    PROVE  /\ new \in Seq(Byte) /\ IsPrefix(new, w)
           /\ Len(x) <= Len(new) /\ Len(new) <= Len(x) + Len(y)
  <1>1. new \in Seq(Byte) /\ Len(new) = Len(x) + Len(t)
    BY JoinedBytes
  <1>2. Len(y) = Len(t) + Len(s) /\ Len(t) \in Nat /\ Len(s) \in Nat /\ Len(x) \in Nat
    BY JoinedBytes
  <1>3. PICK r \in Seq(Byte) : r = s \o z
    BY ConcatProperties
  <1>4. x \o (t \o s) = (x \o t) \o s
    BY ConcatAssociative, SMTT(120)
  <1>5. (new \o s) \o z = new \o (s \o z)
    BY <1>1, BytesAssociate, ZenonT(60)
  <1>6. w = new \o r
    BY <1>3, <1>4, <1>5 DEF Carries, Joins
  <1>7. IsPrefix(new, w)
    BY <1>1, <1>6, ConcatPrefix
  <1> QED BY <1>1, <1>2, <1>7

\* Everything was written.
LEMMA CarriedAll ==
    ASSUME NEW x \in Seq(Byte), NEW w, Carries(x, <<>>, <<>>, w)
    PROVE  w = x
  <1>1. x \o <<>> = x
    BY ConcatEmptySeq
  <1> QED BY <1>1 DEF Carries

\* What was written is a prefix all the time.
LEMMA CarriedPrefix ==
    ASSUME NEW x \in Seq(Byte), NEW y \in Seq(Byte), NEW z \in Seq(Byte), NEW w, Carries(x, y, z, w)
    PROVE  IsPrefix(x, w)
  <1>1. <<>> \in Seq(Byte)
    OBVIOUS
  <1>2. Joins(<<>>, y, y) /\ Joins(x, <<>>, x)
    BY ConcatEmptySeq DEF Joins
  <1> QED BY <1>1, <1>2, CarriesPart

\* The place of a buffer: the first n of what arrived, before what is left.
LEMMA PieceRead ==
    ASSUME NEW b \in Seq(Byte), NEW a \in 0 .. Len(b), NEW p \in 0 .. a, NEW n \in 1 .. a - p
    PROVE  /\ Taken(SubSeq(b, p + 1, a), n) \in Seq(Byte)
           /\ Len(Taken(SubSeq(b, p + 1, a), n)) = n
           /\ Joins(Taken(SubSeq(b, p + 1, a), n), Dropped(b, p + n), Dropped(b, p))
           /\ Dropped(b, p + n) \in Seq(Byte)
  <1>1. n \in 0 .. a - p /\ p + n \in 0 .. Len(b)
    OBVIOUS
  <1>2. /\ Taken(SubSeq(b, p + 1, a), n) \in Seq(Byte)
        /\ Len(Taken(SubSeq(b, p + 1, a), n)) = n
    <2>0. SubSeq(b, p + 1, a) \in Seq(Byte) /\ Len(SubSeq(b, p + 1, a)) = a - p
      BY UnreadSplit
    <2>1. PICK v \in Seq(Byte) : v = SubSeq(b, p + 1, a) /\ Len(v) = a - p
      BY <2>0
    <2>2. n \in 0 .. Len(v)
      BY <1>1, <2>1
    <2> QED BY <2>1, <2>2, TakenDropped
  <1>3. Dropped(b, p) = Taken(SubSeq(b, p + 1, a), n) \o Dropped(b, p + n)
    BY <1>1, UnreadTaken, SMTT(60)
  <1>4. Dropped(b, p + n) \in Seq(Byte)
    BY <1>1, TakenDropped
  <1> QED BY <1>2, <1>3, <1>4 DEF Joins

\* Every step keeps the way to the destination.
LEMMA StreamNextUploads ==
    ASSUME StreamIInv, [StreamNext]_streamVars
    PROVE  Uploads'
  <1>1. StreamTypeOK /\ Placed /\ Uploads
    BY DEF StreamIInv
  <1>2. PICK b \in Seq(Byte) : b = client.bytes
    BY <1>1, ScenarioFacts
  <1>3. Len(b) \in Nat /\ arrived \in 0 .. Len(b) /\ pos \in 0 .. arrived /\ upBuf \in Seq(Byte)
    BY <1>1, <1>2 DEF StreamTypeOK
  <1>4. Left \in Seq(Byte)
    <2>1. pos \in 0 .. Len(b)
      BY <1>3
    <2> QED BY <1>2, <2>1, TakenDropped DEF Left
  <1>5. dest # UdpDest => toDest \in Seq(Byte)
    BY <1>1 DEF StreamTypeOK
  <1>6. CASE ClientSends \/ ClientEnds
    <2>1. UNCHANGED <<client, pc, pos, dest, up, upBuf, toDest, destEnd, uploaded, down>> /\ Left' = Left
      BY <1>6 DEF ClientSends, ClientEnds, chosen, outbound, upload, download, Left
    <2>2. fin' = "fin" => arrived' = Len(client'.bytes)
      BY <1>1, <1>6, <2>1 DEF ClientSends, ClientEnds, Uploads
    <2> QED BY <1>1, <2>1, <2>2 DEF Uploads
  <1>7. CASE \/ DestSends \/ DestEnds \/ DownRead \/ DownWrite \/ UdpDown \/ UNCHANGED streamVars
    <2>1. /\ UNCHANGED <<client, arrived, fin, pc, pos, dest, up, upBuf, toDest, destEnd, uploaded, down>>
          /\ Left' = Left
      BY <1>7 DEF DestSends, DestEnds, DownRead, DownWrite, UdpDown, streamVars,
                  chosen, peers, outbound, upload, download, Left
    <2> QED BY <1>1, <2>1 DEF Uploads
  <1>8. CASE DownEof
    <2>1. /\ UNCHANGED <<client, arrived, fin, pc, pos, dest, up, upBuf, toDest, destEnd, uploaded>>
          /\ Left' = Left /\ pc = "relay"
      BY <1>8 DEF DownEof, Relaying, chosen, peers, outbound, upload, Left
    <2> QED BY <1>1, <2>1 DEF Uploads
  <1>9. CASE Fails /\ pc \notin Over
    <2>1. /\ UNCHANGED <<client, arrived, fin, pos, dest, up, upBuf, uploaded>>
          /\ pc' = "failed" /\ destEnd' = IF dest = NoDest THEN "open" ELSE "fin"
      BY <1>9 DEF Fails, chosen, peers, outbound
    <2>2. CASE pc \in {"forward", "relay"} /\ dest # UdpDest
      <3>1. dest # NoDest /\ toDest \in Seq(Byte)
        BY <1>1, <1>5, <2>2 DEF Placed
      <3>2. PICK t \in Seq(Byte), s \in Seq(Byte) : Joins(t, s, upBuf) /\ Joins(toDest, t, toDest')
        BY <1>1, <1>9, <2>2, FailsWrites
      <3>3. dest \in Address \cup {SshUpstream}
        BY <1>1, <2>2, <3>1 DEF StreamTypeOK
      <3>4. Len(toDest) <= Len(toDest') /\ Len(toDest') <= Len(toDest) + Len(upBuf)
        <4>1. PICK w : Carries(toDest, upBuf, Left, w)
          BY DEF Carries
        <4> QED BY <1>3, <1>4, <3>1, <3>2, <4>1, CarriesPart
      <3>5. dest \in Address => IsPrefix(toDest', client.payload)
        <4>1. dest \in Address => Carries(toDest, upBuf, Left, client.payload)
          BY <1>1, <2>2 DEF Uploads
        <4> QED BY <1>3, <1>4, <3>1, <3>2, <4>1, CarriesPart
      <3>6. dest = SshUpstream => IsPrefix(toDest', client.bytes)
        <4>1. dest = SshUpstream => Carries(toDest, upBuf, Left, client.bytes)
          BY <1>1, <2>2 DEF Uploads
        <4> QED BY <1>3, <1>4, <3>1, <3>2, <4>1, CarriesPart
      <3>7. /\ Len(toDest) \in Nat /\ Len(toDest') \in Nat /\ Len(upBuf) \in Nat /\ uploaded \in Nat
        BY <1>3, <3>1, <3>2, JoinedBytes, <1>1 DEF StreamTypeOK
      <3>8. dest \in Address => uploaded <= Len(toDest') /\ Len(toDest') <= uploaded + Len(upBuf)
        <4>1. dest \in Address => uploaded <= Len(toDest) /\ Len(toDest) <= uploaded + 0
          BY <1>1, <2>2 DEF Uploads
        <4> QED BY <3>4, <3>7, <4>1
      <3> QED BY <1>1, <2>1, <2>2, <3>1, <3>3, <3>5, <3>6, <3>8, DestinationKinds DEF Uploads
    <2>3. CASE pc \notin {"forward", "relay"}
      <3>1. toDest' = toDest
        BY <1>1, <1>9, <2>3, FailsWrites
      <3>2. pc # "done" /\ pc # "failed"
        BY <1>9 DEF Over
      <3>3. CASE dest \in Address
        <4>1. pc = "respond"
          BY <1>1, <2>3, <3>2, <3>3 DEF Placed
        <4>2. toDest = <<>> /\ uploaded = 0 /\ Carries(toDest, upBuf, Left, client.payload) /\ toDest \in Seq(Byte)
          BY <1>1, <1>5, <3>3, <4>1, DestinationKinds DEF Uploads
        <4>3. IsPrefix(toDest, client.payload)
          BY <1>3, <1>4, <4>2, CarriedPrefix
        <4>4. Len(toDest) = 0 /\ Len(upBuf) \in Nat
          BY <1>3, <4>2
        <4> QED BY <1>1, <2>1, <3>1, <3>3, <4>1, <4>2, <4>3, <4>4, DestinationKinds DEF Uploads
      <3>4. CASE dest \notin Address
        <4>1. dest # SshUpstream
          BY <1>1, <2>3, <3>2 DEF Placed
        <4> QED BY <1>1, <2>1, <3>1, <3>2, <3>4, <4>1 DEF Uploads
      <3> QED BY <3>3, <3>4
    <2>4. pc \in {"forward", "relay"} => dest # UdpDest
      BY <1>1, DestinationKinds DEF Placed
    <2> QED BY <2>2, <2>3, <2>4
  <1>10. CASE Sniff \/ Handshake
    <2>1. /\ UNCHANGED <<client, arrived, fin, dest, up, upBuf, toDest, destEnd, uploaded, down>>
          /\ pc \in {"sniff", "tls"} /\ pc' \in {"ssh", "tls", "prefix"}
      BY <1>10 DEF Sniff, Handshake, chosen, peers, outbound, upload, download
    <2>2. dest = NoDest
      BY <1>1, <2>1, DestinationKinds DEF StreamTypeOK, Placed
    <2> QED BY <1>1, <2>1, <2>2, DestinationKinds DEF Uploads
  <1>11. CASE ReadHeader
    <2>1. /\ UNCHANGED <<client, arrived, fin, dest, up, upBuf, toDest, destEnd, uploaded, down>>
          /\ Reads /\ Header.is = "read" /\ pos' = arrived - Len(Header.rest)
      BY <1>11 DEF ReadHeader, chosen, peers, outbound, upload, download
    <2>2. dest = NoDest /\ toDest = <<>> /\ upBuf = <<>> /\ uploaded = 0
      BY <1>1, <2>1, DestinationKinds DEF StreamTypeOK, Placed, Uploads, Reads
    <2>3. pc' \in {"early", "header", "bind"} \/ (pc = "header" /\ pc' = "connect" /\ Header.command = COMMAND_TCP)
      BY <1>11 DEF ReadHeader, Reads
    <2>4. Left' = Dropped(client.bytes, pos')
      BY <2>1 DEF Left
    <2>5. pc' = "connect" => Carries(<<>>, <<>>, Left', client.payload)
      <3> SUFFICES ASSUME pc' = "connect" PROVE Carries(<<>>, <<>>, Left', client.payload)
        OBVIOUS
      <3>1. pc = "header" /\ Header.command = COMMAND_TCP
        BY <2>3
      <3>2. /\ read_vless_header(Left).is = "read" /\ read_vless_header(Left).command = Header.command
            /\ read_vless_header(Left).rest = Left'
        BY <1>1, <2>1, <2>4, <3>1, HeaderRead
      <3>3. VlessRequest(client.bytes) = read_vless_header(Left) /\ client.kind = "tcp"
        BY <1>1, <3>1 DEF Placed
      <3>4. client.payload = Left'
        BY <1>1, <3>1, <3>2, <3>3, VlessAsks
      <3>5. pos' \in pos .. arrived
        BY <1>1, <2>1, HeaderRead
      <3>6. pos' \in 0 .. Len(b)
        BY <1>3, <3>5
      <3>7. Left' \in Seq(Byte)
        BY <1>2, <2>4, <3>6, TakenDropped
      <3> QED BY <3>4, <3>7, CarriesAll
    <2>6. up # "shut" /\ destEnd # "fin"
      BY <1>1, <2>1 DEF Uploads, Reads
    <2> QED BY <1>1, <2>1, <2>2, <2>3, <2>5, <2>6, DestinationKinds DEF Uploads
  <1>12. CASE ReadEarly
    <2>1. /\ UNCHANGED <<client, arrived, fin, dest, up, toDest, destEnd, uploaded, down>>
          /\ pc = "early" /\ pc' = IF IsUtf8(Destination) THEN "connect" ELSE "abort"
      BY <1>12 DEF ReadEarly, chosen, peers, outbound, download
    <2>2. dest = NoDest /\ toDest = <<>> /\ upBuf = <<>> /\ uploaded = 0
      BY <1>1, <2>1, DestinationKinds DEF StreamTypeOK, Placed, Uploads
    <2>3. up # "shut" /\ destEnd # "fin"
      BY <1>1, <2>1 DEF Uploads
    <2>4. Carries(<<>>, upBuf', Left', Left)
      <3>1. Carries(<<>>, <<>>, Left, Left)
        BY <1>4, CarriesAll
      <3>2. CASE \E n \in 1 .. Len(Unread) : upBuf' = Taken(Unread, n) /\ pos' = pos + n
        <4>1. PICK n \in 1 .. Len(Unread) : upBuf' = Taken(Unread, n) /\ pos' = pos + n
          BY <3>2
        <4>2. Unread = SubSeq(b, pos + 1, arrived) /\ Len(Unread) = arrived - pos
          BY <1>2, <1>3, UnreadSplit DEF Unread
        <4>3. n \in 1 .. arrived - pos
          BY <4>2
        <4>4. upBuf' \in Seq(Byte) /\ Joins(upBuf', Dropped(b, pos + n), Dropped(b, pos)) /\ Dropped(b, pos + n) \in Seq(Byte)
          BY <1>3, <4>1, <4>2, <4>3, PieceRead
        <4>5. Left' = Dropped(b, pos + n) /\ Left = Dropped(b, pos)
          BY <1>2, <2>1, <4>1 DEF Left
        <4>6. <<>> \in Seq(Byte)
          OBVIOUS
        <4> QED BY <3>1, <4>4, <4>5, <4>6, CarriesRead
      <3>3. CASE UNCHANGED <<upBuf, pos>>
        BY <2>1, <2>2, <3>1, <3>3 DEF Left
      <3> QED BY <1>12, <3>2, <3>3 DEF ReadEarly
    <2>5. pc' = "connect" => client.payload = Left
      <3>1. client.kind = "hy2" /\ read_tcp_request(client.bytes).is = "read" /\ read_tcp_request(client.bytes).rest = Left
        BY <1>1, <2>1 DEF Placed
      <3> QED BY <1>1, <2>1, <3>1, RequestAsks
    <2> QED BY <1>1, <2>1, <2>2, <2>3, <2>4, <2>5, DestinationKinds DEF Uploads
  <1>13. CASE Connect
    <2>1. /\ UNCHANGED <<client, arrived, fin, pos, up, upBuf, toDest, destEnd, uploaded, down>>
          /\ pc = "connect" /\ Left' = Left
      BY <1>13 DEF Connect, chosen, peers, upload, download, Left
    <2>2. dest = NoDest /\ toDest = <<>> /\ uploaded = 0 /\ up # "shut" /\ destEnd # "fin"
      BY <1>1, <2>1, DestinationKinds DEF StreamTypeOK, Placed, Uploads
    <2>3. (dest' = dest /\ pc' = pc) \/ (dest' \in Address /\ pc' = "respond")
      <3>1. Addresses \in Seq(Address)
        BY <1>1, ScenarioFacts, OrderedAddresses DEF Addresses
      <3>2. tried \in Seq(Address) /\ Len(tried) \in Nat
        BY <1>1 DEF StreamTypeOK
      <3>3. Addresses[Len(tried) + 1] \in Address
        BY <1>13, <3>1, <3>2 DEF Connect
      <3> QED BY <1>13, <3>3 DEF Connect
    <2>4. Carries(toDest, upBuf, Left, client.payload)
      BY <1>1, <2>1, <2>2 DEF Uploads
    <2>5. Len(toDest) = 0
      BY <2>2
    <2> QED BY <1>1, <2>1, <2>2, <2>3, <2>4, <2>5, DestinationKinds DEF Uploads
  <1>14. CASE ConnectFails /\ ~Fails
    <2>1. /\ UNCHANGED <<client, arrived, fin, pos, dest, up, upBuf, toDest, destEnd, uploaded, down>>
          /\ pc = "connect" /\ pc' = "done" /\ Left' = Left
      BY <1>14 DEF ConnectFails, chosen, peers, outbound, upload, Left
    <2>2. dest = NoDest
      BY <1>1, <2>1, DestinationKinds DEF StreamTypeOK, Placed
    <2> QED BY <1>1, <2>1, <2>2, DestinationKinds DEF Uploads
  <1>15. CASE ConnectSsh /\ ~Fails
    <2>1. /\ UNCHANGED <<client, arrived, fin, pos, up, upBuf, toDest, destEnd, uploaded, down>>
          /\ pc = "ssh" /\ pc' = "relay" /\ dest' = SshUpstream /\ Left' = Left
      BY <1>15 DEF ConnectSsh, chosen, peers, upload, download, Left
    <2>2. toDest = <<>> /\ upBuf = <<>> /\ uploaded = 0 /\ up # "shut" /\ destEnd # "fin"
      BY <1>1, <2>1 DEF Uploads
    <2>3. Left = b
      <3>1. pos = 0
        BY <1>1, <2>1 DEF Placed
      <3> QED BY <1>2, <3>1, SubSeqFull DEF Left, Dropped
    <2>4. Carries(<<>>, <<>>, b, b)
      BY CarriesAll
    <2>5. Carries(toDest', upBuf', Left', client'.bytes)
      BY <1>2, <2>1, <2>2, <2>3, <2>4
    <2> QED BY <1>1, <2>1, <2>2, <2>5, DestinationKinds DEF Uploads
  <1>16. CASE OpenUdp /\ ~Fails
    <2>1. /\ UNCHANGED <<client, arrived, fin, pos, up, upBuf, toDest, destEnd, uploaded, down>>
          /\ pc = "bind" /\ pc' = "respond" /\ dest' = UdpDest
      BY <1>16 DEF OpenUdp, chosen, peers, upload, download
    <2> QED BY <1>1, <2>1, DestinationKinds DEF Uploads
  <1>17. CASE Respond
    <2>1. /\ UNCHANGED <<client, arrived, fin, pos, dest, up, upBuf, toDest, destEnd, uploaded, down>>
          /\ pc = "respond" /\ pc' \in {"forward", "relay", "udp"} /\ Left' = Left
      BY <1>17 DEF Respond, chosen, peers, outbound, upload, Left
    <2>2. dest \in Address \cup {UdpDest}
      BY <1>1, <2>1, DestinationKinds DEF StreamTypeOK, Placed
    <2> QED BY <1>1, <2>1, <2>2, DestinationKinds DEF Uploads
  <1>18. CASE Forward
    <2>1. /\ UNCHANGED <<client, arrived, fin, pos, dest, up, destEnd, down>>
          /\ toDest' = upBuf /\ uploaded' = Len(upBuf) /\ upBuf' = <<>>
          /\ pc = "forward" /\ pc' = "relay" /\ Left' = Left
      BY <1>18 DEF Forward, chosen, peers, outbound, download, Left
    <2>2. dest \in Address /\ toDest = <<>> /\ up # "shut" /\ Carries(toDest, upBuf, Left, client.payload)
      BY <1>1, <2>1 DEF Placed, Uploads
    <2>3. Joins(<<>>, upBuf, upBuf) /\ <<>> \in Seq(Byte)
      BY <1>3, ConcatEmptySeq DEF Joins
    <2>4. Carries(toDest', <<>>, Left, client.payload)
      BY <1>3, <2>1, <2>2, <2>3, CarriesWrite
    <2>5. Len(upBuf) \in Nat
      BY <1>3
    <2> QED BY <1>1, <2>1, <2>2, <2>4, <2>5, DestinationKinds DEF Uploads
  <1>19. CASE UpRead
    <2>1. /\ UNCHANGED <<client, arrived, fin, pc, dest, up, toDest, destEnd, uploaded, down>>
          /\ pc = "relay" /\ up = "copy" /\ upBuf = <<>>
      BY <1>19 DEF UpRead, Relaying, chosen, peers, outbound, download
    <2>2. PICK n \in 1 .. Len(Unread) : upBuf' = Taken(Unread, n) /\ pos' = pos + n
      BY <1>19 DEF UpRead
    <2>3. Unread = SubSeq(b, pos + 1, arrived) /\ Len(Unread) = arrived - pos
      BY <1>2, <1>3, UnreadSplit DEF Unread
    <2>4. n \in 1 .. arrived - pos
      BY <2>3
    <2>5. upBuf' \in Seq(Byte) /\ Joins(upBuf', Dropped(b, pos + n), Dropped(b, pos)) /\ Dropped(b, pos + n) \in Seq(Byte)
      BY <1>3, <2>2, <2>3, <2>4, PieceRead
    <2>6. Left' = Dropped(b, pos + n) /\ Left = Dropped(b, pos)
      BY <1>2, <2>1, <2>2 DEF Left
    <2>7. dest \in Address \cup {SshUpstream} /\ toDest \in Seq(Byte)
      BY <1>1, <1>5, <2>1, DestinationKinds DEF StreamTypeOK, Placed
    <2>8. dest \in Address => Carries(toDest, upBuf', Left', client.payload)
      <3>1. dest \in Address => Carries(toDest, <<>>, Left, client.payload)
        BY <1>1, <2>1 DEF Uploads
      <3> QED BY <2>5, <2>6, <2>7, <3>1, CarriesRead
    <2>9. dest = SshUpstream => Carries(toDest, upBuf', Left', client.bytes)
      <3>1. dest = SshUpstream => Carries(toDest, <<>>, Left, client.bytes)
        BY <1>1, <2>1 DEF Uploads
      <3> QED BY <2>5, <2>6, <2>7, <3>1, CarriesRead
    <2> QED BY <1>1, <2>1, <2>7, <2>8, <2>9, DestinationKinds DEF Uploads
  <1>20. CASE UpWrite
    <2>1. /\ UNCHANGED <<client, arrived, fin, pc, pos, dest, up, destEnd, down>>
          /\ pc = "relay" /\ upBuf # <<>> /\ upBuf' = <<>> /\ toDest' = toDest \o upBuf /\ Left' = Left
          /\ uploaded' = uploaded + IF Counted THEN Len(upBuf) ELSE 0
      BY <1>20 DEF UpWrite, Relaying, chosen, peers, outbound, download, Left
    <2>2. dest \in Address \cup {SshUpstream} /\ toDest \in Seq(Byte)
      BY <1>1, <1>5, <2>1, DestinationKinds DEF StreamTypeOK, Placed
    <2>3. Joins(toDest, upBuf, toDest')
      BY <2>1 DEF Joins
    <2>4. dest \in Address => Carries(toDest', <<>>, Left', client.payload)
      <3>1. dest \in Address => Carries(toDest, upBuf, Left, client.payload)
        BY <1>1, <2>1 DEF Uploads
      <3> QED BY <1>3, <2>1, <2>2, <2>3, <3>1, CarriesWrite
    <2>5. dest = SshUpstream => Carries(toDest', <<>>, Left', client.bytes)
      <3>1. dest = SshUpstream => Carries(toDest, upBuf, Left, client.bytes)
        BY <1>1, <2>1 DEF Uploads
      <3> QED BY <1>3, <2>1, <2>2, <2>3, <3>1, CarriesWrite
    <2>6. up # "shut"
      BY <1>1, <2>1 DEF Uploads
    <2>7. dest = SshUpstream => uploaded' = 0
      BY <1>1, <2>1, DestinationKinds DEF Uploads, Counted
    <2>8. dest \in Address => uploaded' <= Len(toDest') /\ Len(toDest') <= uploaded' + 0
      <3>1. Len(toDest') = Len(toDest) + Len(upBuf) /\ Len(toDest) \in Nat /\ Len(upBuf) \in Nat
        BY <1>3, <2>2, <2>3, JoinedBytes
      <3>2. dest \in Address => uploaded' = uploaded + Len(upBuf)
        BY <2>1, DestinationKinds DEF Counted
      <3>3. dest \in Address => uploaded <= Len(toDest) /\ Len(toDest) <= uploaded + 0
        BY <1>1, <2>1 DEF Uploads
      <3>4. uploaded \in Nat
        BY <1>1 DEF StreamTypeOK
      <3> QED BY <3>1, <3>2, <3>3, <3>4
    <2> QED BY <1>1, <2>1, <2>2, <2>4, <2>5, <2>6, <2>7, <2>8, DestinationKinds DEF Uploads
  <1>21. CASE UpEof
    <2>1. /\ UNCHANGED <<client, arrived, fin, pc, pos, dest, upBuf, toDest, uploaded, down>>
          /\ pc = "relay" /\ upBuf = <<>> /\ fin = "fin" /\ Unread = <<>> /\ Left' = Left
          /\ up' = "shut"
      BY <1>21 DEF UpEof, Relaying, chosen, peers, outbound, download, Left
    <2>2. Len(Unread) = arrived - pos /\ Len(<<>>) = 0
      BY <1>2, <1>3, UnreadSplit DEF Unread
    <2>3. arrived = Len(client.bytes)
      BY <1>1, <2>1 DEF Uploads
    <2>4. pos = Len(client.bytes)
      BY <1>3, <2>1, <2>2, <2>3
    <2> QED BY <1>1, <2>1, <2>4, DestinationKinds DEF Uploads
  <1>22. CASE RelayDone
    <2>1. /\ UNCHANGED <<client, arrived, fin, pos, dest, up, upBuf, toDest, destEnd, uploaded, down>>
          /\ pc = "relay" /\ pc' = "done" /\ up = "shut" /\ down = "shut" /\ Left' = Left
      BY <1>22 DEF RelayDone, Relaying, chosen, peers, outbound, upload, download, Left
    <2>2. dest # NoDest
      BY <1>1, <2>1 DEF Placed
    <2> QED BY <1>1, <2>1, <2>2, DestinationKinds DEF Uploads
  <1>23. CASE UdpUp
    <2>1. /\ UNCHANGED <<client, arrived, fin, pc, dest, up, upBuf, destEnd, down>>
          /\ pc = "udp"
      BY <1>23 DEF UdpUp, chosen, peers, outbound, download
    <2>2. dest = UdpDest
      BY <1>1, <2>1 DEF Placed
    <2>3. up # "shut"
      BY <1>1, <2>1 DEF Uploads
    <2> QED BY <1>1, <2>1, <2>2, <2>3, DestinationKinds DEF Uploads
  <1> QED BY <1>6, <1>7, <1>8, <1>9, <1>10, <1>11, <1>12, <1>13, <1>14, <1>15, <1>16, <1>17, <1>18,
             <1>19, <1>20, <1>21, <1>22, <1>23
          DEF StreamNext, Server, HeaderFails, Abort, ConnectFails, ConnectSsh, OpenUdp, RelayFails, Over

\* Packets behind their lengths.
LEMMA FrameSeqType ==
    ASSUME NEW packets \in Seq(Seq(Byte))
    PROVE  /\ FrameSeq(packets) \in Seq(Seq(Nat)) /\ Len(FrameSeq(packets)) = Len(packets)
           /\ \A k \in 1 .. Len(packets) : FrameSeq(packets)[k] = <<Len(packets[k])>> \o packets[k]
           /\ Frames(packets) = FlattenSeq(FrameSeq(packets))
  <1>1. DOMAIN packets = 1 .. Len(packets) /\ Len(packets) \in Nat
    OBVIOUS
  <1>2. ASSUME NEW k \in 1 .. Len(packets) PROVE <<Len(packets[k])>> \o packets[k] \in Seq(Nat)
    <2>1. PICK x \in Seq(Byte) : x = packets[k]
      OBVIOUS
    <2>2. Byte \subseteq Nat
      BY DEF Byte
    <2>3. x \in Seq(Nat)
      BY <2>2, SeqMonotonic
    <2>4. <<Len(x)>> \in Seq(Nat)
      <3>1. Len(x) \in Nat
        OBVIOUS
      <3> QED BY <3>1
    <2>5. <<Len(x)>> \o x \in Seq(Nat)
      BY <2>3, <2>4, ConcatProperties
    <2> QED BY <2>1, <2>5
  <1>3. FrameSeq(packets) = [k \in 1 .. Len(packets) |-> <<Len(packets[k])>> \o packets[k]]
    BY <1>1 DEF FrameSeq
  <1>4. FrameSeq(packets) \in [1 .. Len(packets) -> Seq(Nat)]
    BY <1>2, <1>3
  <1>5. FrameSeq(packets) \in Seq(Seq(Nat)) /\ Len(FrameSeq(packets)) = Len(packets)
    BY <1>1, <1>4
  <1> QED BY <1>3, <1>5 DEF Frames, FrameSeq

\* Three pieces may be joined from either end.
LEMMA JoinsAssociate ==
    ASSUME NEW E, NEW a \in Seq(E), NEW b \in Seq(E), NEW c \in Seq(E),
           NEW ab, Joins(a, b, ab), NEW bc, Joins(b, c, bc), NEW w
    PROVE  Joins(ab, c, w) <=> Joins(a, bc, w)
  <1>1. (a \o b) \o c = a \o (b \o c)
    BY ConcatAssociative, SMTT(60)
  <1>2. Joins(ab, c, w) <=> w = (a \o b) \o c
    BY DEF Joins
  <1>3. Joins(a, bc, w) <=> w = a \o (b \o c)
    BY DEF Joins
  <1> QED BY <1>1, <1>2, <1>3

\* What follows the same beginning is the same.
LEMMA JoinsSame ==
    ASSUME NEW E, NEW a \in Seq(E), NEW b \in Seq(E), NEW c \in Seq(E), NEW w,
           Joins(a, b, w), Joins(a, c, w)
    PROVE  b = c
  <1>1. a \o b = a \o c
    BY DEF Joins
  <1> QED BY <1>1, ConcatSimplifications

\* The frame that a stream goes on with is that of the next packet.
LEMMA NextPacket ==
    ASSUME NEW payload, NEW R \in Seq(Nat), Packets(R, payload), NEW n \in 0 .. Len(payload),
           NEW X \in Seq(Byte), Joins(FlattenSeq(SubSeq(FrameSeq(payload), 1, n)), X, R),
           X # <<>>, X[1] > 0, Len(X) > X[1]
    PROVE  /\ n < Len(payload) /\ payload[n + 1] = SubSeq(X, 2, X[1] + 1)
           /\ Len(payload[n + 1]) = X[1]
           /\ Joins(FlattenSeq(SubSeq(FrameSeq(payload), 1, n + 1)), Dropped(X, X[1] + 1), R)
  <1>1. payload \in Seq(Seq(Byte))
    <2>1. payload \in Seq(Seq(Byte) \ {<<>>}) /\ Seq(Byte) \ {<<>>} \subseteq Seq(Byte)
      BY DEF Packets
    <2> QED BY <2>1, SeqMonotonic
  <1>2. PICK F \in Seq(Seq(Nat)) :
          /\ F = FrameSeq(payload) /\ Len(F) = Len(payload)
          /\ \A k \in 1 .. Len(payload) : F[k] = <<Len(payload[k])>> \o payload[k]
          /\ Frames(payload) = FlattenSeq(F)
    BY <1>1, FrameSeqType
  <1>3. X \in Seq(Nat) /\ R \in Seq(Nat)
    <2>1. Byte \subseteq Nat
      BY DEF Byte
    <2> QED BY <2>1, SeqMonotonic
  <1>4. Len(F) \in Nat /\ n \in 0 .. Len(F)
    BY <1>2
  <1>5. PICK all \in Seq(Nat) : all = FlattenSeq(F)
    BY FlattenStep
  <1>6. PICK left \in Seq(Nat) : Joins(all, left, R) /\ left = Dropped(R, Len(all))
    <2>1. IsPrefix(all, R)
      BY <1>2, <1>5 DEF Packets
    <2>2. R = all \o Dropped(R, Len(all)) /\ Dropped(R, Len(all)) \in Seq(Nat)
      BY <1>3, <2>1, PrefixRest
    <2> QED BY <2>2 DEF Joins
  <1>7. left = <<>> \/ left[1] = 0 \/ Len(left) <= left[1]
    BY <1>2, <1>5, <1>6 DEF Packets
  <1>8. n # Len(payload)
    <2> SUFFICES ASSUME n = Len(payload) PROVE FALSE
      OBVIOUS
    <2>1. SubSeq(F, 1, n) = F
      BY <1>2, SubSeqFull
    <2>2. R = all \o X
      BY <1>2, <1>5, <2>1 DEF Joins
    <2>3. Dropped(R, Len(all)) = X
      BY <1>3, <2>2, ConcatCut
    <2>4. X[1] \in Nat /\ Len(X) \in Nat
      BY <1>3
    <2> QED BY <1>6, <1>7, <2>3, <2>4
  <1>9. PICK m : m = n + 1
    OBVIOUS
  <1>10. m \in 1 .. Len(F) /\ m \in 0 .. Len(F) /\ m - 1 = n /\ n < Len(payload)
    BY <1>2, <1>4, <1>8, <1>9
  <1>11. PICK p \in Seq(Byte), f \in Seq(Nat) : p = payload[m] /\ f = F[m] /\ f = <<Len(p)>> \o p
    <2>1. payload[m] \in Seq(Byte)
      BY <1>1, <1>2, <1>10
    <2>2. F[m] \in Seq(Nat)
      BY <1>10
    <2> QED BY <1>2, <1>10, <2>1, <2>2
  <1>12. PICK A \in Seq(Nat), C \in Seq(Nat) :
           A = FlattenSeq(SubSeq(F, 1, n)) /\ C = FlattenSeq(SubSeq(F, 1, m)) /\ Joins(A, f, C)
    <2>1. FlattenSeq(SubSeq(F, 1, m - 1)) \in Seq(Nat) /\ FlattenSeq(SubSeq(F, 1, m)) = FlattenSeq(SubSeq(F, 1, m - 1)) \o F[m]
      BY <1>10, FlattenStep
    <2>2. PICK A \in Seq(Nat) : A = FlattenSeq(SubSeq(F, 1, n))
      BY <1>10, <2>1
    <2>3. FlattenSeq(SubSeq(F, 1, m)) = A \o f
      BY <1>10, <1>11, <2>1, <2>2
    <2>4. A \o f \in Seq(Nat)
      BY ConcatProperties
    <2> QED BY <2>2, <2>3, <2>4 DEF Joins
  <1>13. PICK z \in Seq(Nat) : Joins(C, z, all)
    <2>1. \E z \in Seq(Nat) : FlattenSeq(F) = FlattenSeq(SubSeq(F, 1, m)) \o z
      BY <1>10, FlattenIsPrefix
    <2> QED BY <1>5, <1>12, <2>1 DEF Joins
  <1>14. PICK y \in Seq(Nat) : Joins(z, left, y)
    BY ConcatProperties DEF Joins
  <1>15. Joins(C, y, R)
    BY <1>6, <1>13, <1>14, JoinsAssociate
  <1>16. Joins(f, y, X)
    <2>1. PICK v \in Seq(Nat) : Joins(f, y, v)
      BY ConcatProperties DEF Joins
    <2>2. Joins(A, v, R)
      BY <1>12, <1>15, <2>1, JoinsAssociate
    <2>3. Joins(A, X, R)
      BY <1>2, <1>12
    <2>4. X = v
      BY <1>3, <2>2, <2>3, JoinsSame
    <2> QED BY <2>1, <2>4
  <1>17. PICK q \in Seq(Nat), l \in Nat : q = p /\ l = Len(p)
    <2>1. Byte \subseteq Nat
      BY DEF Byte
    <2>2. p \in Seq(Nat)
      BY <2>1, SeqMonotonic
    <2>3. Len(p) \in Nat
      OBVIOUS
    <2> QED BY <2>2, <2>3
  <1>18. /\ Len(f) = l + 1 /\ f[1] = l /\ \A i \in 1 .. l : f[i + 1] = q[i]
    <2>1. <<l>> \in Seq(Nat) /\ Len(<<l>>) = 1 /\ <<l>>[1] = l
      OBVIOUS
    <2>2. f = <<l>> \o q
      BY <1>11, <1>17
    <2>3. Len(f) = 1 + l
      BY <1>17, <2>1, <2>2, ConcatProperties
    <2>4. \A i \in 1 .. 1 + l : f[i] = IF i <= 1 THEN <<l>>[i] ELSE q[i - 1]
      BY <1>17, <2>1, <2>2, ConcatProperties, SMTT(30)
    <2>6. 1 \in 1 .. 1 + l
      OBVIOUS
    <2>7. f[1] = l
      BY <2>1, <2>4, <2>6, SMTT(60)
    <2>8. ASSUME NEW i \in 1 .. l PROVE f[i + 1] = q[i]
      <3>1. PICK j : j = i + 1
        OBVIOUS
      <3>2. j \in 1 .. 1 + l /\ ~(j <= 1) /\ j - 1 = i
        BY <3>1
      <3>3. f[j] = q[j - 1]
        BY <2>4, <3>2
      <3> QED BY <3>1, <3>2, <3>3
    <2>9. Len(f) = l + 1
      BY <2>3
    <2> QED BY <2>7, <2>8, <2>9
  <1>19. /\ Len(X) = Len(f) + Len(y) /\ Len(y) \in Nat
         /\ \A i \in 1 .. Len(f) : X[i] = f[i]
    <2>1. X = f \o y
      BY <1>16 DEF Joins
    <2> QED BY <2>1, ConcatProperties
  <1>20. X[1] = l
    BY <1>18, <1>19
  <1>21. SubSeq(X, 2, l + 1) = q
    <2>1. PICK s : s = SubSeq(X, 2, l + 1)
      OBVIOUS
    <2>2. \A i \in 2 .. l + 1 : X[i] \in Nat
      <3> TAKE i \in 2 .. l + 1
      <3>1. i \in 1 .. Len(X)
        BY <1>18, <1>19
      <3> QED BY <1>3, <3>1, ElementOfSeq
    <2>3. /\ s \in Seq(Nat) /\ Len(s) = IF 2 <= l + 1 THEN (l + 1) - 2 + 1 ELSE 0
          /\ \A i \in 1 .. (l + 1) - 2 + 1 : s[i] = X[2 + i - 1]
      BY <2>1, <2>2, SubSeqProperties
    <2>4. Len(s) = l
      BY <2>3
    <2>5. ASSUME NEW i \in 1 .. l PROVE s[i] = q[i]
      <3>1. i \in 1 .. (l + 1) - 2 + 1 /\ 2 + i - 1 = i + 1 /\ i + 1 \in 1 .. Len(f)
        BY <1>18
      <3> QED BY <1>18, <1>19, <2>3, <3>1
    <2>6. s = q
      BY <1>17, <2>3, <2>4, <2>5, SeqEqual
    <2> QED BY <2>1, <2>6
  <1>22. Dropped(X, l + 1) = y
    <2>1. X = f \o y
      BY <1>16 DEF Joins
    <2>2. Dropped(X, Len(f)) = y
      BY <2>1, ConcatCut
    <2> QED BY <1>18, <2>2
  <1> QED BY <1>2, <1>9, <1>10, <1>11, <1>12, <1>15, <1>17, <1>20, <1>21, <1>22

\* Of b, the bytes from p to a arrived and hold a packet of length l.
HoldsPacket(b, p, a, l) ==
    LET u == SubSeq(b, p + 1, a) IN
    /\ b \in Seq(Byte) /\ a \in 0 .. Len(b) /\ p \in 0 .. a /\ l \in Nat
    /\ u # <<>> /\ u[1] = l /\ l > 0 /\ Len(u) > l

\* All of b behind p begins with that packet.
BeginsWithPacket(b, p, a, l) ==
    LET X == Dropped(b, p) IN
    /\ X # <<>> /\ X[1] = l /\ Len(X) > l /\ l + 1 \in 1 .. a - p
    /\ SubSeq(X, 2, l + 1) = SubSeq(SubSeq(b, p + 1, a), 2, l + 1)
    /\ Dropped(X, l + 1) = Dropped(b, p + (l + 1))

\* The bytes of a packet behind its length.
LEMMA PacketSlice ==
    ASSUME NEW s \in Seq(Byte), NEW l \in Nat, l > 0, Len(s) >= l + 1
    PROVE  /\ SubSeq(s, 2, l + 1) \in Seq(Byte) /\ Len(SubSeq(s, 2, l + 1)) = l
           /\ \A i \in 1 .. l : SubSeq(s, 2, l + 1)[i] = s[i + 1]
  <1>1. PICK from \in Int, to \in Int : from = 2 /\ to = l + 1
    OBVIOUS
  <1>2. \A i \in from .. to : s[i] \in Byte
    <2> TAKE i \in from .. to
    <2>1. i \in 1 .. Len(s)
      BY <1>1
    <2> QED BY <2>1, ElementOfSeq
  <1>3. /\ SubSeq(s, from, to) \in Seq(Byte)
        /\ Len(SubSeq(s, from, to)) = IF from <= to THEN to - from + 1 ELSE 0
        /\ \A i \in 1 .. to - from + 1 : SubSeq(s, from, to)[i] = s[from + i - 1]
    BY <1>2, SubSeqProperties
  <1>4. from <= to /\ to - from + 1 = l /\ \A i \in 1 .. l : from + i - 1 = i + 1
    BY <1>1
  <1> QED BY <1>1, <1>3, <1>4

\* A packet is read from what arrived as it is read from what is left.
LEMMA UdpRead ==
    ASSUME NEW b, NEW p, NEW a, NEW l, HoldsPacket(b, p, a, l)
    PROVE  BeginsWithPacket(b, p, a, l)
  <1> SUFFICES ASSUME b \in Seq(Byte), a \in 0 .. Len(b), p \in 0 .. a, l \in Nat
               PROVE  BeginsWithPacket(b, p, a, l)
    BY DEF HoldsPacket
  <1>0. /\ SubSeq(b, p + 1, a) \in Seq(Byte) /\ Len(SubSeq(b, p + 1, a)) = a - p
        /\ Dropped(b, p) \in Seq(Byte) /\ Dropped(b, a) \in Seq(Byte)
        /\ Dropped(b, p) = SubSeq(b, p + 1, a) \o Dropped(b, a)
    BY UnreadSplit
  <1>1. PICK u \in Seq(Byte), d \in Seq(Byte), X \in Seq(Byte) :
          /\ u = SubSeq(b, p + 1, a) /\ Len(u) = a - p
          /\ X = Dropped(b, p) /\ d = Dropped(b, a) /\ X = u \o d
    BY <1>0
  <1>2. Joins(u, d, X)
    BY <1>1 DEF Joins
  <1>3. u[1] = l /\ l > 0 /\ Len(u) > l
    BY <1>1 DEF HoldsPacket
  <1>4. Len(u) \in Nat /\ Len(u) > l /\ l > 0 /\ l + 1 \in 1 .. Len(u) /\ l + 1 \in 0 .. Len(u) /\ 1 \in 1 .. Len(u)
    BY <1>1, <1>3
  <1>5. /\ Len(X) = Len(u) + Len(d) /\ Len(d) \in Nat
        /\ \A i \in 1 .. Len(u) : X[i] = u[i]
    <2>1. X = u \o d
      BY <1>2 DEF Joins
    <2> QED BY <1>1, <2>1, ConcatProperties
  <1>6. X[1] = l /\ Len(X) > l /\ Len(X) > 0
    BY <1>3, <1>4, <1>5
  <1>7. X # <<>>
    BY <1>6
  <1>8. SubSeq(X, 2, l + 1) = SubSeq(u, 2, l + 1)
    <2>2. PICK s \in Seq(Byte) : s = SubSeq(X, 2, l + 1) /\ Len(s) = l /\ \A i \in 1 .. l : s[i] = X[i + 1]
      <3>1. Len(X) >= l + 1
        BY <1>4, <1>5
      <3> QED BY <1>3, <3>1, PacketSlice
    <2>3. PICK t \in Seq(Byte) : t = SubSeq(u, 2, l + 1) /\ Len(t) = l /\ \A i \in 1 .. l : t[i] = u[i + 1]
      <3>1. Len(u) >= l + 1
        BY <1>4
      <3> QED BY <1>3, <3>1, PacketSlice
    <2>4. ASSUME NEW i \in 1 .. l PROVE s[i] = t[i]
      <3>1. i + 1 \in 1 .. Len(u)
        BY <1>4
      <3> QED BY <1>5, <2>2, <2>3, <3>1
    <2>5. s = t
      BY <2>2, <2>3, <2>4, SeqEqual
    <2> QED BY <2>2, <2>3, <2>5
  <1>9. Dropped(X, l + 1) = Dropped(b, p + (l + 1))
    <2>1. PICK n : n = l + 1
      OBVIOUS
    <2>2. n \in 0 .. a - p /\ n \in 0 .. Len(u) /\ p + n \in 0 .. Len(b)
      BY <1>1, <1>4, <2>1
    <2>3. PICK t : t = Taken(u, n)
      OBVIOUS
    <2>4. t \in Seq(Byte) /\ Len(t) = n /\ Dropped(b, p) = t \o Dropped(b, p + n)
      <3>1. /\ Taken(SubSeq(b, p + 1, a), n) \in Seq(Byte) /\ Len(Taken(SubSeq(b, p + 1, a), n)) = n
            /\ Dropped(b, p) = Taken(SubSeq(b, p + 1, a), n) \o Dropped(b, p + n)
        BY <2>2, UnreadTaken
      <3> QED BY <1>1, <2>3, <3>1
    <2>5. PICK r \in Seq(Byte) : r = Dropped(b, p + n)
      BY <2>2, TakenDropped
    <2>6. Dropped(t \o r, Len(t)) = r
      BY <2>4, ConcatCut
    <2> QED BY <1>1, <2>1, <2>4, <2>5, <2>6
  <1> QED BY <1>1, <1>4, <1>6, <1>7, <1>8, <1>9 DEF BeginsWithPacket

\* Every step keeps the packets to the destination.
LEMMA StreamNextUdpUploads ==
    ASSUME StreamIInv, [StreamNext]_streamVars
    PROVE  UdpUploads'
  <1>1. StreamTypeOK /\ Placed /\ Uploads /\ UdpUploads
    BY DEF StreamIInv
  <1>2. CASE /\ UNCHANGED <<client, pos, toDest, uploaded>>
             /\ pc' = "bind" \/ dest' = UdpDest => pc = "bind" \/ dest = UdpDest
    <2>1. PacketsSent' <=> PacketsSent
      BY <1>2 DEF PacketsSent, Left
    <2> QED BY <1>1, <1>2, <2>1 DEF UdpUploads
  <1>3. CASE pc' # "bind" /\ dest' # UdpDest
    BY <1>3 DEF UdpUploads
  <1>4. CASE \/ ClientSends \/ ClientEnds \/ DestSends \/ DestEnds \/ Sniff
             \/ (ConnectFails /\ ~Fails) \/ (OpenUdp /\ ~Fails)
             \/ Respond \/ UpEof \/ DownRead \/ DownWrite \/ DownEof
             \/ RelayDone \/ UdpDown \/ UNCHANGED streamVars
    <2>1. /\ UNCHANGED <<client, pos, toDest, uploaded>>
          /\ pc' = "bind" \/ dest' = UdpDest => pc = "bind" \/ dest = UdpDest
      BY <1>4 DEF ClientSends, ClientEnds, DestSends, DestEnds, Sniff, ConnectFails,
            OpenUdp, Respond, UpEof, DownRead, DownWrite, DownEof, RelayDone, UdpDown,
            streamVars, chosen, peers, outbound, upload, download
    <2> QED BY <1>2, <2>1
  <1>5. CASE Fails /\ pc \notin Over
    <2>1. UNCHANGED <<client, pos, uploaded, dest>> /\ pc' = "failed"
      BY <1>5 DEF Fails, chosen, peers, outbound
    <2>2. CASE pc \in {"forward", "relay"}
      <3>1. dest # UdpDest
        BY <1>1, <2>2, DestinationKinds DEF Placed
      <3> QED BY <1>3, <2>1, <3>1
    <2>3. CASE pc \notin {"forward", "relay"}
      <3>1. toDest' = toDest
        BY <1>1, <1>5, <2>3, FailsWrites
      <3> QED BY <1>2, <2>1, <3>1
    <2> QED BY <2>2, <2>3
  <1>6. CASE Handshake \/ ReadEarly
    <2>1. dest' = dest /\ pc \in {"tls", "early"} /\ pc' # "bind"
      BY <1>6 DEF Handshake, ReadEarly, outbound
    <2>2. dest # UdpDest
      BY <1>1, <2>1, DestinationKinds DEF Placed
    <2> QED BY <1>3, <2>1, <2>2
  <1>7. CASE ReadHeader
    <2>1. /\ UNCHANGED <<client, dest, toDest, uploaded>>
          /\ Reads /\ Header.is = "read" /\ pos' = arrived - Len(Header.rest)
      BY <1>7 DEF ReadHeader, chosen, peers, outbound, upload, download
    <2>2. dest # UdpDest /\ toDest = <<>> /\ uploaded = 0
      BY <1>1, <2>1, DestinationKinds DEF Placed, Uploads, Reads
    <2>3. CASE pc' # "bind"
      BY <1>3, <2>1, <2>2, <2>3
    <2>4. CASE pc' = "bind"
      <3>1. pc = "header" /\ Header.command # COMMAND_TCP
        BY <1>7, <2>4 DEF ReadHeader, Reads
      <3>2. Left' = Dropped(client.bytes, pos')
        BY <2>1 DEF Left
      <3>3. /\ read_vless_header(Left).is = "read" /\ read_vless_header(Left).command = Header.command
            /\ read_vless_header(Left).rest = Left'
        BY <1>1, <2>1, <3>1, <3>2, HeaderRead
      <3>4. VlessRequest(client.bytes) = read_vless_header(Left) /\ client.kind = "tcp"
        BY <1>1, <3>1 DEF Placed
      <3>5. Packets(Left', client.payload)
        BY <1>1, <3>1, <3>3, <3>4, VlessAsks
      <3>6. PICK payload : payload = client.payload
        OBVIOUS
      <3>7. payload \in Seq(Seq(Byte))
        <4>1. payload \in Seq(Seq(Byte) \ {<<>>}) /\ Seq(Byte) \ {<<>>} \subseteq Seq(Byte)
          BY <3>5, <3>6 DEF Packets
        <4> QED BY <4>1, SeqMonotonic
      <3>8. Left' \in Seq(Byte)
        <4>1. PICK b \in Seq(Byte) : b = client.bytes
          BY <1>1, ScenarioFacts
        <4>2. pos' \in pos .. arrived
          BY <1>1, <2>1, HeaderRead
        <4>3. pos' \in 0 .. Len(b)
          BY <1>1, <4>1, <4>2 DEF StreamTypeOK
        <4> QED BY <3>2, <4>1, <4>3, TakenDropped
      <3>9. FlattenSeq(SubSeq(FrameSeq(payload), 1, 0)) = <<>>
        BY <3>7, FrameSeqType, FlattenStep
      <3>10. Joins(<<>>, Left', Left')
        BY <3>8, ConcatEmptySeq DEF Joins
      <3>11. /\ <<>> \in Seq(Seq(Byte)) /\ Len(<<>>) = 0 /\ Len(payload) \in Nat
        BY <3>7
      <3>12. SubSeq(payload, 1, 0) = <<>>
        BY SubSeqEmpty
      <3>13. Len(FlattenSeq(<<>>)) = 0
        <4>1. FlattenSeq(SubSeq(payload, 1, 0)) = <<>>
          BY <3>7, FlattenStep
        <4> QED BY <3>11, <3>12, <4>1
      <3>14. PacketsSent'
        BY <2>1, <2>2, <3>3, <3>4, <3>5, <3>6, <3>9, <3>10, <3>11, <3>12, <3>13 DEF PacketsSent
      <3> QED BY <3>14 DEF UdpUploads
    <2> QED BY <2>3, <2>4
  <1>8. CASE Connect
    <2>1. UNCHANGED <<client, pos, toDest, uploaded>> /\ pc = "connect" /\ pc' # "bind"
      BY <1>8 DEF Connect, chosen, peers, upload
    <2>2. dest # UdpDest
      BY <1>1, <2>1, DestinationKinds DEF Placed
    <2>3. dest' = dest \/ dest' \in Address
      <3>1. Addresses \in Seq(Address)
        BY <1>1, ScenarioFacts, OrderedAddresses DEF Addresses
      <3>2. tried \in Seq(Address) /\ Len(tried) \in Nat
        BY <1>1 DEF StreamTypeOK
      <3>3. Addresses[Len(tried) + 1] \in Address
        BY <1>8, <3>1, <3>2 DEF Connect
      <3> QED BY <1>8, <3>3 DEF Connect
    <2> QED BY <1>3, <2>1, <2>2, <2>3, DestinationKinds
  <1>9. CASE ConnectSsh /\ ~Fails
    <2>1. pc' # "bind" /\ dest' # UdpDest
      BY <1>9, DestinationKinds DEF ConnectSsh
    <2> QED BY <1>3, <2>1
  <1>10. CASE Forward \/ UpRead \/ UpWrite
    <2>1. dest' = dest /\ pc \in {"forward", "relay"} /\ pc' # "bind"
      BY <1>10 DEF Forward, UpRead, UpWrite, Relaying, outbound
    <2>2. dest # UdpDest
      BY <1>1, <2>1, DestinationKinds DEF Placed
    <2> QED BY <1>3, <2>1, <2>2
  <1>11. CASE UdpUp
    <2>1. /\ UNCHANGED <<client, dest, pc>> /\ pc = "udp" /\ Unread # <<>> /\ Unread[1] > 0 /\ Len(Unread) > Unread[1]
          /\ toDest' = Append(toDest, SubSeq(Unread, 2, Unread[1] + 1))
          /\ uploaded' = uploaded + Unread[1] /\ pos' = pos + Unread[1] + 1
      BY <1>11 DEF UdpUp, chosen, peers, outbound
    <2>2. PacketsSent
      BY <1>1, <2>1 DEF Placed, UdpUploads
    <2>3. PICK b \in Seq(Byte) : b = client.bytes
      BY <1>1, ScenarioFacts
    <2>4. arrived \in 0 .. Len(b) /\ pos \in 0 .. arrived /\ Unread = SubSeq(b, pos + 1, arrived)
      BY <1>1, <2>3 DEF StreamTypeOK, Unread
    <2>5. PICK l \in Nat : l = Unread[1]
      <3>1. Unread \in Seq(Byte)
        BY <2>4, UnreadSplit
      <3>2. Unread[1] \in Byte
        BY <2>1, <3>1
      <3> QED BY <3>2 DEF Byte
    <2>6. PICK p : p = SubSeq(Unread, 2, l + 1)
      OBVIOUS
    <2>7. /\ Left # <<>> /\ Left[1] = l /\ Len(Left) > l /\ l + 1 \in 1 .. arrived - pos
          /\ SubSeq(Left, 2, l + 1) = p /\ Dropped(Left, l + 1) = Dropped(b, pos + (l + 1))
      <3>1. HoldsPacket(b, pos, arrived, l)
        BY <2>1, <2>4, <2>5 DEF HoldsPacket
      <3>2. BeginsWithPacket(b, pos, arrived, l)
        BY <3>1, UdpRead
      <3> QED BY <2>3, <2>4, <2>6, <3>2 DEF BeginsWithPacket, Left
    <2>8. Left' = Dropped(Left, l + 1)
      <3>0. pos \in Int /\ l \in Int
        BY <2>4
      <3>1. pos + l + 1 = pos + (l + 1)
        BY <3>0
      <3> QED BY <2>1, <2>3, <2>5, <2>7, <3>1 DEF Left
    <2>9. PICK payload, gone, R : payload = client.payload /\ gone = toDest /\ R = VlessRequest(client.bytes).rest
      OBVIOUS
    <2>10. /\ gone \in Seq(Seq(Byte)) /\ Len(gone) <= Len(payload) /\ gone = SubSeq(payload, 1, Len(gone))
           /\ Packets(R, payload) /\ Joins(FlattenSeq(SubSeq(FrameSeq(payload), 1, Len(gone))), Left, R)
           /\ uploaded = Len(FlattenSeq(gone))
      BY <2>2, <2>9 DEF PacketsSent
    <2>11. payload \in Seq(Seq(Byte))
      <3>1. payload \in Seq(Seq(Byte) \ {<<>>}) /\ Seq(Byte) \ {<<>>} \subseteq Seq(Byte)
        BY <2>10 DEF Packets
      <3> QED BY <3>1, SeqMonotonic
    <2>12. Left \in Seq(Byte)
      <3>1. pos \in 0 .. Len(b)
        BY <2>4
      <3> QED BY <2>3, <3>1, TakenDropped DEF Left
    <2>13. R \in Seq(Nat)
      <3>1. PICK F \in Seq(Seq(Nat)) : F = FrameSeq(payload) /\ Len(F) = Len(payload)
        BY <2>11, FrameSeqType
      <3>2. Len(gone) \in 0 .. Len(F)
        BY <2>10, <2>11, <3>1
      <3>3. SubSeq(F, 1, Len(gone)) \in Seq(Seq(Nat))
        BY <3>2, TakenDropped DEF Taken
      <3>4. FlattenSeq(SubSeq(F, 1, Len(gone))) \in Seq(Nat)
        BY <3>3, FlattenStep
      <3>5. Left \in Seq(Nat)
        <4>1. Byte \subseteq Nat
          BY DEF Byte
        <4> QED BY <2>12, <4>1, SeqMonotonic
      <3>6. PICK f \in Seq(Nat), x \in Seq(Nat) : f = FlattenSeq(SubSeq(F, 1, Len(gone))) /\ x = Left
        BY <3>4, <3>5
      <3>7. R = f \o x
        BY <2>10, <3>1, <3>6 DEF Joins
      <3> QED BY <3>7, ConcatProperties
    <2>14. PICK n : n = Len(gone)
      OBVIOUS
    <2>15. n \in 0 .. Len(payload) /\ n \in Nat /\ Len(payload) \in Nat
      BY <2>10, <2>11, <2>14
    <2>16. /\ n < Len(payload) /\ payload[n + 1] = p /\ Len(payload[n + 1]) = l
           /\ Joins(FlattenSeq(SubSeq(FrameSeq(payload), 1, n + 1)), Left', R)
      <3>1. PICK X \in Seq(Byte) : X = Left
        BY <2>12
      <3>2. /\ Joins(FlattenSeq(SubSeq(FrameSeq(payload), 1, n)), X, R)
            /\ X # <<>> /\ X[1] = l /\ Len(X) > l /\ l > 0
        BY <2>1, <2>5, <2>7, <2>10, <2>14, <3>1
      <3>3. X[1] > 0 /\ Len(X) > X[1]
        BY <3>2
      <3>4. /\ n < Len(payload) /\ payload[n + 1] = SubSeq(X, 2, X[1] + 1)
            /\ Len(payload[n + 1]) = X[1]
            /\ Joins(FlattenSeq(SubSeq(FrameSeq(payload), 1, n + 1)), Dropped(X, X[1] + 1), R)
        BY <2>10, <2>13, <2>15, <3>2, <3>3, NextPacket
      <3> QED BY <2>7, <2>8, <3>1, <3>2, <3>4
    <2>17. p \in Seq(Byte) /\ Len(p) = l
      BY <2>11, <2>15, <2>16
    <2>18. toDest' = Append(gone, p)
      BY <2>1, <2>5, <2>6, <2>9
    <2>19. /\ toDest' \in Seq(Seq(Byte)) /\ Len(toDest') = n + 1
      BY <2>10, <2>14, <2>17, <2>18, AppendProperties
    <2>20. toDest' = SubSeq(payload, 1, n + 1)
      <3>1. PICK m : m = n + 1
        OBVIOUS
      <3>2. m \in 1 .. Len(payload) /\ m - 1 = n
        BY <2>15, <2>16, <3>1
      <3>3. 1 \in 1 .. Len(payload) /\ m \in 1 .. Len(payload)
        BY <2>15, <3>2
      <3>4. SubSeq(payload, 1, m) = SubSeq(payload, 1, m - 1) \o <<payload[m]>>
        BY <2>11, <3>3, SubSeqRecursiveSecond
      <3>5. Append(gone, p) = gone \o <<p>>
        BY <2>10, <2>17, AppendIsConcat
      <3> QED BY <2>10, <2>14, <2>16, <2>18, <3>1, <3>2, <3>4, <3>5
    <2>21. uploaded' = Len(FlattenSeq(toDest'))
      <3>1. FlattenSeq(gone) \in Seq(Byte) /\ FlattenSeq(Append(gone, p)) = FlattenSeq(gone) \o p
        BY <2>10, <2>17, FlattenAppend
      <3>2. PICK s \in Seq(Byte) : s = FlattenSeq(gone)
        BY <3>1
      <3>3. Len(s \o p) = Len(s) + Len(p)
        BY <2>17, ConcatProperties
      <3> QED BY <2>1, <2>5, <2>10, <2>17, <2>18, <3>1, <3>2, <3>3
    <2>22. PacketsSent'
      <3>1. client' = client /\ payload = client'.payload /\ R = VlessRequest(client'.bytes).rest
        BY <2>1, <2>9
      <3>2. PICK new : new = toDest' /\ Len(new) = n + 1
        BY <2>19
      <3>3. n + 1 <= Len(payload)
        BY <2>15, <2>16
      <3>4. new \in Seq(Seq(Byte)) /\ Len(new) <= Len(payload) /\ new = SubSeq(payload, 1, Len(new))
        BY <2>19, <2>20, <3>2, <3>3
      <3>5. Joins(FlattenSeq(SubSeq(FrameSeq(payload), 1, Len(new))), Left', R)
        BY <2>16, <3>2
      <3> QED BY <2>10, <2>21, <3>1, <3>2, <3>4, <3>5 DEF PacketsSent
    <2> QED BY <2>22 DEF UdpUploads
  <1> QED BY <1>4, <1>5, <1>6, <1>7, <1>8, <1>9, <1>10, <1>11
          DEF StreamNext, Server, HeaderFails, Abort, ConnectFails, ConnectSsh, OpenUdp, RelayFails, Over

\* Nothing is the beginning of everything.
LEMMA EmptyPrefix ==
    ASSUME NEW E, NEW w \in Seq(E)
    PROVE  IsPrefix(<<>>, w)
  <1>1. <<>> \in Seq(E) /\ <<>> \o w = w
    BY ConcatEmptySeq
  <1>2. IsPrefix(<<>>, <<>> \o w)
    BY <1>1, ConcatPrefix
  <1> QED BY <1>1, <1>2

\* There is a response, and responses are bytes.
LEMMA SomeResponse ==
    /\ Responses # {}
    /\ \A response \in Responses : response \in Seq(Byte)
  <1>1. CASE dest = SshUpstream
    <2>1. Responses = {<<>>} /\ <<>> \in Seq(Byte)
      BY <1>1 DEF Responses
    <2> QED BY <2>1
  <1>2. CASE dest # SshUpstream /\ client.kind = "tcp"
    <2>1. Responses = {<<0, 0>>}
      BY <1>2 DEF Responses
    <2>2. <<0, 0>> \in Seq(Byte)
      BY WireAssumption DEF WireAssumption, Byte, MaxByte
    <2> QED BY <2>1, <2>2
  <1>3. CASE dest # SshUpstream /\ client.kind # "tcp"
    <2>1. Responses = {TcpResponse_encode(0, <<>>, padding).bytes : padding \in Paddings}
      BY <1>3 DEF Responses
    <2>2. Paddings # {} /\ Paddings \subseteq Seq(Byte)
      BY StreamAssumption DEF StreamAssumption
    <2>3. <<>> \in Seq(Byte) /\ Len(<<>>) <= 1
      OBVIOUS
    <2> QED BY <2>1, <2>2, <2>3, ResponseBytes
  <1> QED BY <1>1, <1>2, <1>3

\* The packets of the answer, and what they are in the stream.
LEMMA AnswerFrames ==
    ASSUME answer \in Seq(Byte)
    PROVE  /\ FrameSeq(AnswerPackets) \in Seq(Seq(Nat)) /\ Len(FrameSeq(AnswerPackets)) = Len(answer)
           /\ \A k \in 1 .. Len(answer) :
                /\ Packet(answer[k]) \in Seq(Nat)
                /\ FrameSeq(AnswerPackets)[k] = <<Len(Packet(answer[k]))>> \o Packet(answer[k])
           /\ Framed = FlattenSeq(FrameSeq(AnswerPackets))
  <1>1. DOMAIN answer = 1 .. Len(answer) /\ Len(answer) \in Nat
    OBVIOUS
  <1>2. ASSUME NEW byte \in Byte PROVE Packet(byte) \in Seq(Byte) /\ Packet(byte) \in Seq(Nat)
    <2>1. byte \in Nat /\ Byte \subseteq Nat
      BY DEF Byte
    <2>2. Packet(byte) \in [1 .. byte -> Byte]
      BY DEF Packet
    <2>3. Packet(byte) \in Seq(Byte)
      BY <2>1, <2>2
    <2> QED BY <2>1, <2>3, SeqMonotonic
  <1>3. AnswerPackets = [k \in 1 .. Len(answer) |-> Packet(answer[k])]
    BY <1>1 DEF AnswerPackets
  <1>4. \A k \in 1 .. Len(answer) : answer[k] \in Byte
    OBVIOUS
  <1>5. AnswerPackets \in [1 .. Len(answer) -> Seq(Byte)]
    BY <1>2, <1>3, <1>4
  <1>6. AnswerPackets \in Seq(Seq(Byte)) /\ Len(AnswerPackets) = Len(answer)
    BY <1>1, <1>5
  <1>7. PICK packets \in Seq(Seq(Byte)) : packets = AnswerPackets
    BY <1>6
  <1>8. /\ FrameSeq(packets) \in Seq(Seq(Nat)) /\ Len(FrameSeq(packets)) = Len(packets)
        /\ \A k \in 1 .. Len(packets) : FrameSeq(packets)[k] = <<Len(packets[k])>> \o packets[k]
        /\ Frames(packets) = FlattenSeq(FrameSeq(packets))
    BY FrameSeqType
  <1>9. \A k \in 1 .. Len(answer) : packets[k] = Packet(answer[k])
    BY <1>3, <1>7
  <1>10. Framed = Frames(packets)
    BY <1>7 DEF Framed, AnswerPackets
  <1> QED BY <1>2, <1>4, <1>6, <1>7, <1>8, <1>9, <1>10

\* One more packet was written behind the response.
LEMMA PacketWritten ==
    ASSUME NEW F \in Seq(Seq(Nat)), NEW d \in 0 .. Len(F), d < Len(F), NEW z \in Seq(Nat), NEW p \in Seq(Nat),
           F[d + 1] = <<Len(p)>> \o p
    PROVE  ((z \o FlattenSeq(SubSeq(F, 1, d))) \o <<Len(p)>>) \o p = z \o FlattenSeq(SubSeq(F, 1, d + 1))
  <1>1. PICK m : m = d + 1
    OBVIOUS
  <1>2. m \in 1 .. Len(F) /\ m - 1 = d
    BY <1>1
  <1>3. FlattenSeq(SubSeq(F, 1, m - 1)) \in Seq(Nat) /\ FlattenSeq(SubSeq(F, 1, m)) = FlattenSeq(SubSeq(F, 1, m - 1)) \o F[m]
    BY <1>2, FlattenStep
  <1>4. PICK A \in Seq(Nat), f \in Seq(Nat), l \in Seq(Nat) :
          A = FlattenSeq(SubSeq(F, 1, d)) /\ f = F[m] /\ l = <<Len(p)>> /\ Joins(l, p, f)
    <2>1. Len(p) \in Nat
      OBVIOUS
    <2>2. <<Len(p)>> \in Seq(Nat) /\ F[m] \in Seq(Nat)
      BY <1>2, <2>1
    <2> QED BY <1>1, <1>2, <1>3, <2>2 DEF Joins
  <1>5. PICK C : C = FlattenSeq(SubSeq(F, 1, m)) /\ Joins(A, f, C)
    BY <1>2, <1>3, <1>4 DEF Joins
  <1>6. PICK T \in Seq(Nat) : Joins(z, A, T)
    BY ConcatProperties DEF Joins
  <1>7. PICK T1 : Joins(T, l, T1)
    BY DEF Joins
  <1>8. PICK T2 : Joins(T1, p, T2)
    BY DEF Joins
  <1>9. Joins(T, f, T2)
    <2>1. Joins(l, p, f)
      BY <1>4
    <2> QED BY <1>7, <1>8, <2>1, JoinsAssociate
  <1>10. Joins(z, C, T2)
    BY <1>5, <1>6, <1>9, JoinsAssociate
  <1>11. T2 = z \o C /\ T2 = ((z \o A) \o l) \o p
    BY <1>6, <1>7, <1>8, <1>10 DEF Joins
  <1> QED BY <1>1, <1>4, <1>5, <1>11

\* The packets written so far begin all of them.
LEMMA PacketsPrefix ==
    ASSUME NEW F \in Seq(Seq(Nat)), NEW d \in 0 .. Len(F), NEW z \in Seq(Nat)
    PROVE  IsPrefix(z \o FlattenSeq(SubSeq(F, 1, d)), z \o FlattenSeq(F))
  <1>1. PICK r \in Seq(Nat) : FlattenSeq(F) = FlattenSeq(SubSeq(F, 1, d)) \o r
    BY FlattenIsPrefix
  <1>2. PICK A \in Seq(Nat) : A = FlattenSeq(SubSeq(F, 1, d))
    <2>1. SubSeq(F, 1, d) \in Seq(Seq(Nat))
      BY TakenDropped DEF Taken
    <2> QED BY <2>1, FlattenStep
  <1>3. PICK C : C = FlattenSeq(F) /\ Joins(A, r, C)
    BY <1>1, <1>2 DEF Joins
  <1>4. PICK T \in Seq(Nat) : T = z \o A /\ Joins(z, A, T)
    BY ConcatProperties DEF Joins
  <1>5. PICK W : W = z \o C /\ Joins(z, C, W)
    BY DEF Joins
  <1>6. Joins(T, r, W)
    BY <1>3, <1>4, <1>5, JoinsAssociate
  <1>7. IsPrefix(T, W)
    <2>1. W = T \o r
      BY <1>6 DEF Joins
    <2> QED BY <2>1, ConcatPrefix
  <1> QED BY <1>2, <1>3, <1>4, <1>5, <1>7

\* The response is written and nothing else.
LEMMA CarriesResponse ==
    ASSUME NEW r \in Seq(Byte), NEW z \in Seq(Byte)
    PROVE  Carries(r, <<>>, z, r \o z)
  <1>1. r \o <<>> = r
    BY ConcatEmptySeq
  <1> QED BY <1>1 DEF Carries

\* Every step keeps the way back.
LEMMA StreamNextDownloads ==
    ASSUME StreamIInv, [StreamNext]_streamVars
    PROVE  Downloads'
  <1>1. StreamTypeOK /\ Placed /\ Downloads
    BY DEF StreamIInv
  <1>2. answer \in Seq(Byte)
    BY <1>1, ScenarioFacts
  <1>3. /\ Len(answer) \in Nat /\ answered \in 0 .. Len(answer) /\ downPos \in 0 .. answered
        /\ downBuf \in Seq(Byte) /\ toClient \in Seq(Byte) /\ downloaded \in Nat
    BY <1>1, <1>2 DEF StreamTypeOK
  <1>4. LeftAnswer \in Seq(Byte)
    <2>1. downPos \in 0 .. Len(answer)
      BY <1>3
    <2> QED BY <1>2, <2>1, TakenDropped DEF LeftAnswer
  <1>5. CASE DestSends \/ DestEnds
    <2>1. /\ UNCHANGED <<client, answer, pc, dest, down, downBuf, downPos, toClient, downloaded>>
          /\ LeftAnswer' = LeftAnswer /\ Responses' = Responses /\ AnswerPackets' = AnswerPackets /\ Framed' = Framed
      BY <1>5 DEF DestSends, DestEnds, chosen, outbound, download, LeftAnswer, Responses, AnswerPackets, Framed
    <2>2. destFin' = "fin" => answered' = Len(answer')
      BY <1>1, <1>5, <2>1 DEF DestSends, DestEnds, Downloads
    <2> QED BY <1>1, <2>1, <2>2 DEF Downloads
  <1>6. CASE \/ ClientSends \/ ClientEnds \/ UpRead \/ UpWrite \/ UpEof \/ UdpUp \/ UNCHANGED streamVars
    <2>1. /\ UNCHANGED <<client, answer, answered, destFin, pc, dest, down, downBuf, downPos, toClient, downloaded>>
          /\ LeftAnswer' = LeftAnswer /\ Responses' = Responses /\ AnswerPackets' = AnswerPackets /\ Framed' = Framed
      BY <1>6 DEF ClientSends, ClientEnds, UpRead, UpWrite, UpEof, UdpUp, streamVars,
                  chosen, peers, outbound, download, LeftAnswer, Responses, AnswerPackets, Framed
    <2> QED BY <1>1, <2>1 DEF Downloads
  <1>7. CASE Fails /\ pc \notin Over
    <2>1. /\ UNCHANGED <<client, answer, answered, destFin, dest, down, downBuf, downPos, downloaded>>
          /\ pc' = "failed"
          /\ Responses' = Responses /\ AnswerPackets' = AnswerPackets /\ Framed' = Framed
      BY <1>7 DEF Fails, chosen, peers, outbound, Responses, AnswerPackets, Framed
    <2>2. PICK t \in Seq(Byte), s \in Seq(Byte) : Joins(t, s, downBuf) /\ Joins(toClient, t, toClient')
      BY <1>1, <1>7, FailsWrites
    <2>3. downBuf = <<>> => toClient' = toClient
      <3> SUFFICES ASSUME downBuf = <<>> PROVE toClient' = toClient
        OBVIOUS
      <3>1. t = <<>>
        <4>1. Len(downBuf) = Len(t) + Len(s) /\ Len(t) \in Nat /\ Len(s) \in Nat /\ Len(<<>>) = 0
          BY <2>2, JoinedBytes
        <4>2. Len(t) = 0
          BY <4>1
        <4> QED BY <4>2
      <3>2. toClient \o <<>> = toClient
        BY <1>3, ConcatEmptySeq
      <3> QED BY <2>2, <3>1, <3>2 DEF Joins
    <2>4. dest = UdpDest => IsPrefix(toClient', <<0, 0>> \o Framed)
      <3> SUFFICES ASSUME dest = UdpDest PROVE IsPrefix(toClient, <<0, 0>> \o Framed)
        BY <1>1, <2>3 DEF Downloads
      <3>1. pc \in {"respond", "udp"}
        BY <1>1, <1>7 DEF Placed, Over
      <3>2. PICK F \in Seq(Seq(Nat)) : F = FrameSeq(AnswerPackets) /\ Len(F) = Len(answer) /\ Framed = FlattenSeq(F)
        BY <1>2, AnswerFrames
      <3>3. PICK z \in Seq(Nat) : z = <<0, 0>>
        <4>1. <<0, 0>> \in Seq(Nat)
          OBVIOUS
        <4> QED BY <4>1
      <3>4. CASE pc = "respond"
        <4>1. toClient = <<>>
          BY <1>1, <3>4 DEF Downloads
        <4>2. PICK y \in Seq(Nat) : y = FlattenSeq(F)
          BY FlattenStep
        <4>3. z \o y \in Seq(Nat)
          BY ConcatProperties
        <4> QED BY <3>2, <3>3, <4>1, <4>2, <4>3, EmptyPrefix
      <3>5. CASE pc = "udp"
        <4>1. toClient = z \o FlattenSeq(SubSeq(F, 1, downPos))
          BY <1>1, <3>2, <3>3, <3>5 DEF Downloads
        <4>2. downPos \in 0 .. Len(F)
          BY <1>3, <3>2
        <4>3. IsPrefix(z \o FlattenSeq(SubSeq(F, 1, downPos)), z \o FlattenSeq(F))
          BY <4>2, PacketsPrefix
        <4> QED BY <3>2, <3>3, <4>1, <4>3
      <3> QED BY <3>1, <3>4, <3>5
    <2>5. dest \in Address \cup {SshUpstream} =>
            \E response \in Responses : response \in Seq(Byte) /\ IsPrefix(toClient', response \o answer)
      <3> SUFFICES ASSUME dest \in Address \cup {SshUpstream}
                   PROVE  \E response \in Responses : response \in Seq(Byte) /\ IsPrefix(toClient', response \o answer)
        OBVIOUS
      <3>1. pc \in {"respond", "forward", "relay"} /\ dest # NoDest
        BY <1>1, <1>7, DestinationKinds DEF Placed, Over
      <3>2. CASE pc = "respond"
        <4>1. toClient' = <<>>
          BY <1>1, <2>3, <3>2 DEF Downloads
        <4>2. PICK response \in Responses : response \in Seq(Byte)
          BY SomeResponse
        <4>3. response \o answer \in Seq(Byte)
          BY <1>2, <4>2, ConcatProperties
        <4>4. IsPrefix(<<>>, response \o answer)
          BY <4>3, EmptyPrefix
        <4> QED BY <4>1, <4>2, <4>4
      <3>3. CASE pc \in {"forward", "relay"}
        <4>1. PICK response \in Responses :
                response \in Seq(Byte) /\ Carries(toClient, downBuf, LeftAnswer, response \o answer)
          BY <1>1, <3>1, <3>3 DEF Downloads
        <4>2. PICK w : w = response \o answer /\ Carries(toClient, downBuf, LeftAnswer, w)
          BY <4>1
        <4>3. IsPrefix(toClient', w)
          BY <1>3, <1>4, <2>2, <4>2, CarriesPart
        <4> QED BY <4>1, <4>2, <4>3
      <3> QED BY <3>1, <3>2, <3>3
    <2> QED BY <1>1, <2>1, <2>4, <2>5 DEF Downloads
  <1>8. CASE Sniff \/ Handshake \/ ReadHeader \/ ReadEarly
    <2>1. /\ UNCHANGED <<client, answer, answered, destFin, dest, down, downBuf, downPos, toClient, downloaded>>
          /\ pc \in {"sniff", "tls", "request", "prefix", "header", "early"}
          /\ pc' \in {"ssh", "tls", "prefix", "early", "header", "connect", "bind", "abort"}
      BY <1>8 DEF Sniff, Handshake, ReadHeader, ReadEarly, Reads, chosen, peers, outbound, download
    <2>2. dest = NoDest
      BY <1>1, <2>1, DestinationKinds DEF StreamTypeOK, Placed
    <2> QED BY <1>1, <2>1, <2>2, DestinationKinds DEF Downloads
  <1>9. CASE Connect
    <2>1. /\ UNCHANGED <<client, answer, answered, destFin, down, downBuf, downPos, toClient, downloaded>>
          /\ pc = "connect" /\ pc' \in {"connect", "respond"}
      BY <1>9 DEF Connect, chosen, peers, download
    <2>2. downBuf = <<>> /\ downPos = 0 /\ downloaded = 0 /\ Len(<<>>) = 0
      BY <1>1, <2>1 DEF Downloads
    <2>3. downloaded' + Len(downBuf') = downPos'
      BY <2>1, <2>2
    <2>4. downloaded' = 0 /\ downBuf' = <<>>
      BY <2>1, <2>2
    <2> QED BY <1>1, <2>1, <2>3, <2>4 DEF Downloads
  <1>10. CASE ConnectFails /\ ~Fails
    <2>1. /\ UNCHANGED <<client, answer, answered, destFin, dest, down, downBuf, downPos, downloaded>>
          /\ pc = "connect" /\ pc' = "done"
      BY <1>10 DEF ConnectFails, chosen, peers, outbound
    <2>2. dest = NoDest
      BY <1>1, <2>1, DestinationKinds DEF StreamTypeOK, Placed
    <2> QED BY <1>1, <2>1, <2>2, DestinationKinds DEF Downloads
  <1>11. CASE ConnectSsh /\ ~Fails
    <2>1. /\ UNCHANGED <<client, answer, answered, destFin, down, downBuf, downPos, toClient, downloaded>>
          /\ pc = "ssh" /\ pc' = "relay" /\ dest' = SshUpstream /\ LeftAnswer' = LeftAnswer
      BY <1>11 DEF ConnectSsh, chosen, peers, download, LeftAnswer
    <2>2. toClient = <<>> /\ downBuf = <<>> /\ downPos = 0 /\ downloaded = 0
      BY <1>1, <2>1 DEF Downloads
    <2>3. LeftAnswer = answer
      BY <1>2, <2>2, SubSeqFull DEF LeftAnswer, Dropped
    <2>4. PICK r \in Seq(Byte) : r = <<>>
      <3>1. <<>> \in Seq(Byte)
        OBVIOUS
      <3> QED BY <3>1
    <2>5. r \in Responses'
      BY <2>1, <2>4 DEF Responses
    <2>6. Carries(r, <<>>, answer, r \o answer)
      BY <1>2, CarriesResponse
    <2>7. Carries(toClient', downBuf', LeftAnswer', r \o answer')
      BY <2>1, <2>2, <2>3, <2>4, <2>6
    <2> QED BY <1>1, <2>1, <2>2, <2>5, <2>7, DestinationKinds DEF Downloads
  <1>12. CASE OpenUdp /\ ~Fails
    <2>1. /\ UNCHANGED <<client, answer, answered, destFin, down, downBuf, downPos, toClient, downloaded>>
          /\ pc = "bind" /\ pc' = "respond" /\ dest' = UdpDest
      BY <1>12 DEF OpenUdp, chosen, peers, download
    <2> QED BY <1>1, <2>1, DestinationKinds DEF Downloads
  <1>13. CASE Respond
    <2>1. /\ UNCHANGED <<client, answer, answered, destFin, dest, down, downBuf, downPos, downloaded>>
          /\ pc = "respond" /\ LeftAnswer' = LeftAnswer /\ Responses' = Responses
          /\ AnswerPackets' = AnswerPackets
      BY <1>13 DEF Respond, chosen, peers, outbound, LeftAnswer, Responses, AnswerPackets
    <2>2. downBuf = <<>> /\ downPos = 0 /\ downloaded = 0
      BY <1>1, <2>1 DEF Downloads
    <2>3. dest \in Address \cup {UdpDest}
      BY <1>1, <2>1, DestinationKinds DEF StreamTypeOK, Placed
    <2>4. LeftAnswer = answer
      BY <1>2, <2>2, SubSeqFull DEF LeftAnswer, Dropped
    <2>5. CASE dest \in Address
      <3>1. toClient' \in Responses /\ pc' \in {"forward", "relay"}
        BY <1>1, <1>13, <2>1, <2>5, DestinationKinds, ScenarioFacts DEF Respond, Responses
      <3>2. PICK r \in Seq(Byte) : r = toClient'
        BY <3>1, SomeResponse
      <3>3. Carries(r, <<>>, answer, r \o answer)
        BY <1>2, CarriesResponse
      <3>4. Carries(toClient', downBuf', LeftAnswer', r \o answer')
        BY <2>1, <2>2, <2>4, <3>2, <3>3
      <3> QED BY <1>1, <2>1, <2>2, <2>5, <3>1, <3>2, <3>4, DestinationKinds DEF Downloads
    <2>6. CASE dest = UdpDest
      <3>1. client.kind = "tcp"
        BY <1>1, <2>6 DEF Placed
      <3>2. toClient' = <<0, 0>> /\ pc' = "udp"
        BY <1>13, <2>6, <3>1 DEF Respond
      <3>3. FlattenSeq(SubSeq(FrameSeq(AnswerPackets), 1, 0)) = <<>>
        BY <1>2, AnswerFrames, FlattenStep
      <3>4. <<0, 0>> \o <<>> = <<0, 0>>
        <4>1. <<0, 0>> \in Seq(Nat)
          OBVIOUS
        <4> QED BY <4>1, ConcatEmptySeq
      <3>5. toClient' = <<0, 0>> \o FlattenSeq(SubSeq(FrameSeq(AnswerPackets'), 1, downPos'))
        BY <2>1, <2>2, <3>2, <3>3, <3>4
      <3> QED BY <1>1, <2>1, <2>2, <2>6, <3>2, <3>5, DestinationKinds DEF Downloads
    <2> QED BY <2>3, <2>5, <2>6
  <1>14. CASE Forward
    <2>1. /\ UNCHANGED <<client, answer, answered, destFin, dest, down, downBuf, downPos, toClient, downloaded>>
          /\ pc = "forward" /\ pc' = "relay" /\ LeftAnswer' = LeftAnswer /\ Responses' = Responses
      BY <1>14 DEF Forward, chosen, peers, outbound, download, LeftAnswer, Responses
    <2> QED BY <1>1, <2>1, DestinationKinds DEF Downloads, Placed
  <1>15. CASE DownRead
    <2>1. /\ UNCHANGED <<client, answer, answered, destFin, pc, dest, down, toClient, downloaded>>
          /\ pc = "relay" /\ down = "copy" /\ downBuf = <<>> /\ Responses' = Responses
      BY <1>15 DEF DownRead, Relaying, chosen, peers, outbound, Responses
    <2>2. PICK n \in 1 .. Len(UnreadAnswer) : downBuf' = Taken(UnreadAnswer, n) /\ downPos' = downPos + n
      BY <1>15 DEF DownRead
    <2>3. UnreadAnswer = SubSeq(answer, downPos + 1, answered) /\ Len(UnreadAnswer) = answered - downPos
      BY <1>2, <1>3, UnreadSplit DEF UnreadAnswer
    <2>4. n \in 1 .. answered - downPos
      BY <2>3
    <2>5. /\ downBuf' \in Seq(Byte) /\ Len(downBuf') = n
          /\ Joins(downBuf', Dropped(answer, downPos + n), Dropped(answer, downPos))
          /\ Dropped(answer, downPos + n) \in Seq(Byte)
      BY <1>2, <1>3, <2>2, <2>3, <2>4, PieceRead
    <2>6. LeftAnswer' = Dropped(answer, downPos + n) /\ LeftAnswer = Dropped(answer, downPos)
      BY <2>1, <2>2 DEF LeftAnswer
    <2>7. dest # UdpDest /\ dest # NoDest
      BY <1>1, <2>1, DestinationKinds DEF Placed
    <2>8. PICK r \in Responses : r \in Seq(Byte) /\ Carries(toClient, downBuf, LeftAnswer, r \o answer)
      BY <1>1, <2>1, <2>7 DEF Downloads
    <2>9. PICK w : w = r \o answer /\ Carries(toClient, <<>>, LeftAnswer, w)
      BY <2>1, <2>8
    <2>10. Carries(toClient, downBuf', LeftAnswer', w)
      BY <1>3, <2>5, <2>6, <2>9, CarriesRead
    <2>11. dest \in Address => downloaded' + Len(downBuf') = downPos'
      <3>1. dest \in Address => downloaded + Len(<<>>) = downPos
        BY <1>1, <2>1 DEF Downloads
      <3>2. Len(<<>>) = 0
        OBVIOUS
      <3> QED BY <1>3, <2>1, <2>2, <2>4, <2>5, <3>1, <3>2
    <2> QED BY <1>1, <2>1, <2>7, <2>8, <2>9, <2>10, <2>11 DEF Downloads
  <1>16. CASE DownWrite
    <2>1. /\ UNCHANGED <<client, answer, answered, destFin, pc, dest, down, downPos>>
          /\ pc = "relay" /\ downBuf # <<>> /\ downBuf' = <<>> /\ toClient' = toClient \o downBuf
          /\ downloaded' = downloaded + IF Counted THEN Len(downBuf) ELSE 0
          /\ Responses' = Responses /\ LeftAnswer' = LeftAnswer
      BY <1>16 DEF DownWrite, Relaying, chosen, peers, outbound, Responses, LeftAnswer
    <2>2. dest # UdpDest /\ dest # NoDest
      BY <1>1, <2>1, DestinationKinds DEF Placed
    <2>3. PICK r \in Responses : r \in Seq(Byte) /\ Carries(toClient, downBuf, LeftAnswer, r \o answer)
      BY <1>1, <2>1, <2>2 DEF Downloads
    <2>4. PICK w : w = r \o answer /\ Carries(toClient, downBuf, LeftAnswer, w)
      BY <2>3
    <2>5. Joins(toClient, downBuf, toClient')
      BY <2>1 DEF Joins
    <2>6. Carries(toClient', <<>>, LeftAnswer, w)
      BY <1>3, <2>4, <2>5, CarriesWrite
    <2>7. down # "shut"
      BY <1>1, <2>1 DEF Downloads
    <2>8. dest = SshUpstream => downloaded' = 0
      BY <1>1, <2>1, DestinationKinds DEF Downloads, Counted
    <2>9. dest \in Address => downloaded' + Len(downBuf') = downPos'
      <3>1. dest \in Address => downloaded + Len(downBuf) = downPos /\ downloaded' = downloaded + Len(downBuf)
        BY <1>1, <2>1, DestinationKinds DEF Downloads, Counted
      <3>2. Len(<<>>) = 0 /\ Len(downBuf) \in Nat
        BY <1>3
      <3> QED BY <1>3, <2>1, <3>1, <3>2
    <2> QED BY <1>1, <2>1, <2>2, <2>3, <2>4, <2>6, <2>7, <2>8, <2>9 DEF Downloads
  <1>17. CASE DownEof
    <2>1. /\ UNCHANGED <<client, answer, answered, destFin, pc, dest, downBuf, downPos, toClient, downloaded>>
          /\ pc = "relay" /\ downBuf = <<>> /\ destFin = "fin" /\ UnreadAnswer = <<>>
          /\ LeftAnswer' = LeftAnswer /\ Responses' = Responses
      BY <1>17 DEF DownEof, Relaying, chosen, peers, outbound, LeftAnswer, Responses
    <2>2. Len(UnreadAnswer) = answered - downPos /\ Len(<<>>) = 0
      BY <1>2, <1>3, UnreadSplit DEF UnreadAnswer
    <2>3. answered = Len(answer)
      BY <1>1, <2>1 DEF Downloads
    <2>4. downPos = Len(answer)
      BY <1>3, <2>1, <2>2, <2>3
    <2> QED BY <1>1, <2>1, <2>4 DEF Downloads
  <1>18. CASE RelayDone
    <2>1. /\ UNCHANGED <<client, answer, answered, destFin, dest, down, downBuf, downPos, toClient, downloaded>>
          /\ pc = "relay" /\ pc' = "done" /\ LeftAnswer' = LeftAnswer /\ Responses' = Responses
      BY <1>18 DEF RelayDone, Relaying, chosen, peers, outbound, upload, download, LeftAnswer, Responses
    <2> QED BY <1>1, <2>1 DEF Downloads
  <1>19. CASE UdpDown
    <2>1. /\ UNCHANGED <<client, answer, answered, destFin, pc, dest, down, downBuf>>
          /\ pc = "udp" /\ UnreadAnswer # <<>> /\ downPos' = downPos + 1
          /\ AnswerPackets' = AnswerPackets
      BY <1>19 DEF UdpDown, chosen, peers, outbound, AnswerPackets
    <2>2. dest = UdpDest
      BY <1>1, <2>1 DEF Placed
    <2>3. /\ UnreadAnswer \in Seq(Byte) /\ Len(UnreadAnswer) = answered - downPos
          /\ \A i \in 1 .. answered - downPos : UnreadAnswer[i] = answer[downPos + i]
      BY <1>2, <1>3, UnreadSplit DEF UnreadAnswer
    <2>4. answered - downPos > 0
      <3>1. Len(UnreadAnswer) \in Nat /\ Len(UnreadAnswer) # 0
        BY <2>1, <2>3
      <3> QED BY <1>3, <2>3, <3>1
    <2>5. downPos < Len(answer) /\ downPos \in 0 .. Len(answer) /\ downPos + 1 \in 1 .. Len(answer) /\ 1 \in 1 .. answered - downPos
      BY <1>3, <2>4
    <2>6. UnreadAnswer[1] = answer[downPos + 1]
      BY <2>3, <2>5
    <2>7. down # "shut"
      BY <1>1, <1>3, <2>5 DEF Downloads
    <2>8. PICK p \in Seq(Nat), F \in Seq(Seq(Nat)) :
            /\ p = Packet(answer[downPos + 1]) /\ F = FrameSeq(AnswerPackets) /\ Len(F) = Len(answer)
            /\ F[downPos + 1] = <<Len(p)>> \o p
      BY <1>2, <2>5, AnswerFrames
    <2>9. PICK z \in Seq(Nat) : z = <<0, 0>>
      <3>1. <<0, 0>> \in Seq(Nat)
        OBVIOUS
      <3> QED BY <3>1
    <2>10. toClient = z \o FlattenSeq(SubSeq(F, 1, downPos))
      BY <1>1, <2>1, <2>8, <2>9 DEF Downloads
    <2>11. toClient' = (toClient \o <<Len(p)>>) \o p
      BY <1>19, <2>6, <2>8 DEF UdpDown
    <2>12. ((z \o FlattenSeq(SubSeq(F, 1, downPos))) \o <<Len(p)>>) \o p = z \o FlattenSeq(SubSeq(F, 1, downPos + 1))
      <3>1. downPos \in 0 .. Len(F) /\ downPos < Len(F)
        BY <2>5, <2>8
      <3> QED BY <2>8, <3>1, PacketWritten
    <2>13. toClient' = <<0, 0>> \o FlattenSeq(SubSeq(FrameSeq(AnswerPackets'), 1, downPos'))
      BY <2>1, <2>8, <2>9, <2>10, <2>11, <2>12
    <2> QED BY <1>1, <2>1, <2>2, <2>7, <2>13, DestinationKinds DEF Downloads
  <1> QED BY <1>5, <1>6, <1>7, <1>8, <1>9, <1>10, <1>11, <1>12, <1>13, <1>14, <1>15, <1>16, <1>17, <1>18, <1>19
          DEF StreamNext, Server, HeaderFails, Abort, ConnectFails, ConnectSsh, OpenUdp, RelayFails, Over

\* The first n of a sequence begin it.
LEMMA TakenPrefix ==
    ASSUME NEW E, NEW s \in Seq(E), NEW n \in 0 .. Len(s)
    PROVE  IsPrefix(SubSeq(s, 1, n), s)
  <1>1. /\ Taken(s, n) \in Seq(E) /\ Dropped(s, n) \in Seq(E) /\ Taken(s, n) \o Dropped(s, n) = s
    BY TakenDropped
  <1>2. PICK t \in Seq(E), d \in Seq(E) : t = Taken(s, n) /\ t \o d = s
    BY <1>1
  <1>3. IsPrefix(t, t \o d)
    BY ConcatPrefix
  <1> QED BY <1>2, <1>3 DEF Taken

\* Nothing is left behind the end.
LEMMA NothingLeft ==
    ASSUME NEW b \in Seq(Byte)
    PROVE  Dropped(b, Len(b)) = <<>>
  <1>1. Len(b) \in 0 .. Len(b)
    OBVIOUS
  <1>2. PICK d \in Seq(Byte) : d = Dropped(b, Len(b)) /\ Len(d) = Len(b) - Len(b)
    BY <1>1, TakenDropped
  <1>3. Len(d) = 0
    BY <1>2
  <1> QED BY <1>2, <1>3

\* The bytes of a stream and what is left of them.
LEMMA LeftBytes ==
    ASSUME StreamTypeOK
    PROVE  /\ client.bytes \in Seq(Byte) /\ answer \in Seq(Byte)
           /\ Left \in Seq(Byte) /\ LeftAnswer \in Seq(Byte)
           /\ upBuf \in Seq(Byte) /\ downBuf \in Seq(Byte) /\ toClient \in Seq(Byte)
           /\ dest # UdpDest => toDest \in Seq(Byte)
           /\ pos = Len(client.bytes) => Left = <<>>
           /\ downPos = Len(answer) => LeftAnswer = <<>>
  <1>1. PICK b \in Seq(Byte) : b = client.bytes
    BY ScenarioFacts
  <1>2. answer \in Seq(Byte)
    BY ScenarioFacts
  <1>3. pos \in 0 .. Len(b)
    BY <1>1 DEF StreamTypeOK
  <1>4. downPos \in 0 .. Len(answer)
    BY <1>2 DEF StreamTypeOK
  <1>5. Left \in Seq(Byte)
    BY <1>1, <1>3, TakenDropped DEF Left
  <1>6. LeftAnswer \in Seq(Byte)
    BY <1>2, <1>4, TakenDropped DEF LeftAnswer
  <1>7. pos = Len(client.bytes) => Left = <<>>
    BY <1>1, NothingLeft DEF Left
  <1>8. downPos = Len(answer) => LeftAnswer = <<>>
    BY <1>2, NothingLeft DEF LeftAnswer
  <1>9. /\ upBuf \in Seq(Byte) /\ downBuf \in Seq(Byte) /\ toClient \in Seq(Byte)
        /\ dest # UdpDest => toDest \in Seq(Byte)
    BY DEF StreamTypeOK
  <1> QED BY <1>1, <1>2, <1>5, <1>6, <1>7, <1>8, <1>9

\* What comes out is what went in.
LEMMA InvariantFaithful ==
    ASSUME StreamIInv
    PROVE  Faithful
  <1>1. StreamTypeOK /\ Placed /\ Uploads /\ UdpUploads /\ Downloads
    BY DEF StreamIInv
  <1>2. /\ client.bytes \in Seq(Byte) /\ answer \in Seq(Byte)
        /\ Left \in Seq(Byte) /\ LeftAnswer \in Seq(Byte)
        /\ upBuf \in Seq(Byte) /\ downBuf \in Seq(Byte) /\ toClient \in Seq(Byte)
        /\ dest # UdpDest => toDest \in Seq(Byte)
    BY <1>1, LeftBytes
  <1>3. dest \in Address \cup {NoDest, SshUpstream, UdpDest}
    BY <1>1 DEF StreamTypeOK
  <1>4. ASSUME dest \in Address
        PROVE  /\ IsPrefix(toDest, client.payload)
               /\ \E response \in Responses : IsPrefix(toClient, response \o answer)
    <2>1. toDest \in Seq(Byte) /\ dest # UdpDest /\ dest # NoDest
      BY <1>2, <1>4, DestinationKinds
    <2>2. pc \in {"respond", "forward", "relay", "done", "failed"}
      BY <1>1, <1>4 DEF Placed
    <2>3. IsPrefix(toDest, client.payload)
      <3>1. CASE pc # "failed"
        <4>1. Carries(toDest, upBuf, Left, client.payload)
          BY <1>1, <1>4, <2>2, <3>1 DEF Uploads
        <4> QED BY <1>2, <2>1, <4>1, CarriedPrefix
      <3>2. CASE pc = "failed"
        BY <1>1, <1>4, <3>2 DEF Uploads
      <3> QED BY <3>1, <3>2
    <2>4. \E response \in Responses : IsPrefix(toClient, response \o answer)
      <3>1. CASE pc = "respond"
        <4>1. toClient = <<>>
          BY <1>1, <3>1 DEF Downloads
        <4>2. PICK response \in Responses : response \in Seq(Byte)
          BY SomeResponse
        <4>3. response \o answer \in Seq(Byte)
          BY <1>2, <4>2, ConcatProperties
        <4> QED BY <4>1, <4>2, <4>3, EmptyPrefix
      <3>2. CASE pc \in {"forward", "relay", "done"}
        <4>1. PICK response \in Responses :
                response \in Seq(Byte) /\ Carries(toClient, downBuf, LeftAnswer, response \o answer)
          BY <1>1, <2>1, <3>2 DEF Downloads
        <4>2. PICK w : w = response \o answer /\ Carries(toClient, downBuf, LeftAnswer, w)
          BY <4>1
        <4>3. IsPrefix(toClient, w)
          BY <1>2, <4>2, CarriedPrefix
        <4> QED BY <4>1, <4>2, <4>3
      <3>3. CASE pc = "failed"
        BY <1>1, <1>4, <3>3 DEF Downloads
      <3> QED BY <2>2, <3>1, <3>2, <3>3
    <2> QED BY <2>3, <2>4
  <1>5. ASSUME dest = SshUpstream
        PROVE  /\ IsPrefix(toDest, client.bytes)
               /\ \E response \in Responses : IsPrefix(toClient, response \o answer)
    <2>1. toDest \in Seq(Byte) /\ dest # UdpDest /\ dest # NoDest
      BY <1>2, <1>5, DestinationKinds
    <2>2. pc \in {"relay", "done", "failed"}
      BY <1>1, <1>5 DEF Placed
    <2>3. IsPrefix(toDest, client.bytes)
      <3>1. CASE pc # "failed"
        <4>1. Carries(toDest, upBuf, Left, client.bytes)
          BY <1>1, <1>5, <3>1 DEF Uploads
        <4> QED BY <1>2, <2>1, <4>1, CarriedPrefix
      <3>2. CASE pc = "failed"
        BY <1>1, <1>5, <3>2 DEF Uploads
      <3> QED BY <3>1, <3>2
    <2>4. \E response \in Responses : IsPrefix(toClient, response \o answer)
      <3>1. CASE pc \in {"relay", "done"}
        <4>1. PICK response \in Responses :
                response \in Seq(Byte) /\ Carries(toClient, downBuf, LeftAnswer, response \o answer)
          BY <1>1, <2>1, <3>1 DEF Downloads
        <4>2. PICK w : w = response \o answer /\ Carries(toClient, downBuf, LeftAnswer, w)
          BY <4>1
        <4>3. IsPrefix(toClient, w)
          BY <1>2, <4>2, CarriedPrefix
        <4> QED BY <4>1, <4>2, <4>3
      <3>2. CASE pc = "failed"
        BY <1>1, <1>5, <3>2 DEF Downloads
      <3> QED BY <2>2, <3>1, <3>2
    <2> QED BY <2>3, <2>4
  <1>6. ASSUME dest = UdpDest
        PROVE  /\ IsPrefix(toDest, client.payload)
               /\ \E response \in Responses : IsPrefix(toClient, response \o Framed)
    <2>1. client.kind = "tcp" /\ pc \in {"respond", "udp", "failed"} /\ dest # SshUpstream
      BY <1>1, <1>6, DestinationKinds DEF Placed
    <2>2. PacketsSent
      BY <1>1, <1>6 DEF UdpUploads
    <2>3. IsPrefix(toDest, client.payload)
      <3>1. PICK payload, gone : payload = client.payload /\ gone = toDest
        OBVIOUS
      <3>2. /\ gone \in Seq(Seq(Byte)) /\ Len(gone) <= Len(payload) /\ gone = SubSeq(payload, 1, Len(gone))
            /\ payload \in Seq(Seq(Byte) \ {<<>>})
        BY <2>2, <3>1 DEF PacketsSent, Packets
      <3>3. Len(gone) \in 0 .. Len(payload)
        BY <3>2
      <3> QED BY <3>1, <3>2, <3>3, TakenPrefix
    <2>4. Responses = {<<0, 0>>}
      BY <2>1 DEF Responses
    <2>5. IsPrefix(toClient, <<0, 0>> \o Framed)
      <3>2. PICK F \in Seq(Seq(Nat)) : F = FrameSeq(AnswerPackets) /\ Len(F) = Len(answer) /\ Framed = FlattenSeq(F)
        BY <1>2, AnswerFrames
      <3>3. PICK z \in Seq(Nat) : z = <<0, 0>>
        <4>1. <<0, 0>> \in Seq(Nat)
          OBVIOUS
        <4> QED BY <4>1
      <3>4. CASE pc = "respond"
        <4>1. toClient = <<>>
          BY <1>1, <3>4 DEF Downloads
        <4>2. PICK y \in Seq(Nat) : y = FlattenSeq(F)
          BY FlattenStep
        <4>3. z \o y \in Seq(Nat)
          BY ConcatProperties
        <4> QED BY <3>2, <3>3, <4>1, <4>2, <4>3, EmptyPrefix
      <3>5. CASE pc = "udp"
        <4>1. toClient = z \o FlattenSeq(SubSeq(F, 1, downPos))
          BY <1>1, <3>2, <3>3, <3>5 DEF Downloads
        <4>2. downPos \in 0 .. Len(F)
          <5>1. answered \in 0 .. Len(answer) /\ downPos \in 0 .. answered /\ Len(answer) \in Nat
            BY <1>1, <1>2 DEF StreamTypeOK
          <5> QED BY <3>2, <5>1
        <4>3. IsPrefix(z \o FlattenSeq(SubSeq(F, 1, downPos)), z \o FlattenSeq(F))
          BY <4>2, PacketsPrefix
        <4> QED BY <3>2, <3>3, <4>1, <4>3
      <3>6. CASE pc = "failed"
        BY <1>1, <1>6, <3>6 DEF Downloads
      <3> QED BY <2>1, <3>4, <3>5, <3>6
    <2> QED BY <2>3, <2>4, <2>5
  <1>7. ASSUME dest # NoDest, client.kind = "hy2"
        PROVE  /\ TcpRequest_decode(client.bytes).ok
               /\ TcpRequest_decode(client.bytes).destination = Destination
               /\ TcpRequest_decode(client.bytes).payload = client.payload
    <2>1. dest \in Address
      BY <1>1, <1>3, <1>7 DEF Placed
    <2>2. client.asks = "tcp" /\ read_tcp_request(client.bytes).is = "read"
      BY <1>1, <1>7, <2>1 DEF Placed
    <2>3. /\ TcpRequest_decode(client.bytes).ok
          /\ TcpRequest_decode(client.bytes).destination = Destination
      BY <1>1, <1>7, <2>2, RequestAsks
    <2>4. Described(client)
      BY <1>1, ScenarioFacts
    <2>5. TcpRequest_decode(client.bytes).payload = client.payload
      BY <1>7, <2>2, <2>3, <2>4 DEF Described
    <2> QED BY <2>3, <2>5
  <1>8. /\ dest \in Address => client.asks = "tcp"
        /\ dest = UdpDest => client.asks = "udp"
        /\ dest = NoDest => toDest = <<>>
    BY <1>1 DEF Placed, Uploads
  <1> QED BY <1>3, <1>4, <1>5, <1>6, <1>7, <1>8, DestinationKinds DEF Faithful

\* A relay that ends has carried everything.
LEMMA InvariantCarriedWhole ==
    ASSUME StreamIInv
    PROVE  CarriedWhole
  <1>1. StreamTypeOK /\ Placed /\ Uploads /\ UdpUploads /\ Downloads
    BY DEF StreamIInv
  <1>2. /\ client.bytes \in Seq(Byte) /\ answer \in Seq(Byte)
        /\ Left \in Seq(Byte) /\ LeftAnswer \in Seq(Byte)
        /\ upBuf \in Seq(Byte) /\ downBuf \in Seq(Byte) /\ toClient \in Seq(Byte)
        /\ dest # UdpDest => toDest \in Seq(Byte)
        /\ pos = Len(client.bytes) => Left = <<>>
        /\ downPos = Len(answer) => LeftAnswer = <<>>
    BY <1>1, LeftBytes
  <1>3. dest \in Address \cup {NoDest, SshUpstream, UdpDest}
    BY <1>1 DEF StreamTypeOK
  <1>4. ASSUME up = "shut", pc # "failed", dest # SshUpstream
        PROVE  toDest = client.payload
    <2>1. upBuf = <<>> /\ Left = <<>> /\ pc \in {"relay", "done"}
      BY <1>1, <1>2, <1>4 DEF Uploads
    <2>2. dest # UdpDest
      BY <1>1, <2>1 DEF Placed
    <2>3. dest \in Address \cup {NoDest}
      BY <1>3, <1>4, <2>2
    <2>4. Carries(toDest, <<>>, <<>>, client.payload)
      BY <1>1, <2>1, <2>3 DEF Uploads
    <2> QED BY <1>2, <2>2, <2>4, CarriedAll
  <1>5. destEnd = "fin" /\ pc # "failed" /\ dest # SshUpstream => toDest = client.payload
    BY <1>1, <1>4 DEF Uploads
  <1>6. ASSUME pc = "done", dest # NoDest
        PROVE  /\ \E response \in Responses : toClient = response \o answer
               /\ dest # SshUpstream => uploaded = Len(client.payload) /\ downloaded = Len(answer)
    <2>1. up = "shut" /\ down = "shut"
      BY <1>1, <1>6 DEF Uploads
    <2>2. downBuf = <<>> /\ downPos = Len(answer) /\ LeftAnswer = <<>>
      BY <1>1, <1>2, <2>1 DEF Downloads
    <2>3. PICK response \in Responses :
            response \in Seq(Byte) /\ Carries(toClient, downBuf, LeftAnswer, response \o answer)
      BY <1>1, <1>6 DEF Downloads
    <2>4. PICK w : w = response \o answer /\ Carries(toClient, <<>>, <<>>, w)
      BY <2>2, <2>3
    <2>5. w = toClient
      BY <1>2, <2>4, CarriedAll
    <2>6. ASSUME dest # SshUpstream PROVE uploaded = Len(client.payload) /\ downloaded = Len(answer)
      <3>1. toDest = client.payload
        BY <1>4, <1>6, <2>1, <2>6
      <3>2. dest # UdpDest
        BY <1>1, <1>6 DEF Placed
      <3>3. dest \in Address
        BY <1>3, <1>6, <2>6, <3>2
      <3>4. uploaded <= Len(toDest) /\ Len(toDest) <= uploaded + 0
        BY <1>1, <1>6, <3>3 DEF Uploads
      <3>5. uploaded \in Nat /\ downloaded \in Nat /\ Len(toDest) \in Nat
        BY <1>1, <1>2, <3>2 DEF StreamTypeOK
      <3>6. uploaded = Len(toDest)
        BY <3>4, <3>5
      <3>7. downloaded + Len(<<>>) = Len(answer)
        BY <1>1, <2>2, <3>3 DEF Downloads
      <3>8. Len(<<>>) = 0
        OBVIOUS
      <3>9. downloaded = Len(answer)
        BY <3>5, <3>7, <3>8
      <3> QED BY <3>1, <3>6, <3>9
    <2> QED BY <2>3, <2>4, <2>5, <2>6
  <1>7. ASSUME dest.family \notin {"none", "ssh"}
        PROVE  /\ uploaded <= Bytes(toDest)
               /\ Bytes(toDest) <= uploaded + (IF pc = "failed" THEN Len(upBuf) ELSE 0)
    <2>1. dest \in Address \/ dest = UdpDest
      BY <1>3, <1>7, DestinationKinds
    <2>2. CASE dest \in Address
      <3>1. Bytes(toDest) = Len(toDest)
        BY <2>2, DestinationKinds DEF Bytes
      <3> QED BY <1>1, <2>2, <3>1 DEF Uploads
    <2>3. CASE dest = UdpDest
      <3>1. uploaded = Bytes(toDest)
        BY <1>1, <2>3 DEF UdpUploads, PacketsSent, Bytes
      <3>2. uploaded \in Nat /\ Len(upBuf) \in Nat
        BY <1>1, <1>2 DEF StreamTypeOK
      <3> QED BY <3>1, <3>2
    <2> QED BY <2>1, <2>2, <2>3
  <1>8. dest = SshUpstream => uploaded = 0 /\ downloaded = 0
    BY <1>1 DEF Uploads, Downloads
  <1> QED BY <1>5, <1>6, <1>7, <1>8 DEF CarriedWhole

\* The invariant of a stream: where the header is, what was written on either
\* side, and which addresses were tried.
THEOREM StreamInvariant == StreamSpec => []StreamIInv
  <1>1. StreamInit => StreamIInv
    BY StreamInitType, StreamInitPlaced DEF StreamIInv
  <1>2. StreamIInv /\ [StreamNext]_streamVars => StreamIInv'
    BY StreamNextType, StreamNextPlaced, StreamNextUploads, StreamNextUdpUploads, StreamNextDownloads,
       StreamNextTries DEF StreamIInv
  <1> QED BY <1>1, <1>2, PTL DEF StreamSpec

\* Every variable of a stream keeps its type, for every client, every cut of its
\* bytes and every answer.
THEOREM StreamTypeCorrect == StreamSpec => []StreamTypeOK
  <1>1. StreamIInv => StreamTypeOK
    BY DEF StreamIInv
  <1> QED BY <1>1, StreamInvariant, PTL

\* connect_addresses tries what order_addresses allows in its order, each address
\* once, and gives up only when all have failed, whatever the resolver returns.
THEOREM FallbackHolds == StreamSpec => []Fallback
  <1>1. StreamIInv => Fallback
    BY TriesFallBack DEF StreamIInv
  <1> QED BY <1>1, StreamInvariant, PTL

\* However the bytes of a client are cut, buffered and delayed, what the
\* destination gets is a prefix of what the client sent for it, what the client
\* gets is one response and a prefix of the answer, packet by packet for UDP, and
\* a client whose header is wrong reaches no destination.
THEOREM StreamFaithful == StreamSpec => []Faithful
  <1>1. StreamIInv => Faithful
    BY InvariantFaithful
  <1> QED BY <1>1, StreamInvariant, PTL

\* A relay that ends without an error has carried both directions whole, whichever
\* of them ended first, and the traffic of the user counts what was carried.
THEOREM StreamCarriedWhole == StreamSpec => []CarriedWhole
  <1>1. StreamIInv => CarriedWhole
    BY InvariantCarriedWhole
  <1> QED BY <1>1, StreamInvariant, PTL

----------------------------------------------------------------------------
(* UDP sessions.                                                            *)

\* Initially every variable has its type.
LEMMA InitType == Init => TypeOK
  BY DEF Init, TypeOK

\* Every step keeps the types.
LEMMA NextType == TypeOK /\ [Next]_vars => TypeOK'
  <1> SUFFICES ASSUME TypeOK, [Next]_vars PROVE TypeOK'
    OBVIOUS
  <1> USE DEF TypeOK
  <1>1. ASSUME NEW i \in Ids, Datagram(i) PROVE TypeOK'
    BY <1>1 DEF Datagram
  <1>2. ASSUME NEW o \in Objs, Opened(o) PROVE TypeOK'
    BY <1>2 DEF Opened
  <1>3. ASSUME NEW o \in Objs, Expire(o) PROVE TypeOK'
    BY <1>3 DEF Expire
  <1>4. CASE Sent \/ LoopEnds
    BY <1>4 DEF Sent, LoopEnds
  <1>5. ASSUME NEW o \in Objs, TaskReceives(o) \/ TaskSends(o) \/ TaskDiscards(o)
        PROVE  TypeOK'
    BY <1>5 DEF TaskReceives, TaskSends, TaskDiscards
  <1>6. ASSUME NEW o \in Objs, TaskEnds(o) PROVE TypeOK'
    BY <1>6 DEF TaskEnds
  <1>7. CASE UNCHANGED vars
    BY <1>7 DEF vars
  <1> QED BY <1>1, <1>2, <1>3, <1>4, <1>5, <1>6, <1>7 DEF Next

\* In every reachable state the session table has its type.
THEOREM TypeCorrect == Spec => []TypeOK
  BY InitType, NextType, PTL DEF Spec

----------------------------------------------------------------------------
\* The empty table is consistent.
LEMMA InitConsistent == Init => SessionsConsistent
  BY DEF Init, SessionsConsistent, LoopOwned, EntryOwned, SessionTracked, TaskMapped,
         ExpirationCurrent, HeldMapped

\* Every step keeps the table, the tasks and the expirations consistent.
LEMMA NextConsistent ==
    TypeOK /\ SessionsConsistent /\ [Next]_vars => SessionsConsistent'
  <1> SUFFICES ASSUME TypeOK, SessionsConsistent, [Next]_vars PROVE SessionsConsistent'
    OBVIOUS
  <1> USE SessionsAssumption
      DEF SessionsAssumption, TypeOK, SessionsConsistent, LoopOwned, EntryOwned,
          SessionTracked, TaskMapped, ExpirationCurrent, HeldMapped
  <1>1. ASSUME NEW i \in Ids, Datagram(i) PROVE SessionsConsistent'
    BY <1>1 DEF Datagram
  <1>2. ASSUME NEW o \in Objs, Opened(o) PROVE SessionsConsistent'
    <2>1. cur \in Ids /\ sessions[cur] = None /\ o # None
      BY <1>2 DEF Opened
    <2>2. LoopOwned' /\ HeldMapped'
      BY <1>2, <2>1 DEF Opened
    <2>3. EntryOwned'
      BY <1>2, <2>1 DEF Opened, Free
    <2>4. SessionTracked'
      BY <1>2, <2>1 DEF Opened, Free
    <2>5. TaskMapped' /\ ExpirationCurrent'
      BY <1>2, <2>1 DEF Opened, Free
    <2> QED BY <2>2, <2>3, <2>4, <2>5
  <1>3. ASSUME NEW o \in Objs, Expire(o) PROVE SessionsConsistent'
    BY <1>3 DEF Expire
  <1>4. CASE Sent
    BY <1>4 DEF Sent
  <1>5. CASE LoopEnds
    BY <1>5 DEF LoopEnds
  <1>6. ASSUME NEW o \in Objs, TaskReceives(o) \/ TaskSends(o) \/ TaskDiscards(o)
        PROVE  SessionsConsistent'
    BY <1>6 DEF TaskReceives, TaskSends, TaskDiscards
  <1>7. ASSUME NEW o \in Objs, TaskEnds(o) PROVE SessionsConsistent'
    BY <1>7 DEF TaskEnds
  <1>8. CASE UNCHANGED vars
    BY <1>8 DEF vars
  <1> QED BY <1>1, <1>2, <1>3, <1>4, <1>5, <1>6, <1>7, <1>8 DEF Next

\* The table, the receive tasks and the expiration channel agree for ever, for
\* any number of sessions: the statement the three theorems below are read from.
THEOREM Consistent == Spec => []SessionsConsistent
  BY InitType, NextType, InitConsistent, NextConsistent, PTL DEF Spec

\* No session id is ever left without both a receive task and a pending removal.
THEOREM NoBlackHole == Spec => []SessionTracked
  <1>1. SessionsConsistent => SessionTracked
    BY DEF SessionsConsistent
  <1> QED BY <1>1, Consistent, PTL

\* One id never has two receive tasks while the connection lives.
THEOREM OneTaskPerId == Spec => []TaskMapped
  <1>1. SessionsConsistent => TaskMapped
    BY DEF SessionsConsistent
  <1> QED BY <1>1, Consistent, PTL

\* An expiration never reaches the loop after its id was reopened.
THEOREM NoStaleExpiration == Spec => []ExpirationCurrent
  <1>1. SessionsConsistent => ExpirationCurrent
    BY DEF SessionsConsistent
  <1> QED BY <1>1, Consistent, PTL

----------------------------------------------------------------------------
(* Refinement: UdpPath implements UdpSessions.                              *)

\* A step of the composed relay is a step of the sessions or leaves them alone:
\* packets that are received and encoded, queued fragment by fragment, given up
\* half way, or overtaken by a change of the MTU are steps the sessions allow.
LEMMA PathStep == [PathNext]_allVars => [Next]_vars
  <1> SUFFICES ASSUME [PathNext]_allVars PROVE [Next]_vars
    OBVIOUS
  <1> USE PathAssumption DEF PathAssumption
  <1>1. CASE MtuChanges \/ WatchedQueues
    BY <1>1 DEF MtuChanges, WatchedQueues
  <1>2. CASE WatchedOpened
    BY <1>2 DEF WatchedOpened, Next
  <1>3. CASE WatchedReceives
    BY <1>3 DEF WatchedReceives, Next
  <1>4. CASE WatchedSends \/ WatchedDiscards \/ WatchedEnds
    BY <1>4 DEF WatchedSends, WatchedDiscards, WatchedEnds, Next
  <1>5. CASE Elsewhere
    BY <1>5 DEF Elsewhere, Next
  <1>6. CASE UNCHANGED allVars
    BY <1>6 DEF allVars
  <1> QED BY <1>1, <1>2, <1>3, <1>4, <1>5, <1>6 DEF PathNext

\* The relay with the contents of its packets is a relay of UdpSessions.
THEOREM PathImplementsSessions == PathSpec => Spec
  <1>1. PathInit => Init
    BY DEF PathInit
  <1> QED BY <1>1, PathStep, PTL DEF PathSpec, Spec

\* So the table, the tasks and the expirations agree there too, whatever the MTU
\* does and wherever a packet of many fragments is cut off.
THEOREM PathConsistent == PathSpec => []SessionsConsistent
  BY PathImplementsSessions, Consistent, PTL

----------------------------------------------------------------------------
(* The fragment table.                                                     *)

\* Missing is not the tag of a message.
LEMMA NothingType == Nothing \in [Index -> Gens \cup {Missing}]
  BY DEF Nothing

\* Initially every variable has its type.
LEMMA TableInitType == TableInit => TableTypeOK
  BY NothingType, ReassemblerAssumption
  DEF ReassemblerAssumption, TableInit, TableTypeOK, Messages

\* What WithFragment yields is a row of fragments.
LEMMA WithFragmentType ==
    ASSUME TableTypeOK, NEW k \in Keys, NEW i \in Index
    PROVE  WithFragment(k, i) \in [Index -> Gens \cup {Missing}]
  <1>1. message[k].gen \in Gens /\ got[k] \in [Index -> Gens \cup {Missing}]
    BY DEF TableTypeOK, Messages
  <1> QED BY <1>1, NothingType DEF WithFragment

\* Every step keeps the types.
LEMMA TableNextType == TableTypeOK /\ [TableNext]_tableVars => TableTypeOK'
  <1> SUFFICES ASSUME TableTypeOK, [TableNext]_tableVars PROVE TableTypeOK'
    OBVIOUS
  <1> USE ReassemblerAssumption DEF ReassemblerAssumption
  <1>0. Kept \in SUBSET Keys
    BY DEF TableTypeOK, Kept
  <1>1. ASSUME Fail PROVE TableTypeOK'
    BY <1>1, NothingType DEF TableTypeOK, Fail
  <1>2. ASSUME NEW k \in Keys, PushWhole(k) PROVE TableTypeOK'
    <2>1. [Nothing EXCEPT ![0] = message[k].gen] \in [Index -> Gens \cup {Missing}]
      BY NothingType DEF TableTypeOK, Messages
    <2> QED BY <1>0, <1>2, <2>1 DEF PushWhole, TableTypeOK
  <1>3. ASSUME NEW k \in Keys, NEW i \in Index, PushFragment(k, i) PROVE TableTypeOK'
    <2>1. WithFragment(k, i) \in [Index -> Gens \cup {Missing}]
      BY WithFragmentType
    <2>2. present' \in SUBSET Keys
      BY <1>0, <1>3 DEF PushFragment, Fail
    <2>3. delivered' \in [Index -> Gens \cup {Missing}]
      BY <1>3, <2>1, NothingType DEF PushFragment, Fail
    <2>4. got' \in [Keys -> [Index -> Gens \cup {Missing}]]
      BY <1>3, <2>1 DEF PushFragment, Fail, TableTypeOK
    <2>5. age' \in [Keys -> 0 .. Timeout] /\ shape' \in [Keys -> Shapes]
      <3>1. age' = age \/ age' = [age EXCEPT ![k] = 0]
        BY <1>3 DEF PushFragment, Fail
      <3>2. shape' = shape \/ shape' = [shape EXCEPT ![k] = message[k].shape]
        BY <1>3 DEF PushFragment, Fail
      <3>3. message[k].shape \in Shapes
        BY DEF TableTypeOK, Messages
      <3> QED BY <3>1, <3>2, <3>3 DEF TableTypeOK
    <2>6. message' \in [Keys -> Messages]
      BY <1>3 DEF PushFragment, Fail, TableTypeOK
    <2> QED BY <2>2, <2>3, <2>4, <2>5, <2>6 DEF TableTypeOK
  <1>4. ASSUME NEW k \in Keys, NEW m \in Messages, NewMessage(k, m) PROVE TableTypeOK'
    BY <1>4 DEF NewMessage, TableTypeOK
  <1>5. ASSUME Tick PROVE TableTypeOK'
    <2>1. age' \in [Keys -> 0 .. Timeout]
      BY <1>5 DEF Tick, TableTypeOK
    <2> QED BY <1>5, <2>1 DEF Tick, TableTypeOK
  <1>6. CASE UNCHANGED tableVars
    BY <1>6 DEF tableVars, TableTypeOK
  <1> QED BY <1>1, <1>2, <1>3, <1>4, <1>5, <1>6 DEF TableNext, PushMismatch, PushOutOfRange

\* In every reachable state the fragment table has its type.
THEOREM TableTypeCorrect == TableSpec => []TableTypeOK
  BY TableInitType, TableNextType, PTL DEF TableSpec

\* Initially no entry holds a fragment and nothing was delivered.
LEMMA InitPure == TableInit => EntriesPure /\ NoMixedMessage
  BY DEF TableInit, EntriesPure, NoMixedMessage, Nothing

\* The fragments of the entry that push is about to complete are all of the
\* client's current message.
LEMMA WithFragmentPure ==
    ASSUME TableTypeOK, EntriesPure, NEW k \in Keys, NEW i \in Index,
           k \in Kept => shape[k] = message[k].shape
    PROVE  \A j \in Index : WithFragment(k, i)[j] \in {Missing, message[k].gen}
  <1> SUFFICES ASSUME NEW j \in Index PROVE WithFragment(k, i)[j] \in {Missing, message[k].gen}
    OBVIOUS
  <1>1. CASE k \in Kept
    <2>1. got[k][j] \in {Missing, message[k].gen}
      BY <1>1 DEF EntriesPure, Kept
    <2>2. got[k] \in [Index -> Gens \cup {Missing}]
      BY DEF TableTypeOK
    <2> QED BY <1>1, <2>1, <2>2 DEF WithFragment
  <1>2. CASE k \notin Kept
    BY <1>2 DEF WithFragment, Nothing
  <1> QED BY <1>1, <1>2

\* Every step keeps the entries and the delivered message pure.
LEMMA NextPure ==
    TableTypeOK /\ EntriesPure /\ NoMixedMessage /\ [TableNext]_tableVars
      => EntriesPure' /\ NoMixedMessage'
  <1> SUFFICES ASSUME TableTypeOK, EntriesPure, NoMixedMessage, [TableNext]_tableVars
               PROVE  EntriesPure' /\ NoMixedMessage'
    OBVIOUS
  <1> USE ReassemblerAssumption DEF ReassemblerAssumption
  <1>1. ASSUME Fail PROVE EntriesPure' /\ NoMixedMessage'
    BY <1>1 DEF Fail, EntriesPure, NoMixedMessage, Nothing
  <1>2. ASSUME NEW k \in Keys, PushWhole(k) PROVE EntriesPure' /\ NoMixedMessage'
    <2>1. NoMixedMessage'
      BY <1>2 DEF PushWhole, NoMixedMessage, Nothing
    <2>2. EntriesPure'
      BY <1>2 DEF PushWhole, EntriesPure, Kept
    <2> QED BY <2>1, <2>2
  <1>3. ASSUME NEW k \in Keys, NEW i \in Index, PushFragment(k, i)
        PROVE  EntriesPure' /\ NoMixedMessage'
    <2>1. \A j \in Index : WithFragment(k, i)[j] \in {Missing, message[k].gen}
      BY <1>3, WithFragmentPure DEF PushFragment
    <2>2. CASE Fail
      BY <1>1, <2>2
    <2>3. CASE /\ present' \subseteq Kept \cup {k}
               /\ age' = [age EXCEPT ![k] = 0]
               /\ shape' = [shape EXCEPT ![k] = message[k].shape]
               /\ got' = [got EXCEPT ![k] = WithFragment(k, i)]
               /\ delivered' = Nothing
               /\ UNCHANGED message
      <3>1. NoMixedMessage'
        BY <2>3 DEF NoMixedMessage, Nothing
      <3>2. ASSUME NEW q \in present', NEW j \in Index, got'[q][j] # Missing
            PROVE  /\ \A l \in Index : got'[q][l] \in {Missing, got'[q][j]}
                   /\ age'[q] < Timeout /\ shape'[q] = message'[q].shape => got'[q][j] = message'[q].gen
        <4>1. CASE q = k
          <5>1. got'[k] = WithFragment(k, i)
            BY <2>3 DEF TableTypeOK
          <5> QED BY <2>1, <2>3, <3>2, <4>1, <5>1
        <4>2. CASE q # k
          <5>1. q \in present /\ q \in Keys
            BY <2>3, <4>2 DEF Kept, TableTypeOK
          <5>2. got'[q] = got[q] /\ age'[q] = age[q] /\ shape'[q] = shape[q] /\ message' = message
            BY <2>3, <4>2, <5>1 DEF TableTypeOK
          <5> QED BY <3>2, <5>1, <5>2 DEF EntriesPure
        <4> QED BY <4>1, <4>2
      <3>3. EntriesPure'
        BY <3>2 DEF EntriesPure
      <3> QED BY <3>1, <3>3
    <2>4. CASE /\ present' \subseteq Kept
               /\ delivered' = WithFragment(k, i)
               /\ UNCHANGED <<age, shape, got, message>>
      <3>1. NoMixedMessage'
        BY <2>1, <2>4 DEF NoMixedMessage
      <3>2. EntriesPure'
        BY <2>4 DEF EntriesPure, Kept
      <3> QED BY <3>1, <3>2
    <2> QED BY <1>3, <2>2, <2>3, <2>4 DEF PushFragment
  <1>4. ASSUME NEW k \in Keys, NEW m \in Messages, NewMessage(k, m)
        PROVE  EntriesPure' /\ NoMixedMessage'
    <2>1. NoMixedMessage'
      BY <1>4 DEF NewMessage, NoMixedMessage
    <2>2. ASSUME NEW q \in present, q \in Keys, age[q] < Timeout, shape[q] = message'[q].shape
          PROVE  message'[q] = message[q]
      BY <1>4, <2>2 DEF NewMessage, TableTypeOK, Kept
    <2>3. EntriesPure'
      BY <1>4, <2>2 DEF NewMessage, EntriesPure, TableTypeOK
    <2> QED BY <2>1, <2>3
  <1>5. ASSUME Tick PROVE EntriesPure' /\ NoMixedMessage'
    <2>1. NoMixedMessage'
      BY <1>5 DEF Tick, NoMixedMessage
    <2>2. \A q \in Keys : age'[q] < Timeout => age[q] < Timeout
      BY <1>5 DEF Tick, TableTypeOK
    <2>3. EntriesPure'
      BY <1>5, <2>2 DEF Tick, EntriesPure, TableTypeOK
    <2> QED BY <2>1, <2>3
  <1>6. CASE UNCHANGED tableVars
    BY <1>6 DEF tableVars, EntriesPure, NoMixedMessage
  <1> QED BY <1>1, <1>2, <1>3, <1>4, <1>5, <1>6 DEF TableNext, PushMismatch, PushOutOfRange

\* push never returns a message put together from two messages, for any table
\* size, number of fragments and timeout, from a client that lets a packet id
\* rest for the timeout before it uses it again for the same kind of message.
THEOREM MessagesNeverMix == TableSpec => []NoMixedMessage
  <1>1. TableSpec => [](EntriesPure /\ NoMixedMessage)
    BY InitPure, NextPure, TableTypeCorrect, PTL DEF TableSpec
  <1> QED BY <1>1, PTL

\* The table that push works on once it has made room: the expired entries are
\* gone, and one more if the key is new and the table is full.
LEMMA RoomMade ==
    ASSUME IsFiniteSet(present), TableBounded, NEW k \in Keys,
           NEW base \in SUBSET Kept, Oldest(k, base)
    PROVE  /\ IsFiniteSet(base \cup {k}) /\ IsFiniteSet(base \ {k})
           /\ Cardinality(base \cup {k}) <= MaxPackets
           /\ Cardinality(base \ {k}) <= MaxPackets
  <1> USE ReassemblerAssumption DEF ReassemblerAssumption
  <1>1. IsFiniteSet(Kept) /\ Cardinality(Kept) <= Cardinality(present)
    BY FS_Subset DEF Kept
  <1>2. IsFiniteSet(base) /\ Cardinality(base) <= Cardinality(Kept)
    BY <1>1, FS_Subset
  <1>3. /\ Cardinality(Kept) \in Nat /\ Cardinality(base) \in Nat
        /\ Cardinality(present) \in Nat
    BY <1>1, <1>2, FS_CardinalityType
  <1>4. IsFiniteSet(base \ {k}) /\ Cardinality(base \ {k}) <= Cardinality(base)
    BY <1>2, FS_Subset
  <1>5. IsFiniteSet(base \ {k}) /\ Cardinality(base \ {k}) \in Nat
    BY <1>4, FS_CardinalityType
  <1>6. /\ IsFiniteSet(base \cup {k})
        /\ Cardinality(base \cup {k}) =
             IF k \in base THEN Cardinality(base) ELSE Cardinality(base) + 1
    BY <1>2, FS_AddElement
  <1>7. Cardinality(base \cup {k}) <= MaxPackets
    <2>1. CASE k \notin Kept /\ Cardinality(Kept) >= MaxPackets
      <3>1. PICK v \in Kept : base = Kept \ {v}
        BY <2>1 DEF Oldest
      <3>2. Cardinality(base) = Cardinality(Kept) - 1
        BY <3>1, <1>1, FS_RemoveElement
      <3> QED BY <3>2, <1>1, <1>3, <1>6 DEF TableBounded
    <2>2. CASE k \notin Kept /\ ~(Cardinality(Kept) >= MaxPackets)
      BY <2>2, <1>2, <1>3, <1>6
    <2>3. CASE k \in Kept
      BY <2>3, <1>1, <1>3, <1>6 DEF Oldest, TableBounded
    <2> QED BY <2>1, <2>2, <2>3
  <1> QED BY <1>1, <1>2, <1>3, <1>4, <1>5, <1>6, <1>7 DEF TableBounded

\* Every step keeps the table finite and within its limit.
LEMMA NextBounded ==
    IsFiniteSet(present) /\ TableBounded /\ [TableNext]_tableVars
      => IsFiniteSet(present') /\ TableBounded'
  <1> SUFFICES ASSUME IsFiniteSet(present), TableBounded, [TableNext]_tableVars
               PROVE  IsFiniteSet(present') /\ TableBounded'
    OBVIOUS
  <1> USE ReassemblerAssumption DEF ReassemblerAssumption
  <1>1. ASSUME Fail PROVE IsFiniteSet(present') /\ TableBounded'
    BY <1>1, FS_EmptySet DEF Fail, TableBounded
  <1>2. ASSUME NEW k \in Keys, PushWhole(k) PROVE IsFiniteSet(present') /\ TableBounded'
    <2>1. IsFiniteSet(Kept) /\ Cardinality(Kept) <= Cardinality(present)
      BY FS_Subset DEF Kept
    <2>2. Cardinality(Kept) \in Nat /\ Cardinality(present) \in Nat
      BY <2>1, FS_CardinalityType
    <2>3. present' = Kept
      BY <1>2 DEF PushWhole
    <2> QED BY <2>1, <2>2, <2>3 DEF TableBounded
  <1>3. ASSUME NEW k \in Keys, NEW i \in Index, PushFragment(k, i)
        PROVE  IsFiniteSet(present') /\ TableBounded'
    <2>1. CASE Fail
      BY <1>1, <2>1
    <2>2. CASE ~Fail
      <3>1. PICK base \in SUBSET Kept :
              Oldest(k, base) /\ present' \in {base \cup {k}, base \ {k}}
        BY <1>3, <2>2 DEF PushFragment
      <3>2. /\ IsFiniteSet(base \cup {k}) /\ IsFiniteSet(base \ {k})
            /\ Cardinality(base \cup {k}) <= MaxPackets
            /\ Cardinality(base \ {k}) <= MaxPackets
        BY <3>1, RoomMade
      <3> QED BY <3>1, <3>2 DEF TableBounded
    <2> QED BY <2>1, <2>2
  <1>4. CASE UNCHANGED present
    BY <1>4 DEF TableBounded
  <1> QED BY <1>1, <1>2, <1>3, <1>4
          DEF TableNext, PushMismatch, PushOutOfRange, NewMessage, Tick, tableVars

\* The fragment table never outgrows MAX_INCOMPLETE_PACKETS, however many
\* messages a client begins and abandons.
THEOREM TableNeverOutgrows == TableSpec => []TableBounded
  <1> DEFINE Inv == IsFiniteSet(present) /\ TableBounded
  <1>1. TableInit => Inv
    BY FS_EmptySet, ReassemblerAssumption DEF ReassemblerAssumption, TableInit, TableBounded
  <1>2. Inv /\ [TableNext]_tableVars => Inv'
    BY NextBounded
  <1>3. Inv => TableBounded
    OBVIOUS
  <1> HIDE DEF Inv
  <1> QED BY <1>1, <1>2, <1>3, PTL DEF TableSpec

----------------------------------------------------------------------------
(* Slices.                                                                  *)

\* How many pieces of size L there are: as many as it takes.
LEMMA PieceCount ==
    ASSUME NEW len \in Nat \ {0}, NEW L \in Nat \ {0}
    PROVE  /\ DivCeil(len, L) \in Nat \ {0}
           /\ (DivCeil(len, L) - 1) * L < len /\ len <= DivCeil(len, L) * L
  <1>1. PICK x \in Nat : x = len + L - 1
    OBVIOUS
  <1>2. PICK q \in Nat, r \in 0 .. L - 1 : q = x \div L /\ r = x % L /\ x = q * L + r
    <2>1. x \div L \in Nat /\ x % L \in 0 .. L - 1 /\ x = (x \div L) * L + (x % L)
      BY DivMod
    <2> QED BY <2>1
  <1>3. PICK p \in Nat : p = q * L
    <2>1. q * L \in Nat
      OBVIOUS
    <2> QED BY <2>1
  <1>4. len = p + r - L + 1
    BY <1>1, <1>2, <1>3
  <1>5. len <= p
    BY <1>4
  <1>6. (q - 1) * L = p - L
    BY <1>3
  <1>7. p - L < len
    BY <1>4
  <1>8. q # 0
    <2> SUFFICES ASSUME q = 0 PROVE FALSE
      OBVIOUS
    <2>1. p = 0
      BY <1>3
    <2> QED BY <1>5, <2>1
  <1> QED BY <1>1, <1>2, <1>3, <1>5, <1>6, <1>7, <1>8 DEF DivCeil

\* There is only one such number.
LEMMA PieceCountUnique ==
    ASSUME NEW len \in Nat, NEW L \in Nat \ {0}, NEW n \in Nat \ {0},
           (n - 1) * L < len, len <= n * L
    PROVE  DivCeil(len, L) = n
  <1>1. PICK p \in Nat : p = n * L
    <2>1. n * L \in Nat
      OBVIOUS
    <2> QED BY <2>1
  <1>2. (n - 1) * L = p - L
    BY <1>1
  <1>3. PICK r : r = len + L - 1 - p
    OBVIOUS
  <1>4. r \in 0 .. L - 1 /\ len + L - 1 = p + r
    BY <1>1, <1>2, <1>3
  <1>5. (n * L + r) \div L = n
    BY <1>4, DivModUnique
  <1> QED BY <1>1, <1>4, <1>5 DEF DivCeil

\* The middle of three pieces.
LEMMA MiddleSlice ==
    ASSUME NEW E, NEW a \in Seq(E), NEW m \in Seq(E), NEW z \in Seq(E),
           NEW am, Joins(a, m, am), NEW s, Joins(am, z, s)
    PROVE  /\ SubSeq(s, Len(a) + 1, Len(a) + Len(m)) = m
           /\ Len(s) = Len(a) + Len(m) + Len(z)
  <1>1. am \in Seq(E) /\ Len(am) = Len(a) + Len(m)
        /\ \A i \in 1 .. Len(a) + Len(m) : am[i] = IF i <= Len(a) THEN a[i] ELSE m[i - Len(a)]
    <2>1. am = a \o m
      BY DEF Joins
    <2> QED BY <2>1, ConcatProperties
  <1>2. s \in Seq(E) /\ Len(s) = Len(am) + Len(z)
        /\ \A i \in 1 .. Len(am) : s[i] = am[i]
    <2>1. PICK x \in Seq(E) : x = am
      BY <1>1
    <2>2. s = x \o z
      BY <2>1 DEF Joins
    <2>3. s \in Seq(E) /\ Len(s) = Len(x) + Len(z) /\ \A i \in 1 .. Len(x) : s[i] = x[i]
      BY <2>2, ConcatProperties
    <2> QED BY <2>1, <2>3
  <1>3. PICK p \in Nat, l \in Nat, k \in Nat : p = Len(a) /\ l = Len(m) /\ k = Len(z)
    OBVIOUS
  <1>4. Len(s) = p + l + k
    BY <1>1, <1>2, <1>3
  <1>5. \A i \in p + 1 .. p + l : s[i] \in E
    <2> TAKE i \in p + 1 .. p + l
    <2>1. i \in 1 .. Len(s)
      BY <1>4
    <2> QED BY <1>2, <2>1, ElementOfSeq
  <1>6. PICK t : t = SubSeq(s, p + 1, p + l)
    OBVIOUS
  <1>7. /\ t \in Seq(E) /\ Len(t) = IF p + 1 <= p + l THEN (p + l) - (p + 1) + 1 ELSE 0
        /\ \A i \in 1 .. (p + l) - (p + 1) + 1 : t[i] = s[p + 1 + i - 1]
    BY <1>5, <1>6, SubSeqProperties
  <1>8. Len(t) = l
    BY <1>7
  <1>9. ASSUME NEW i \in 1 .. l PROVE t[i] = m[i]
    <2>1. PICK j : j = p + i
      OBVIOUS
    <2>2. /\ i \in 1 .. (p + l) - (p + 1) + 1 /\ p + 1 + i - 1 = j /\ j \in 1 .. p + l
          /\ ~(j <= p) /\ j - p = i
      BY <2>1
    <2>3. t[i] = s[j]
      BY <1>7, <2>2
    <2>4. s[j] = am[j]
      BY <1>1, <1>2, <1>3, <2>2
    <2>5. am[j] = m[j - p]
      BY <1>1, <1>3, <2>2
    <2> QED BY <2>2, <2>3, <2>4, <2>5
  <1>10. t = m
    BY <1>3, <1>7, <1>8, <1>9, SeqEqual
  <1> QED BY <1>3, <1>4, <1>6, <1>10

\* Pieces of size L, but for the last, which may be smaller.
Cut(s, L) ==
    /\ Len(s) >= 1 /\ Len(s[Len(s)]) \in 1 .. L
    /\ \A k \in 1 .. Len(s) - 1 : Len(s[k]) = L

\* The factors of a product one by one.
LEMMA ProductStep ==
    ASSUME NEW k \in Int, NEW L \in Int
    PROVE  (k - 1) * L + L = k * L /\ k * L + L = (k + 1) * L /\ 0 * L = 0 /\ k * L \in Int
  OBVIOUS

\* How long the first pieces are together.
Multiples(f, L, n) == \A k \in 0 .. n - 1 : Len(f[k]) = k * L

\* Pieces that are cut have these lengths.
LEMMA CutLengths ==
    ASSUME NEW E, NEW s \in Seq(Seq(E)), NEW L \in Nat \ {0}, Cut(s, L),
           NEW f \in [0 .. Len(s) -> Seq(E)], Chain(f, s)
    PROVE  /\ Multiples(f, L, Len(s))
           /\ Len(f[Len(s)]) = (Len(s) - 1) * L + Len(s[Len(s)])
  <1>1. PICK n \in Nat \ {0} : n = Len(s)
    BY DEF Cut
  <1>2. \A k \in 1 .. n : Len(f[k]) = Len(f[k - 1]) + Len(s[k])
    <2> TAKE k \in 1 .. n
    <2>1. PICK x \in Seq(E), y \in Seq(E) : x = f[k - 1] /\ y = s[k]
      <3>1. PICK j \in 0 .. Len(s) : j = k - 1
        BY <1>1
      <3>2. f[j] \in Seq(E)
        OBVIOUS
      <3>3. s[k] \in Seq(E)
        BY <1>1
      <3> QED BY <3>1, <3>2, <3>3
    <2>2. f[k] = x \o y
      BY <1>1, <2>1 DEF Chain
    <2>3. Len(x \o y) = Len(x) + Len(y)
      BY ConcatProperties
    <2> QED BY <2>1, <2>2, <2>3
  <1> DEFINE S == {k \in Nat : k <= n - 1 => Len(f[k]) = k * L}
  <1>3. 0 \in S
    <2>1. f[0] = <<>> /\ Len(<<>>) = 0 /\ 0 * L = 0
      BY DEF Chain
    <2> QED BY <2>1
  <1>4. ASSUME NEW k \in Nat, k \in S PROVE k + 1 \in S
    <2> SUFFICES ASSUME k + 1 <= n - 1 PROVE Len(f[k + 1]) = (k + 1) * L
      OBVIOUS
    <2>1. PICK m : m = k + 1
      OBVIOUS
    <2>2. m \in 1 .. n /\ m \in 1 .. n - 1 /\ m - 1 = k /\ k <= n - 1
      BY <2>1
    <2>3. Len(s[m]) = L
      BY <1>1, <2>2 DEF Cut
    <2>4. Len(f[m]) = Len(f[k]) + L
      BY <1>2, <2>2, <2>3
    <2>5. Len(f[k]) = k * L
      BY <1>4, <2>2
    <2>6. k * L + L = (k + 1) * L
      BY ProductStep
    <2> QED BY <2>1, <2>4, <2>5, <2>6
  <1> HIDE DEF S
  <1>5. Nat \subseteq S
    BY <1>3, <1>4, SetInduction
  <1>6. \A k \in 0 .. n - 1 : Len(f[k]) = k * L
    <2> TAKE k \in 0 .. n - 1
    <2>1. k \in S /\ k <= n - 1
      BY <1>5
    <2> QED BY <2>1 DEF S
  <1>7. Len(f[n]) = (n - 1) * L + Len(s[n])
    <2>1. n \in 1 .. n /\ n - 1 \in 0 .. n - 1
      OBVIOUS
    <2> QED BY <1>2, <1>6, <2>1
  <1> QED BY <1>1, <1>6, <1>7 DEF Multiples

\* Pieces that are joined and cut again are the same.
LEMMA ChunksOfFlat ==
    ASSUME NEW E, NEW s \in Seq(Seq(E)), NEW L \in Nat \ {0}, Cut(s, L)
    PROVE  chunks(FlattenSeq(s), L) = s
  <1>1. PICK n \in Nat \ {0} : n = Len(s)
    BY DEF Cut
  <1>2. PICK f \in [0 .. Len(s) -> Seq(E)] : Chain(f, s)
    BY ChainExists
  <1>3. PICK c \in Seq(E) : c = FlattenSeq(s) /\ c = f[n]
    <2>1. FlattenSeq(s) = f[Len(s)] /\ FlattenSeq(s) \in Seq(E)
      BY <1>2, FlattenChain, FlattenStep
    <2> QED BY <1>1, <2>1
  <1>4. PICK r \in 1 .. L : r = Len(s[n])
    BY <1>1 DEF Cut
  <1>5. (\A k \in 0 .. n - 1 : Len(f[k]) = k * L) /\ Len(c) = (n - 1) * L + r
    <2>1. Multiples(f, L, Len(s))
      BY <1>2, CutLengths
    <2>2. Len(f[Len(s)]) = (Len(s) - 1) * L + Len(s[Len(s)])
      BY <1>2, CutLengths
    <2> QED BY <1>1, <1>3, <1>4, <2>1, <2>2 DEF Multiples
  <1>6. PICK p \in Int, q \in Int : p = (n - 1) * L /\ q = n * L /\ p + L = q
    BY ProductStep
  <1>7. (n - 1) * L < Len(c) /\ Len(c) <= n * L /\ Len(c) \in Nat
    <2>0. Len(c) = (n - 1) * L + r
      BY <1>5
    <2>1. Len(c) = p + r /\ p + r > p /\ p + r <= q
      BY <1>6, <2>0
    <2>2. Len(c) \in Nat
      BY <1>3
    <2> QED BY <1>6, <2>1, <2>2
  <1>8. DivCeil(Len(c), L) = n
    BY <1>7, PieceCountUnique
  <1>9. ASSUME NEW k \in 1 .. n
        PROVE  SubSeq(c, (k - 1) * L + 1, IF k * L < Len(c) THEN k * L ELSE Len(c)) = s[k]
    <2>1. PICK a \in Seq(E), m \in Seq(E), am \in Seq(E), z \in Seq(E) :
            a = f[k - 1] /\ m = s[k] /\ am = f[k] /\ Joins(a, m, am) /\ Joins(am, z, c)
      <3>1. k - 1 \in 0 .. Len(s) /\ k \in 0 .. Len(s) /\ k \in 1 .. Len(s)
        BY <1>1
      <3>2. f[k - 1] \in Seq(E) /\ s[k] \in Seq(E) /\ f[k] \in Seq(E)
        <4>1. PICK j \in 0 .. Len(s) : j = k - 1
          BY <3>1
        <4>2. f[j] \in Seq(E)
          OBVIOUS
        <4>3. s[k] \in Seq(E)
          BY <3>1
        <4>4. f[k] \in Seq(E)
          BY <3>1
        <4> QED BY <4>1, <4>2, <4>3, <4>4
      <3>3. Joins(f[k - 1], s[k], f[k])
        BY <1>2, <3>1 DEF Chain, Joins
      <3>4. PICK z \in Seq(E) : FlattenSeq(s) = FlattenSeq(SubSeq(s, 1, k)) \o z
        BY <3>1, FlattenIsPrefix
      <3>5. FlattenSeq(SubSeq(s, 1, k)) = f[k]
        BY <1>2, <3>1, FlattenPrefixes
      <3>6. Joins(f[k], z, c)
        BY <1>3, <3>4, <3>5 DEF Joins
      <3> QED BY <3>2, <3>3, <3>6
    <2>2. SubSeq(c, Len(a) + 1, Len(a) + Len(m)) = m
      <3>1. Joins(a, m, am) /\ Joins(am, z, c)
        BY <2>1
      <3> QED BY <3>1, MiddleSlice
    <2>3. Len(a) = (k - 1) * L
      <3>1. k - 1 \in 0 .. n - 1
        OBVIOUS
      <3> QED BY <1>5, <2>1, <3>1
    <2>4. (k - 1) * L + L = k * L /\ k * L \in Int /\ (k - 1) * L \in Int
      BY ProductStep
    <2>5. Len(a) + Len(m) = IF k * L < Len(c) THEN k * L ELSE Len(c)
      <3>1. CASE k = n
        <4>1. ~(k * L < Len(c))
          BY <1>7, <2>4, <3>1
        <4> QED BY <1>4, <1>5, <2>1, <2>3, <3>1, <4>1
      <3>2. CASE k # n
        <4>1. k \in 1 .. n - 1 /\ k <= n - 1
          BY <3>2
        <4>2. Len(m) = L
          BY <1>1, <2>1, <4>1 DEF Cut
        <4>3. k * L <= (n - 1) * L
          BY <4>1, ProductMonotone
        <4>4. k * L < Len(c)
          <5>1. PICK x \in Int : x = k * L
            BY <2>4
          <5>2. x <= p /\ p < Len(c) /\ Len(c) \in Int
            BY <1>6, <1>7, <4>3, <5>1
          <5> QED BY <5>1, <5>2
        <4> QED BY <2>3, <2>4, <4>2, <4>4
      <3> QED BY <3>1, <3>2
    <2> QED BY <2>1, <2>2, <2>3, <2>5
  <1>10. chunks(c, L) = [k \in 1 .. n |-> s[k]]
    BY <1>8, <1>9 DEF chunks
  <1>11. s = [k \in 1 .. n |-> s[k]]
    BY <1>1
  <1> QED BY <1>3, <1>10, <1>11

\* Where piece k ends.
PieceEnd(c, k, L) == IF k * L < Len(c) THEN k * L ELSE Len(c)

\* Piece k lies between the ends of two.
LEMMA PieceBounds ==
    ASSUME NEW E, NEW c \in Seq(E), c # <<>>, NEW L \in Nat \ {0}, NEW k \in 1 .. DivCeil(Len(c), L)
    PROVE  /\ PieceEnd(c, k - 1, L) = (k - 1) * L
           /\ PieceEnd(c, k - 1, L) \in 0 .. Len(c) /\ PieceEnd(c, k, L) \in 0 .. Len(c)
           /\ PieceEnd(c, k - 1, L) < PieceEnd(c, k, L)
           /\ PieceEnd(c, k, L) <= PieceEnd(c, k - 1, L) + L
           /\ k # DivCeil(Len(c), L) => PieceEnd(c, k, L) = PieceEnd(c, k - 1, L) + L
           /\ k = DivCeil(Len(c), L) => PieceEnd(c, k, L) = Len(c)
  <1>1. PICK len \in Nat \ {0} : len = Len(c)
    <2>1. Len(c) \in Nat /\ Len(c) # 0
      OBVIOUS
    <2> QED BY <2>1
  <1>2. PICK n \in Nat \ {0} : n = DivCeil(len, L) /\ (n - 1) * L < len /\ len <= n * L
    BY PieceCount
  <1>3. k \in 1 .. n
    BY <1>1, <1>2
  <1>4. PICK a \in Int, b \in Int, p \in Int, q \in Int :
          a = (k - 1) * L /\ b = k * L /\ p = (n - 1) * L /\ q = n * L /\ a + L = b /\ p + L = q
    <2>1. (k - 1) * L + L = k * L /\ (k - 1) * L \in Int /\ k * L \in Int
      BY <1>3, ProductStep
    <2>2. (n - 1) * L + L = n * L /\ (n - 1) * L \in Int /\ n * L \in Int
      BY ProductStep
    <2> QED BY <2>1, <2>2
  <1>5. p < len /\ len <= q
    BY <1>2, <1>4
  <1>6. a <= p /\ 0 <= a
    <2>1. k - 1 <= n - 1 /\ 0 <= k - 1 /\ k - 1 \in Int /\ n - 1 \in Int /\ L \in Nat
      BY <1>3
    <2>2. (k - 1) * L <= (n - 1) * L
      BY <2>1, ProductMonotone
    <2>3. 0 * L <= (k - 1) * L /\ 0 * L = 0
      BY <2>1, ProductMonotone
    <2> QED BY <1>4, <2>2, <2>3
  <1>7. k # n => b <= p
    <2> SUFFICES ASSUME k # n PROVE k * L <= (n - 1) * L
      BY <1>4
    <2>1. k <= n - 1 /\ k \in Int /\ n - 1 \in Int /\ L \in Nat
      BY <1>3
    <2> QED BY <2>1, ProductMonotone
  <1>8. k = n => b = q
    BY <1>4
  <1>9. PieceEnd(c, k - 1, L) = a /\ PieceEnd(c, k, L) = IF b < len THEN b ELSE len
    <2>1. a < len
      BY <1>5, <1>6
    <2> QED BY <1>1, <1>4, <2>1 DEF PieceEnd
  <1>10. PICK e : e = PieceEnd(c, k, L)
    OBVIOUS
  <1>11. e = IF b < len THEN b ELSE len
    BY <1>9, <1>10
  <1>12. a \in 0 .. len /\ e \in 0 .. len /\ a < e /\ e <= a + L
    BY <1>4, <1>5, <1>6, <1>11
  <1>13. k # n => e = a + L
    BY <1>4, <1>5, <1>7, <1>11
  <1>14. k = n => e = len
    BY <1>5, <1>8, <1>11
  <1> QED BY <1>1, <1>2, <1>4, <1>9, <1>10, <1>12, <1>13, <1>14

\* Cutting gives pieces, which joined again are what was cut.
LEMMA FlatOfChunks ==
    ASSUME NEW E, NEW c \in Seq(E), c # <<>>, NEW L \in Nat \ {0}
    PROVE  /\ chunks(c, L) \in Seq(Seq(E)) /\ Len(chunks(c, L)) = DivCeil(Len(c), L)
           /\ Cut(chunks(c, L), L) /\ FlattenSeq(chunks(c, L)) = c
  <1>1. PICK len \in Nat \ {0} : len = Len(c)
    <2>1. Len(c) \in Nat /\ Len(c) # 0
      OBVIOUS
    <2> QED BY <2>1
  <1>2. PICK n \in Nat \ {0} : n = DivCeil(Len(c), L)
    BY <1>1, PieceCount
  <1>3. PICK s : s = chunks(c, L)
    OBVIOUS
  <1>4. s = [k \in 1 .. n |-> SubSeq(c, (k - 1) * L + 1, PieceEnd(c, k, L))]
    BY <1>2, <1>3 DEF chunks, PieceEnd
  <1>5. ASSUME NEW k \in 1 .. n
        PROVE  /\ s[k] = SubSeq(c, PieceEnd(c, k - 1, L) + 1, PieceEnd(c, k, L))
               /\ s[k] \in Seq(E) /\ Len(s[k]) = PieceEnd(c, k, L) - PieceEnd(c, k - 1, L)
    <2>1. PieceEnd(c, k - 1, L) = (k - 1) * L
      BY <1>2, PieceBounds
    <2>2. PieceEnd(c, k - 1, L) \in 0 .. Len(c) /\ PieceEnd(c, k, L) \in 0 .. Len(c)
      BY <1>2, PieceBounds
    <2>3. PieceEnd(c, k - 1, L) < PieceEnd(c, k, L)
      BY <1>2, PieceBounds
    <2>4. PICK a \in 0 .. Len(c), b \in 0 .. Len(c) : a = PieceEnd(c, k - 1, L) /\ b = PieceEnd(c, k, L) /\ a < b
      BY <2>2, <2>3
    <2>5. s[k] = SubSeq(c, a + 1, b)
      BY <1>4, <2>1, <2>4
    <2>6. a \in 0 .. b /\ b \in 0 .. Len(c)
      BY <2>4
    <2>7. SubSeq(c, a + 1, b) \in Seq(E) /\ Len(SubSeq(c, a + 1, b)) = b - a
      BY <2>6, UnreadSplit
    <2> QED BY <2>4, <2>5, <2>7
  <1>6. s \in Seq(Seq(E)) /\ Len(s) = n
    <2>1. s \in [1 .. n -> Seq(E)]
      BY <1>4, <1>5
    <2> QED BY <2>1
  <1>7. Cut(s, L)
    <2>1. ASSUME NEW k \in 1 .. n - 1 PROVE Len(s[k]) = L
      <3>1. k \in 1 .. n /\ k # n
        OBVIOUS
      <3>2. PieceEnd(c, k, L) = PieceEnd(c, k - 1, L) + L
        BY <1>2, <3>1, PieceBounds
      <3>3. PieceEnd(c, k - 1, L) \in 0 .. Len(c)
        BY <1>2, <3>1, PieceBounds
      <3>4. Len(s[k]) = PieceEnd(c, k, L) - PieceEnd(c, k - 1, L)
        BY <1>5, <3>1
      <3> QED BY <1>1, <3>2, <3>3, <3>4
    <2>2. Len(s[n]) \in 1 .. L
      <3>1. n \in 1 .. n
        OBVIOUS
      <3>2. PieceEnd(c, n - 1, L) < PieceEnd(c, n, L) /\ PieceEnd(c, n, L) <= PieceEnd(c, n - 1, L) + L
        BY <1>2, <3>1, PieceBounds
      <3>3. PieceEnd(c, n - 1, L) \in 0 .. Len(c) /\ PieceEnd(c, n, L) \in 0 .. Len(c)
        BY <1>2, <3>1, PieceBounds
      <3>4. Len(s[n]) = PieceEnd(c, n, L) - PieceEnd(c, n - 1, L)
        BY <1>5, <3>1
      <3> QED BY <1>1, <3>2, <3>3, <3>4
    <2> QED BY <1>6, <2>1, <2>2 DEF Cut
  <1>8. FlattenSeq(s) = c
    <2> DEFINE f == [k \in 0 .. n |-> SubSeq(c, 1, PieceEnd(c, k, L))]
    <2>1. ASSUME NEW k \in 0 .. n PROVE PieceEnd(c, k, L) \in 0 .. Len(c)
      <3>1. CASE k = 0
        <4>1. 0 * L = 0
          OBVIOUS
        <4> QED BY <1>1, <3>1, <4>1 DEF PieceEnd
      <3>2. CASE k # 0
        <4>1. k \in 1 .. n
          BY <3>2
        <4> QED BY <1>2, <4>1, PieceBounds
      <3> QED BY <3>1, <3>2
    <2>2. f \in [0 .. n -> Seq(E)]
      <3>1. ASSUME NEW k \in 0 .. n PROVE SubSeq(c, 1, PieceEnd(c, k, L)) \in Seq(E)
        BY <2>1, TakenDropped DEF Taken
      <3> QED BY <3>1
    <2>3. f[0] = <<>>
      <3>1. 0 * L = 0 /\ 0 \in 0 .. n
        OBVIOUS
      <3>2. PieceEnd(c, 0, L) = 0
        BY <1>1, <3>1 DEF PieceEnd
      <3>3. SubSeq(c, 1, 0) = <<>>
        BY SubSeqEmpty
      <3> QED BY <3>1, <3>2, <3>3
    <2>4. ASSUME NEW k \in 1 .. n PROVE f[k] = f[k - 1] \o s[k]
      <3>1. PieceEnd(c, k - 1, L) \in 0 .. Len(c) /\ PieceEnd(c, k, L) \in 0 .. Len(c)
        BY <1>2, PieceBounds
      <3>2. PieceEnd(c, k - 1, L) < PieceEnd(c, k, L)
        BY <1>2, PieceBounds
      <3>3. PICK a \in 0 .. Len(c), b \in 0 .. Len(c) : a = PieceEnd(c, k - 1, L) /\ b = PieceEnd(c, k, L) /\ a < b
        BY <3>1, <3>2
      <3>4. f[k] = SubSeq(c, 1, b) /\ f[k - 1] = SubSeq(c, 1, a)
        <4>1. k \in 0 .. n /\ k - 1 \in 0 .. n
          OBVIOUS
        <4> QED BY <3>3, <4>1
      <3>5. s[k] = SubSeq(c, a + 1, b)
        BY <1>5, <3>3
      <3>6. SubSeq(c, 1, a) \o SubSeq(c, a + 1, b) = SubSeq(c, 1, b)
        <4>1. 1 \in 1 .. Len(c) + 1 /\ a \in 1 - 1 .. Len(c) /\ b \in a .. Len(c)
          BY <3>3
        <4> QED BY <4>1, ConcatAdjacentSubSeq
      <3> QED BY <3>4, <3>5, <3>6
    <2>5. f[n] = c
      <3>1. n \in 1 .. n /\ n \in 0 .. n
        OBVIOUS
      <3>2. PieceEnd(c, n, L) = Len(c)
        BY <1>2, <3>1, PieceBounds
      <3> QED BY <3>1, <3>2, SubSeqFull
    <2> HIDE DEF f
    <2>6. Chain(f, s)
      BY <1>6, <2>3, <2>4 DEF Chain
    <2>7. FlattenSeq(s) = f[n]
      BY <1>6, <2>2, <2>6, FlattenChain
    <2> QED BY <2>5, <2>7
  <1> QED BY <1>2, <1>3, <1>6, <1>7, <1>8
----------------------------------------------------------------------------
(* UDP messages.                                                            *)

\* The fields of a message that is sent.
Message(sid, pid, fid, count, dst, payload) ==
    [session_id |-> sid, packet_id |-> pid, fragment_id |-> fid, fragment_count |-> count,
     destination |-> dst, payload |-> payload]

\* What is decoded from it.
Decoded(sid, pid, fid, count, dst, payload) ==
    [ok |-> TRUE, session_id |-> sid, packet_id |-> pid, fragment_id |-> fid, fragment_count |-> count,
     destination |-> dst, payload |-> payload]

\* An address fits in a message.
LEMMA AddressFits ==
    ASSUME NEW dst \in Seq(Byte), Len(dst) \in 1 .. MAX_ADDRESS_LENGTH
    PROVE  /\ Fits(Len(dst), 8) /\ varint_size(Len(dst)) \in Nat \ {0}
           /\ write_bytes(dst) \in Seq(Byte)
           /\ Len(write_bytes(dst)) = varint_size(Len(dst)) + Len(dst)
  <1>1. MAX_ADDRESS_LENGTH \in Nat /\ Fits(MAX_ADDRESS_LENGTH, 8)
    BY WireAssumption, LengthsFit DEF WireAssumption, LengthsFit
  <1>2. Len(dst) \in Nat /\ Len(dst) <= MAX_ADDRESS_LENGTH
    BY <1>1
  <1>3. Fits(Len(dst), 8)
    BY <1>1, <1>2, FitsSmaller
  <1>4. varint_size(Len(dst)) \in {1, 2, 4, 8}
    BY <1>2, <1>3, VarintSize
  <1> QED BY <1>3, <1>4, WriteBytes

\* Bytes between others.
LEMMA MiddleBytes ==
    \A a \in Seq(Byte), m \in Seq(Byte), z \in Seq(Byte) : \A am, s :
        Joins(a, m, am) /\ Joins(am, z, s) => SubSeq(s, Len(a) + 1, Len(a) + Len(m)) = m
  <1>1. SUFFICES ASSUME NEW a \in Seq(Byte), NEW m \in Seq(Byte), NEW z \in Seq(Byte), NEW am, NEW s,
                        Joins(a, m, am), Joins(am, z, s)
                 PROVE  SubSeq(s, Len(a) + 1, Len(a) + Len(m)) = m
    OBVIOUS
  <1> QED BY <1>1, MiddleSlice

\* The beginning of a message d: two numbers as A and B, two bytes and the rest.
BeginsWith(d, A, B, fid, count, Y) ==
    /\ Len(d) = HeaderWidth + Len(Y) /\ Dropped(d, HeaderWidth) = Y
    /\ SubSeq(d, 1, SessionWidth) = A
    /\ SubSeq(d, SessionWidth + 1, SessionWidth + PacketWidth) = B
    /\ d[HeaderWidth - 1] = fid /\ d[HeaderWidth] = count

\* It is there whatever follows.
LEMMA MessageHeader ==
    ASSUME NEW A \in Seq(Byte), Len(A) = SessionWidth, NEW B \in Seq(Byte), Len(B) = PacketWidth,
           NEW fid \in Byte, NEW count \in Byte, NEW Y \in Seq(Byte),
           NEW AB, Joins(A, B, AB), NEW H, Joins(AB, <<fid, count>>, H), NEW d, Joins(H, Y, d)
    PROVE  BeginsWith(d, A, B, fid, count, Y)
  <1>1. PICK sw \in Nat \ {0}, pw \in Nat \ {0} : sw = SessionWidth /\ pw = PacketWidth
    BY WireAssumption DEF WireAssumption
  <1>2. PICK C \in Seq(Byte) : C = <<fid, count>> /\ Len(C) = 2 /\ C[1] = fid /\ C[2] = count
    <2>1. <<fid, count>> \in Seq(Byte) /\ Len(<<fid, count>>) = 2 /\ <<fid, count>>[1] = fid /\ <<fid, count>>[2] = count
      OBVIOUS
    <2> QED BY <2>1
  <1>3. AB \in Seq(Byte) /\ Len(AB) = sw + pw
    BY <1>1, JoinedBytes
  <1>4. Joins(AB, C, H)
    BY <1>2
  <1>5. H \in Seq(Byte) /\ Len(H) = Len(AB) + Len(C)
    BY <1>3, <1>4, JoinedBytes
  <1>6. HeaderWidth = sw + pw + 2 /\ Len(H) = HeaderWidth
    BY <1>1, <1>2, <1>3, <1>5 DEF HeaderWidth
  <1>7. d \in Seq(Byte) /\ Len(d) = Len(H) + Len(Y)
    BY <1>5, JoinedBytes
  <1>8. Dropped(d, HeaderWidth) = Y
    <2>1. PICK x \in Seq(Byte) : x = H
      BY <1>5
    <2>2. d = x \o Y
      BY <2>1 DEF Joins
    <2>3. Dropped(d, Len(x)) = Y
      BY <2>2, ConcatCut
    <2> QED BY <1>6, <2>1, <2>3
  <1>9. PICK CY \in Seq(Byte) : Joins(C, Y, CY)
    BY ConcatProperties DEF Joins
  <1>10. Joins(AB, CY, d)
    BY <1>3, <1>4, <1>9, JoinsAssociate
  <1>11. PICK BCY \in Seq(Byte) : Joins(B, CY, BCY)
    BY ConcatProperties DEF Joins
  <1>12. Joins(A, BCY, d)
    BY <1>10, <1>11, JoinsAssociate
  <1>13. SubSeq(d, 1, SessionWidth) = A
    <2>1. d = A \o BCY
      BY <1>12 DEF Joins
    <2>2. Taken(d, Len(A)) = A
      BY <2>1, ConcatCut
    <2> QED BY <2>2 DEF Taken
  <1>14. SubSeq(d, SessionWidth + 1, SessionWidth + PacketWidth) = B
    <2>0. Joins(A, B, AB) /\ Joins(AB, CY, d)
      BY <1>10
    <2>1. SubSeq(d, Len(A) + 1, Len(A) + Len(B)) = B
      BY <2>0, MiddleBytes
    <2> QED BY <2>1
  <1>15. /\ \A i \in 1 .. Len(H) : d[i] = H[i]
    <2>1. PICK x \in Seq(Byte) : x = H
      BY <1>5
    <2>2. d = x \o Y
      BY <2>1 DEF Joins
    <2>3. \A i \in 1 .. Len(x) : d[i] = x[i]
      BY <2>2, ConcatProperties
    <2> QED BY <2>1, <2>3
  <1>16. H[sw + pw + 1] = fid /\ H[sw + pw + 2] = count
    <2>1. PICK x \in Seq(Byte), l \in Nat : x = AB /\ l = sw + pw /\ Len(x) = l
      BY <1>3
    <2>2. H = x \o C
      BY <1>4, <2>1 DEF Joins
    <2>3. \A i \in 1 .. Len(x) + Len(C) : (x \o C)[i] = IF i <= Len(x) THEN x[i] ELSE C[i - Len(x)]
      BY ConcatProperties
    <2>4. l + 1 \in 1 .. l + 2 /\ l + 2 \in 1 .. l + 2 /\ ~(l + 1 <= l) /\ ~(l + 2 <= l) /\ (l + 1) - l = 1 /\ (l + 2) - l = 2
      OBVIOUS
    <2>5. Len(x) + Len(C) = l + 2
      BY <1>2, <2>1
    <2>6. (x \o C)[l + 1] = C[1]
      BY <2>1, <2>3, <2>4, <2>5, SMTT(30)
    <2>7. (x \o C)[l + 2] = C[2]
      BY <2>1, <2>3, <2>4, <2>5, SMTT(30)
    <2> QED BY <1>2, <2>1, <2>2, <2>6, <2>7
  <1>17. d[HeaderWidth - 1] = fid /\ d[HeaderWidth] = count
    <2>1. HeaderWidth - 1 = sw + pw + 1 /\ sw + pw + 1 \in 1 .. Len(H) /\ sw + pw + 2 \in 1 .. Len(H)
      BY <1>6
    <2> QED BY <1>6, <1>15, <1>16, <2>1
  <1> QED BY <1>6, <1>7, <1>8, <1>13, <1>14, <1>17 DEF BeginsWith

\* The bytes of a message, part by part.
MessageParts(A, B, C, W, P, AB, H, Y, d) ==
    /\ d = A \o B \o C \o W \o P
    /\ Y = W \o P
    /\ Joins(A, B, AB) /\ Joins(AB, C, H) /\ Joins(H, Y, d)

\* They are bytes, and the header is apart from the rest.
LEMMA MessageBytes ==
    ASSUME NEW A \in Seq(Byte), NEW B \in Seq(Byte), NEW C \in Seq(Byte), NEW W \in Seq(Byte), NEW P \in Seq(Byte)
    PROVE  \E AB \in Seq(Byte), H \in Seq(Byte), Y \in Seq(Byte), d \in Seq(Byte) :
             MessageParts(A, B, C, W, P, AB, H, Y, d)
  <1>1. PICK AB \in Seq(Byte) : AB = A \o B
    BY ConcatProperties
  <1>2. PICK H \in Seq(Byte) : H = AB \o C
    BY ConcatProperties
  <1>3. PICK HW \in Seq(Byte) : HW = H \o W
    BY ConcatProperties
  <1>4. PICK d \in Seq(Byte) : d = HW \o P
    BY ConcatProperties
  <1>5. PICK Y \in Seq(Byte) : Y = W \o P
    BY ConcatProperties
  <1>6. d = A \o B \o C \o W \o P
    BY <1>1, <1>2, <1>3, <1>4
  <1>7. Joins(H, W, HW) /\ Joins(W, P, Y) /\ Joins(HW, P, d) /\ Joins(A, B, AB) /\ Joins(AB, C, H)
    BY <1>1, <1>2, <1>3, <1>4, <1>5 DEF Joins
  <1>8. Joins(H, Y, d)
    BY <1>7, JoinsAssociate
  <1>9. MessageParts(A, B, C, W, P, AB, H, Y, d)
    BY <1>5, <1>6, <1>7, <1>8 DEF MessageParts
  <1> QED BY <1>9

\* How long a message is.
MessageLength(dst, payload) == HeaderWidth + varint_size(Len(dst)) + Len(dst) + Len(payload)

\* A message that is sent is decoded.
LEMMA MessageDecodes ==
    ASSUME NEW sid \in Nat, sid < Power(SessionWidth), NEW pid \in Nat, pid < Power(PacketWidth),
           NEW fid \in Byte, NEW count \in Byte, NEW dst \in Seq(Byte), NEW payload \in Seq(Byte),
           Len(dst) \in 1 .. MAX_ADDRESS_LENGTH, Len(payload) <= MAX_UDP_SIZE
    PROVE  /\ UdpMessage_encode(Message(sid, pid, fid, count, dst, payload)) \in Seq(Byte)
           /\ Len(UdpMessage_encode(Message(sid, pid, fid, count, dst, payload))) = MessageLength(dst, payload)
           /\ UdpMessage_decode(UdpMessage_encode(Message(sid, pid, fid, count, dst, payload)))
                = Decoded(sid, pid, fid, count, dst, payload)
  <1>1. /\ SessionWidth \in Nat \ {0} /\ PacketWidth \in Nat \ {0}
        /\ MAX_ADDRESS_LENGTH \in Nat /\ MAX_UDP_SIZE \in Nat
    BY WireAssumption DEF WireAssumption
  <1>2. PICK A \in Seq(Byte) : A = to_be_bytes(sid, SessionWidth)
    BY <1>1, ToBeBytes
  <1>3. PICK B \in Seq(Byte) : B = to_be_bytes(pid, PacketWidth)
    BY <1>1, ToBeBytes
  <1>4. Len(A) = SessionWidth
    BY <1>1, <1>2, ToBeBytes
  <1>5. Len(B) = PacketWidth
    BY <1>1, <1>3, ToBeBytes
  <1>6. from_be_bytes(A) = sid
    BY <1>1, <1>2, FromToBytes
  <1>7. from_be_bytes(B) = pid
    BY <1>1, <1>3, FromToBytes
  <1>8. PICK W \in Seq(Byte) : W = write_bytes(dst)
    BY AddressFits
  <1>9. Len(W) = varint_size(Len(dst)) + Len(dst) /\ Fits(Len(dst), 8) /\ varint_size(Len(dst)) \in Nat \ {0}
    BY <1>8, AddressFits
  <1>10. PICK C \in Seq(Byte) : C = <<fid, count>>
    <2>1. <<fid, count>> \in Seq(Byte)
      OBVIOUS
    <2> QED BY <2>1
  <1>11. PICK AB \in Seq(Byte), H \in Seq(Byte), Y \in Seq(Byte), d \in Seq(Byte) :
             MessageParts(A, B, C, W, payload, AB, H, Y, d)
    BY MessageBytes
  <1>12. UdpMessage_encode(Message(sid, pid, fid, count, dst, payload)) = d
    BY <1>2, <1>3, <1>8, <1>10, <1>11 DEF UdpMessage_encode, Message, MessageParts
  <1>13. Joins(A, B, AB) /\ Joins(AB, <<fid, count>>, H) /\ Joins(H, Y, d)
    BY <1>10, <1>11 DEF MessageParts
  <1>14. BeginsWith(d, A, B, fid, count, Y)
    BY <1>4, <1>5, <1>13, MessageHeader
  <1>15. Len(Y) = Len(W) + Len(payload)
    BY <1>11, ConcatProperties DEF MessageParts
  <1>16. read_limited(Y, MAX_ADDRESS_LENGTH) = [ok |-> TRUE, value |-> dst, rest |-> payload]
    <2>1. Len(dst) <= MAX_ADDRESS_LENGTH
      BY <1>1
    <2>2. read_limited(write_bytes(dst) \o payload, MAX_ADDRESS_LENGTH) = [ok |-> TRUE, value |-> dst, rest |-> payload]
      BY <1>1, <1>9, <2>1, ReadWritten
    <2> QED BY <1>8, <1>11, <2>2 DEF MessageParts
  <1>17. PICK h \in Nat : h = HeaderWidth
    BY <1>1 DEF HeaderWidth
  <1>170. PICK vs \in Nat \ {0}, lw \in Nat, lp \in Nat, ld \in Nat, ly \in Nat :
             /\ vs = varint_size(Len(dst)) /\ lw = Len(W) /\ lp = Len(payload) /\ ld = Len(dst)
             /\ ly = Len(Y)
    BY <1>9, LenProperties
  <1>171. lw = vs + ld /\ ly = lw + lp
    BY <1>9, <1>15, <1>170
  <1>172. Len(d) = h + ly
    BY <1>14, <1>17, <1>170 DEF BeginsWith
  <1>18. Len(d) = MessageLength(dst, payload)
    <2>1. MessageLength(dst, payload) = h + vs + ld + lp
      BY <1>17, <1>170 DEF MessageLength
    <2> QED BY <1>171, <1>172, <2>1
  <1>19. ~(Len(d) < HeaderWidth + 1)
    <2>1. ~(h + ly < h + 1)
      BY <1>171
    <2> QED BY <1>17, <1>172, <2>1
  <1>20. dst # <<>>
    OBVIOUS
  <1>21. ~(Len(payload) > MAX_UDP_SIZE)
    BY <1>1
  <1>22. UdpMessage_decode(d) = Decoded(sid, pid, fid, count, dst, payload)
    <2>1. read_limited(Dropped(d, HeaderWidth), MAX_ADDRESS_LENGTH) = [ok |-> TRUE, value |-> dst, rest |-> payload]
      BY <1>14, <1>16 DEF BeginsWith
    <2>2. /\ from_be_bytes(SubSeq(d, 1, SessionWidth)) = sid
          /\ from_be_bytes(SubSeq(d, SessionWidth + 1, SessionWidth + PacketWidth)) = pid
          /\ d[HeaderWidth - 1] = fid /\ d[HeaderWidth] = count
      BY <1>6, <1>7, <1>14 DEF BeginsWith
    <2>3. PICK r : r = [ok |-> TRUE, value |-> dst, rest |-> payload]
      OBVIOUS
    <2>4. r.ok /\ r.value = dst /\ r.rest = payload
      BY <2>3
    <2>5. ~(~r.ok \/ r.value = <<>> \/ Len(r.rest) > MAX_UDP_SIZE)
      BY <1>20, <1>21, <2>4
    <2>6. UdpMessage_decode(d) =
             [ok |-> TRUE, session_id |-> sid, packet_id |-> pid, fragment_id |-> fid, fragment_count |-> count,
              destination |-> r.value, payload |-> r.rest]
      BY <1>19, <2>1, <2>2, <2>3, <2>5, Zenon DEF UdpMessage_decode
    <2> QED BY <2>4, <2>6 DEF Decoded
  <1> QED BY <1>12, <1>18, <1>22
----------------------------------------------------------------------------
(* Salamander.                                                              *)

\* A byte of a salt or a masked one.
Masked == [salt : Nat, at : Nat] \cup [mask : Nat \X Nat, byte : Byte]
\* A datagram with its salt.
Salted(k, d) == SaltBytes(k) \o apply_keystream(k, d)

\* What was masked is unmasked.
LEMMA Unmasked ==
    ASSUME NEW k \in Nat, NEW d \in Seq(Byte)
    PROVE  /\ Salted(k, d) \in Seq(Masked) /\ Len(Salted(k, d)) = SALT_LENGTH + Len(d)
           /\ unapply_keystream(Taken(Salted(k, d), SALT_LENGTH), Dropped(Salted(k, d), SALT_LENGTH)) = d
  <1>1. SALT_LENGTH \in Nat \ {0}
    BY WireAssumption DEF WireAssumption
  <1>2. PICK l \in Nat : l = Len(d) /\ DOMAIN d = 1 .. l /\ d \in [1 .. l -> Byte]
    OBVIOUS
  <1>3. PICK x \in Seq(Masked) : x = SaltBytes(k) /\ Len(x) = SALT_LENGTH
    <2>1. SaltBytes(k) \in [1 .. SALT_LENGTH -> Masked]
      BY <1>1 DEF SaltBytes, Masked
    <2>2. SaltBytes(k) \in Seq(Masked)
      BY <1>1, <2>1
    <2>3. Len(SaltBytes(k)) = SALT_LENGTH
      BY <1>1, <2>1
    <2> QED BY <2>2, <2>3
  <1>4. PICK y \in Seq(Masked) : y = apply_keystream(k, d) /\ Len(y) = l
    <2>1. apply_keystream(k, d) \in [1 .. l -> Masked]
      BY <1>2 DEF apply_keystream, Masked
    <2>2. apply_keystream(k, d) \in Seq(Masked)
      BY <1>2, <2>1
    <2>3. Len(apply_keystream(k, d)) = l
      BY <1>2, <2>1
    <2> QED BY <2>2, <2>3
  <1>5. Salted(k, d) = x \o y
    BY <1>3, <1>4 DEF Salted
  <1>6. x \o y \in Seq(Masked) /\ Len(x \o y) = Len(x) + Len(y)
    BY ConcatProperties
  <1>7. Taken(x \o y, Len(x)) = x /\ Dropped(x \o y, Len(x)) = y
    BY ConcatCut
  <1>8. unapply_keystream(SaltBytes(k), apply_keystream(k, d)) = d
    <2>1. SaltBytes(k)[1].salt = k
      BY <1>1 DEF SaltBytes
    <2>2. DOMAIN apply_keystream(k, d) = 1 .. l
      BY <1>2 DEF apply_keystream
    <2>3. ASSUME NEW i \in 1 .. l
          PROVE  apply_keystream(k, d)[i].mask = <<k, i>> /\ apply_keystream(k, d)[i].byte = d[i]
      BY <1>2 DEF apply_keystream
    <2>4. unapply_keystream(SaltBytes(k), apply_keystream(k, d)) = [i \in 1 .. l |-> d[i]]
      BY <2>1, <2>2, <2>3 DEF unapply_keystream
    <2> QED BY <1>2, <2>4
  <1> QED BY <1>2, <1>3, <1>4, <1>5, <1>6, <1>7, <1>8

\* A buffer whose segments are long enough, and what is made of it.
LongEnough(b) ==
    /\ b.stride > SALT_LENGTH
    /\ \A k \in DOMAIN chunks(b.contents, b.stride) :
         Len(chunks(b.contents, b.stride)[k]) > SALT_LENGTH
\* What is made of it.
Plain(b) ==
    LET segments == chunks(b.contents, b.stride) IN
    [contents |-> FlattenSeq([k \in DOMAIN segments |->
         unapply_keystream(Taken(segments[k], SALT_LENGTH), Dropped(segments[k], SALT_LENGTH))]),
     stride |-> b.stride - SALT_LENGTH]

\* The buffers that are kept, as the loop over the batch computes them.
Keeps(f, batch) ==
    f = [n \in 0 .. Len(batch) |->
           IF n = 0 THEN <<>>
           ELSE IF LongEnough(batch[n]) THEN Append(f[n - 1], Plain(batch[n])) ELSE f[n - 1]]

\* A batch of one buffer.
LEMMA BatchOfOne ==
    ASSUME NEW b, LongEnough(b)
    PROVE  decrypt_receive_batch(<<b>>)[1] = Plain(b)
  <1> DEFINE F == CHOOSE f : Keeps(f, <<b>>)
  <1>1. decrypt_receive_batch(<<b>>) = F[Len(<<b>>)]
    BY Zenon DEF decrypt_receive_batch, Keeps, LongEnough, Plain
  <1>2. Len(<<b>>) = 1 /\ <<b>>[1] = b
    OBVIOUS
  <1>3. PICK p : p = Plain(b)
    OBVIOUS
  <1>4. \E f : Keeps(f, <<b>>)
    <2>1. PICK f : f = [n \in 0 .. 1 |-> IF n = 0 THEN <<>> ELSE <<p>>]
      OBVIOUS
    <2>2. f[0] = <<>> /\ Append(f[0], p) = <<p>>
      BY <2>1
    <2>3. f = [n \in 0 .. Len(<<b>>) |->
                 IF n = 0 THEN <<>>
                 ELSE IF LongEnough(<<b>>[n]) THEN Append(f[n - 1], Plain(<<b>>[n])) ELSE f[n - 1]]
      <3>1. ASSUME NEW n \in 0 .. 1
            PROVE  (IF n = 0 THEN <<>> ELSE <<p>>) =
                   IF n = 0 THEN <<>>
                   ELSE IF LongEnough(<<b>>[n]) THEN Append(f[n - 1], Plain(<<b>>[n])) ELSE f[n - 1]
        <4>1. CASE n = 0
          BY <4>1
        <4>2. CASE n = 1
          <5>1. n - 1 = 0
            BY <4>2
          <5> QED BY <1>2, <1>3, <2>2, <4>2, <5>1
        <4> QED BY <4>1, <4>2
      <3> QED BY <1>2, <2>1, <3>1, Zenon
    <2> QED BY <2>3 DEF Keeps
  <1>5. Keeps(F, <<b>>)
    BY <1>4
  <1> HIDE DEF F
  <1>6. /\ F[0] = <<>>
        /\ F[1] = IF LongEnough(<<b>>[1]) THEN Append(F[1 - 1], Plain(<<b>>[1])) ELSE F[1 - 1]
    BY <1>2, <1>5 DEF Keeps
  <1>7. LongEnough(<<b>>[1]) /\ Plain(<<b>>[1]) = p /\ 1 - 1 = 0
    BY <1>2, <1>3
  <1>8. F[1] = Append(F[0], p)
    BY <1>6, <1>7
  <1>9. Append(<<>>, p)[1] = p
    OBVIOUS
  <1> QED BY <1>1, <1>2, <1>3, <1>6, <1>8, <1>9

\* Datagrams that are sent as one transmit of equal segments, masked and
\* unmasked, are decoded one by one.
LEMMA ReceivedWhole ==
    ASSUME NEW D \in Seq(Seq(Byte)), NEW L \in Nat \ {0}, Cut(D, L), L = Len(D[1])
    PROVE  Received(D) = [k \in DOMAIN D |-> UdpMessage_decode(D[k])]
  <1>1. PICK salt \in Nat \ {0} : salt = SALT_LENGTH
    BY WireAssumption DEF WireAssumption
  <1>2. PICK n \in Nat \ {0} : n = Len(D) /\ DOMAIN D = 1 .. n /\ \A k \in 1 .. n : D[k] \in Seq(Byte)
    BY DEF Cut
  <1>3. /\ Len(D[n]) \in 1 .. L
        /\ \A k \in 1 .. n - 1 : Len(D[k]) = L
    BY <1>2 DEF Cut
  <1>4. \A k \in 1 .. n : Len(D[k]) \in 1 .. L
    <2> TAKE k \in 1 .. n
    <2>1. k = n \/ k \in 1 .. n - 1
      OBVIOUS
    <2>2. L \in 1 .. L
      OBVIOUS
    <2> QED BY <1>3, <2>1, <2>2
  <1>5. chunks(FlattenSeq(D), L) = D
    BY ChunksOfFlat
  <1>6. PICK M : M = [k \in 1 .. n |-> Salted(k, D[k])]
    OBVIOUS
  <1>7. /\ DOMAIN M = 1 .. n /\ \A k \in 1 .. n : M[k] = Salted(k, D[k])
    BY <1>6
  <1>8. ASSUME NEW k \in 1 .. n
        PROVE  /\ M[k] \in Seq(Masked)
               /\ Len(M[k]) = salt + Len(D[k])
               /\ unapply_keystream(Taken(M[k], salt), Dropped(M[k], salt)) = D[k]
    <2>1. k \in Nat /\ D[k] \in Seq(Byte)
      BY <1>2
    <2>2. PICK dk \in Seq(Byte) : dk = D[k]
      BY <2>1
    <2>3. /\ Salted(k, dk) \in Seq(Masked) /\ Len(Salted(k, dk)) = SALT_LENGTH + Len(dk)
          /\ unapply_keystream(Taken(Salted(k, dk), SALT_LENGTH), Dropped(Salted(k, dk), SALT_LENGTH)) = dk
      BY <2>1, Unmasked
    <2> QED BY <1>1, <1>7, <2>2, <2>3
  <1>9. M \in Seq(Seq(Masked)) /\ Len(M) = n
    <2>1. M \in [1 .. n -> Seq(Masked)]
      BY <1>6, <1>7, <1>8
    <2>2. M \in Seq(Seq(Masked))
      BY <2>1
    <2> QED BY <2>1, <2>2
  <1>10. PICK T \in Nat \ {0} : T = L + salt /\ T > salt /\ T - salt = L
    OBVIOUS
  <1>11. Cut(M, T)
    <2>1. \A k \in 1 .. n - 1 : Len(M[k]) = T
      <3> TAKE k \in 1 .. n - 1
      <3>1. k \in 1 .. n
        OBVIOUS
      <3>2. Len(M[k]) = salt + Len(D[k])
        BY <1>8, <3>1
      <3>3. Len(D[k]) = L
        BY <1>3
      <3>4. salt + L = T
        BY <1>10
      <3> QED BY <3>2, <3>3, <3>4
    <2>2. Len(M[n]) \in 1 .. T
      <3>1. PICK ln \in 1 .. L : ln = Len(D[n])
        BY <1>3
      <3>2. n \in 1 .. n
        OBVIOUS
      <3>3. Len(M[n]) = salt + ln
        BY <1>8, <3>1, <3>2
      <3>4. salt + ln \in 1 .. T
        BY <1>10
      <3> QED BY <3>3, <3>4
    <2> QED BY <1>9, <2>1, <2>2 DEF Cut
  <1>12. chunks(FlattenSeq(M), T) = M
    BY <1>9, <1>11, ChunksOfFlat
  <1> DEFINE masked == encrypt_transmit(FlattenSeq(D), Len(D[1]))
             b == [contents |-> masked.contents, stride |-> masked.segment_size]
  <1>13. masked = [contents |-> FlattenSeq(M), segment_size |-> T]
    <2>1. [k \in DOMAIN D |-> SaltBytes(k) \o apply_keystream(k, D[k])] = M
      BY <1>2, <1>6 DEF Salted
    <2>2. encrypt_transmit(FlattenSeq(D), L) = [contents |-> FlattenSeq(M), segment_size |-> L + SALT_LENGTH]
      BY <1>5, <2>1, Zenon DEF encrypt_transmit
    <2> QED BY <1>1, <1>10, <2>2
  <1> HIDE DEF masked
  <1>14. b.contents = FlattenSeq(M) /\ b.stride = T
    BY <1>13
  <1>15. LongEnough(b)
    <2>1. \A k \in DOMAIN M : Len(M[k]) > SALT_LENGTH
      <3> SUFFICES ASSUME NEW k \in 1 .. n
                   PROVE  Len(M[k]) > SALT_LENGTH
        BY <1>7
      <3>1. PICK lk \in 1 .. L : lk = Len(D[k])
        BY <1>4
      <3>2. Len(M[k]) = salt + lk
        BY <1>8, <3>1
      <3>3. salt + lk > salt
        OBVIOUS
      <3> QED BY <1>1, <3>2, <3>3
    <2>2. T > SALT_LENGTH
      BY <1>1, <1>10
    <2> HIDE DEF b
    <2> QED BY <1>12, <1>14, <2>1, <2>2 DEF LongEnough
  <1>16. [k \in DOMAIN M |-> unapply_keystream(Taken(M[k], SALT_LENGTH), Dropped(M[k], SALT_LENGTH))] = D
    <2>1. D = [k \in 1 .. n |-> D[k]]
      BY <1>2
    <2>2. \A k \in 1 .. n : unapply_keystream(Taken(M[k], SALT_LENGTH), Dropped(M[k], SALT_LENGTH)) = D[k]
      BY <1>1, <1>8
    <2> QED BY <1>7, <2>1, <2>2, Zenon
  <1>17. Plain(b) = [contents |-> FlattenSeq(D), stride |-> T - SALT_LENGTH]
    <2> HIDE DEF b
    <2> QED BY <1>12, <1>14, <1>16, Zenon DEF Plain
  <1>18. Plain(b).contents = FlattenSeq(D) /\ Plain(b).stride = L
    BY <1>1, <1>10, <1>17
  <1>19. decrypt_receive_batch(<<b>>)[1] = Plain(b)
    <2> HIDE DEF b
    <2> QED BY <1>15, BatchOfOne
  <1>20. chunks(decrypt_receive_batch(<<b>>)[1].contents, decrypt_receive_batch(<<b>>)[1].stride) = D
    BY <1>5, <1>18, <1>19
  <1> QED BY <1>20, Zenon DEF Received, masked
----------------------------------------------------------------------------
(* Fragments.                                                               *)

\* No piece is longer than the whole.
LEMMA PieceShorter ==
    ASSUME NEW E, NEW s \in Seq(Seq(E)), NEW k \in 1 .. Len(s)
    PROVE  Len(s[k]) <= Len(FlattenSeq(s))
  <1>1. FlattenSeq(SubSeq(s, 1, k - 1)) \in Seq(E) /\ FlattenSeq(SubSeq(s, 1, k)) = FlattenSeq(SubSeq(s, 1, k - 1)) \o s[k]
    BY FlattenStep
  <1>2. PICK a \in Seq(E) : a = FlattenSeq(SubSeq(s, 1, k - 1))
    BY <1>1
  <1>3. PICK p \in Seq(E) : p = s[k]
    OBVIOUS
  <1>4. PICK ap \in Seq(E) : ap = a \o p /\ Len(ap) = Len(a) + Len(p)
    BY ConcatProperties
  <1>5. k \in 0 .. Len(s)
    OBVIOUS
  <1>6. PICK z \in Seq(E) : FlattenSeq(s) = FlattenSeq(SubSeq(s, 1, k)) \o z
    BY <1>5, FlattenIsPrefix
  <1>7. FlattenSeq(s) = ap \o z
    BY <1>1, <1>2, <1>3, <1>4, <1>6
  <1>8. Len(ap \o z) = Len(ap) + Len(z)
    BY ConcatProperties
  <1>9. PICK la \in Nat, lp \in Nat, lz \in Nat : la = Len(a) /\ lp = Len(p) /\ lz = Len(z)
    BY LenProperties
  <1>10. Len(FlattenSeq(s)) = (la + lp) + lz
    BY <1>4, <1>7, <1>8, <1>9
  <1> QED BY <1>3, <1>9, <1>10

\* Pieces of a payload: at most room bytes each, and exactly as many but for the last.
Pieces(p, payload, room) ==
    /\ p \in Seq(Seq(Byte)) /\ Len(p) \in Nat \ {0} /\ FlattenSeq(p) = payload
    /\ \A k \in 1 .. Len(p) : Len(p[k]) <= room
    /\ \A k \in 1 .. Len(p) - 1 : Len(p[k]) = room

\* One empty piece, or chunks.
LEMMA PiecesOf ==
    ASSUME NEW payload \in Seq(Byte), NEW room \in Nat \ {0}
    PROVE  Pieces(IF payload = <<>> THEN <<payload>> ELSE chunks(payload, room), payload, room)
  <1>1. CASE payload = <<>>
    <2>1. PICK none \in Seq(Seq(Byte)) : none = <<>> /\ Len(none) = 0
      <3>1. <<>> \in Seq(Seq(Byte)) /\ Len(<<>>) = 0
        OBVIOUS
      <3> QED BY <3>1
    <2>2. FlattenSeq(Append(none, payload)) = FlattenSeq(none) \o payload /\ FlattenSeq(none) \in Seq(Byte)
      BY FlattenAppend
    <2>3. FlattenSeq(SubSeq(none, 1, 0)) = <<>>
      BY FlattenStep
    <2>31. SubSeq(none, 1, 0) = none
      <3>1. SubSeq(none, 1, Len(none)) = none
        BY SubSeqFull
      <3> QED BY <2>1, <3>1
    <2>32. <<>> \o payload = payload
      BY <1>1
    <2>4. Append(none, payload) = <<payload>>
      BY <2>1
    <2>5. FlattenSeq(<<payload>>) = payload
      BY <2>2, <2>3, <2>31, <2>32, <2>4
    <2>6. PICK p \in Seq(Seq(Byte)) : p = <<payload>> /\ Len(p) = 1 /\ p[1] = payload
      <3>1. <<payload>> \in Seq(Seq(Byte)) /\ Len(<<payload>>) = 1 /\ <<payload>>[1] = payload
        OBVIOUS
      <3> QED BY <3>1
    <2>7. Len(payload) = 0
      BY <1>1
    <2>8. \A k \in 1 .. Len(p) : Len(p[k]) <= room
      BY <2>6, <2>7
    <2>9. \A k \in 1 .. Len(p) - 1 : Len(p[k]) = room
      BY <2>6
    <2>10. Pieces(p, payload, room)
      BY <2>5, <2>6, <2>8, <2>9 DEF Pieces
    <2> QED BY <1>1, <2>6, <2>10
  <1>2. CASE payload # <<>>
    <2>1. PICK p \in Seq(Seq(Byte)) : p = chunks(payload, room) /\ Cut(p, room) /\ FlattenSeq(p) = payload
      BY <1>2, FlatOfChunks
    <2>2. PICK n \in Nat \ {0} : n = Len(p)
      BY <2>1 DEF Cut
    <2>3. Len(p[n]) \in 1 .. room /\ \A k \in 1 .. n - 1 : Len(p[k]) = room
      BY <2>1, <2>2 DEF Cut
    <2>4. \A k \in 1 .. n : Len(p[k]) <= room
      <3> TAKE k \in 1 .. n
      <3>1. k = n \/ k \in 1 .. n - 1
        OBVIOUS
      <3>2. CASE k = n
        BY <2>3, <3>2
      <3>3. CASE k \in 1 .. n - 1
        <4>1. Len(p[k]) = room /\ room <= room
          BY <2>3, <3>3
        <4> QED BY <4>1
      <3> QED BY <3>1, <3>2, <3>3
    <2>5. Pieces(p, payload, room)
      BY <2>1, <2>2, <2>3, <2>4 DEF Pieces
    <2> QED BY <1>2, <2>1, <2>5
  <1> QED BY <1>1, <1>2

\* The fragments of a packet: what every one of them decodes to, and how they
\* are cut.
Fragments(D, pieces, sid, pid, dst) ==
    \A k \in 1 .. Len(D) : UdpMessage_decode(D[k]) = Decoded(sid, pid, k - 1, Len(D), dst, pieces[k])
\* They are few, small, of equal size but for the last, and carry the payload.
Fragmented(D, sid, pid, dst, payload, maximum) ==
    /\ D \in Seq(Seq(Byte)) /\ Len(D) \in 1 .. MaxByte
    /\ \A k \in 1 .. Len(D) : Len(D[k]) <= maximum
    /\ Len(D[1]) \in Nat \ {0} /\ Cut(D, Len(D[1]))
    /\ \E pieces \in Seq(Seq(Byte)) :
         Len(pieces) = Len(D) /\ FlattenSeq(pieces) = payload /\ Fragments(D, pieces, sid, pid, dst)

\* Datagrams that carry pieces.
Datagrams(pieces, sid, pid, dst) ==
    [k \in DOMAIN pieces |-> UdpMessage_encode(Message(sid, pid, k - 1, Len(pieces), dst, pieces[k]))]

\* They are the fragments of the packet.
LEMMA PiecesFragmented ==
    ASSUME NEW sid \in Nat, sid < Power(SessionWidth), NEW pid \in Nat, pid < Power(PacketWidth),
           NEW dst \in Seq(Byte), NEW payload \in Seq(Byte), NEW maximum \in Nat,
           Len(dst) \in 1 .. MAX_ADDRESS_LENGTH, Len(payload) <= MAX_UDP_SIZE,
           NEW room \in Nat \ {0}, room = payload_per_fragment(dst, maximum),
           NEW pieces, Pieces(pieces, payload, room), Len(pieces) <= MaxByte
    PROVE  Fragmented(Datagrams(pieces, sid, pid, dst), sid, pid, dst, payload, maximum)
  <1>1. PICK p \in Seq(Seq(Byte)), n \in Nat \ {0} : p = pieces /\ n = Len(p) /\ DOMAIN p = 1 .. n
    BY DEF Pieces
  <1>2. /\ FlattenSeq(p) = payload
        /\ \A k \in 1 .. n : Len(p[k]) <= room
        /\ \A k \in 1 .. n - 1 : Len(p[k]) = room
    BY <1>1 DEF Pieces
  <1>3. MAX_UDP_SIZE \in Nat /\ MAX_ADDRESS_LENGTH \in Nat /\ SessionWidth \in Nat /\ PacketWidth \in Nat
    BY WireAssumption DEF WireAssumption
  <1>4. PICK H \in Nat \ {0} : H = HeaderWidth + varint_size(Len(dst)) + Len(dst)
    <2>1. PICK vs \in Nat \ {0} : vs = varint_size(Len(dst))
      BY AddressFits
    <2>2. PICK h \in Nat : h = HeaderWidth
      BY <1>3 DEF HeaderWidth
    <2>3. PICK ld \in Nat : ld = Len(dst)
      OBVIOUS
    <2>4. h + vs + ld \in Nat \ {0}
      OBVIOUS
    <2> QED BY <2>1, <2>2, <2>3, <2>4
  <1>5. room = maximum - H
    BY <1>4 DEF payload_per_fragment
  <1>6. PICK D : D = Datagrams(pieces, sid, pid, dst)
    OBVIOUS
  <1>7. DOMAIN D = 1 .. n /\ \A k \in 1 .. n : D[k] = UdpMessage_encode(Message(sid, pid, k - 1, n, dst, p[k]))
    BY <1>1, <1>6 DEF Datagrams
  <1>8. ASSUME NEW k \in 1 .. n
        PROVE  /\ D[k] \in Seq(Byte) /\ Len(D[k]) = H + Len(p[k])
               /\ UdpMessage_decode(D[k]) = Decoded(sid, pid, k - 1, n, dst, p[k])
    <2>1. PICK fid \in Byte, count \in Byte : fid = k - 1 /\ count = n
      <3>1. MaxByte \in Nat /\ n <= MaxByte
        BY <1>1, BasePositive DEF MaxByte
      <3>2. k - 1 \in 0 .. MaxByte /\ n \in 0 .. MaxByte
        BY <3>1
      <3> QED BY <3>2 DEF Byte
    <2>2. PICK q \in Seq(Byte) : q = p[k]
      BY <1>1
    <2>3. Len(q) <= MAX_UDP_SIZE
      <3>1. Len(p[k]) <= Len(FlattenSeq(p))
        BY <1>1, PieceShorter
      <3>2. PICK lq \in Nat, lp \in Nat : lq = Len(q) /\ lp = Len(payload)
        BY LenProperties
      <3>3. lq <= lp /\ lp <= MAX_UDP_SIZE
        BY <1>2, <2>2, <3>1, <3>2
      <3> QED BY <1>3, <3>2, <3>3
    <2>4. PICK d : d = UdpMessage_encode(Message(sid, pid, fid, count, dst, q))
      OBVIOUS
    <2>5. /\ d \in Seq(Byte) /\ Len(d) = MessageLength(dst, q)
          /\ UdpMessage_decode(d) = Decoded(sid, pid, fid, count, dst, q)
      BY <2>3, <2>4, MessageDecodes
    <2>6. Len(d) = H + Len(q)
      BY <1>4, <2>5 DEF MessageLength
    <2>7. d = D[k]
      BY <1>7, <2>1, <2>2, <2>4
    <2> QED BY <2>1, <2>2, <2>5, <2>6, <2>7
  <1>9. D \in Seq(Seq(Byte)) /\ Len(D) = n
    <2>1. D \in [1 .. n -> Seq(Byte)]
      <3>1. D = [k \in 1 .. n |-> D[k]]
        BY <1>1, <1>6, <1>7 DEF Datagrams
      <3> QED BY <1>8, <3>1
    <2>2. D \in Seq(Seq(Byte))
      BY <2>1
    <2> QED BY <2>1, <2>2
  <1>10. n \in 1 .. MaxByte
    BY <1>1, BasePositive DEF MaxByte
  <1>11. ASSUME NEW k \in 1 .. n PROVE Len(D[k]) <= maximum /\ Len(D[k]) \in 1 .. H + room
    <2>1. PICK l \in Nat : l = Len(p[k])
      BY <1>1
    <2>2. l <= room
      BY <1>2, <2>1
    <2>3. Len(D[k]) = H + l
      BY <1>8, <2>1
    <2> QED BY <1>5, <2>2, <2>3
  <1>12. \A k \in 1 .. n - 1 : Len(D[k]) = H + room
    <2> TAKE k \in 1 .. n - 1
    <2>1. k \in 1 .. n /\ Len(p[k]) = room
      BY <1>2
    <2> QED BY <1>8, <2>1
  <1>13. PICK L : L = Len(D[1])
    OBVIOUS
  <1>14. L \in Nat \ {0} /\ Cut(D, L)
    <2>1. 1 \in 1 .. n /\ n \in 1 .. n
      OBVIOUS
    <2>2. L \in 1 .. H + room
      BY <1>11, <1>13, <2>1
    <2>3. CASE n = 1
      BY <1>9, <1>13, <2>2, <2>3 DEF Cut
    <2>4. CASE n # 1
      <3>1. 1 \in 1 .. n - 1
        BY <2>4
      <3>2. L = H + room
        BY <1>12, <1>13, <3>1
      <3>3. Len(D[n]) \in 1 .. L /\ L \in Nat \ {0}
        BY <1>11, <2>1, <3>2, SMTT(30)
      <3>4. \A k \in 1 .. n - 1 : Len(D[k]) = L
        BY <1>12, <3>2
      <3> QED BY <1>9, <3>3, <3>4 DEF Cut
    <2> QED BY <2>3, <2>4
  <1>15. Fragments(D, p, sid, pid, dst)
    BY <1>8, <1>9 DEF Fragments
  <1>16. Fragmented(D, sid, pid, dst, payload, maximum)
    <2>1. D \in Seq(Seq(Byte)) /\ Len(D) \in 1 .. MaxByte
      BY <1>9, <1>10
    <2>2. \A k \in 1 .. Len(D) : Len(D[k]) <= maximum
      BY <1>9, <1>11
    <2>3. Len(D[1]) \in Nat \ {0} /\ Cut(D, Len(D[1]))
      BY <1>13, <1>14
    <2>4. Len(p) = Len(D) /\ FlattenSeq(p) = payload /\ Fragments(D, p, sid, pid, dst)
      BY <1>1, <1>2, <1>9, <1>15
    <2> QED BY <1>1, <2>1, <2>2, <2>3, <2>4 DEF Fragmented
  <1> QED BY <1>6, <1>16

\* What encode_fragments returns, if it does not fail.
LEMMA EncodeFragmented ==
    ASSUME NEW sid \in Nat, sid < Power(SessionWidth), NEW pid \in Nat, pid < Power(PacketWidth),
           NEW dst \in Seq(Byte), NEW payload \in Seq(Byte), NEW maximum \in Nat,
           encode_fragments(sid, pid, dst, payload, maximum).ok
    PROVE  Fragmented(encode_fragments(sid, pid, dst, payload, maximum).datagrams,
                      sid, pid, dst, payload, maximum)
  <1> DEFINE roomLeft == payload_per_fragment(dst, maximum)
             pieces == IF payload = <<>> THEN <<payload>> ELSE chunks(payload, roomLeft)
             refused == ~validate_message(dst, payload) \/ roomLeft <= 0 \/ Len(pieces) > MaxByte
  <1>1. encode_fragments(sid, pid, dst, payload, maximum) =
          IF refused THEN Error ELSE [ok |-> TRUE, datagrams |-> Datagrams(pieces, sid, pid, dst)]
    BY Zenon DEF encode_fragments, Datagrams, Message
  <1>2. ~refused
    <2> SUFFICES ASSUME refused PROVE FALSE
      OBVIOUS
    <2>1. encode_fragments(sid, pid, dst, payload, maximum) = Error
      BY <1>1
    <2>2. ~Error.ok
      BY DEF Error
    <2> QED BY <2>1, <2>2
  <1>3. encode_fragments(sid, pid, dst, payload, maximum).datagrams = Datagrams(pieces, sid, pid, dst)
    <2>1. encode_fragments(sid, pid, dst, payload, maximum) = [ok |-> TRUE, datagrams |-> Datagrams(pieces, sid, pid, dst)]
      BY <1>1, <1>2
    <2> HIDE DEF pieces
    <2> QED BY <2>1
  <1>4. Len(dst) \in 1 .. MAX_ADDRESS_LENGTH /\ Len(payload) <= MAX_UDP_SIZE
    BY <1>2 DEF validate_message
  <1>5. PICK room \in Nat \ {0} : room = payload_per_fragment(dst, maximum)
    <2>1. PICK vs \in Nat \ {0} : vs = varint_size(Len(dst))
      BY <1>4, AddressFits
    <2>2. PICK h \in Nat : h = HeaderWidth
      BY WireAssumption DEF WireAssumption, HeaderWidth
    <2>3. PICK ld \in Nat : ld = Len(dst)
      OBVIOUS
    <2>4. roomLeft = maximum - (h + vs + ld)
      BY <2>1, <2>2, <2>3 DEF payload_per_fragment
    <2>5. ~(roomLeft <= 0)
      BY <1>2
    <2>6. roomLeft \in Nat \ {0}
      BY <2>4, <2>5
    <2> QED BY <2>6
  <1>6. Pieces(pieces, payload, room)
    BY <1>5, PiecesOf
  <1>7. Len(pieces) <= MaxByte
    <2>1. ~(Len(pieces) > MaxByte)
      BY <1>2
    <2>2. Len(pieces) \in Nat
      BY <1>6 DEF Pieces
    <2>3. MaxByte \in Int
      BY BasePositive DEF MaxByte
    <2> HIDE DEF pieces
    <2> QED BY <2>1, <2>2, <2>3
  <1>8. Fragmented(Datagrams(pieces, sid, pid, dst), sid, pid, dst, payload, maximum)
    <2> HIDE DEF pieces, roomLeft
    <2> QED BY <1>4, <1>5, <1>6, <1>7, PiecesFragmented
  <1> QED BY <1>3, <1>8

\* The fields of a decoded message.
LEMMA DecodedFields ==
    ASSUME NEW sid, NEW pid, NEW fid, NEW count, NEW dst, NEW payload
    PROVE  /\ Decoded(sid, pid, fid, count, dst, payload).ok
           /\ Decoded(sid, pid, fid, count, dst, payload).session_id = sid
           /\ Decoded(sid, pid, fid, count, dst, payload).packet_id = pid
           /\ Decoded(sid, pid, fid, count, dst, payload).fragment_id = fid
           /\ Decoded(sid, pid, fid, count, dst, payload).fragment_count = count
           /\ Decoded(sid, pid, fid, count, dst, payload).destination = dst
           /\ Decoded(sid, pid, fid, count, dst, payload).payload = payload
  BY DEF Decoded

\* The fragments of a packet are the packet.
Answers(all, n, sid, pid, dst, payload) ==
    /\ DOMAIN all = 1 .. n /\ Len(all) = n /\ n \in 1 .. MaxByte
    /\ \A k \in 1 .. n :
         /\ all[k].ok /\ all[k].session_id = sid /\ all[k].packet_id = pid
         /\ all[k].destination = dst
         /\ all[k].fragment_id = k - 1 /\ all[k].fragment_count = n
    /\ FlattenSeq([k \in DOMAIN all |-> all[k].payload]) = payload

\* They are received as that, through the obfuscation.
LEMMA FragmentsReceived ==
    ASSUME NEW D, NEW sid, NEW pid, NEW dst, NEW payload, NEW maximum,
           Fragmented(D, sid, pid, dst, payload, maximum)
    PROVE  Answers(Received(D), Len(D), sid, pid, dst, payload)
  <1>1. PICK x \in Seq(Seq(Byte)), n \in Nat : x = D /\ n = Len(D) /\ n \in 1 .. MaxByte /\ DOMAIN x = 1 .. n
    BY DEF Fragmented
  <1>2. PICK L \in Nat \ {0} : L = Len(x[1]) /\ Cut(x, L)
    BY <1>1 DEF Fragmented
  <1>3. PICK pieces \in Seq(Seq(Byte)) :
            Len(pieces) = n /\ FlattenSeq(pieces) = payload /\ Fragments(D, pieces, sid, pid, dst)
    BY <1>1 DEF Fragmented
  <1>4. PICK all : all = Received(D)
    OBVIOUS
  <1>5. all = [k \in 1 .. n |-> UdpMessage_decode(D[k])]
    BY <1>1, <1>2, <1>4, ReceivedWhole
  <1>6. ASSUME NEW k \in 1 .. n PROVE all[k] = Decoded(sid, pid, k - 1, n, dst, pieces[k])
    BY <1>1, <1>3, <1>5 DEF Fragments
  <1>7. ASSUME NEW k \in 1 .. n
        PROVE  /\ all[k].ok /\ all[k].session_id = sid /\ all[k].packet_id = pid
               /\ all[k].destination = dst
               /\ all[k].fragment_id = k - 1 /\ all[k].fragment_count = n
               /\ all[k].payload = pieces[k]
    BY <1>6, DecodedFields
  <1>8. DOMAIN all = 1 .. n
    BY <1>5
  <1>9. Len(all) = n
    BY <1>8
  <1>10. [k \in DOMAIN all |-> all[k].payload] = pieces
    <2>1. DOMAIN pieces = 1 .. n
      BY <1>3
    <2>2. pieces = [k \in 1 .. n |-> pieces[k]]
      BY <2>1
    <2> QED BY <1>7, <1>8, <2>2, Zenon
  <1> QED BY <1>1, <1>3, <1>4, <1>7, <1>8, <1>9, <1>10 DEF Answers
----------------------------------------------------------------------------
(* The reply of a session.                                                  *)

\* The packet being relayed, encoded again.
EncodedReply ==
    encode_fragments(idOf[Watched], packet.packet_id, packet.source, Content(packet.length),
                     maximum_datagram_size)

\* The fragments that are queued and those that are not are the encoded packet.
RelayWhole ==
    task[Watched] = "relay" =>
        /\ packet.packet_id \in 0 .. Power(PacketWidth) - 1
        /\ packet.source \in Sources /\ packet.length \in Lengths
        /\ EncodedReply.ok
        /\ sent \in Seq(Seq(Byte)) /\ rest \in Seq(Seq(Byte))
        /\ Joins(sent, rest, EncodedReply.datagrams)
\* The limits and the next id.
PathTypeOK ==
    /\ mtu \in Mtus /\ maximum_datagram_size \in Nat
    /\ next_packet_id \in 0 .. Power(PacketWidth) - 1
\* The inductive invariant of the reply.
PathIInv == PathTypeOK /\ RelayWhole

\* What is known of the constants.
LEMMA PathConstants ==
    /\ Watched \in Objs /\ Mtus \subseteq Nat /\ Lengths \subseteq Nat /\ Sources \subseteq Seq(Byte)
    /\ Ids \subseteq 0 .. Power(SessionWidth) - 1
    /\ Power(SessionWidth) \in Nat \ {0} /\ Power(PacketWidth) \in Nat \ {0}
  <1>1. Power(SessionWidth) \in Nat \ {0} /\ Power(PacketWidth) \in Nat \ {0}
    BY PowerStep, WireAssumption DEF WireAssumption
  <1> QED BY <1>1, PathAssumption DEF PathAssumption, Byte

\* The contents of a packet are bytes.
LEMMA ContentBytes ==
    ASSUME NEW length \in Nat
    PROVE  Content(length) \in Seq(Byte)
  <1>1. \A k \in 1 .. length : k % Base \in Byte
    <2> TAKE k \in 1 .. length
    <2>1. k \in Nat
      OBVIOUS
    <2>2. k % Base \in 0 .. Base - 1
      BY <2>1, BasePositive, DivMod
    <2> QED BY <2>2 DEF Byte, MaxByte
  <1>2. Content(length) \in [1 .. length -> Byte]
    BY <1>1 DEF Content
  <1> QED BY <1>2

\* A packet that encodes is cut into fragments.
LEMMA PacketFragmented ==
    ASSUME NEW id \in Ids, NEW pid \in 0 .. Power(PacketWidth) - 1, NEW source \in Sources, NEW length \in Lengths,
           NEW maximum \in Nat, encode_fragments(id, pid, source, Content(length), maximum).ok
    PROVE  Fragmented(encode_fragments(id, pid, source, Content(length), maximum).datagrams,
                      id, pid, source, Content(length), maximum)
  <1>1. id \in Nat /\ id < Power(SessionWidth) /\ pid \in Nat /\ pid < Power(PacketWidth)
    BY PathConstants
  <1>2. source \in Seq(Byte) /\ length \in Nat
    BY PathConstants
  <1>3. PICK payload \in Seq(Byte) : payload = Content(length)
    BY <1>2, ContentBytes
  <1> QED BY <1>1, <1>2, <1>3, EncodeFragmented

\* One more fragment moves from the ones left to the ones queued.
LEMMA AppendTail ==
    ASSUME NEW E, NEW x \in Seq(E), NEW y \in Seq(E), y # <<>>, NEW w, Joins(x, y, w)
    PROVE  /\ Append(x, Head(y)) \in Seq(E) /\ Tail(y) \in Seq(E)
           /\ Joins(Append(x, Head(y)), Tail(y), w)
  <1>1. PICK h \in E, t \in Seq(E) : h = Head(y) /\ t = Tail(y)
    BY HeadTailProperties
  <1>2. PICK a \in Seq(E) : a = Append(x, h) /\ a = x \o <<h>>
    <2>1. Append(x, h) \in Seq(E)
      BY AppendProperties
    <2>2. Append(x, h) = x \o <<h>>
      BY AppendIsConcat
    <2> QED BY <2>1, <2>2
  <1>3. PICK o \in Seq(E) : o = <<h>>
    <2>1. <<h>> \in Seq(E)
      OBVIOUS
    <2> QED BY <2>1
  <1>4. y = o \o t
    BY <1>1, <1>3, SMTT(30)
  <1>5. Joins(x, o, a) /\ Joins(o, t, y)
    BY <1>2, <1>3, <1>4 DEF Joins
  <1>6. Joins(a, t, w)
    BY <1>5, JoinsAssociate
  <1> QED BY <1>1, <1>2, <1>6

\* The initial states.
LEMMA PathInitIInv == PathInit => PathIInv
  <1> SUFFICES ASSUME PathInit PROVE PathIInv
    OBVIOUS
  <1>1. task[Watched] = "none"
    BY PathConstants DEF PathInit, Init
  <1>2. PathTypeOK
    BY PathConstants DEF PathInit, PathTypeOK
  <1> QED BY <1>1, <1>2 DEF PathIInv, RelayWhole

\* What leaves the watched session alone.
LEMMA RelayKept ==
    ASSUME RelayWhole, task'[Watched] = "relay" => task[Watched] = "relay",
           idOf'[Watched] = idOf[Watched], maximum_datagram_size' = maximum_datagram_size,
           packet' = packet, sent' = sent, rest' = rest
    PROVE  RelayWhole'
  BY DEF RelayWhole, EncodedReply

\* Every step keeps the fragments whole.
LEMMA PathNextIInv ==
    TypeOK /\ SessionsConsistent /\ PathIInv /\ [PathNext]_allVars => PathIInv'
  <1> SUFFICES ASSUME TypeOK, SessionsConsistent, PathIInv, [PathNext]_allVars PROVE PathIInv'
    OBVIOUS
  <1>0. PathTypeOK /\ RelayWhole
    BY DEF PathIInv
  <1>1. task \in [Objs -> {"none", "recv", "relay", "huge"}] /\ idOf \in [Objs -> Ids \cup {None}]
    BY DEF TypeOK
  <1>2. Watched \in Objs
    BY PathConstants
  <1>3. CASE MtuChanges
    <2>1. mtu' \in Mtus /\ UNCHANGED <<task, idOf, maximum_datagram_size, next_packet_id, packet, sent, rest>>
      BY <1>3 DEF MtuChanges, vars
    <2>2. PathTypeOK'
      BY <1>0, <2>1 DEF PathTypeOK
    <2>3. RelayWhole'
      BY <1>0, <2>1, RelayKept
    <2> QED BY <2>2, <2>3 DEF PathIInv
  <1>4. CASE WatchedOpened
    <2>1. task'[Watched] = "recv"
      BY <1>1, <1>2, <1>4 DEF WatchedOpened, Opened
    <2>2. PathTypeOK'
      BY <1>0, <1>4, PathConstants DEF WatchedOpened, Started, PathTypeOK
    <2> QED BY <2>1, <2>2 DEF PathIInv, RelayWhole
  <1>5. CASE WatchedReceives
    <2>1. task[Watched] = "recv" /\ idOf' = idOf
      BY <1>5 DEF WatchedReceives, TaskReceives
    <2>2. PICK id \in Ids : id = idOf[Watched]
      <3>1. task[Watched] # "none"
        BY <2>1
      <3> QED BY <1>2, <3>1 DEF SessionsConsistent, EntryOwned
    <2>3. PICK source \in Sources, length \in Lengths :
            /\ task'[Watched] = IF encode_fragments(id, next_packet_id, source, Content(length), maximum_datagram_size).ok
                                THEN "relay" ELSE "huge"
            /\ packet' = [packet_id |-> next_packet_id, source |-> source, length |-> length]
            /\ rest' = IF encode_fragments(id, next_packet_id, source, Content(length), maximum_datagram_size).ok
                       THEN encode_fragments(id, next_packet_id, source, Content(length), maximum_datagram_size).datagrams
                       ELSE <<>>
      BY <1>5, <2>2, Zenon DEF WatchedReceives
    <2>4. /\ next_packet_id' = (next_packet_id + 1) % Power(PacketWidth)
          /\ sent' = <<>> /\ mtu' = mtu /\ maximum_datagram_size' = maximum_datagram_size
      BY <1>5 DEF WatchedReceives
    <2>5. next_packet_id' \in 0 .. Power(PacketWidth) - 1
      <3>1. PICK p \in Nat \ {0}, m \in Nat : p = Power(PacketWidth) /\ m = next_packet_id + 1
        BY <1>0, PathConstants DEF PathTypeOK
      <3>2. m % p \in 0 .. p - 1
        BY DivMod
      <3> QED BY <2>4, <3>1, <3>2
    <2>6. PathTypeOK'
      BY <1>0, <2>4, <2>5 DEF PathTypeOK
    <2>7. RelayWhole'
      <3> SUFFICES ASSUME task'[Watched] = "relay" PROVE RelayWhole'
        BY DEF RelayWhole
      <3>1. PICK e : e = encode_fragments(id, next_packet_id, source, Content(length), maximum_datagram_size)
        OBVIOUS
      <3>2. e.ok
        BY <2>3, <3>1
      <3>3. rest' = e.datagrams
        BY <2>3, <3>1, <3>2
      <3>4. next_packet_id \in 0 .. Power(PacketWidth) - 1 /\ maximum_datagram_size \in Nat
        BY <1>0 DEF PathTypeOK
      <3>5. Fragmented(e.datagrams, id, next_packet_id, source, Content(length), maximum_datagram_size)
        BY <3>1, <3>2, <3>4, PacketFragmented
      <3>6. e.datagrams \in Seq(Seq(Byte))
        BY <3>5 DEF Fragmented
      <3>7. packet'.packet_id = next_packet_id /\ packet'.source = source /\ packet'.length = length
        BY <2>3
      <3>8. EncodedReply' = e
        BY <2>1, <2>2, <2>4, <3>1, <3>7 DEF EncodedReply
      <3>9. <<>> \in Seq(Seq(Byte))
        OBVIOUS
      <3>10. Joins(<<>>, e.datagrams, e.datagrams)
        BY <3>6, ConcatEmptySeq DEF Joins
      <3>11. sent' \in Seq(Seq(Byte)) /\ rest' \in Seq(Seq(Byte)) /\ Joins(sent', rest', EncodedReply'.datagrams)
        BY <2>4, <3>3, <3>6, <3>8, <3>9, <3>10
      <3> QED BY <3>2, <3>4, <3>7, <3>8, <3>11 DEF RelayWhole
    <2> QED BY <2>6, <2>7 DEF PathIInv
  <1>6. CASE WatchedQueues
    <2>1. task[Watched] = "relay" /\ Len(rest) > 1
      BY <1>6 DEF WatchedQueues, Sendable
    <2>2. /\ sent' = Append(sent, Head(rest)) /\ rest' = Tail(rest)
          /\ task' = task /\ idOf' = idOf /\ mtu' = mtu /\ maximum_datagram_size' = maximum_datagram_size
          /\ next_packet_id' = next_packet_id /\ packet' = packet
      BY <1>6 DEF WatchedQueues, vars
    <2>3. PathTypeOK'
      BY <1>0, <2>2 DEF PathTypeOK
    <2>4. PICK x \in Seq(Seq(Byte)), y \in Seq(Seq(Byte)) : x = sent /\ y = rest /\ Joins(x, y, EncodedReply.datagrams)
      BY <1>0, <2>1 DEF RelayWhole
    <2>5. y # <<>>
      BY <2>1, <2>4
    <2>6. /\ Append(x, Head(y)) \in Seq(Seq(Byte)) /\ Tail(y) \in Seq(Seq(Byte))
          /\ Joins(Append(x, Head(y)), Tail(y), EncodedReply.datagrams)
      BY <2>4, <2>5, AppendTail
    <2>7. EncodedReply' = EncodedReply
      BY <2>2 DEF EncodedReply
    <2>8. RelayWhole'
      BY <1>0, <2>1, <2>2, <2>4, <2>6, <2>7 DEF RelayWhole
    <2> QED BY <2>3, <2>8 DEF PathIInv
  <1>7. CASE WatchedSends \/ WatchedDiscards \/ WatchedEnds
    <2>1. task'[Watched] # "relay"
      BY <1>1, <1>2, <1>7 DEF WatchedSends, WatchedDiscards, WatchedEnds, TaskSends, TaskDiscards, TaskEnds
    <2>2. PathTypeOK'
      BY <1>0, <1>7, PathConstants DEF WatchedSends, WatchedDiscards, WatchedEnds, Started, PathTypeOK
    <2> QED BY <2>1, <2>2 DEF PathIInv, RelayWhole
  <1>8. CASE Elsewhere
    <2>1. UNCHANGED <<mtu, maximum_datagram_size, next_packet_id, packet, sent, rest>>
      BY <1>8 DEF Elsewhere, path
    <2>2. task'[Watched] = task[Watched] /\ idOf'[Watched] = idOf[Watched]
      <3>1. CASE \E i \in Ids : Datagram(i)
        BY <3>1 DEF Datagram
      <3>2. CASE \E o \in Objs : Expire(o)
        BY <3>2 DEF Expire
      <3>3. CASE Sent \/ LoopEnds
        BY <3>3 DEF Sent, LoopEnds
      <3>4. ASSUME NEW o \in Objs \ {Watched},
                   Opened(o) \/ TaskReceives(o) \/ TaskSends(o) \/ TaskDiscards(o) \/ TaskEnds(o)
            PROVE  task'[Watched] = task[Watched] /\ idOf'[Watched] = idOf[Watched]
        BY <1>1, <1>2, <3>4 DEF Opened, TaskReceives, TaskSends, TaskDiscards, TaskEnds
      <3> QED BY <1>8, <3>1, <3>2, <3>3, <3>4 DEF Elsewhere
    <2>3. PathTypeOK'
      BY <1>0, <2>1 DEF PathTypeOK
    <2>4. RelayWhole'
      BY <1>0, <2>1, <2>2, RelayKept
    <2> QED BY <2>3, <2>4 DEF PathIInv
  <1>9. CASE UNCHANGED allVars
    <2>1. UNCHANGED <<task, idOf, mtu, maximum_datagram_size, next_packet_id, packet, sent, rest>>
      BY <1>9 DEF allVars, vars, path
    <2>2. PathTypeOK'
      BY <1>0, <2>1 DEF PathTypeOK
    <2>3. RelayWhole'
      BY <1>0, <2>1, RelayKept
    <2> QED BY <2>2, <2>3 DEF PathIInv
  <1> QED BY <1>3, <1>4, <1>5, <1>6, <1>7, <1>8, <1>9 DEF PathNext

\* The fragments that are left are among those that were encoded.
LEMMA LeftAmong ==
    ASSUME NEW E, NEW x \in Seq(E), NEW y \in Seq(E), NEW w, Joins(x, y, w), NEW k \in DOMAIN y
    PROVE  Len(x) + k \in 1 .. Len(w) /\ w[Len(x) + k] = y[k]
  <1>1. PICK a \in Nat, b \in Nat : a = Len(x) /\ b = Len(y) /\ k \in 1 .. b
    OBVIOUS
  <1>2. Len(x \o y) = a + b /\ \A i \in 1 .. a + b : (x \o y)[i] = IF i <= a THEN x[i] ELSE y[i - a]
    BY <1>1, ConcatProperties
  <1>3. PICK i \in 1 .. a + b : i = a + k /\ ~(i <= a) /\ i - a = k
    BY <1>1
  <1>4. (x \o y)[i] = y[k]
    BY <1>2, <1>3
  <1> QED BY <1>1, <1>2, <1>3, <1>4 DEF Joins

\* The invariant is what is to be shown.
LEMMA InvariantReplyWhole == TypeOK /\ SessionsConsistent /\ PathIInv => ReplyWhole
  <1> SUFFICES ASSUME TypeOK, SessionsConsistent, PathIInv, task[Watched] = "relay" PROVE ReplyWhole
    BY DEF ReplyWhole
  <1>1. /\ packet.packet_id \in 0 .. Power(PacketWidth) - 1
        /\ packet.source \in Sources /\ packet.length \in Lengths
        /\ EncodedReply.ok /\ maximum_datagram_size \in Nat
    BY DEF PathIInv, PathTypeOK, RelayWhole
  <1>2. Watched \in Objs
    BY PathConstants
  <1>3. PICK id \in Ids : id = idOf[Watched]
    <2>1. task[Watched] # "none"
      OBVIOUS
    <2> QED BY <1>2, <2>1 DEF SessionsConsistent, EntryOwned
  <1>4. sessions[id] \in {Watched, None}
    <2>1. CASE loop = "done"
      BY <2>1 DEF SessionsConsistent, LoopOwned
    <2>2. CASE loop # "done"
      BY <1>2, <1>3, <2>2 DEF SessionsConsistent, TaskMapped
    <2> QED BY <2>1, <2>2
  <1>0. PICK D : D = EncodedReply.datagrams
    OBVIOUS
  <1>5. PICK x \in Seq(Seq(Byte)), y \in Seq(Seq(Byte)) : x = sent /\ y = rest /\ Joins(x, y, D)
    BY <1>0 DEF PathIInv, RelayWhole
  <1>6. PICK pid, source, length, maximum : /\ pid = packet.packet_id /\ source = packet.source /\ length = packet.length
                                            /\ maximum = maximum_datagram_size
    OBVIOUS
  <1>7. Fragmented(D, id, pid, source, Content(length), maximum)
    <2>1. EncodedReply = encode_fragments(id, pid, source, Content(length), maximum)
      BY <1>3, <1>6 DEF EncodedReply
    <2>2. /\ pid \in 0 .. Power(PacketWidth) - 1 /\ source \in Sources /\ length \in Lengths /\ maximum \in Nat
          /\ encode_fragments(id, pid, source, Content(length), maximum).ok
      BY <1>1, <1>6, <2>1
    <2>3. Fragmented(encode_fragments(id, pid, source, Content(length), maximum).datagrams,
                     id, pid, source, Content(length), maximum)
      BY <2>2, PacketFragmented
    <2> QED BY <1>0, <2>1, <2>3
  <1>8. PICK all : all = Received(D)
    OBVIOUS
  <1>9. /\ DOMAIN all = 1 .. Len(D) /\ Len(all) = Len(D) /\ Len(D) \in 1 .. MaxByte
        /\ \A k \in 1 .. Len(D) :
             /\ all[k].ok /\ all[k].session_id = id /\ all[k].packet_id = pid
             /\ all[k].destination = source
             /\ all[k].fragment_id = k - 1 /\ all[k].fragment_count = Len(D)
        /\ FlattenSeq([k \in DOMAIN all |-> all[k].payload]) = Content(length)
    <2>1. Answers(Received(D), Len(D), id, pid, source, Content(length))
      BY <1>7, FragmentsReceived
    <2> QED BY <1>8, <2>1 DEF Answers
  <1>10. \A k \in 1 .. Len(D) : Len(D[k]) <= maximum
    BY <1>7 DEF Fragmented
  <1>11. \A k \in DOMAIN y : Len(y[k]) <= maximum
    <2> TAKE k \in DOMAIN y
    <2>1. Len(x) + k \in 1 .. Len(D) /\ D[Len(x) + k] = y[k]
      BY <1>5, LeftAmong
    <2> QED BY <1>10, <2>1
  <1>12. sent \o rest = D
    BY <1>5 DEF Joins
  <1>13. \A k \in DOMAIN rest : Len(rest[k]) <= maximum_datagram_size
    BY <1>5, <1>6, <1>11
  <1>14. all = Received(sent \o rest)
    BY <1>8, <1>12
  <1>15. /\ Len(all) \in 1 .. MaxByte
         /\ FlattenSeq([k \in DOMAIN all |-> all[k].payload]) = Content(packet.length)
    BY <1>6, <1>9
  <1>16. \A k \in DOMAIN all :
             /\ all[k].ok
             /\ all[k].session_id = idOf[Watched] /\ sessions[all[k].session_id] \in {Watched, None}
             /\ all[k].packet_id = packet.packet_id
             /\ all[k].destination = packet.source
             /\ all[k].fragment_id = k - 1 /\ all[k].fragment_count = Len(all)
    BY <1>3, <1>4, <1>6, <1>9
  <1> QED BY <1>13, <1>14, <1>15, <1>16, Zenon DEF ReplyWhole

\* The fragments queued and those left are the packet as it was encoded with the
\* limit of the session, through every change of the MTU and of the sessions.
THEOREM PathInvariant == PathSpec => []PathIInv
  <1>1. PathSpec => []TypeOK /\ []SessionsConsistent
    BY PathImplementsSessions, PathConsistent, TypeCorrect, PTL
  <1> QED BY <1>1, PathInitIInv, PathNextIInv, PTL DEF PathSpec

\* A client that receives the fragments of a reply, through Salamander, gets the
\* packet of the remote host: of its session, complete, numbered from 0 below a
\* count that one byte holds, and none beyond the limit; for every base, widths,
\* salt, limits and packets, and wherever the fragments are cut off in between.
THEOREM PathReplyWhole == PathSpec => []ReplyWhole
  <1>1. PathSpec => []TypeOK /\ []SessionsConsistent
    BY PathImplementsSessions, PathConsistent, TypeCorrect, PTL
  <1> QED BY <1>1, PathInvariant, InvariantReplyWhole, PTL
=============================================================================
