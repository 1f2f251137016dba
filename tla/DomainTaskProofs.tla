--------------------------- MODULE DomainTaskProofs ----------------------------
(* What holds of a domain's task for all names, formats, answers and prices. *)
EXTENDS DomainTask, FoldLemmas, FunctionTheorems, TLAPS

(***************************************************************************)
(* Candidates, each once                                                   *)
(***************************************************************************)

AddressesOf(s) == {s[i].address : i \in DOMAIN s}
EachOnce(s) == \A i, j \in DOMAIN s : s[i].address = s[j].address => i = j

(* The least number of a set is in it. *)
LEMMA MinIsOne ==
  ASSUME NEW S \in SUBSET Nat, S # {}
  PROVE  Min(S) \in S /\ \A n \in S : Min(S) <= n
BY LeastNatural DEF Min

(* One candidate more. *)
LEMMA AddOne ==
  ASSUME NEW D, NEW out \in Seq(D), NEW c \in D, EachOnce(out)
  PROVE  /\ Add(out, c) \in Seq(D) /\ EachOnce(Add(out, c))
         /\ AddressesOf(Add(out, c)) = AddressesOf(out) \cup {c.address}
         /\ ToSet(Add(out, c)) \subseteq ToSet(out) \cup {c}
         /\ Len(out) <= Len(Add(out, c)) /\ \A i \in DOMAIN out : Add(out, c)[i] = out[i]
<1>1. CASE \E i \in DOMAIN out : out[i].address = c.address
  <2>1. Add(out, c) = out
    BY <1>1 DEF Add
  <2>2. c.address \in AddressesOf(out)
    BY <1>1 DEF AddressesOf
  <2>3. QED BY <2>1, <2>2
<1>2. CASE ~\E i \in DOMAIN out : out[i].address = c.address
  <2>1. Add(out, c) = Append(out, c)
    BY <1>2 DEF Add
  <2>2. PICK b \in Seq(D) : b = Append(out, c)
    <3>1. Append(out, c) \in Seq(D)
      OBVIOUS
    <3>2. QED BY <3>1
  <2>3. /\ Len(out) \in Nat /\ DOMAIN out = 1 .. Len(out) /\ DOMAIN b = 1 .. (Len(out) + 1)
        /\ Len(b) = Len(out) + 1
        /\ b[Len(out) + 1] = c /\ \A i \in 1 .. Len(out) : b[i] = out[i]
    BY <2>2
  <2>4. \A i \in DOMAIN b : i \in DOMAIN out \/ i = Len(out) + 1
    BY <2>3
  <2>5. Len(out) + 1 \in DOMAIN b /\ \A i \in DOMAIN out : i \in DOMAIN b
    BY <2>3
  <2>6. EachOnce(b)
    BY <1>2, <2>3, <2>4 DEF EachOnce
  <2>7. AddressesOf(b) = AddressesOf(out) \cup {c.address}
    BY <2>3, <2>4, <2>5 DEF AddressesOf
  <2>8. ToSet(b) \subseteq ToSet(out) \cup {c}
    BY <2>3, <2>4 DEF ToSet
  <2>9. QED BY <2>1, <2>2, <2>3, <2>6, <2>7, <2>8
<1>3. QED BY <1>1, <1>2

(* Distinct adds the candidates one after the other. *)
LEMMA DistinctRounds ==
  ASSUME NEW D, NEW s \in Seq(D)
  PROVE  \E v \in [0 .. Len(s) -> Seq(D)] :
           /\ v[0] = << >>
           /\ \A k \in 1 .. Len(s) : v[k] = Add(v[k - 1], s[k])
           /\ Distinct(s) = v[Len(s)]
<1> DEFINE n == Len(s)
           A == Seq(D)
           F == [p \in (1 .. n) \X A |-> Add(p[2], s[p[1]])]
           E(g) == [t \in SUBSET (1 .. n) |->
                     IF t = {} THEN << >> ELSE Add(g[t \ {Max(t)}], s[Max(t)])]
           G == CHOOSE g : g = E(g)
<1>1. PICK base \in A : base = << >>
  <2>1. << >> \in A
    OBVIOUS
  <2>2. QED BY <2>1
<1>2. n \in Nat /\ DOMAIN s = 1 .. n /\ \A k \in 1 .. n : s[k] \in D
  OBVIOUS
<1>3. F \in [(1 .. n) \X A -> A]
  <2>1. ASSUME NEW k \in 1 .. n, NEW a \in A PROVE Add(a, s[k]) \in A
    BY <1>2 DEF Add
  <2>2. QED BY <2>1
<1>4. \A k \in 1 .. n, a \in A : F[<<k, a>>] = Add(a, s[k])
  OBVIOUS
<1>5. \A t \in SUBSET (1 .. n) : t # {} => Max(t) \in 1 .. n
  BY <1>2, MaxOfPrefix
<1> HIDE DEF F, A, n
<1>6. \E g : g = E(g)
  <2>1. PICK g \in [SUBSET (1 .. n) -> A] : LeftTabled(g, n, base, F)
    BY <1>1, <1>2, <1>3, LeftTable
  <2>2. ASSUME NEW t \in SUBSET (1 .. n) PROVE g[t] = E(g)[t]
    <3>1. CASE t = {}
      BY <1>1, <2>1, <3>1 DEF LeftTabled
    <3>2. CASE t # {}
      BY <1>4, <1>5, <2>1, <3>2 DEF LeftTabled
    <3>3. QED BY <3>1, <3>2
  <2>3. QED BY <2>2
<1>7. G = E(G)
  BY <1>6
<1>8. Distinct(s) = G[1 .. n]
  BY <1>2 DEF Distinct, FoldLeft, MapThenFoldSet
<1> HIDE DEF G
<1>9. FoldsLike(G, n, A, base, F)
  BY <1>1, <1>4, <1>5, <1>7 DEF FoldsLike
<1>10. PICK v \in [0 .. n -> A] : GoesThrough(v, n, base, F) /\ G[1 .. n] = v[n]
  <2>1. LeftEnds(G, n, A, base, F)
    BY <1>1, <1>2, <1>3, <1>9, LeftValues
  <2>2. QED BY <2>1 DEF LeftEnds
<1>11. ASSUME NEW k \in 1 .. n PROVE v[k] = Add(v[k - 1], s[k])
  <2>1. k - 1 \in 0 .. n
    BY <1>2
  <2>2. v[k - 1] \in A
    BY <1>10, <2>1
  <2>3. QED BY <1>4, <1>10, <2>2 DEF GoesThrough
<1>12. QED BY <1>1, <1>8, <1>10, <1>11 DEF GoesThrough, n, A

(* Every address once, and none is lost. *)
LEMMA DistinctIs ==
  ASSUME NEW D, NEW s \in Seq(D)
  PROVE  /\ Distinct(s) \in Seq(D) /\ EachOnce(Distinct(s))
         /\ AddressesOf(Distinct(s)) = AddressesOf(s)
         /\ ToSet(Distinct(s)) \subseteq ToSet(s)
<1> DEFINE n == Len(s)
<1>1. PICK v \in [0 .. n -> Seq(D)] :
        v[0] = << >> /\ (\A k \in 1 .. n : v[k] = Add(v[k - 1], s[k])) /\ Distinct(s) = v[n]
  BY DistinctRounds
<1>2. n \in Nat /\ DOMAIN s = 1 .. n /\ \A k \in 1 .. n : s[k] \in D
  OBVIOUS
<1> DEFINE Good(k) == /\ EachOnce(v[k])
                      /\ AddressesOf(v[k]) = {s[i].address : i \in 1 .. k}
                      /\ ToSet(v[k]) \subseteq {s[i] : i \in 1 .. k}
           T == {k \in 0 .. n : Good(k)}
<1> HIDE DEF n
<1>3. 0 \in T
  <2>1. 1 .. 0 = {} /\ 0 \in 0 .. n
    BY <1>2
  <2>2. DOMAIN v[0] = {}
    BY <1>1
  <2>3. EachOnce(v[0]) /\ AddressesOf(v[0]) = {} /\ ToSet(v[0]) = {}
    BY <2>2 DEF EachOnce, AddressesOf, ToSet
  <2>4. {s[i].address : i \in 1 .. 0} = {} /\ {s[i] : i \in 1 .. 0} = {}
    BY <2>1
  <2>5. Good(0)
    BY <2>3, <2>4
  <2>6. QED BY <2>1, <2>5
<1>4. ASSUME NEW k \in 1 .. n, k - 1 \in T PROVE k \in T
  <2>1. v[k] = Add(v[k - 1], s[k]) /\ v[k - 1] \in Seq(D) /\ k \in 0 .. n /\ s[k] \in D
    BY <1>1, <1>2
  <2>2. /\ EachOnce(v[k]) /\ AddressesOf(v[k]) = AddressesOf(v[k - 1]) \cup {s[k].address}
        /\ ToSet(v[k]) \subseteq ToSet(v[k - 1]) \cup {s[k]}
    <3>1. PICK a \in Seq(D), c \in D : a = v[k - 1] /\ c = s[k]
      BY <2>1
    <3>2. EachOnce(a)
      BY <1>4, <3>1
    <3>3. /\ EachOnce(Add(a, c)) /\ AddressesOf(Add(a, c)) = AddressesOf(a) \cup {c.address}
          /\ ToSet(Add(a, c)) \subseteq ToSet(a) \cup {c}
      BY <3>2, AddOne
    <3>4. v[k] = Add(a, c)
      BY <2>1, <3>1
    <3>5. QED BY <3>1, <3>3, <3>4
  <2>3. 1 .. k = (1 .. (k - 1)) \cup {k}
    BY <1>2
  <2>4. QED BY <1>4, <2>1, <2>2, <2>3
<1>5. T \in SUBSET (0 .. n)
  OBVIOUS
<1> HIDE DEF T
<1>6. n \in T
  BY <1>2, <1>3, <1>4, <1>5, LeftInduction
<1>7. v[n] \in Seq(D)
  BY <1>1, <1>2
<1>8. QED BY <1>1, <1>2, <1>6, <1>7 DEF T, AddressesOf, ToSet


(***************************************************************************)
(* Only and Filled, round by round                                         *)
(***************************************************************************)

(* One round of Only. *)
Taken(out, x, T) == IF x \in T THEN Append(out, x) ELSE out

LEMMA OnlyRounds ==
  ASSUME NEW D, NEW s \in Seq(D), NEW T
  PROVE  \E v \in [0 .. Len(s) -> Seq(D)] :
           /\ v[0] = << >>
           /\ \A k \in 1 .. Len(s) : v[k] = Taken(v[k - 1], s[k], T)
           /\ Only(s, T) = v[Len(s)]
<1> DEFINE n == Len(s)
           A == Seq(D)
           F == [p \in (1 .. n) \X A |-> Taken(p[2], s[p[1]], T)]
           E(g) == [t \in SUBSET (1 .. n) |->
                     IF t = {} THEN << >> ELSE Taken(g[t \ {Max(t)}], s[Max(t)], T)]
           G == CHOOSE g : g = E(g)
<1>1. PICK base \in A : base = << >>
  <2>1. << >> \in A
    OBVIOUS
  <2>2. QED BY <2>1
<1>2. n \in Nat /\ DOMAIN s = 1 .. n /\ \A k \in 1 .. n : s[k] \in D
  OBVIOUS
<1>3. F \in [(1 .. n) \X A -> A]
  <2>1. ASSUME NEW k \in 1 .. n, NEW a \in A PROVE Taken(a, s[k], T) \in A
    BY <1>2 DEF Taken
  <2>2. QED BY <2>1
<1>4. \A k \in 1 .. n, a \in A : F[<<k, a>>] = Taken(a, s[k], T)
  OBVIOUS
<1>5. \A t \in SUBSET (1 .. n) : t # {} => Max(t) \in 1 .. n
  BY <1>2, MaxOfPrefix
<1> HIDE DEF F, A, n
<1>6. \E g : g = E(g)
  <2>1. PICK g \in [SUBSET (1 .. n) -> A] : LeftTabled(g, n, base, F)
    BY <1>1, <1>2, <1>3, LeftTable
  <2>2. ASSUME NEW t \in SUBSET (1 .. n) PROVE g[t] = E(g)[t]
    <3>1. CASE t = {}
      BY <1>1, <2>1, <3>1 DEF LeftTabled
    <3>2. CASE t # {}
      BY <1>4, <1>5, <2>1, <3>2 DEF LeftTabled
    <3>3. QED BY <3>1, <3>2
  <2>3. QED BY <2>2
<1>7. G = E(G)
  BY <1>6
<1>8. Only(s, T) = G[1 .. n]
  BY <1>2 DEF Only, Taken, FoldLeft, MapThenFoldSet
<1> HIDE DEF G
<1>9. FoldsLike(G, n, A, base, F)
  BY <1>1, <1>4, <1>5, <1>7 DEF FoldsLike
<1>10. PICK v \in [0 .. n -> A] : GoesThrough(v, n, base, F) /\ G[1 .. n] = v[n]
  <2>1. LeftEnds(G, n, A, base, F)
    BY <1>1, <1>2, <1>3, <1>9, LeftValues
  <2>2. QED BY <2>1 DEF LeftEnds
<1>11. ASSUME NEW k \in 1 .. n PROVE v[k] = Taken(v[k - 1], s[k], T)
  <2>1. k - 1 \in 0 .. n
    BY <1>2
  <2>2. v[k - 1] \in A
    BY <1>10, <2>1
  <2>3. QED BY <1>4, <1>10, <2>2 DEF GoesThrough
<1>12. QED BY <1>1, <1>8, <1>10, <1>11 DEF GoesThrough, n, A

LEMMA AppendSet ==
  ASSUME NEW D, NEW a \in Seq(D), NEW x \in D
  PROVE  ToSet(Append(a, x)) = ToSet(a) \cup {x}
<1>1. PICK b \in Seq(D) : b = Append(a, x)
  <2>1. Append(a, x) \in Seq(D)
    OBVIOUS
  <2>2. QED BY <2>1
<1>2. /\ Len(a) \in Nat /\ DOMAIN a = 1 .. Len(a) /\ DOMAIN b = 1 .. (Len(a) + 1)
      /\ b[Len(a) + 1] = x /\ \A i \in 1 .. Len(a) : b[i] = a[i]
  BY <1>1
<1>3. \A i \in DOMAIN b : i \in DOMAIN a \/ i = Len(a) + 1
  BY <1>2
<1>4. Len(a) + 1 \in DOMAIN b /\ \A i \in DOMAIN a : i \in DOMAIN b
  BY <1>2
<1>5. ToSet(b) = ToSet(a) \cup {x}
  BY <1>2, <1>3, <1>4 DEF ToSet
<1>6. QED BY <1>1, <1>5

(* Only leaves what the set has. *)
LEMMA OnlyIs ==
  ASSUME NEW D, NEW s \in Seq(D), NEW T
  PROVE  Only(s, T) \in Seq(D) /\ ToSet(Only(s, T)) = ToSet(s) \cap T
<1> DEFINE n == Len(s)
<1>1. PICK v \in [0 .. n -> Seq(D)] :
        v[0] = << >> /\ (\A k \in 1 .. n : v[k] = Taken(v[k - 1], s[k], T)) /\ Only(s, T) = v[n]
  BY OnlyRounds, SMTT(30)
<1>2. n \in Nat /\ DOMAIN s = 1 .. n /\ \A k \in 1 .. n : s[k] \in D
  OBVIOUS
<1> DEFINE Good(k) == ToSet(v[k]) = {s[i] : i \in 1 .. k} \cap T
           U == {k \in 0 .. n : Good(k)}
<1> HIDE DEF n
<1>3. 0 \in U
  <2>1. 1 .. 0 = {} /\ 0 \in 0 .. n
    BY <1>2
  <2>2. ToSet(v[0]) = {}
    BY <1>1 DEF ToSet
  <2>3. {s[i] : i \in 1 .. 0} = {}
    BY <2>1
  <2>4. QED BY <2>1, <2>2, <2>3
<1>4. ASSUME NEW k \in 1 .. n, k - 1 \in U PROVE k \in U
  <2>1. v[k] = Taken(v[k - 1], s[k], T) /\ v[k - 1] \in Seq(D) /\ k \in 0 .. n /\ s[k] \in D
    BY <1>1, <1>2
  <2>2. 1 .. k = (1 .. (k - 1)) \cup {k}
    BY <1>2
  <2>3. ToSet(v[k]) = IF s[k] \in T THEN ToSet(v[k - 1]) \cup {s[k]} ELSE ToSet(v[k - 1])
    <3>1. PICK a \in Seq(D), x \in D : a = v[k - 1] /\ x = s[k]
      BY <2>1
    <3>2. ToSet(Append(a, x)) = ToSet(a) \cup {x}
      BY AppendSet
    <3>3. v[k] = Taken(a, x, T)
      BY <2>1, <3>1
    <3>4. ToSet(v[k]) = IF x \in T THEN ToSet(a) \cup {x} ELSE ToSet(a)
      BY <3>2, <3>3 DEF Taken
    <3>5. QED BY <3>1, <3>4
  <2>4. ToSet(v[k - 1]) = {s[i] : i \in 1 .. (k - 1)} \cap T
    BY <1>4
  <2>5. Good(k)
    BY <2>2, <2>3, <2>4
  <2>6. QED BY <2>1, <2>5
<1>5. U \in SUBSET (0 .. n)
  OBVIOUS
<1> HIDE DEF U
<1>6. n \in U
  BY <1>2, <1>3, <1>4, <1>5, LeftInduction
<1>7. v[n] \in Seq(D)
  BY <1>1, <1>2
<1>8. QED BY <1>1, <1>2, <1>6, <1>7 DEF U, ToSet

(* One round of Filled. *)
Filling(list, c, max) == IF Len(list) >= max + 2 THEN list ELSE Add(list, c)
FilledFrom(base, s, max) ==
  FoldLeft(LAMBDA list, c : IF Len(list) >= max + 2 THEN list ELSE Add(list, c), base, s)

FilledEnds(D, begun, s, max) ==
  \E v \in [0 .. Len(s) -> Seq(D)] :
    /\ v[0] = begun
    /\ \A k \in 1 .. Len(s) : v[k] = Filling(v[k - 1], s[k], max)
    /\ FilledFrom(begun, s, max) = v[Len(s)]

LEMMA FilledRounds ==
  ASSUME NEW D, NEW s \in Seq(D), NEW begun \in Seq(D), NEW max
  PROVE  FilledEnds(D, begun, s, max)
<1> DEFINE n == Len(s)
           A == Seq(D)
           F == [p \in (1 .. n) \X A |-> Filling(p[2], s[p[1]], max)]
           E(g) == [t \in SUBSET (1 .. n) |->
                     IF t = {} THEN begun ELSE Filling(g[t \ {Max(t)}], s[Max(t)], max)]
           G == CHOOSE g : g = E(g)
<1>1. PICK base \in A : base = begun
  <2>1. begun \in A
    OBVIOUS
  <2>2. QED BY <2>1
<1>2. n \in Nat /\ DOMAIN s = 1 .. n /\ \A k \in 1 .. n : s[k] \in D
  OBVIOUS
<1>3. F \in [(1 .. n) \X A -> A]
  <2>1. ASSUME NEW k \in 1 .. n, NEW a \in A PROVE Filling(a, s[k], max) \in A
    BY <1>2 DEF Filling, Add
  <2>2. QED BY <2>1
<1>4. \A k \in 1 .. n, a \in A : F[<<k, a>>] = Filling(a, s[k], max)
  OBVIOUS
<1>5. \A t \in SUBSET (1 .. n) : t # {} => Max(t) \in 1 .. n
  BY <1>2, MaxOfPrefix
<1> HIDE DEF F, A, n
<1>6. \E g : g = E(g)
  <2>1. PICK g \in [SUBSET (1 .. n) -> A] : LeftTabled(g, n, base, F)
    BY <1>1, <1>2, <1>3, LeftTable
  <2>2. ASSUME NEW t \in SUBSET (1 .. n) PROVE g[t] = E(g)[t]
    <3>1. CASE t = {}
      BY <1>1, <2>1, <3>1 DEF LeftTabled
    <3>2. CASE t # {}
      BY <1>4, <1>5, <2>1, <3>2 DEF LeftTabled
    <3>3. QED BY <3>1, <3>2
  <2>3. QED BY <2>2
<1>7. G = E(G)
  BY <1>6
<1>8. FilledFrom(begun, s, max) = G[1 .. n]
  BY <1>2 DEF FilledFrom, Filling, FoldLeft, MapThenFoldSet
<1> HIDE DEF G
<1>9. FoldsLike(G, n, A, base, F)
  BY <1>1, <1>4, <1>5, <1>7 DEF FoldsLike
<1>10. PICK v \in [0 .. n -> A] : GoesThrough(v, n, base, F) /\ G[1 .. n] = v[n]
  <2>1. LeftEnds(G, n, A, base, F)
    BY <1>1, <1>2, <1>3, <1>9, LeftValues
  <2>2. QED BY <2>1 DEF LeftEnds
<1>11. ASSUME NEW k \in 1 .. n PROVE v[k] = Filling(v[k - 1], s[k], max)
  <2>1. k - 1 \in 0 .. n
    BY <1>2
  <2>2. v[k - 1] \in A
    BY <1>10, <2>1
  <2>3. QED BY <1>4, <1>10, <2>2 DEF GoesThrough
<1>12. QED BY <1>1, <1>8, <1>10, <1>11 DEF GoesThrough, n, A, FilledEnds

(* What was there stays, in its place; every address once. *)
LEMMA FilledIs ==
  ASSUME NEW D, NEW out \in Seq(D), NEW more \in Seq(D), more # << >>, NEW max, EachOnce(out)
  PROVE  /\ Filled(out, more, max) \in Seq(D) /\ EachOnce(Filled(out, more, max))
         /\ Len(out) <= Len(Filled(out, more, max))
         /\ \A i \in DOMAIN out : Filled(out, more, max)[i] = out[i]
<1>1. PICK s \in Seq(D) : s = Tail(more)
  <2>1. Tail(more) \in Seq(D)
    OBVIOUS
  <2>2. QED BY <2>1
<1>2. PICK base \in Seq(D) : base = Add(out, Head(more))
  <2>1. Head(more) \in D
    OBVIOUS
  <2>2. QED BY <2>1, AddOne
<1>3. EachOnce(base) /\ Len(out) <= Len(base) /\ \A i \in DOMAIN out : base[i] = out[i]
  <2>1. PICK c \in D : base = Add(out, c)
    <3>1. Head(more) \in D
      OBVIOUS
    <3>2. QED BY <1>2, <3>1
  <2>2. /\ EachOnce(Add(out, c)) /\ Len(out) <= Len(Add(out, c))
        /\ \A i \in DOMAIN out : Add(out, c)[i] = out[i]
    BY AddOne
  <2>3. QED BY <2>1, <2>2
<1> DEFINE n == Len(s)
<1>4. PICK v \in [0 .. n -> Seq(D)] :
        v[0] = base /\ (\A k \in 1 .. n : v[k] = Filling(v[k - 1], s[k], max))
        /\ FilledFrom(base, s, max) = v[n]
  <2>1. FilledEnds(D, base, s, max)
    BY FilledRounds
  <2>2. QED BY <2>1 DEF FilledEnds
<1>5. n \in Nat /\ DOMAIN s = 1 .. n /\ \A k \in 1 .. n : s[k] \in D
  OBVIOUS
<1> DEFINE Good(k) == /\ EachOnce(v[k]) /\ Len(out) <= Len(v[k])
                      /\ \A i \in DOMAIN out : v[k][i] = out[i]
           U == {k \in 0 .. n : Good(k)}
<1> HIDE DEF n
<1>6. 0 \in U
  BY <1>3, <1>4, <1>5
<1>7. ASSUME NEW k \in 1 .. n, k - 1 \in U PROVE k \in U
  <2>1. PICK a \in Seq(D), c \in D : a = v[k - 1] /\ c = s[k] /\ v[k] = Filling(a, c, max)
    <3>1. v[k - 1] \in Seq(D) /\ s[k] \in D /\ v[k] = Filling(v[k - 1], s[k], max)
      BY <1>4, <1>5
    <3>2. QED BY <3>1
  <2>2. EachOnce(a) /\ Len(out) <= Len(a) /\ \A i \in DOMAIN out : a[i] = out[i]
    BY <1>7, <2>1
  <2>3. /\ EachOnce(Add(a, c)) /\ Len(a) <= Len(Add(a, c)) /\ Add(a, c) \in Seq(D)
        /\ \A i \in DOMAIN a : Add(a, c)[i] = a[i]
    BY <2>2, AddOne
  <2>4. \A i \in DOMAIN out : i \in DOMAIN a
    BY <2>2
  <2>5. Len(out) <= Len(Add(a, c))
    BY <2>2, <2>3
  <2>6. Good(k)
    BY <2>1, <2>2, <2>3, <2>4, <2>5 DEF Filling
  <2>7. k \in 0 .. n
    BY <1>5
  <2>8. QED BY <2>6, <2>7
<1>8. U \in SUBSET (0 .. n)
  OBVIOUS
<1> HIDE DEF U
<1>9. n \in U
  BY <1>5, <1>6, <1>7, <1>8, LeftInduction
<1>10. v[n] \in Seq(D)
  BY <1>4, <1>5
<1>11. Filled(out, more, max) = v[n]
  BY <1>1, <1>2, <1>4 DEF Filled, FilledFrom
<1>12. QED BY <1>9, <1>10, <1>11 DEF U


(* What the values of FoldLeft are when the function is given. *)
LEMMA Through ==
  ASSUME NEW n \in Nat, NEW A, NEW base \in A, NEW F \in [(1 .. n) \X A -> A]
  PROVE  \E v \in [0 .. n -> A] : GoesThrough(v, n, base, F)
<1>1. PICK g \in [SUBSET (1 .. n) -> A] : LeftTabled(g, n, base, F)
  BY LeftTable
<1>2. {} \in SUBSET (1 .. n)
  OBVIOUS
<1>3. FoldsLike(g, n, A, base, F)
  BY <1>1, <1>2 DEF LeftTabled, FoldsLike
<1>4. LeftEnds(g, n, A, base, F)
  BY <1>3, LeftValues
<1>5. QED BY <1>4 DEF LeftEnds

LEMMA JoinedSet ==
  ASSUME NEW D, NEW a \in Seq(D), NEW b \in Seq(D)
  PROVE  a \o b \in Seq(D) /\ ToSet(a \o b) = ToSet(a) \cup ToSet(b)
<1>1. PICK c \in Seq(D) : c = a \o b
  <2>1. a \o b \in Seq(D)
    OBVIOUS
  <2>2. QED BY <2>1
<1>2. /\ Len(a) \in Nat /\ Len(b) \in Nat /\ DOMAIN a = 1 .. Len(a) /\ DOMAIN b = 1 .. Len(b)
      /\ DOMAIN c = 1 .. (Len(a) + Len(b))
      /\ \A i \in 1 .. Len(a) : c[i] = a[i]
      /\ \A i \in 1 .. Len(b) : c[Len(a) + i] = b[i]
  BY <1>1
<1>3. ToSet(c) \subseteq ToSet(a) \cup ToSet(b)
  <2>1. ASSUME NEW i \in DOMAIN c PROVE c[i] \in ToSet(a) \cup ToSet(b)
    <3>1. CASE i \in 1 .. Len(a)
      BY <1>2, <3>1 DEF ToSet
    <3>2. CASE i \notin 1 .. Len(a)
      <4>1. i - Len(a) \in 1 .. Len(b) /\ Len(a) + (i - Len(a)) = i
        BY <1>2, <3>2
      <4>2. c[i] = b[i - Len(a)]
        BY <1>2, <4>1
      <4>3. QED BY <1>2, <4>1, <4>2 DEF ToSet
    <3>3. QED BY <3>1, <3>2
  <2>2. QED BY <2>1 DEF ToSet
<1>4. ToSet(a) \subseteq ToSet(c) /\ ToSet(b) \subseteq ToSet(c)
  <2>1. \A i \in 1 .. Len(a) : i \in DOMAIN c
    BY <1>2
  <2>2. \A i \in 1 .. Len(b) : Len(a) + i \in DOMAIN c
    BY <1>2
  <2>3. QED BY <1>2, <2>1, <2>2 DEF ToSet
<1>5. QED BY <1>1, <1>3, <1>4

(* FlattenSeq loses nothing. *)
LEMMA FlattenIs ==
  ASSUME NEW D, NEW seqs \in Seq(Seq(D))
  PROVE  /\ FlattenSeq(seqs) \in Seq(D)
         /\ ToSet(FlattenSeq(seqs)) = UNION {ToSet(seqs[i]) : i \in DOMAIN seqs}
<1> DEFINE n == Len(seqs)
           E(g) == [i \in 1 .. n |-> IF i = 1 THEN seqs[i] ELSE g[i - 1] \o seqs[i]]
           G == CHOOSE g : g = E(g)
           A == Seq(D)
           F == [p \in (1 .. n) \X A |-> p[2] \o seqs[p[1]]]
<1>1. n \in Nat /\ DOMAIN seqs = 1 .. n /\ \A i \in 1 .. n : seqs[i] \in Seq(D)
  OBVIOUS
<1>2. CASE n = 0
  <2>1. seqs = << >> /\ FlattenSeq(seqs) = seqs
    BY <1>2 DEF FlattenSeq
  <2>2. DOMAIN seqs = {} /\ seqs \in Seq(D)
    BY <2>1
  <2>3. QED BY <2>1, <2>2 DEF ToSet
<1>3. CASE n # 0
  <2>1. FlattenSeq(seqs) = G[n]
    BY <1>3 DEF FlattenSeq
  <2>2. F \in [(1 .. n) \X A -> A]
    BY <1>1
  <2>3. \A k \in 1 .. n, a \in A : F[<<k, a>>] = a \o seqs[k]
    OBVIOUS
  <2>4. PICK base \in A : base = << >>
    <3>1. << >> \in A
      OBVIOUS
    <3>2. QED BY <3>1
  <2> HIDE DEF n, F, A
  <2>5. PICK v \in [0 .. n -> A] : GoesThrough(v, n, base, F)
    BY <1>1, <2>2, <2>4, Through
  <2>6. \A k \in 1 .. n : k - 1 \in 0 .. n /\ v[k] = v[k - 1] \o seqs[k] /\ v[k] \in A
    <3>1. \A k \in 1 .. n : k - 1 \in 0 .. n /\ k \in 0 .. n
      BY <1>1
    <3>2. QED BY <2>3, <2>5, <3>1 DEF GoesThrough
  <2>7. v[1] = seqs[1]
    <3>1. 1 \in 1 .. n /\ 1 - 1 = 0
      BY <1>1, <1>3
    <3>2. v[1] = << >> \o seqs[1]
      BY <2>4, <2>5, <2>6, <3>1 DEF GoesThrough
    <3>3. seqs[1] \in Seq(D)
      BY <1>1, <3>1
    <3>4. QED BY <3>2, <3>3
  <2>8. \E g : g = E(g)
    <3> DEFINE g == [k \in 1 .. n |-> v[k]]
    <3>1. ASSUME NEW k \in 1 .. n PROVE g[k] = E(g)[k]
      <4>1. CASE k = 1
        BY <2>7, <4>1
      <4>2. CASE k # 1
        <5>1. k - 1 \in 1 .. n
          BY <1>1, <4>2
        <5>2. QED BY <2>6, <4>2, <5>1
      <4>3. QED BY <4>1, <4>2
    <3>2. g = E(g)
      BY <3>1
    <3>3. QED BY <3>2
  <2>9. G = E(G)
    BY <2>8
  <2> HIDE DEF G
  <2>10. \A k \in 1 .. n : G[k] = IF k = 1 THEN seqs[k] ELSE G[k - 1] \o seqs[k]
    BY <2>9
  <2> DEFINE Good(k) == /\ G[k] \in Seq(D)
                        /\ ToSet(G[k]) = UNION {ToSet(seqs[i]) : i \in 1 .. k}
             T == {k \in 0 .. n : k = 0 \/ Good(k)}
  <2>11. 0 \in T
    BY <1>1
  <2>12. ASSUME NEW k \in 1 .. n, k - 1 \in T PROVE k \in T
    <3>1. k \in 0 .. n /\ 1 .. k = (1 .. (k - 1)) \cup {k} /\ seqs[k] \in Seq(D)
      BY <1>1
    <3>2. UNION {ToSet(seqs[i]) : i \in 1 .. k} = (UNION {ToSet(seqs[i]) : i \in 1 .. (k - 1)}) \cup ToSet(seqs[k])
      BY <3>1
    <3>3. CASE k = 1
      <4>1. G[k] = seqs[k]
        BY <2>10, <3>3
      <4>2. 1 .. (k - 1) = {}
        BY <3>3
      <4>3. QED BY <3>1, <3>2, <4>1, <4>2
    <3>4. CASE k # 1
      <4>1. k - 1 # 0
        BY <1>1, <3>4
      <4>2. Good(k - 1)
        BY <2>12, <4>1
      <4>3. PICK a \in Seq(D) : a = G[k - 1]
        BY <4>2
      <4>4. G[k] = a \o seqs[k]
        BY <2>10, <3>4, <4>3
      <4>5. a \o seqs[k] \in Seq(D) /\ ToSet(a \o seqs[k]) = ToSet(a) \cup ToSet(seqs[k])
        BY <3>1, JoinedSet
      <4>6. QED BY <3>1, <3>2, <4>2, <4>3, <4>4, <4>5
    <3>5. QED BY <3>3, <3>4
  <2>13. T \in SUBSET (0 .. n)
    OBVIOUS
  <2> HIDE DEF T
  <2>14. n \in T
    BY <1>1, <2>11, <2>12, <2>13, LeftInduction
  <2>15. Good(n)
    BY <1>3, <2>14 DEF T
  <2>16. QED BY <1>1, <2>1, <2>15
<1>4. QED BY <1>2, <1>3

(* A list with every address once is as long as it has addresses. *)
LEMMA OnceLength ==
  ASSUME NEW D, NEW s \in Seq(D), EachOnce(s)
  PROVE  IsFiniteSet(AddressesOf(s)) /\ Cardinality(AddressesOf(s)) = Len(s)
<1> DEFINE f == [i \in 1 .. Len(s) |-> s[i].address]
<1>1. Len(s) \in Nat /\ DOMAIN s = 1 .. Len(s)
  OBVIOUS
<1>2. f \in Bijection(1 .. Len(s), AddressesOf(s))
  <2>1. f \in [1 .. Len(s) -> AddressesOf(s)]
    BY <1>1 DEF AddressesOf
  <2>2. \A i, j \in 1 .. Len(s) : f[i] = f[j] => i = j
    BY <1>1 DEF EachOnce
  <2>3. \A a \in AddressesOf(s) : \E i \in 1 .. Len(s) : f[i] = a
    BY <1>1 DEF AddressesOf
  <2> HIDE DEF f
  <2>4. QED BY <2>1, <2>2, <2>3, Fun_IsBij
<1>3. IsFiniteSet(1 .. Len(s)) /\ Cardinality(1 .. Len(s)) = Len(s)
  BY <1>1, FS_Interval
<1>4. ExistsBijection(1 .. Len(s), AddressesOf(s))
  BY <1>2 DEF ExistsBijection
<1>5. QED BY <1>3, <1>4, FS_Bijection


(***************************************************************************)
(* What generate_candidates and infer_pattern give                         *)
(***************************************************************************)

(* A name: as many addresses under each format. *)
NameOver(name, P, A) ==
  /\ \A f \in P : name[f] \in Seq(A)
  /\ \A f, g \in P : Len(name[f]) = Len(name[g])

MadeOf(name, f) == IF f = NoFormat THEN {} ELSE ToSet(name[f])
MadeBy(name, formats) == UNION {ToSet(name[formats[i]]) : i \in DOMAIN formats}

(* The first part of a list. *)
LEMMA FirstPart ==
  ASSUME NEW D, NEW s \in Seq(D), NEW max \in Nat, EachOnce(s)
  PROVE  /\ SubSeq(s, 1, Least(max, Len(s))) \in Seq(D)
         /\ EachOnce(SubSeq(s, 1, Least(max, Len(s))))
         /\ AddressesOf(SubSeq(s, 1, Least(max, Len(s)))) \subseteq AddressesOf(s)
         /\ Cardinality(AddressesOf(s)) <= max => SubSeq(s, 1, Least(max, Len(s))) = s
         /\ s # << >> /\ max > 0 => SubSeq(s, 1, Least(max, Len(s))) # << >>
<1> DEFINE m == Least(max, Len(s))
<1>1. Len(s) \in Nat /\ DOMAIN s = 1 .. Len(s) /\ m \in Nat /\ m <= Len(s) /\ \A i \in 1 .. m : s[i] \in D
  BY DEF Least
<1>2. Cardinality(AddressesOf(s)) <= max => m = Len(s)
  <2>1. Cardinality(AddressesOf(s)) = Len(s)
    BY OnceLength
  <2>2. \A k \in Nat : k <= max => Least(max, k) = k
    BY DEF Least
  <2>3. QED BY <1>1, <2>1, <2>2
<1>3. s # << >> /\ max > 0 => m > 0
  BY <1>1 DEF Least
<1> HIDE DEF m
<1>4. PICK t \in Seq(D) : t = SubSeq(s, 1, m)
  <2>1. SubSeq(s, 1, m) \in Seq(D)
    BY <1>1
  <2>2. QED BY <2>1
<1>5. DOMAIN t = 1 .. m /\ Len(t) = m /\ \A i \in 1 .. m : t[i] = s[i]
  BY <1>1, <1>4
<1>6. \A i \in 1 .. m : i \in DOMAIN s
  BY <1>1
<1>7. EachOnce(t) /\ AddressesOf(t) \subseteq AddressesOf(s)
  BY <1>5, <1>6 DEF EachOnce, AddressesOf
<1>8. m = Len(s) => t = s
  BY <1>1, <1>5
<1>9. m > 0 => t # << >>
  BY <1>5
<1>10. QED BY <1>2, <1>3, <1>4, <1>7, <1>8, <1>9 DEF m

(* generate_candidates: addresses the formats make of the name, each once, and all of
   them when they are few. *)
LEMMA GeneratedIs ==
  ASSUME NEW A, NEW P, NEW name, NameOver(name, P, A),
         NEW formats \in Seq(P), formats # << >>, NEW max \in Nat \ {0}
  PROVE  /\ Generated(name, formats, max) \in Seq([address : A, format : P])
         /\ EachOnce(Generated(name, formats, max))
         /\ AddressesOf(Generated(name, formats, max)) \subseteq MadeBy(name, formats)
         /\ Cardinality(MadeBy(name, formats)) <= max =>
              AddressesOf(Generated(name, formats, max)) = MadeBy(name, formats)
         /\ name[formats[1]] # << >> => Generated(name, formats, max) # << >>
<1> DEFINE D == [address : A, format : P]
           variant(v) == [i \in DOMAIN formats |-> Candidate(name[formats[i]][v], formats[i])]
           walk == [v \in DOMAIN name[formats[1]] |-> variant(v)]
           n == Len(name[formats[1]])
           m == Len(formats)
<1>1. /\ m \in Nat \ {0} /\ DOMAIN formats = 1 .. m /\ \A i \in 1 .. m : formats[i] \in P
      /\ 1 \in 1 .. m
  OBVIOUS
<1>2. n \in Nat /\ \A i \in 1 .. m : name[formats[i]] \in Seq(A) /\ DOMAIN name[formats[i]] = 1 .. n
  <2>1. ASSUME NEW i \in 1 .. m PROVE name[formats[i]] \in Seq(A) /\ DOMAIN name[formats[i]] = 1 .. n
    <3>1. name[formats[i]] \in Seq(A) /\ Len(name[formats[i]]) = n
      BY <1>1 DEF NameOver
    <3>2. QED BY <3>1
  <2>2. name[formats[1]] \in Seq(A)
    BY <1>1, <2>1
  <2>3. n \in Nat
    BY <2>2
  <2>4. QED BY <2>1, <2>3
<1> HIDE DEF n, m
<1>3. \A v \in 1 .. n, i \in 1 .. m :
        /\ Candidate(name[formats[i]][v], formats[i]) \in D
        /\ Candidate(name[formats[i]][v], formats[i]).address = name[formats[i]][v]
  <2>1. \A v \in 1 .. n, i \in 1 .. m : name[formats[i]][v] \in A /\ formats[i] \in P
    BY <1>1, <1>2
  <2>2. QED BY <2>1 DEF Candidate
<1> HIDE DEF D
<1>4. \A v \in 1 .. n : variant(v) \in Seq(D) /\ DOMAIN variant(v) = 1 .. m
  BY <1>1, <1>3
<1> HIDE DEF variant
<1>5. walk \in Seq(Seq(D)) /\ DOMAIN walk = 1 .. n /\ \A v \in 1 .. n : walk[v] = variant(v)
  <2>1. DOMAIN name[formats[1]] = 1 .. n
    BY <1>1, <1>2
  <2>2. DOMAIN walk = 1 .. n /\ \A v \in 1 .. n : walk[v] = variant(v)
    BY <2>1
  <2>3. walk = [v \in 1 .. n |-> variant(v)]
    BY <2>1
  <2>4. walk \in Seq(Seq(D))
    BY <1>2, <1>4, <2>3
  <2>5. QED BY <2>2, <2>4
<1>6. PICK all \in Seq(D) : /\ all = FlattenSeq(walk)
                            /\ ToSet(all) = UNION {ToSet(walk[v]) : v \in 1 .. n}
  <2>1. /\ FlattenSeq(walk) \in Seq(D)
        /\ ToSet(FlattenSeq(walk)) = UNION {ToSet(walk[v]) : v \in DOMAIN walk}
    <3> HIDE DEF walk
    <3>1. QED BY <1>5, FlattenIs
  <2>2. QED BY <1>5, <2>1
<1>7. AddressesOf(all) = MadeBy(name, formats)
  <2>1. ASSUME NEW c \in ToSet(all)
        PROVE  \E v \in 1 .. n, i \in 1 .. m : c = Candidate(name[formats[i]][v], formats[i])
    <3>1. PICK v \in 1 .. n : c \in ToSet(walk[v])
      BY <1>6, <2>1
    <3>2. PICK i \in 1 .. m : c = variant(v)[i]
      BY <1>4, <1>5, <3>1 DEF ToSet
    <3>3. QED BY <1>1, <3>2 DEF variant
  <2>2. ASSUME NEW v \in 1 .. n, NEW i \in 1 .. m
        PROVE  Candidate(name[formats[i]][v], formats[i]) \in ToSet(all)
    <3>1. variant(v)[i] = Candidate(name[formats[i]][v], formats[i])
      BY <1>1 DEF variant
    <3>2. variant(v)[i] \in ToSet(walk[v])
      BY <1>4, <1>5 DEF ToSet
    <3>3. QED BY <1>6, <3>1, <3>2
  <2>3. AddressesOf(all) \subseteq MadeBy(name, formats)
    <3>1. ASSUME NEW j \in DOMAIN all PROVE all[j].address \in MadeBy(name, formats)
      <4>1. all[j] \in ToSet(all)
        BY DEF ToSet
      <4>2. PICK v \in 1 .. n, i \in 1 .. m : all[j] = Candidate(name[formats[i]][v], formats[i])
        BY <2>1, <4>1
      <4>3. all[j].address = name[formats[i]][v]
        BY <1>3, <4>2
      <4>4. name[formats[i]][v] \in ToSet(name[formats[i]])
        BY <1>2 DEF ToSet
      <4>5. QED BY <1>1, <4>3, <4>4 DEF MadeBy
    <3>2. QED BY <3>1 DEF AddressesOf
  <2>4. MadeBy(name, formats) \subseteq AddressesOf(all)
    <3>1. ASSUME NEW a \in MadeBy(name, formats) PROVE a \in AddressesOf(all)
      <4>1. PICK i \in 1 .. m : a \in ToSet(name[formats[i]])
        BY <1>1 DEF MadeBy
      <4>2. PICK v \in 1 .. n : a = name[formats[i]][v]
        BY <1>2, <4>1 DEF ToSet
      <4>3. PICK j \in DOMAIN all : all[j] = Candidate(name[formats[i]][v], formats[i])
        BY <2>2 DEF ToSet
      <4>4. all[j].address = a
        BY <1>3, <4>2, <4>3
      <4>5. QED BY <4>4 DEF AddressesOf
    <3>2. QED BY <3>1
  <2>5. QED BY <2>3, <2>4
<1>8. PICK distinct \in Seq(D) : /\ distinct = Distinct(all) /\ EachOnce(distinct)
                                 /\ AddressesOf(distinct) = AddressesOf(all)
  BY DistinctIs
<1>9. Generated(name, formats, max) = SubSeq(distinct, 1, Least(max, Len(distinct)))
  BY <1>6, <1>8 DEF Generated, walk, variant
<1>10. name[formats[1]] # << >> => distinct # << >>
  <2>1. n # 0 => MadeBy(name, formats) # {}
    <3>1. 1 \in 1 .. m /\ (n # 0 => 1 \in DOMAIN name[formats[1]])
      BY <1>1, <1>2
    <3>2. n # 0 => ToSet(name[formats[1]]) # {}
      BY <3>1 DEF ToSet
    <3>3. \A a \in ToSet(name[formats[1]]) : a \in MadeBy(name, formats)
      BY <1>1 DEF MadeBy
    <3>4. QED BY <3>2, <3>3
  <2>2. name[formats[1]] # << >> => n # 0
    BY <1>1, <1>2
  <2>3. distinct = << >> => AddressesOf(distinct) = {}
    BY DEF AddressesOf
  <2>4. QED BY <1>7, <1>8, <2>1, <2>2, <2>3
<1>11. /\ Generated(name, formats, max) \in Seq(D) /\ EachOnce(Generated(name, formats, max))
       /\ AddressesOf(Generated(name, formats, max)) \subseteq AddressesOf(distinct)
       /\ Cardinality(AddressesOf(distinct)) <= max => Generated(name, formats, max) = distinct
       /\ distinct # << >> => Generated(name, formats, max) # << >>
  <2>1. max \in Nat /\ max > 0
    OBVIOUS
  <2>2. EachOnce(distinct) /\ distinct \in Seq(D)
    BY <1>8
  <2>3. PICK part : part = SubSeq(distinct, 1, Least(max, Len(distinct)))
    OBVIOUS
  <2>4. /\ part \in Seq(D) /\ EachOnce(part) /\ AddressesOf(part) \subseteq AddressesOf(distinct)
        /\ Cardinality(AddressesOf(distinct)) <= max => part = distinct
        /\ distinct # << >> /\ max > 0 => part # << >>
    BY <2>1, <2>2, <2>3, FirstPart
  <2>5. QED BY <1>9, <2>1, <2>3, <2>4
<1>12. QED BY <1>7, <1>8, <1>10, <1>11 DEF D

(* The same for one format, or none. *)
LEMMA OfIs ==
  ASSUME NEW A, NEW P, NEW name, NameOver(name, P, A), NEW f \in P \cup {NoFormat}, NEW max \in Nat \ {0}
  PROVE  /\ Of(name, f, max) \in Seq([address : A, format : P])
         /\ EachOnce(Of(name, f, max))
         /\ AddressesOf(Of(name, f, max)) \subseteq MadeOf(name, f)
         /\ Cardinality(MadeOf(name, f)) <= max => AddressesOf(Of(name, f, max)) = MadeOf(name, f)
         /\ f # NoFormat /\ name[f] # << >> => Of(name, f, max) # << >>
<1>1. CASE f = NoFormat
  <2>1. PICK none \in Seq([address : A, format : P]) : none = << >>
    <3>1. << >> \in Seq([address : A, format : P])
      OBVIOUS
    <3>2. QED BY <3>1
  <2>2. EachOnce(none) /\ AddressesOf(none) = {}
    BY <2>1 DEF EachOnce, AddressesOf
  <2>3. Of(name, f, max) = none /\ MadeOf(name, f) = {}
    BY <1>1, <2>1 DEF Of, MadeOf
  <2>4. QED BY <1>1, <2>2, <2>3
<1>2. CASE f # NoFormat
  <2>1. PICK one \in Seq(P) : one = <<f>>
    <3>1. <<f>> \in Seq(P)
      BY <1>2
    <3>2. QED BY <3>1
  <2>2. one # << >> /\ DOMAIN one = {1} /\ one[1] = f
    BY <2>1
  <2>3. MadeBy(name, one) = MadeOf(name, f)
    BY <1>2, <2>2 DEF MadeBy, MadeOf
  <2>4. Of(name, f, max) = Generated(name, one, max)
    BY <1>2, <2>1 DEF Of
  <2>5. /\ Generated(name, one, max) \in Seq([address : A, format : P])
        /\ EachOnce(Generated(name, one, max))
        /\ AddressesOf(Generated(name, one, max)) \subseteq MadeBy(name, one)
        /\ Cardinality(MadeBy(name, one)) <= max =>
              AddressesOf(Generated(name, one, max)) = MadeBy(name, one)
        /\ name[one[1]] # << >> => Generated(name, one, max) # << >>
    <3>1. one # << >>
      BY <2>2
    <3>2. QED BY <3>1, GeneratedIs
  <2>6. QED BY <2>2, <2>3, <2>4, <2>5
<1>3. QED BY <1>1, <1>2

(* infer_pattern: a format that makes the address of the name. *)
LEMMA InferredIs ==
  ASSUME NEW name, NEW a, DOMAIN name[Formats[1]] \in SUBSET Nat,
         \A f \in ToSet(Formats) : DOMAIN name[f] = DOMAIN name[Formats[1]]
  PROVE  /\ Inferred(name, a) \in ToSet(Formats) \cup {NoFormat}
         /\ Inferred(name, a) # NoFormat => a \in ToSet(name[Inferred(name, a)])
<1> DEFINE making(v) == {i \in DOMAIN Formats : name[Formats[i]][v] = a}
           variants == {v \in DOMAIN name[Formats[1]] : making(v) # {}}
<1>1. CASE variants = {}
  BY <1>1 DEF Inferred
<1>2. CASE variants # {}
  <2>1. variants \in SUBSET Nat
    OBVIOUS
  <2>2. PICK v \in variants : v = Min(variants)
    <3> HIDE DEF variants
    <3>1. QED BY <1>2, <2>1, MinIsOne
  <2>3. making(v) \in SUBSET Nat /\ making(v) # {}
    BY <2>2, CandidatesAssumption
  <2>4. PICK i \in making(v) : i = Min(making(v))
    <3> HIDE DEF making
    <3>1. QED BY <2>3, MinIsOne
  <2>5. Inferred(name, a) = Formats[i]
    BY <1>2, <2>2, <2>4 DEF Inferred
  <2>6. i \in DOMAIN Formats /\ name[Formats[i]][v] = a /\ v \in DOMAIN name[Formats[1]]
    BY <2>2, <2>4
  <2>7. Formats[i] \in ToSet(Formats)
    BY <2>6 DEF ToSet
  <2>8. v \in DOMAIN name[Formats[i]]
    BY <2>6, <2>7
  <2>9. QED BY <2>5, <2>6, <2>7, <2>8 DEF ToSet
<1>3. QED BY <1>1, <1>2


(***************************************************************************)
(* What build_ranked_candidates gives                                      *)
(***************************************************************************)

LEMMA AddressesAre == ASSUME NEW s PROVE AddressesOf(s) = {c.address : c \in ToSet(s)}
BY DEF AddressesOf, ToSet

LEMMA ListOf ==
  ASSUME NEW n \in Nat, NEW A, NEW f \in [1 .. n -> A]
  PROVE  f \in Seq(A)
OBVIOUS

(* A list that another one begins with. *)
LEMMA BeginsWith ==
  ASSUME NEW D, NEW out \in Seq(D), NEW s \in Seq(D), EachOnce(out), EachOnce(s),
         Len(out) <= Len(s), \A i \in DOMAIN out : s[i] = out[i]
  PROVE  /\ AddressesOf(out) \subseteq AddressesOf(s)
         /\ \A i \in DOMAIN s : s[i].address \in AddressesOf(out) <=> i <= Cardinality(AddressesOf(out))
<1>1. /\ Len(out) \in Nat /\ Len(s) \in Nat /\ DOMAIN out = 1 .. Len(out) /\ DOMAIN s = 1 .. Len(s)
  OBVIOUS
<1>2. \A i \in DOMAIN out : i \in DOMAIN s
  BY <1>1
<1>3. Cardinality(AddressesOf(out)) = Len(out)
  BY OnceLength
<1>4. ASSUME NEW i \in DOMAIN s, s[i].address \in AddressesOf(out) PROVE i <= Len(out)
  <2>1. PICK j \in DOMAIN out : out[j].address = s[i].address
    BY <1>4 DEF AddressesOf
  <2>2. i = j
    BY <1>2, <2>1 DEF EachOnce
  <2>3. QED BY <1>1, <2>1, <2>2
<1>5. ASSUME NEW i \in DOMAIN s, i <= Len(out) PROVE s[i].address \in AddressesOf(out)
  <2>1. i \in DOMAIN out
    BY <1>1, <1>5
  <2>2. QED BY <2>1 DEF AddressesOf
<1>6. QED BY <1>2, <1>3, <1>4, <1>5 DEF AddressesOf

(* The candidates one would try first. *)
LikelyOnes(name, lead, convs, sighted, hunters) ==
  MadeOf(name, lead) \cup (UNION {MadeOf(name, f) : f \in ToSet(convs)})
  \cup MadeOf(name, hunters) \cup AddressesOf(sighted)

LikelyList(name, lead, convs, sighted, hunters) ==
  LET others == Only(convs, ToSet(Formats) \ {lead}) IN
  Of(name, lead, 4) \o FlattenSeq([i \in DOMAIN others |-> Of(name, others[i], 4)])
    \o sighted \o Of(name, hunters, 4)

(* What the likely part is. *)
LikelyListIs(A, P, name, lead, convs, sighted, hunters) ==
  /\ LikelyList(name, lead, convs, sighted, hunters) \in Seq([address : A, format : P])
  /\ (\A f \in P : Cardinality(MadeOf(name, f)) <= 4) =>
       AddressesOf(LikelyList(name, lead, convs, sighted, hunters))
         = LikelyOnes(name, lead, convs, sighted, hunters)

(* The likely part of build_ranked_candidates. *)
LEMMA LikelyPart ==
  ASSUME NEW A, NEW P, ToSet(Formats) \subseteq P, NEW name, NameOver(name, P, A),
         NEW lead \in P \cup {NoFormat}, NEW convs \in Seq(ToSet(Formats)),
         NEW sighted \in Seq([address : A, format : P]), NEW hunters \in P \cup {NoFormat}
  PROVE  LikelyListIs(A, P, name, lead, convs, sighted, hunters)
<1> DEFINE listed == LikelyList(name, lead, convs, sighted, hunters)
           others == Only(convs, ToSet(Formats) \ {lead})
           D == [address : A, format : P]
           few == \A f \in P : Cardinality(MadeOf(name, f)) <= 4
           each == [i \in DOMAIN others |-> Of(name, others[i], 4)]
<1>1. \A f \in P \cup {NoFormat} :
        Of(name, f, 4) \in Seq(D) /\ (few => AddressesOf(Of(name, f, 4)) = MadeOf(name, f))
  <2>1. Cardinality(MadeOf(name, NoFormat)) <= 4
    BY FS_EmptySet DEF MadeOf
  <2>2. ASSUME NEW f \in P \cup {NoFormat}
        PROVE  Of(name, f, 4) \in Seq(D) /\ (few => AddressesOf(Of(name, f, 4)) = MadeOf(name, f))
    <3>1. 4 \in Nat \ {0}
      OBVIOUS
    <3>2. few => Cardinality(MadeOf(name, f)) <= 4
      BY <2>1
    <3>3. QED BY <3>1, <3>2, OfIs, ZenonT(40)
  <2>3. QED BY <2>2
<1> HIDE DEF few
<1>2. others \in Seq(ToSet(Formats)) /\ ToSet(others) = ToSet(convs) \cap (ToSet(Formats) \ {lead})
  BY OnlyIs
<1> HIDE DEF others
<1>3. \A i \in DOMAIN others : others[i] \in P /\ others[i] \in ToSet(others)
  BY <1>2 DEF ToSet
<1> HIDE DEF D
<1>4. each \in Seq(Seq(D)) /\ DOMAIN each = DOMAIN others /\ \A i \in DOMAIN others : each[i] = Of(name, others[i], 4)
  <2>1. PICK n \in Nat : DOMAIN others = 1 .. n
    BY <1>2
  <2>2. each = [i \in 1 .. n |-> Of(name, others[i], 4)]
    BY <2>1
  <2>3. \A i \in 1 .. n : Of(name, others[i], 4) \in Seq(D)
    BY <1>1, <1>3, <2>1
  <2>4. each \in [1 .. n -> Seq(D)]
    BY <2>2, <2>3
  <2> HIDE DEF each
  <2>5. each \in Seq(Seq(D))
    BY <2>4, ListOf
  <2>6. QED BY <2>1, <2>2, <2>5 DEF each
<1> HIDE DEF each
<1>5. PICK flat \in Seq(D) : flat = FlattenSeq(each) /\ ToSet(flat) = UNION {ToSet(each[i]) : i \in DOMAIN others}
  BY <1>4, FlattenIs
<1>6. PICK first \in Seq(D), hunted \in Seq(D), found \in Seq(D) :
        first = Of(name, lead, 4) /\ hunted = Of(name, hunters, 4) /\ found = sighted
  BY <1>1 DEF D
<1>7. listed = ((first \o flat) \o found) \o hunted
  BY <1>5, <1>6 DEF each, others, LikelyList
<1> HIDE DEF listed
<1>8. /\ listed \in Seq(D)
      /\ ToSet(listed) = ToSet(first) \cup ToSet(flat) \cup ToSet(found) \cup ToSet(hunted)
  <2>1. PICK a \in Seq(D) : a = first \o flat /\ ToSet(a) = ToSet(first) \cup ToSet(flat)
    BY JoinedSet, ZenonT(40)
  <2>2. PICK b \in Seq(D) : b = a \o found /\ ToSet(b) = ToSet(a) \cup ToSet(found)
    BY JoinedSet, ZenonT(40)
  <2>3. PICK c \in Seq(D) : c = b \o hunted /\ ToSet(c) = ToSet(b) \cup ToSet(hunted)
    BY JoinedSet, ZenonT(40)
  <2>4. QED BY <1>7, <2>1, <2>2, <2>3
<1>9. AddressesOf(listed) = AddressesOf(first) \cup AddressesOf(flat) \cup AddressesOf(found) \cup AddressesOf(hunted)
  BY <1>8, AddressesAre
<1>10. ASSUME few
       PROVE  \A a : a \in AddressesOf(flat) <=> \E f \in ToSet(others) : a \in MadeOf(name, f)
  <2>1. \A i \in DOMAIN others : AddressesOf(each[i]) = MadeOf(name, others[i])
    BY <1>1, <1>3, <1>4, <1>10
  <2>2. ASSUME NEW a \in AddressesOf(flat) PROVE \E f \in ToSet(others) : a \in MadeOf(name, f)
    <3>1. PICK c \in ToSet(flat) : a = c.address
      BY AddressesAre
    <3>2. PICK i \in DOMAIN others : c \in ToSet(each[i])
      BY <1>5
    <3>3. a \in AddressesOf(each[i])
      BY <3>1, <3>2, AddressesAre
    <3>4. QED BY <1>3, <2>1, <3>3
  <2>3. ASSUME NEW f \in ToSet(others), NEW a \in MadeOf(name, f) PROVE a \in AddressesOf(flat)
    <3>1. PICK i \in DOMAIN others : f = others[i]
      BY DEF ToSet
    <3>2. a \in AddressesOf(each[i])
      BY <2>1, <3>1
    <3>3. PICK c \in ToSet(each[i]) : a = c.address
      BY <3>2, AddressesAre
    <3>4. c \in ToSet(flat)
      BY <1>5
    <3>5. QED BY <3>3, <3>4, AddressesAre
  <2>4. QED BY <2>2, <2>3
<1>11. ASSUME few
       PROVE  AddressesOf(listed) = LikelyOnes(name, lead, convs, sighted, hunters)
  <2>1. AddressesOf(first) = MadeOf(name, lead) /\ AddressesOf(hunted) = MadeOf(name, hunters)
    BY <1>1, <1>6, <1>11
  <2>2. ToSet(convs) \subseteq ToSet(Formats)
    BY DEF ToSet
  <2>3. \A f \in ToSet(convs) : f = lead \/ f \in ToSet(others)
    BY <1>2, <2>2
  <2>4. \A f \in ToSet(others) : f \in ToSet(convs)
    BY <1>2
  <2>5. ASSUME NEW a
        PROVE  a \in MadeOf(name, lead) \cup AddressesOf(flat)
                 <=> a \in MadeOf(name, lead) \/ \E f \in ToSet(convs) : a \in MadeOf(name, f)
    BY <1>10, <1>11, <2>3, <2>4
  <2>6. \A a : a \in LikelyOnes(name, lead, convs, sighted, hunters)
               <=> \/ a \in MadeOf(name, lead) \/ \E f \in ToSet(convs) : a \in MadeOf(name, f)
                   \/ a \in MadeOf(name, hunters) \/ a \in AddressesOf(sighted)
    BY DEF LikelyOnes
  <2>7. \A a : a \in AddressesOf(listed)
               <=> \/ a \in MadeOf(name, lead) \cup AddressesOf(flat)
                   \/ a \in AddressesOf(sighted) \/ a \in MadeOf(name, hunters)
    BY <1>6, <1>9, <2>1
  <2>8. QED BY <2>5, <2>6, <2>7
<1>12. QED BY <1>8, <1>11 DEF D, few, listed, LikelyListIs

(* build_ranked_candidates: candidates each once; a trusted format has the word alone,
   and else the likely ones come before the others. *)
RankedRight(A, P, name, known, L, ranked) ==
  /\ ranked \in Seq([address : A, format : P]) /\ EachOnce(ranked)
  /\ (\A f \in P : Cardinality(MadeOf(name, f)) <= Least(4, MaxCandidates)) =>
       /\ L \subseteq AddressesOf(ranked)
       /\ \A i \in DOMAIN ranked : ranked[i].address \in L <=> i <= Cardinality(L)
       /\ known # NoFormat => AddressesOf(ranked) = L

LEMMA RankedIs ==
  ASSUME NEW A, NEW P, ToSet(Formats) \subseteq P, NEW name, NameOver(name, P, A),
         \A f \in P : name[f] # << >>,
         NEW known \in P \cup {NoFormat},
         NEW lead \in P \cup {NoFormat}, NEW convs \in Seq(ToSet(Formats)),
         NEW sighted \in Seq([address : A, format : P]), NEW hunters \in P \cup {NoFormat},
         NEW L, L = IF known # NoFormat THEN MadeOf(name, known)
                    ELSE LikelyOnes(name, lead, convs, sighted, hunters),
         NEW ranked, ranked = Ranked(name, known, lead, convs, sighted, hunters)
  PROVE  RankedRight(A, P, name, known, L, ranked)
<1> DEFINE D == [address : A, format : P]
<1>1. MaxCandidates \in Nat \ {0}
  BY CandidatesAssumption
<1>2. ASSUME \A f \in P : Cardinality(MadeOf(name, f)) <= Least(4, MaxCandidates)
      PROVE  \A f \in P : Cardinality(MadeOf(name, f)) <= 4 /\ Cardinality(MadeOf(name, f)) <= MaxCandidates
  <2>1. ASSUME NEW f \in P
        PROVE  Cardinality(MadeOf(name, f)) <= 4 /\ Cardinality(MadeOf(name, f)) <= MaxCandidates
    <3>1. Cardinality(MadeOf(name, f)) \in Nat
      <4>1. name[f] \in Seq(A) /\ DOMAIN name[f] = 1 .. Len(name[f]) /\ Len(name[f]) \in Nat
        BY DEF NameOver
      <4>2. IsFiniteSet(ToSet(name[f])) /\ IsFiniteSet({})
        <5>1. IsFiniteSet(DOMAIN name[f])
          BY <4>1, FS_Interval
        <5>2. name[f] \in [DOMAIN name[f] -> ToSet(name[f])]
          BY <4>1 DEF ToSet
        <5>3. \A a \in ToSet(name[f]) : \E i \in DOMAIN name[f] : name[f][i] = a
          BY DEF ToSet
        <5>4. name[f] \in Surjection(DOMAIN name[f], ToSet(name[f]))
          BY <5>2, <5>3, Fun_IsSurj
        <5>5. QED BY <5>1, <5>4, FS_Surjection, FS_EmptySet
      <4>3. IsFiniteSet(MadeOf(name, f))
        BY <4>2 DEF MadeOf
      <4>4. QED BY <4>3, FS_CardinalityType
    <3>2. Least(4, MaxCandidates) <= 4 /\ Least(4, MaxCandidates) <= MaxCandidates /\ Least(4, MaxCandidates) \in Nat
      BY <1>1 DEF Least
    <3>3. Cardinality(MadeOf(name, f)) <= Least(4, MaxCandidates)
      BY <1>2
    <3>4. QED BY <1>1, <3>1, <3>2, <3>3
  <2>2. QED BY <2>1
<1>3. CASE known # NoFormat
  <2>1. ranked = Of(name, known, MaxCandidates) /\ L = MadeOf(name, known)
    BY <1>3 DEF Ranked
  <2>2. /\ ranked \in Seq(D) /\ EachOnce(ranked)
        /\ Cardinality(L) <= MaxCandidates => AddressesOf(ranked) = L
    <3>1. known \in P \cup {NoFormat}
      OBVIOUS
    <3>2. /\ Of(name, known, MaxCandidates) \in Seq(D) /\ EachOnce(Of(name, known, MaxCandidates))
          /\ Cardinality(MadeOf(name, known)) <= MaxCandidates =>
               AddressesOf(Of(name, known, MaxCandidates)) = MadeOf(name, known)
      BY <1>1, <3>1, OfIs, ZenonT(40)
    <3>3. QED BY <2>1, <3>2
  <2>3. ASSUME AddressesOf(ranked) = L
        PROVE  \A i \in DOMAIN ranked : ranked[i].address \in L <=> i <= Cardinality(L)
    <3> HIDE DEF D
    <3>1. Len(ranked) <= Len(ranked)
      BY <2>2
    <3>2. QED BY <2>2, <2>3, <3>1, BeginsWith
  <2>4. QED BY <1>2, <1>3, <2>1, <2>2, <2>3 DEF RankedRight
<1>4. CASE known = NoFormat
  <2> DEFINE listed == LikelyList(name, lead, convs, sighted, hunters)
             likely == Distinct(listed)
             more == Generated(name, Formats, MaxCandidates)
  <2>1. ranked = Filled(likely, more, MaxCandidates)
    BY <1>4 DEF Ranked, LikelyList
  <2>2. /\ listed \in Seq(D)
        /\ (\A f \in P : Cardinality(MadeOf(name, f)) <= 4) =>
             AddressesOf(listed) = LikelyOnes(name, lead, convs, sighted, hunters)
    <3>1. LikelyListIs(A, P, name, lead, convs, sighted, hunters)
      BY LikelyPart
    <3>2. QED BY <3>1 DEF LikelyListIs
  <2>3. (\A f \in P : Cardinality(MadeOf(name, f)) <= 4) => AddressesOf(listed) = L
    BY <1>4, <2>2
  <2>4. more \in Seq(D) /\ more # << >>
    <3>1. Formats \in Seq(P) /\ Formats # << >> /\ Formats[1] \in P
      BY CandidatesAssumption DEF ToSet
    <3>2. QED BY <1>1, <3>1, GeneratedIs
  <2> HIDE DEF listed, more, D
  <2>5. likely \in Seq(D) /\ EachOnce(likely) /\ AddressesOf(likely) = AddressesOf(listed)
    BY <2>2, DistinctIs
  <2> HIDE DEF likely
  <2>6. /\ ranked \in Seq(D) /\ EachOnce(ranked) /\ Len(likely) <= Len(ranked)
        /\ \A i \in DOMAIN likely : ranked[i] = likely[i]
    BY <2>1, <2>4, <2>5, FilledIs
  <2>7. /\ AddressesOf(likely) \subseteq AddressesOf(ranked)
        /\ \A i \in DOMAIN ranked : ranked[i].address \in AddressesOf(likely) <=> i <= Cardinality(AddressesOf(likely))
    BY <2>5, <2>6, BeginsWith
  <2>8. QED BY <1>2, <1>4, <2>3, <2>5, <2>6, <2>7 DEF D, RankedRight
<1>5. QED BY <1>3, <1>4 DEF RankedRight


(***************************************************************************)
(* Names and votes                                                         *)
(***************************************************************************)

(* Every name is one over the formats, with as many addresses under each. *)
LEMMA NamesAre ==
  ASSUME NEW p \in DOMAIN Names
  PROVE  /\ DOMAIN Names[p][Formats[1]] \in SUBSET Nat
         /\ \A f \in ToSet(Formats) : DOMAIN Names[p][f] = DOMAIN Names[p][Formats[1]]
         /\ \A f, g \in Patterns : Len(Names[p][f]) = Len(Names[p][g])
<1>1. ToSet(Formats) \subseteq Patterns
  BY TaskAssumption
<1>2. /\ \A f \in Patterns : Names[p][f] \in Seq(ToSet(Names[p][f]))
      /\ \A f, g \in Patterns : Len(Names[p][f]) = Len(Names[p][g])
  BY NamesAssumption
<1>3. \A f \in Patterns : DOMAIN Names[p][f] = 1 .. Len(Names[p][f]) /\ Len(Names[p][f]) \in Nat
  BY <1>2
<1>4. Formats[1] \in ToSet(Formats)
  <2>1. 1 \in DOMAIN Formats
    BY CandidatesAssumption
  <2>2. QED BY <2>1 DEF ToSet
<1>5. QED BY <1>1, <1>2, <1>3, <1>4

LEMMA InferredOfName ==
  ASSUME NEW p \in DOMAIN Names, NEW a
  PROVE  /\ Inferred(Names[p], a) \in ToSet(Formats) \cup {NoFormat}
         /\ Inferred(Names[p], a) # NoFormat => a \in Made(p, Inferred(Names[p], a))
BY NamesAre, InferredIs DEF Made

(***************************************************************************)
(* convention_votes                                                        *)
(***************************************************************************)

VotesOver(D) == [pair : D, format : ToSet(Formats)]

(* Each vote is for a format that makes the pair's address of the pair's name; they are
   of different people, with different addresses. *)
Sound(votes) ==
  /\ \A i \in DOMAIN votes : votes[i].pair.address \in Made(votes[i].pair.who, votes[i].format)
  /\ \A i, j \in DOMAIN votes :
       i # j => /\ votes[i].pair.who # votes[j].pair.who
                /\ votes[i].pair.address # votes[j].pair.address

LEMMA VotedOne ==
  ASSUME NEW D, NEW votes \in Seq(VotesOver(D)), NEW pair \in D, pair.who \in DOMAIN Names
  PROVE  /\ Voted(votes, pair) \in Seq(VotesOver(D))
         /\ Sound(votes) => Sound(Voted(votes, pair))
<1> DEFINE f == Inferred(Names[pair.who], pair.address)
           counted == {votes[i].pair : i \in DOMAIN votes}
           V == VotesOver(D)
           vote == [pair |-> pair, format |-> f]
<1>1. f \in ToSet(Formats) \cup {NoFormat} /\ (f # NoFormat => pair.address \in Made(pair.who, f))
  BY InferredOfName
<1>2. CASE f = NoFormat \/ \E c \in counted : c.who = pair.who \/ c.address = pair.address
  BY <1>2 DEF Voted
<1>3. CASE ~(f = NoFormat \/ \E c \in counted : c.who = pair.who \/ c.address = pair.address)
  <2>1. Voted(votes, pair) = Append(votes, vote)
    BY <1>3 DEF Voted
  <2>2. vote \in V /\ vote.pair = pair /\ vote.format = f
    BY <1>1, <1>3 DEF VotesOver
  <2> HIDE DEF V, vote
  <2>3. PICK b \in Seq(V) : b = Append(votes, vote)
    <3>1. Append(votes, vote) \in Seq(V)
      BY <2>2 DEF V
    <3>2. QED BY <3>1
  <2>4. /\ Len(votes) \in Nat /\ DOMAIN votes = 1 .. Len(votes) /\ DOMAIN b = 1 .. (Len(votes) + 1)
        /\ b[Len(votes) + 1] = vote /\ \A i \in 1 .. Len(votes) : b[i] = votes[i]
    BY <2>2, <2>3 DEF V
  <2>5. \A i \in DOMAIN b : i \in DOMAIN votes \/ i = Len(votes) + 1
    BY <2>4
  <2>6. \A i \in DOMAIN votes : b[i] = votes[i] /\ votes[i].pair.who # pair.who /\ votes[i].pair.address # pair.address
    BY <1>3, <2>4
  <2> HIDE DEF f, counted
  <2>7. Sound(votes) => Sound(b)
    BY <1>1, <1>3, <2>2, <2>4, <2>5, <2>6 DEF Sound
  <2>8. QED BY <2>1, <2>3, <2>7 DEF V
<1>4. QED BY <1>2, <1>3

LEMMA VotedRounds ==
  ASSUME NEW D, NEW s \in Seq(D), \A x \in D : x.who \in DOMAIN Names
  PROVE  \E v \in [0 .. Len(s) -> Seq(VotesOver(D))] :
           /\ v[0] = << >>
           /\ \A k \in 1 .. Len(s) : v[k] = Voted(v[k - 1], s[k])
           /\ Votes(s) = v[Len(s)]
<1> DEFINE n == Len(s)
           A == Seq(VotesOver(D))
           F == [p \in (1 .. n) \X A |-> Voted(p[2], s[p[1]])]
           E(g) == [t \in SUBSET (1 .. n) |->
                     IF t = {} THEN << >> ELSE Voted(g[t \ {Max(t)}], s[Max(t)])]
           G == CHOOSE g : g = E(g)
<1>1. PICK base \in A : base = << >>
  <2>1. << >> \in A
    OBVIOUS
  <2>2. QED BY <2>1
<1>2. n \in Nat /\ DOMAIN s = 1 .. n /\ \A k \in 1 .. n : s[k] \in D
  OBVIOUS
<1>3. F \in [(1 .. n) \X A -> A]
  <2>1. ASSUME NEW k \in 1 .. n, NEW a \in A PROVE Voted(a, s[k]) \in A
    BY <1>2, VotedOne
  <2>2. QED BY <2>1
<1>4. \A k \in 1 .. n, a \in A : F[<<k, a>>] = Voted(a, s[k])
  OBVIOUS
<1>5. \A t \in SUBSET (1 .. n) : t # {} => Max(t) \in 1 .. n
  BY <1>2, MaxOfPrefix
<1> HIDE DEF F, A, n
<1>6. \E g : g = E(g)
  <2>1. PICK g \in [SUBSET (1 .. n) -> A] : LeftTabled(g, n, base, F)
    BY <1>1, <1>2, <1>3, LeftTable
  <2>2. ASSUME NEW t \in SUBSET (1 .. n) PROVE g[t] = E(g)[t]
    <3>1. CASE t = {}
      BY <1>1, <2>1, <3>1 DEF LeftTabled
    <3>2. CASE t # {}
      BY <1>4, <1>5, <2>1, <3>2 DEF LeftTabled
    <3>3. QED BY <3>1, <3>2
  <2>3. QED BY <2>2
<1>7. G = E(G)
  BY <1>6
<1>8. Votes(s) = G[1 .. n]
  BY <1>2 DEF Votes, FoldLeft, MapThenFoldSet
<1> HIDE DEF G
<1>9. FoldsLike(G, n, A, base, F)
  BY <1>1, <1>4, <1>5, <1>7 DEF FoldsLike
<1>10. PICK v \in [0 .. n -> A] : GoesThrough(v, n, base, F) /\ G[1 .. n] = v[n]
  <2>1. LeftEnds(G, n, A, base, F)
    BY <1>1, <1>2, <1>3, <1>9, LeftValues
  <2>2. QED BY <2>1 DEF LeftEnds
<1>11. ASSUME NEW k \in 1 .. n PROVE v[k] = Voted(v[k - 1], s[k])
  <2>1. k - 1 \in 0 .. n
    BY <1>2
  <2>2. v[k - 1] \in A
    BY <1>10, <2>1
  <2>3. QED BY <1>4, <1>10, <2>2 DEF GoesThrough
<1>12. QED BY <1>1, <1>8, <1>10, <1>11 DEF GoesThrough, n, A

LEMMA VotesAre ==
  ASSUME NEW D, NEW pairs \in Seq(D), \A x \in D : x.who \in DOMAIN Names
  PROVE  /\ Votes(pairs) \in Seq(VotesOver(D)) /\ Sound(Votes(pairs))
<1> DEFINE n == Len(pairs)
           A == Seq(VotesOver(D))
<1>1. PICK v \in [0 .. n -> A] :
        v[0] = << >> /\ (\A k \in 1 .. n : v[k] = Voted(v[k - 1], pairs[k])) /\ Votes(pairs) = v[n]
  BY VotedRounds
<1>2. n \in Nat /\ DOMAIN pairs = 1 .. n /\ \A k \in 1 .. n : pairs[k] \in D
  OBVIOUS
<1> DEFINE T == {k \in 0 .. n : Sound(v[k])}
<1> HIDE DEF n
<1>3. 0 \in T
  <2>1. DOMAIN v[0] = {}
    BY <1>1
  <2>2. Sound(v[0])
    BY <2>1 DEF Sound
  <2>3. QED BY <1>2, <2>2
<1>4. ASSUME NEW k \in 1 .. n, k - 1 \in T PROVE k \in T
  <2>1. v[k] = Voted(v[k - 1], pairs[k]) /\ v[k - 1] \in A /\ k \in 0 .. n /\ pairs[k] \in D
    BY <1>1, <1>2
  <2>2. PICK a \in Seq(VotesOver(D)), x \in D : a = v[k - 1] /\ x = pairs[k]
    BY <2>1
  <2>3. Sound(a) => Sound(Voted(a, x))
    BY VotedOne
  <2>4. QED BY <1>4, <2>1, <2>2, <2>3
<1>5. T \in SUBSET (0 .. n)
  OBVIOUS
<1> HIDE DEF T
<1>6. n \in T
  BY <1>2, <1>3, <1>4, <1>5, LeftInduction
<1>7. v[n] \in A
  BY <1>1, <1>2
<1>8. QED BY <1>1, <1>6, <1>7 DEF T

(***************************************************************************)
(* Counter.most_common, conventions_to_try and agreeing_pattern            *)
(***************************************************************************)

(* A strict order on a finite set puts it in a row. *)
InOrder(f, S, R) ==
  /\ f \in [1 .. Cardinality(S) -> S]
  /\ \A i, j \in 1 .. Cardinality(S) : i < j => <<f[i], f[j]>> \in R

LEMMA SetsHaveOrder ==
  ASSUME NEW S, IsFiniteSet(S), NEW R,
         \A a \in S : <<a, a>> \notin R,
         \A a, b, c \in S : <<a, b>> \in R /\ <<b, c>> \in R => <<a, c>> \in R,
         \A a, b \in S : a # b => <<a, b>> \in R \/ <<b, a>> \in R
  PROVE  \E f : InOrder(f, S, R)
<1> DEFINE n == Cardinality(S)
           before(x) == {y \in S : <<y, x>> \in R}
           rank == [x \in S |-> Cardinality(before(x)) + 1]
<1>1. n \in Nat
  BY FS_CardinalityType
<1>2. \A x \in S : /\ before(x) \in SUBSET S /\ before(x) # S
                   /\ IsFiniteSet(before(x)) /\ Cardinality(before(x)) \in Nat
                   /\ Cardinality(before(x)) < n
  <2>1. ASSUME NEW x \in S
        PROVE  /\ before(x) \in SUBSET S /\ before(x) # S
               /\ IsFiniteSet(before(x)) /\ Cardinality(before(x)) \in Nat
               /\ Cardinality(before(x)) < n
    <3>1. before(x) \in SUBSET S /\ x \notin before(x)
      OBVIOUS
    <3> HIDE DEF before
    <3>2. IsFiniteSet(before(x)) /\ Cardinality(before(x)) <= n /\ Cardinality(before(x)) # n
      BY <3>1, FS_Subset
    <3>3. Cardinality(before(x)) \in Nat
      BY <3>2, FS_CardinalityType
    <3>4. QED BY <1>1, <3>1, <3>2, <3>3
  <2> HIDE DEF before
  <2>2. QED BY <2>1
<1>3. ASSUME NEW x \in S, NEW y \in S, <<x, y>> \in R PROVE rank[x] < rank[y]
  <2>1. before(x) \in SUBSET before(y) /\ x \in before(y) /\ x \notin before(x)
    BY <1>3
  <2>2. rank[x] = Cardinality(before(x)) + 1 /\ rank[y] = Cardinality(before(y)) + 1
    OBVIOUS
  <2> HIDE DEF before, rank
  <2>3. Cardinality(before(x)) <= Cardinality(before(y)) /\ Cardinality(before(x)) # Cardinality(before(y))
    BY <1>2, <2>1, FS_Subset
  <2>4. QED BY <1>2, <2>2, <2>3
<1>4. rank \in [S -> 1 .. n]
  <2>1. ASSUME NEW x \in S PROVE Cardinality(before(x)) + 1 \in 1 .. n
    <3> HIDE DEF before
    <3>1. Cardinality(before(x)) \in Nat /\ Cardinality(before(x)) < n
      BY <1>2
    <3>2. QED BY <1>1, <3>1
  <2> HIDE DEF before
  <2>2. QED BY <2>1
<1> HIDE DEF rank, before
<1>5. \A x, y \in S : rank[x] \in Nat /\ (rank[x] = rank[y] => x = y)
  <2>1. ASSUME NEW x \in S, NEW y \in S PROVE rank[x] \in Nat /\ (rank[x] = rank[y] => x = y)
    <3>1. rank[x] \in Nat /\ rank[y] \in Nat
      BY <1>4
    <3>2. CASE x # y
      <4>1. <<x, y>> \in R \/ <<y, x>> \in R
        BY <3>2
      <4>2. rank[x] < rank[y] \/ rank[y] < rank[x]
        BY <1>3, <4>1
      <4>3. QED BY <3>1, <4>2
    <3>3. QED BY <3>1, <3>2
  <2>2. QED BY <2>1
<1>6. rank \in Surjection(S, 1 .. n)
  <2>1. rank \in Injection(S, 1 .. n)
    BY <1>4, <1>5, Fun_IsInj
  <2>2. IsFiniteSet(1 .. n) /\ Cardinality(1 .. n) = Cardinality(S)
    BY <1>1, FS_Interval
  <2>3. QED BY <2>1, <2>2, FS_Injection
<1> DEFINE f == [i \in 1 .. n |-> CHOOSE x \in S : rank[x] = i]
<1>7. \A i \in 1 .. n : f[i] \in S /\ rank[f[i]] = i
  <2>1. \A i \in 1 .. n : \E x \in S : rank[x] = i
    BY <1>6, Fun_SurjectionProperties
  <2>2. QED BY <2>1
<1>8. f \in [1 .. n -> S]
  BY <1>7
<1> HIDE DEF f
<1>9. ASSUME NEW i \in 1 .. n, NEW j \in 1 .. n, i < j PROVE <<f[i], f[j]>> \in R
  <2>1. f[i] # f[j] /\ f[i] \in S /\ f[j] \in S
    BY <1>7, <1>9
  <2>2. <<f[j], f[i]>> \notin R
    <3>1. rank[f[i]] = i /\ rank[f[j]] = j
      BY <1>7
    <3>2. ~ j < i
      BY <1>1, <1>9
    <3>3. QED BY <1>3, <2>1, <3>1, <3>2
  <2>3. QED BY <2>1, <2>2
<1>10. InOrder(f, S, R)
  BY <1>8, <1>9 DEF InOrder, n
<1>11. QED BY <1>10

(* The votes, counted. *)
LEMMA CountsAre ==
  ASSUME NEW D, NEW votes \in Seq(VotesOver(D))
  PROVE  /\ VotedFor(votes) \subseteq ToSet(Formats) /\ IsFiniteSet(VotedFor(votes))
         /\ Cardinality(VotedFor(votes)) \in Nat
         /\ \A f : /\ Ballots(votes, f) \in SUBSET (1 .. Len(votes)) /\ Ballots(votes, f) \in SUBSET Nat
                   /\ IsFiniteSet(Ballots(votes, f)) /\ Count(votes, f) \in Nat
                   /\ (f \in VotedFor(votes) => Ballots(votes, f) # {})
<1> DEFINE n == Len(votes)
<1>1. n \in Nat /\ DOMAIN votes = 1 .. n /\ \A i \in 1 .. n : votes[i].format \in ToSet(Formats)
  <2>1. n \in Nat /\ DOMAIN votes = 1 .. n /\ \A i \in 1 .. n : votes[i] \in VotesOver(D)
    OBVIOUS
  <2>2. \A vote \in VotesOver(D) : vote.format \in ToSet(Formats)
    BY DEF VotesOver
  <2>3. QED BY <2>1, <2>2
<1>2. IsFiniteSet(1 .. n)
  BY <1>1, FS_Interval
<1> DEFINE g == [i \in 1 .. n |-> votes[i].format]
<1>3. g \in Surjection(1 .. n, VotedFor(votes))
  <2>1. g \in [1 .. n -> VotedFor(votes)] /\ \A f \in VotedFor(votes) : \E i \in 1 .. n : g[i] = f
    BY <1>1 DEF VotedFor
  <2> HIDE DEF g
  <2>2. QED BY <2>1, Fun_IsSurj
<1>4. IsFiniteSet(VotedFor(votes))
  BY <1>2, <1>3, FS_Surjection
<1>5. ASSUME NEW f
      PROVE  /\ Ballots(votes, f) \in SUBSET (1 .. n) /\ Ballots(votes, f) \in SUBSET Nat
             /\ IsFiniteSet(Ballots(votes, f)) /\ Count(votes, f) \in Nat
             /\ (f \in VotedFor(votes) => Ballots(votes, f) # {})
  <2>1. Ballots(votes, f) \in SUBSET (1 .. n)
    BY <1>1 DEF Ballots
  <2>2. IsFiniteSet(Ballots(votes, f))
    BY <1>2, <2>1, FS_Subset
  <2>3. Count(votes, f) \in Nat
    BY <2>2, FS_CardinalityType DEF Count
  <2>4. f \in VotedFor(votes) => Ballots(votes, f) # {}
    BY DEF VotedFor, Ballots
  <2>5. QED BY <2>1, <2>2, <2>3, <2>4
<1>6. VotedFor(votes) \subseteq ToSet(Formats)
  BY <1>1 DEF VotedFor
<1>7. Cardinality(VotedFor(votes)) \in Nat
  BY <1>4, FS_CardinalityType
<1>8. QED BY <1>4, <1>5, <1>6, <1>7

(* There is an order of the counts, so most_common gives the formats voted for. *)
LEMMA MostCommonIs ==
  ASSUME NEW D, NEW votes \in Seq(VotesOver(D))
  PROVE  MostCommon(votes) \in Seq(VotedFor(votes))
<1> DEFINE S == VotedFor(votes)
           n == Cardinality(S)
           R == {p \in S \X S : Before(votes, p[1], p[2])}
<1>1. IsFiniteSet(S) /\ n \in Nat
  BY CountsAre
<1>2. \A a \in S : /\ Count(votes, a) \in Nat /\ Min(Ballots(votes, a)) \in Nat
                   /\ Min(Ballots(votes, a)) \in Ballots(votes, a)
  <2>1. ASSUME NEW a \in S
        PROVE  /\ Count(votes, a) \in Nat /\ Min(Ballots(votes, a)) \in Nat
               /\ Min(Ballots(votes, a)) \in Ballots(votes, a)
    <3>1. /\ Count(votes, a) \in Nat /\ Ballots(votes, a) \in SUBSET Nat /\ Ballots(votes, a) # {}
      BY CountsAre
    <3>2. QED BY <3>1, MinIsOne
  <2>2. QED BY <2>1
<1>3. \A a, b \in S : a # b => Min(Ballots(votes, a)) # Min(Ballots(votes, b))
  BY <1>2 DEF Ballots
<1>4. \A a, b \in S : <<a, b>> \in R <=> Before(votes, a, b)
  OBVIOUS
<1> HIDE DEF S, n, R
<1>5. \A a \in S : <<a, a>> \notin R
  BY <1>2, <1>4 DEF Before
<1>6. \A a, b, c \in S : <<a, b>> \in R /\ <<b, c>> \in R => <<a, c>> \in R
  <2>1. ASSUME NEW a \in S, NEW b \in S, NEW c \in S, Before(votes, a, b), Before(votes, b, c)
        PROVE  Before(votes, a, c)
    <3>1. PICK ka \in Nat, kb \in Nat, kc \in Nat :
            ka = Count(votes, a) /\ kb = Count(votes, b) /\ kc = Count(votes, c)
      BY <1>2
    <3>2. PICK ma \in Nat, mb \in Nat, mc \in Nat :
            ma = Min(Ballots(votes, a)) /\ mb = Min(Ballots(votes, b)) /\ mc = Min(Ballots(votes, c))
      BY <1>2
    <3>3. (ka > kb \/ (ka = kb /\ ma < mb)) /\ (kb > kc \/ (kb = kc /\ mb < mc))
      BY <2>1, <3>1, <3>2 DEF Before
    <3>4. ka > kc \/ (ka = kc /\ ma < mc)
      BY <3>3
    <3>5. QED BY <3>1, <3>2, <3>4 DEF Before
  <2>2. QED BY <1>4, <2>1
<1>7. \A a, b \in S : a # b => <<a, b>> \in R \/ <<b, a>> \in R
  <2>1. ASSUME NEW a \in S, NEW b \in S, a # b PROVE Before(votes, a, b) \/ Before(votes, b, a)
    BY <1>2, <1>3, <2>1 DEF Before
  <2>2. QED BY <1>4, <2>1
<1>8. PICK f : InOrder(f, S, R)
  BY <1>1, <1>5, <1>6, <1>7, SetsHaveOrder
<1>9. f \in [1 .. n -> S] /\ \A i, j \in DOMAIN f : i < j => Before(votes, f[i], f[j])
  <2>1. f \in [1 .. n -> S] /\ DOMAIN f = 1 .. n
    BY <1>8 DEF InOrder, n
  <2>2. \A i \in 1 .. n : f[i] \in S
    BY <2>1
  <2>3. QED BY <1>4, <1>8, <2>1, <2>2 DEF InOrder, n
<1>10. MostCommon(votes) \in [1 .. n -> S]
  BY <1>9 DEF MostCommon, n, S
<1>11. QED BY <1>1, <1>10, ListOf DEF S

(* conventions_to_try gives formats somebody's address is made by. *)
LEMMA ToTryIs ==
  ASSUME NEW D, NEW votes \in Seq(VotesOver(D))
  PROVE  ToTry(votes) \in Seq(VotedFor(votes))
<1> DEFINE S == VotedFor(votes)
           strong == {f \in S : Count(votes, f) >= Majority}
           some == {f \in S \ strong : Count(votes, f) >= 2}
<1>1. PICK ranked \in Seq(S) : ranked = MostCommon(votes)
  BY MostCommonIs
<1>2. PICK a \in Seq(S), b \in Seq(S) : a = Only(ranked, strong) /\ b = Only(ranked, some)
  <2> HIDE DEF S, strong, some
  <2>1. Only(ranked, strong) \in Seq(S) /\ Only(ranked, some) \in Seq(S)
    BY OnlyIs
  <2>2. QED BY <2>1
<1>3. a \o b \in Seq(S)
  OBVIOUS
<1>4. ToTry(votes) = IF strong # {} THEN a \o b ELSE ranked
  BY <1>1, <1>2 DEF ToTry
<1>5. QED BY <1>3, <1>4

(* agreeing_pattern gives a format with a majority. *)
LEMMA AgreedIs ==
  ASSUME NEW D, NEW votes \in Seq(VotesOver(D))
  PROVE  /\ Agreed(votes) \in ToSet(Formats) \cup {NoFormat}
         /\ Agreed(votes) # NoFormat => Agreed(votes) \in VotedFor(votes) /\ Count(votes, Agreed(votes)) >= Majority
<1> DEFINE winners == {f \in VotedFor(votes) :
                         /\ Count(votes, f) >= Majority
                         /\ \A g \in VotedFor(votes) \ {f} : Count(votes, g) < Count(votes, f)}
<1>1. Agreed(votes) = IF winners = {} THEN NoFormat ELSE CHOOSE f \in winners : TRUE
  BY DEF Agreed
<1>2. VotedFor(votes) \subseteq ToSet(Formats)
  BY CountsAre
<1>3. winners # {} => (CHOOSE f \in winners : TRUE) \in winners
  OBVIOUS
<1>4. QED BY <1>1, <1>2, <1>3

(* What a finite set's first m elements are. *)
LEMMA PartOfSize ==
  ASSUME NEW S, IsFiniteSet(S), NEW m \in Nat, m <= Cardinality(S)
  PROVE  \E g : g \in Injection(1 .. m, S)
<1>1. Cardinality(S) \in Nat /\ ExistsBijection(1 .. Cardinality(S), S)
  BY FS_CardinalityType
<1>2. PICK f \in Bijection(1 .. Cardinality(S), S) : TRUE
  BY <1>1 DEF ExistsBijection
<1>3. f \in [1 .. Cardinality(S) -> S] /\ \A a, b \in 1 .. Cardinality(S) : f[a] = f[b] => a = b
  BY <1>2, Fun_BijectionProperties
<1> DEFINE g == [i \in 1 .. m |-> f[i]]
<1>4. \A i \in 1 .. m : i \in 1 .. Cardinality(S)
  BY <1>1
<1>5. g \in [1 .. m -> S] /\ \A a, b \in 1 .. m : g[a] = g[b] => a = b
  BY <1>3, <1>4
<1> HIDE DEF g
<1>6. g \in Injection(1 .. m, S)
  BY <1>5, Fun_IsInj
<1>7. QED BY <1>6

(* The majority that agreeing_pattern finds is one of different people with
   different addresses. *)
LEMMA MajorityShares ==
  ASSUME NEW pairs, pairs \in Seq(ToSet(pairs)), \A x \in ToSet(pairs) : x.who \in DOMAIN Names,
         NEW f, f = Agreed(Votes(pairs)), f # NoFormat
  PROVE  SharedBy(pairs, f, Majority)
<1> DEFINE D == ToSet(pairs)
           V == VotesOver(D)
<1>1. PICK votes \in Seq(V) : votes = Votes(pairs) /\ Sound(votes)
  <2>1. Votes(pairs) \in Seq(V) /\ Sound(Votes(pairs))
    BY VotesAre
  <2>2. QED BY <2>1
<1>2. f \in ToSet(Formats) /\ Count(votes, f) >= Majority
  BY <1>1, AgreedIs
<1> DEFINE B == Ballots(votes, f)
<1>3. /\ B \in SUBSET (1 .. Len(votes)) /\ IsFiniteSet(B) /\ Cardinality(B) \in Nat
      /\ DOMAIN votes = 1 .. Len(votes)
  BY CountsAre DEF Count
<1>4. Majority \in Nat /\ Majority <= Cardinality(B)
  BY <1>2, <1>3, ConventionsAssumption DEF Count
<1>5. PICK g : g \in Injection(1 .. Majority, B)
  BY <1>3, <1>4, PartOfSize
<1>6. g \in [1 .. Majority -> B] /\ \A a, b \in 1 .. Majority : g[a] = g[b] => a = b
  BY <1>5, Fun_InjectionProperties
<1>7. \A i \in B : /\ i \in DOMAIN votes /\ votes[i].pair \in D /\ votes[i].format = f
  <2>1. \A i \in B : i \in DOMAIN votes /\ votes[i] \in V /\ votes[i].format = f
    BY <1>1, <1>3 DEF Ballots
  <2>2. QED BY <2>1 DEF VotesOver
<1>8. \A i \in B : /\ votes[i].pair.address \in ToSet(Names[votes[i].pair.who][f])
                   /\ \A j \in B : i # j => /\ votes[i].pair.who # votes[j].pair.who
                                            /\ votes[i].pair.address # votes[j].pair.address
  BY <1>1, <1>2, <1>7, CandidatesAssumption DEF Sound, Made
<1>9. \A i \in B : \E l \in DOMAIN pairs : pairs[l] = votes[i].pair
  BY <1>7 DEF ToSet
<1> HIDE DEF B
<1> DEFINE h == [a \in 1 .. Majority |-> CHOOSE l \in DOMAIN pairs : pairs[l] = votes[g[a]].pair]
           S == {h[a] : a \in 1 .. Majority}
<1>10. \A a \in 1 .. Majority : h[a] \in DOMAIN pairs /\ pairs[h[a]] = votes[g[a]].pair /\ g[a] \in B
  BY <1>6, <1>9
<1> HIDE DEF h
<1>11. \A a, b \in 1 .. Majority :
         a # b => /\ pairs[h[a]].who # pairs[h[b]].who
                  /\ pairs[h[a]].address # pairs[h[b]].address
  BY <1>6, <1>8, <1>10
<1>12. Cardinality(S) = Majority
  <2>1. DOMAIN h = 1 .. Majority
    BY DEF h
  <2>2. h \in [1 .. Majority -> S]
    BY <2>1, <1>10 DEF h
  <2>3. \A a, b \in 1 .. Majority : h[a] = h[b] => a = b
    BY <1>11
  <2>4. \A s \in S : \E a \in 1 .. Majority : h[a] = s
    OBVIOUS
  <2> HIDE DEF S
  <2>5. h \in Bijection(1 .. Majority, S)
    BY <2>2, <2>3, <2>4, Fun_IsBij
  <2>6. IsFiniteSet(1 .. Majority) /\ Cardinality(1 .. Majority) = Majority
    BY <1>4, FS_Interval
  <2>7. ExistsBijection(1 .. Majority, S)
    BY <2>5 DEF ExistsBijection
  <2>8. QED BY <2>6, <2>7, FS_Bijection
<1>13. S \in SUBSET DOMAIN pairs
  BY <1>10
<1>14. \A i \in S : pairs[i].address \in ToSet(Names[pairs[i].who][f])
  BY <1>8, <1>10
<1>15. \A i, j \in S : i # j => pairs[i].who # pairs[j].who /\ pairs[i].address # pairs[j].address
  BY <1>11
<1> HIDE DEF S
<1>16. QED BY <1>12, <1>13, <1>14, <1>15 DEF SharedBy

LEMMA DeducedIs ==
  ASSUME start \in Starts
  PROVE  /\ Deduced \in ToSet(Formats) \cup {NoFormat}
         /\ Deduced # NoFormat => SharedBy(start.known, Deduced, Majority)
<1>1. PICK pairs : pairs = start.known
  OBVIOUS
<1>2. pairs \in Seq(ToSet(pairs)) /\ \A x \in ToSet(pairs) : x.who \in DOMAIN Names
  BY <1>1, StartsAssumption
<1>3. Votes(pairs) \in Seq(VotesOver(ToSet(pairs)))
  BY <1>2, VotesAre
<1>4. Agreed(Votes(pairs)) \in ToSet(Formats) \cup {NoFormat}
  BY <1>3, AgreedIs
<1>5. Agreed(Votes(pairs)) # NoFormat => SharedBy(pairs, Agreed(Votes(pairs)), Majority)
  BY <1>2, MajorityShares
<1>6. QED BY <1>1, <1>4, <1>5 DEF Deduced

(***************************************************************************)
(* What Hunter says                                                        *)
(***************************************************************************)

LEMMA OverItsElements ==
  ASSUME NEW D, NEW s \in Seq(D), NEW T, ToSet(s) \subseteq T
  PROVE  s \in Seq(T)
<1>1. Len(s) \in Nat /\ DOMAIN s = 1 .. Len(s) /\ s = [i \in 1 .. Len(s) |-> s[i]]
  OBVIOUS
<1>2. \A i \in 1 .. Len(s) : s[i] \in T
  BY <1>1 DEF ToSet
<1>3. s \in [1 .. Len(s) -> T]
  BY <1>1, <1>2
<1>4. QED BY <1>1, <1>3, ListOf

LEMMA ContextIs ==
  ASSUME NEW c \in Contexts \cup {NoContext}
  PROVE  /\ Format(c) \in Patterns \cup {NoFormat}
         /\ Found(c) \in Seq(ToSet(Found(c)))
         /\ c = NoContext => ToSet(Found(c)) = {}
         /\ \A item \in ToSet(Found(c)) : item.who \in (DOMAIN Names) \cup {NoOne}
         /\ c # NoContext => c.acceptAll \in BOOLEAN
<1>1. CASE c = NoContext
  <2>1. PICK none : none = << >> /\ Found(c) = none
    BY <1>1 DEF Found
  <2>2. none \in Seq(ToSet(none)) /\ DOMAIN none = {}
    BY <2>1
  <2>3. ToSet(none) = {}
    BY <2>2 DEF ToSet
  <2>4. QED BY <1>1, <2>1, <2>2, <2>3 DEF Format
<1>2. CASE c # NoContext
  <2>1. c \in Contexts /\ Found(c) = c.found /\ Format(c) = c.format
    BY <1>2 DEF Found, Format
  <2>2. QED BY <1>2, <2>1, StartsAssumption
<1>3. QED BY <1>1, <1>2

(* The formats of the people found are somebody's there. *)
LEMMA FoundFormatsAre ==
  ASSUME NEW c \in Contexts \cup {NoContext}
  PROVE  /\ FoundFormats(c) \in Seq(ToSet(Formats))
         /\ FoundFormats(c) # << >> =>
              /\ Head(FoundFormats(c)) \in ToSet(Formats)
              /\ c # NoContext
              /\ \E item \in ToSet(Found(c)) :
                   item.who # NoOne /\ item.address \in Made(item.who, Head(FoundFormats(c)))
<1> DEFINE named == {item \in ToSet(Found(c)) : item.who # NoOne}
<1>1. PICK all : all = Found(c) /\ all \in Seq(ToSet(all))
  BY ContextIs
<1>2. PICK pairs \in Seq(named) : pairs = Only(Found(c), named)
  <2>1. Only(all, named) \in Seq(ToSet(all)) /\ ToSet(Only(all, named)) = ToSet(all) \cap named
    BY <1>1, OnlyIs
  <2>2. ToSet(Only(all, named)) \subseteq named
    BY <2>1
  <2>3. Only(all, named) \in Seq(named)
    <3> HIDE DEF named
    <3>1. QED BY <2>1, <2>2, OverItsElements
  <2>4. QED BY <1>1, <2>3
<1>3. \A x \in named : x.who \in DOMAIN Names /\ x.who # NoOne
  BY ContextIs
<1>4. named \subseteq ToSet(Found(c)) /\ (c = NoContext => named = {})
  BY ContextIs
<1>5. FoundFormats(c) = ToTry(Votes(pairs))
  BY <1>2 DEF FoundFormats
<1> HIDE DEF named
<1>6. PICK votes \in Seq(VotesOver(named)) : votes = Votes(pairs) /\ Sound(votes)
  <2>1. Votes(pairs) \in Seq(VotesOver(named)) /\ Sound(Votes(pairs))
    BY <1>3, VotesAre
  <2>2. QED BY <2>1
<1>7. PICK try \in Seq(VotedFor(votes)) : try = ToTry(votes)
  <2>1. ToTry(votes) \in Seq(VotedFor(votes))
    BY ToTryIs
  <2>2. QED BY <2>1
<1>8. VotedFor(votes) \subseteq ToSet(Formats)
  BY CountsAre
<1>9. try \in Seq(ToSet(Formats))
  BY <1>8
<1>10. ASSUME try # << >>
       PROVE  /\ Head(try) \in ToSet(Formats) /\ c # NoContext
              /\ \E item \in named : item.address \in Made(item.who, Head(try))
  <2>1. Head(try) \in VotedFor(votes)
    BY <1>10
  <2>2. PICK i \in DOMAIN votes : votes[i].format = Head(try)
    BY <2>1 DEF VotedFor
  <2>3. votes[i].pair \in named
    <3>1. votes[i] \in VotesOver(named)
      OBVIOUS
    <3>2. QED BY <3>1 DEF VotesOver
  <2>4. votes[i].pair.address \in Made(votes[i].pair.who, Head(try))
    BY <1>6, <2>2 DEF Sound
  <2>5. QED BY <1>4, <1>8, <2>1, <2>3, <2>4
<1>11. FoundFormats(c) = try
  BY <1>5, <1>6, <1>7
<1>12. QED BY <1>3, <1>4, <1>9, <1>10, <1>11

(* The address found for a person is one that the person may have. *)
LEMMA SightIs ==
  ASSUME NEW p \in ToSet(People), NEW c \in Contexts \cup {NoContext}
  PROVE  /\ Sight(p, c) \in Seq([address : Addresses, format : Patterns])
         /\ Sight(p, c) # << >> =>
              Head(Sight(p, c)).address \in Addresses /\ Head(Sight(p, c)).address \in FoundAddresses(c)
<1> DEFINE D == [address : Addresses, format : Patterns]
           matching == {i \in DOMAIN Found(c) : Found(c)[i].address \in LooksLike[p]}
<1>1. CASE matching = {}
  <2>1. Sight(p, c) = << >>
    BY <1>1 DEF Sight
  <2>2. << >> \in Seq(D)
    OBVIOUS
  <2>3. QED BY <2>1, <2>2
<1>2. CASE matching # {}
  <2>1. matching \in SUBSET Nat
    BY ContextIs
  <2>2. PICK i \in matching : i = Min(matching)
    <3> HIDE DEF matching
    <3>1. QED BY <1>2, <2>1, MinIsOne
  <2>3. PICK a : a = Found(c)[i].address
    OBVIOUS
  <2>4. a \in Addresses /\ a \in FoundAddresses(c)
    <3>1. a \in LooksLike[p] /\ Found(c)[i] \in ToSet(Found(c))
      BY <2>2, <2>3 DEF ToSet
    <3>2. QED BY <2>3, <3>1, NamesAssumption DEF FoundAddresses
  <2>5. PICK f \in Patterns : f = IF Inferred(Names[p], a) = NoFormat THEN Sighted ELSE Inferred(Names[p], a)
    <3>1. p \in DOMAIN Names
      BY TaskAssumption
    <3>2. Inferred(Names[p], a) \in ToSet(Formats) \cup {NoFormat}
      BY <3>1, InferredOfName
    <3>3. QED BY <3>2, TaskAssumption
  <2>6. Sight(p, c) = <<Candidate(a, f)>>
    BY <1>2, <2>2, <2>3, <2>5 DEF Sight
  <2>7. Candidate(a, f) \in D /\ Candidate(a, f).address = a
    BY <2>4 DEF Candidate
  <2> HIDE DEF D
  <2>8. <<Candidate(a, f)>> \in Seq(D) /\ Head(<<Candidate(a, f)>>) = Candidate(a, f)
    BY <2>7
  <2>9. QED BY <2>4, <2>6, <2>7, <2>8 DEF D
<1>3. QED BY <1>1, <1>2

(***************************************************************************)
(* The ranking of a person's candidates                                    *)
(***************************************************************************)

PersonsCandidates == [address : Addresses, format : Patterns]

LEMMA RowsAre ==
  ASSUME NEW r \in Rows \cup {NoRow}, NEW f \in Patterns, NEW b \in BOOLEAN
  PROVE  WithHit(r, f) \in Rows /\ WithHint(r, f) \in Rows /\ WithCatchall(r, b) \in Rows
<1>1. Threshold \in Nat \ {0} /\ NoRow \notin Rows
  BY RowAssumption
<1>2. CASE r = NoRow
  BY <1>2 DEF WithHit, WithHint, WithCatchall, Rows
<1>3. CASE r # NoRow
  <2>1. r \in Rows
    BY <1>3
  <2>2. Less1(r.conf) \in Nat /\ r.conf + 1 \in Nat
    BY <2>1 DEF Less1, Rows
  <2>3. WithHit(r, f) \in Rows
    BY <1>3, <2>1, <2>2 DEF WithHit, Rows
  <2>4. WithHint(r, f) \in Rows /\ WithCatchall(r, b) \in Rows
    BY <1>3, <2>1 DEF WithHint, WithCatchall, Rows
  <2>5. QED BY <2>3, <2>4
<1>4. QED BY <1>2, <1>3

LEMMA TrustedIs ==
  ASSUME NEW r \in Rows
  PROVE  /\ r.pattern \in Patterns \cup {NoFormat}
         /\ Trusted(r) \in Patterns \cup {NoFormat}
         /\ Trusted(r) # NoFormat => Trusted(r) = r.pattern
BY RowAssumption, TaskAssumption DEF Rows, Trusted

(* What is likely, given Hunter's answer c. *)
LikelyGiven(p, c) ==
  IF Trusted(pattern) # NoFormat THEN MadeOf(Names[p], Trusted(pattern))
  ELSE LikelyOnes(Names[p], pattern.pattern, conventions, Sight(p, c), Format(c))

RankIsRight(p, c) ==
  /\ Rank(p, c) \in Seq(PersonsCandidates) /\ EachOnce(Rank(p, c))
  /\ FewVariants(p) =>
       /\ LikelyGiven(p, c) \subseteq AddressesOf(Rank(p, c))
       /\ \A i \in DOMAIN Rank(p, c) :
            Rank(p, c)[i].address \in LikelyGiven(p, c) <=> i <= Cardinality(LikelyGiven(p, c))
       /\ Trusted(pattern) # NoFormat => AddressesOf(Rank(p, c)) = LikelyGiven(p, c)

LEMMA RankIs ==
  ASSUME NEW p \in ToSet(People), NEW c \in Contexts \cup {NoContext},
         pattern \in Rows, conventions \in Seq(ToSet(Formats))
  PROVE  RankIsRight(p, c)
<1>1. p \in DOMAIN Names /\ ToSet(Formats) \subseteq Patterns /\ NoFormat \notin Patterns
  BY TaskAssumption, RowAssumption
<1>2. PICK name : name = Names[p]
  OBVIOUS
<1>3. NameOver(name, Patterns, Addresses) /\ \A f \in Patterns : name[f] # << >>
  <2>1. ASSUME NEW f \in Patterns PROVE name[f] \in Seq(Addresses) /\ name[f] # << >>
    <3>1. name[f] \in Seq(ToSet(name[f])) /\ ToSet(name[f]) \subseteq Addresses /\ name[f] # << >>
      BY <1>1, <1>2, NamesAssumption
    <3>2. QED BY <3>1, OverItsElements
  <2>2. \A f, g \in Patterns : Len(name[f]) = Len(name[g])
    BY <1>1, <1>2, NamesAre
  <2>3. QED BY <2>1, <2>2 DEF NameOver
<1>4. PICK trusted, lead, convs, sighted, hunters :
        /\ trusted = Trusted(pattern) /\ lead = pattern.pattern /\ convs = conventions
        /\ sighted = Sight(p, c) /\ hunters = Format(c)
  OBVIOUS
<1>5. /\ trusted \in Patterns \cup {NoFormat} /\ lead \in Patterns \cup {NoFormat}
      /\ convs \in Seq(ToSet(Formats)) /\ sighted \in Seq([address : Addresses, format : Patterns])
      /\ hunters \in Patterns \cup {NoFormat}
  BY <1>4, TrustedIs, SightIs, ContextIs
<1>6. PICK ranked, L :
        /\ ranked = Ranked(name, trusted, lead, convs, sighted, hunters)
        /\ L = IF trusted # NoFormat THEN MadeOf(name, trusted)
               ELSE LikelyOnes(name, lead, convs, sighted, hunters)
  OBVIOUS
<1>7. /\ ranked \in Seq([address : Addresses, format : Patterns]) /\ EachOnce(ranked)
      /\ (\A f \in Patterns : Cardinality(MadeOf(name, f)) <= Least(4, MaxCandidates)) =>
              /\ L \subseteq AddressesOf(ranked)
              /\ \A i \in DOMAIN ranked : ranked[i].address \in L <=> i <= Cardinality(L)
              /\ trusted # NoFormat => AddressesOf(ranked) = L
  <2>1. RankedRight(Addresses, Patterns, name, trusted, L, ranked)
    BY <1>1, <1>3, <1>5, <1>6, RankedIs
  <2>2. QED BY <2>1 DEF RankedRight
<1>8. ranked = Rank(p, c) /\ L = LikelyGiven(p, c)
  BY <1>2, <1>4, <1>6 DEF Rank, LikelyGiven
<1>9. FewVariants(p) => \A f \in Patterns : Cardinality(MadeOf(name, f)) <= Least(4, MaxCandidates)
  BY <1>1, <1>2 DEF FewVariants, Made, MadeOf
<1>10. QED BY <1>4, <1>7, <1>8, <1>9 DEF RankIsRight, PersonsCandidates

(* Whom _confirm_on_catchall confirms was found there. *)
LEMMA ConfirmedIs ==
  ASSUME NEW p \in ToSet(People), NEW c \in Contexts \cup {NoContext},
         pattern \in Rows, conventions \in Seq(ToSet(Formats))
  PROVE  /\ Confirmed(p, c) \in Addresses \cup {NoAddress}
         /\ Confirmed(p, c) # NoAddress => Confirmed(p, c) \in FoundAddresses(c) /\ c # NoContext
<1>1. PICK ranked \in Seq(PersonsCandidates) : ranked = Rank(p, c)
  BY RankIs DEF RankIsRight
<1> DEFINE seen == {i \in DOMAIN ranked : ranked[i].address \in FoundAddresses(c)}
<1>2. CASE Sight(p, c) # << >>
  <2>1. Confirmed(p, c) = Head(Sight(p, c)).address
    BY <1>2 DEF Confirmed
  <2>2. QED BY <1>2, <2>1, SightIs, ContextIs DEF FoundAddresses
<1>3. CASE Sight(p, c) = << >> /\ seen # {}
  <2>1. seen \in SUBSET Nat
    OBVIOUS
  <2>2. PICK i \in seen : i = Min(seen)
    <3> HIDE DEF seen
    <3>1. QED BY <1>3, <2>1, MinIsOne
  <2>3. Confirmed(p, c) = ranked[i].address
    BY <1>1, <1>3, <2>2 DEF Confirmed
  <2>4. ranked[i].address \in FoundAddresses(c) /\ ranked[i] \in PersonsCandidates
    BY <2>2
  <2>5. QED BY <2>3, <2>4, ContextIs DEF FoundAddresses, PersonsCandidates
<1>4. CASE Sight(p, c) = << >> /\ seen = {}
  BY <1>1, <1>4 DEF Confirmed
<1>5. QED BY <1>2, <1>3, <1>4

(***************************************************************************)
(* The lookups' promise                                                    *)
(***************************************************************************)

(* Where a lookup is, what its last verdict may have been, and what has become of
   its row: the promise is not inductive without it. *)
InLookup ==
  /\ pc \in {"load", "probe", "hunter", "next", "ladder", "confirm", "finder", "offer", "stopped"}
  /\ last \in Verdicts \cup {NoVerdict}
  /\ pc \in {"load", "probe", "hunter"} => status = Pending /\ last = NoVerdict
  /\ pc = "next" => status # Pending \/ last = NoVerdict
  /\ pc \in {"ladder", "offer"} => status = Pending /\ last \in {NoVerdict, "invalid", "unknown"}
  /\ pc \in {"confirm", "finder"} => status = Pending /\ last \in {NoVerdict, "catchall"}

(* A lookup's step is one of the promise's, or none. *)
Kept == [Promise!Next]_<<last, status>>

USE DEF Verdicts, NoVerdict, Pending

LEMMA LookupInit == Init => InLookup /\ Promise!Init
BY DEF Init, InLookup, Promise!Init, Promise!Pending, Promise!NoVerdict

(* The preparation of the domain, and the ceiling. *)
LEMMA PreparingLookup ==
  ASSUME InLookup, LoadKnown \/ Probe \/ AskHunter \/ Stop
  PROVE  InLookup' /\ Kept
<1>1. UNCHANGED <<last, status>>
  BY DEF LoadKnown, Probe, AskHunter, Stop, person, row
<1>2. InLookup'
  BY <1>1 DEF InLookup, LoadKnown, Probe, AskHunter, Stop
<1>3. QED BY <1>1, <1>2 DEF Kept

LEMMA NextPersonLookup == ASSUME InLookup, NextPerson PROVE InLookup' /\ Kept
<1>1. /\ pc = "next" /\ pc' \in {"ladder", "confirm"}
      /\ last' = NoVerdict /\ status' = Pending
  BY DEF NextPerson
<1>2. InLookup'
  BY <1>1 DEF InLookup
<1>3. CASE status = Pending
  BY <1>1, <1>2, <1>3 DEF InLookup, Kept
<1>4. CASE status # Pending
  BY <1>1, <1>2, <1>4 DEF Kept, Promise!Next, Promise!Another, Promise!Pending, Promise!NoVerdict
<1>5. QED BY <1>2, <1>3, <1>4

(* A verdict, on a candidate or on the finder's address: the row follows from it. *)
LEMMA VerifyKept ==
  ASSUME status = Pending, last \in {NoVerdict, "invalid", "unknown"},
         last' \in Verdicts, status' \in {Pending} \cup LeadsTo(last')
  PROVE  Kept
BY DEF Kept, Promise!Next, Promise!Verify, Promise!GoesOn, Promise!LeadsTo, LeadsTo,
   Promise!Pending, Promise!NoVerdict, Promise!Verdicts

LEMMA ClimbLookup == ASSUME InLookup, Climb PROVE InLookup' /\ Kept
<1>1. PICK v \in Verdicts : last' = v /\ Judge(Head(ladder), v) /\ pc = "ladder"
  BY DEF Climb, Verified
<1>2. CASE v = "valid"
  <2>1. status' = "valid" /\ pc' = "next"
    BY <1>1, <1>2 DEF Judge, Result
  <2>2. QED BY <1>1, <1>2, <2>1, VerifyKept DEF InLookup, LeadsTo
<1>3. CASE v = "error"
  <2>1. status' = "error" /\ pc' = "next"
    BY <1>1, <1>3 DEF Judge, Result
  <2>2. QED BY <1>1, <1>3, <2>1, VerifyKept DEF InLookup, LeadsTo
<1>4. CASE v \in {"catchall", "invalid", "unknown"}
  <2>1. status' = status /\ pc' = IF v = "catchall" THEN "confirm" ELSE "ladder"
    BY <1>1, <1>4 DEF Judge, row
  <2>2. QED BY <1>1, <1>4, <2>1, VerifyKept DEF InLookup
<1>5. QED BY <1>1, <1>2, <1>3, <1>4

LEMMA OfferLookup == ASSUME InLookup, Offer PROVE InLookup' /\ Kept
<1>1. PICK v \in Verdicts : last' = v /\ JudgeFinder(v) /\ pc = "offer"
  BY DEF Offer, Verified
<1>2. /\ pc' = "next"
      /\ status' = IF v \in {"valid", "catchall"} THEN "valid" ELSE "not_found"
  BY <1>1 DEF JudgeFinder, Result
<1>3. status' \in LeadsTo(last')
  BY <1>1, <1>2 DEF LeadsTo
<1>4. QED BY <1>1, <1>2, <1>3, VerifyKept DEF InLookup

(* The row is settled without another verdict. *)
LEMMA ResolveKept ==
  ASSUME status = Pending, last' = last, last \in {NoVerdict, "invalid", "unknown", "catchall"},
         status' \in {Pending, "valid", "not_found"}
  PROVE  Kept
BY DEF Kept, Promise!Next, Promise!Resolve, Promise!LeadsTo, Promise!Pending

LEMMA SettlingLookup == ASSUME InLookup, Confirm \/ Finder \/ Nothing PROVE InLookup' /\ Kept
<1>1. /\ last' = last /\ pc \in {"confirm", "finder", "ladder"}
      /\ \/ pc' = "next" /\ status' \in {"valid", "not_found"}
         \/ pc = "confirm" /\ pc' = "finder" /\ status' = status
         \/ pc = "ladder" /\ pc' = "offer" /\ status' = status
  BY DEF Confirm, Finder, Nothing, Result, LastResort, row
<1>2. QED BY <1>1, ResolveKept DEF InLookup

LEMMA LookupNext == ASSUME InLookup, [Next]_vars PROVE InLookup' /\ Kept
<1>1. CASE UNCHANGED vars
  BY <1>1 DEF vars, row, InLookup, Kept
<1>2. QED
  BY <1>1, PreparingLookup, NextPersonLookup, ClimbLookup, OfferLookup, SettlingLookup DEF Next

(* Every lookup of a domain's task implements the lookup that FinderRun is built
   on (process_person, engine.py 279-418): whatever the ladder, the vendors, Hunter
   and the domain's flag do, the verdicts come one after the other while they are
   misses, and the row gets an outcome that the last of them allows. *)
THEOREM LookupsKeepPromise == Spec => KeepsPromise
<1>1. Init => InLookup /\ Promise!Init
  BY LookupInit
<1>2. InLookup /\ [Next]_vars => InLookup' /\ [Promise!Next]_<<last, status>>
  BY LookupNext DEF Kept
<1>3. QED BY <1>1, <1>2, PTL DEF Spec, KeepsPromise, Promise!Spec

(***************************************************************************)
(* The bill                                                                *)
(***************************************************************************)

(* Whoever was paid for an address left a verdict on it, so nobody is asked again. *)
OneBill ==
  /\ DOMAIN charge = Addresses
  /\ \A a \in Addresses : /\ charge[a] \in {0, Price["primary"], Price["secondary"]}
                          /\ verdict[a] = NoVerdict => charge[a] = 0
  /\ DOMAIN verdict = Addresses

LEMMA BillInit == Init => OneBill
<1> SUFFICES ASSUME Init PROVE OneBill
  OBVIOUS
<1>1. verdict \in [Addresses -> Storable \cup {NoVerdict}]
  BY TaskAssumption DEF Init
<1>2. charge = [a \in Addresses |-> 0]
  BY DEF Init
<1>3. QED BY <1>1, <1>2 DEF OneBill

(* One reply costs what one of the vendors asks, and an error costs nothing. *)
LEMMA OneReply ==
  ASSUME NEW reply \in Replies
  PROVE  /\ reply.cost \in {0, Price["primary"], Price["secondary"]}
         /\ reply.verdict = "error" => reply.cost = 0
         /\ reply.verdict # NoVerdict
<1>1. /\ Price["primary"] \in Nat /\ Price["secondary"] \in Nat
      /\ \A v \in {"catchall", "unknown", "error"} : v \notin BilledBy["primary"]
  BY TaskAssumption DEF Vendors
<1>2. CASE \E v \in {v \in Verdicts : ~SecondOpinion(v)} :
             reply = [verdict |-> v, cost |-> Bill("primary", v)]
  BY <1>1, <1>2 DEF Bill
<1>3. CASE \E v \in {v \in Verdicts : SecondOpinion(v)}, w \in Verdicts :
             reply = [verdict |-> Final(v, w), cost |-> Bill("primary", v) + Bill("secondary", w)]
  <2>1. PICK v \in Verdicts, w \in Verdicts :
          /\ SecondOpinion(v)
          /\ reply = [verdict |-> Final(v, w), cost |-> Bill("primary", v) + Bill("secondary", w)]
    BY <1>3
  <2>2. v \in {"catchall", "unknown"}
    BY <2>1 DEF SecondOpinion
  <2>3. Bill("primary", v) = 0 /\ Bill("secondary", w) \in {0, Price["secondary"]}
    BY <1>1, <2>2 DEF Bill
  <2>4. Final(v, w) \in {"valid", "invalid", "catchall", "unknown"}
    BY <2>2 DEF Final
  <2>5. reply.cost = Bill("secondary", w)
    BY <1>1, <2>1, <2>3
  <2>6. QED BY <2>1, <2>3, <2>4, <2>5
<1>4. QED BY <1>2, <1>3 DEF Replies

LEMMA VerifiedBill ==
  ASSUME OneBill, NEW a, NEW v, Verified(a, v) PROVE OneBill'
<1>1. CASE verdict[a] # NoVerdict
  BY <1>1 DEF Verified, OneBill
<1>2. CASE verdict[a] = NoVerdict
  <2>1. PICK reply \in Replies :
          /\ v = reply.verdict /\ verdict' = Stored(a, v)
          /\ charge' = [charge EXCEPT ![a] = @ + reply.cost]
    BY <1>2 DEF Verified
  <2>2. DOMAIN charge' = Addresses /\ DOMAIN verdict' = Addresses
    BY <2>1 DEF OneBill, Stored
  <2>3. ASSUME NEW b \in Addresses
        PROVE  /\ charge'[b] \in {0, Price["primary"], Price["secondary"]}
               /\ verdict'[b] = NoVerdict => charge'[b] = 0
    <3>1. CASE b # a
      BY <2>1, <3>1 DEF OneBill, Stored
    <3>2. CASE b = a
      <4>1. charge[b] = 0 /\ charge'[b] = 0 + reply.cost
        BY <1>2, <2>1, <3>2 DEF OneBill
      <4>2. reply.cost \in Nat
        BY OneReply, TaskAssumption DEF Vendors
      <4>3. charge'[b] = reply.cost
        BY <4>1, <4>2
      <4>4. v # "error" => verdict'[b] = v
        BY <2>1, <3>2 DEF OneBill, Stored
      <4>5. QED BY <2>1, <4>3, <4>4, OneReply
    <3>3. QED BY <3>1, <3>2
  <2>4. QED BY <2>2, <2>3 DEF OneBill
<1>3. QED BY <1>1, <1>2

LEMMA BillNext == ASSUME OneBill, [Next]_vars PROVE OneBill'
<1>1. CASE Climb
  BY <1>1, VerifiedBill DEF Climb
<1>2. CASE Offer
  BY <1>2, VerifiedBill DEF Offer
<1>3. CASE ~Climb /\ ~Offer
  <2>1. UNCHANGED <<verdict, charge>>
    BY <1>3 DEF Next, vars, person, LoadKnown, Probe, AskHunter, NextPerson, Stop, Confirm,
       Nothing, Finder
  <2>2. QED BY <2>1 DEF OneBill
<1>4. QED BY <1>1, <1>2, <1>3

(* WaterfallVerifier.verify and verify_email (waterfall.py 24-47, engine.py 137-152): over
   the people of a domain, addresses they share, cached verdicts, second opinions
   and the email finder, an address is billed once, by one vendor, or not at all. *)
THEOREM AddressesBilledOnce == Spec => []OneVendorBills
<1>1. OneBill => OneVendorBills
  BY DEF OneBill, OneVendorBills
<1>2. QED BY <1>1, BillInit, BillNext, PTL DEF Spec

(***************************************************************************)
(* What the variables hold                                                 *)
(***************************************************************************)

(* Once the probe has been made the domain has a row; Hunter is asked after it, and
   what hunter_ctx holds then is Hunter's answer, which the session has kept. *)
RowIsThere == pc \in {"hunter", "next", "ladder", "confirm", "finder", "offer"} => pattern \in Rows
AnswerIsHunters ==
  /\ pc \in {"load", "probe", "hunter"} => context = NoContext
  /\ context # NoContext => context = start.hunter /\ resolved

Ready == TypeOK /\ ladder \in Seq(PersonsCandidates) /\ RowIsThere /\ AnswerIsHunters

Voices == {"probe", "hunter", "verifier", "finder"}
DomainTyped ==
  /\ start \in Starts
  /\ pattern \in Rows \cup {NoRow}
  /\ resolved \in BOOLEAN /\ context \in Contexts \cup {NoContext}
  /\ conventions \in Seq(ToSet(Formats)) /\ flag \in BOOLEAN
  /\ shown \subseteq Voices
VerdictsTyped ==
  /\ last \in Verdicts \cup {NoVerdict}
  /\ verdict \in [Addresses -> Storable \cup {NoVerdict}]
  /\ charge \in [Addresses -> Nat]
RowTyped ==
  /\ status \in {Pending, "valid", "not_found", "error"}
  /\ email \in Addresses \cup {NoAddress} /\ flagged \in BOOLEAN
  /\ offered \in Addresses \cup {NoAddress}
PlaceTyped ==
  /\ pc \in {"load", "probe", "hunter", "next", "ladder", "confirm", "finder", "offer", "stopped"}
  /\ queue \in Seq(ToSet(People)) /\ queue # << >>
  /\ ladder \in Seq(PersonsCandidates)

LEMMA CandidatesTyped ==
  /\ \A s \in Seq(PersonsCandidates) : \A c \in ToSet(s) : c.address \in Addresses /\ c.format \in Patterns
  /\ << >> \in Seq(PersonsCandidates)
<1>1. \A c \in PersonsCandidates : c.address \in Addresses /\ c.format \in Patterns
  BY DEF PersonsCandidates
<1>2. \A s \in Seq(PersonsCandidates) : \A i \in DOMAIN s : s[i] \in PersonsCandidates
  OBVIOUS
<1>3. << >> \in Seq(PersonsCandidates)
  OBVIOUS
<1>4. QED BY <1>1, <1>2, <1>3 DEF ToSet

LEMMA ReadyIs ==
  Ready <=> DomainTyped /\ VerdictsTyped /\ RowTyped /\ PlaceTyped /\ RowIsThere /\ AnswerIsHunters
<1>1. ladder \in Seq(PersonsCandidates) =>
        \A c \in ToSet(ladder) : c.address \in Addresses /\ c.format \in Patterns
  BY CandidatesTyped
<1>2. QED BY <1>1 DEF Ready, TypeOK, DomainTyped, VerdictsTyped, RowTyped, PlaceTyped, Voices

LEMMA ReadyIsNext ==
  ASSUME DomainTyped', VerdictsTyped', RowTyped', PlaceTyped', RowIsThere', AnswerIsHunters'
  PROVE  Ready'
<1>1. ladder' \in Seq(PersonsCandidates) =>
        \A c \in ToSet(ladder') : c.address \in Addresses /\ c.format \in Patterns
  BY CandidatesTyped
<1>2. QED BY <1>1 DEF Ready, TypeOK, DomainTyped, VerdictsTyped, RowTyped, PlaceTyped, Voices

(* Whoever speaks is one of the four. *)
LEMMA ToldTypes ==
  ASSUME DomainTyped, NEW who \in Voices, NEW b, Told(who, b)
  PROVE  shown' \subseteq Voices
BY DEF DomainTyped, Told

LEMMA ReadyInit == Init => Ready
<1> SUFFICES ASSUME Init PROVE Ready
  OBVIOUS
<1>1. start \in Starts /\ start.row \in Rows \cup {NoRow} /\ start.hunter \in Contexts
  BY StartsAssumption DEF Init
<1>2. DomainTyped /\ RowIsThere /\ AnswerIsHunters
  <2>1. pattern \in Rows \cup {NoRow} /\ conventions \in Seq(ToSet(Formats))
    BY <1>1 DEF Init
  <2>2. DomainTyped
    BY <1>1, <2>1 DEF Init, DomainTyped
  <2>3. QED BY <2>2 DEF Init, RowIsThere, AnswerIsHunters
<1>3. VerdictsTyped /\ RowTyped
  <2>1. verdict \in [Addresses -> Storable \cup {NoVerdict}]
    BY TaskAssumption DEF Init
  <2>2. QED BY <2>1 DEF Init, VerdictsTyped, RowTyped
<1>4. PlaceTyped
  BY TaskAssumption DEF Init, PlaceTyped
<1>5. QED BY <1>2, <1>3, <1>4, ReadyIs

LEMMA LoadKnownReady == ASSUME Ready, LoadKnown PROVE Ready'
<1>1. DomainTyped /\ VerdictsTyped /\ RowTyped /\ PlaceTyped /\ AnswerIsHunters
  BY ReadyIs
<1>2. pc' = "probe" /\ pattern' \in Rows \cup {NoRow}
  <2>1. Deduced \in ToSet(Formats) \cup {NoFormat}
    BY <1>1, DeducedIs DEF DomainTyped
  <2>2. Deduced # NoFormat => WithHint(pattern, Deduced) \in Rows
    BY <1>1, <2>1, RowsAre, TaskAssumption DEF DomainTyped
  <2>3. QED BY <1>1, <2>2 DEF LoadKnown, DomainTyped
<1>3. UNCHANGED <<domain, resolved, person>>
  BY DEF LoadKnown
<1>4. DomainTyped' /\ RowIsThere'
  BY <1>1, <1>2, <1>3 DEF DomainTyped, RowIsThere, domain, prepared
<1>5. VerdictsTyped' /\ RowTyped' /\ PlaceTyped'
  BY <1>1, <1>2, <1>3 DEF VerdictsTyped, RowTyped, PlaceTyped, person, row
<1>6. AnswerIsHunters'
  BY <1>1, <1>3 DEF AnswerIsHunters, LoadKnown, domain, prepared
<1>7. QED BY <1>4, <1>5, <1>6, ReadyIsNext

LEMMA ProbeReady == ASSUME Ready, Probe PROVE Ready'
<1>1. DomainTyped /\ VerdictsTyped /\ RowTyped /\ PlaceTyped /\ AnswerIsHunters
  BY ReadyIs
<1>2. pc' = "hunter" /\ pattern' \in Rows /\ flag' \in BOOLEAN
  <2>1. CASE CatchallCached(pattern)
    <3>1. pattern \in Rows /\ pattern.catchall \in BOOLEAN
      BY <1>1, <2>1 DEF DomainTyped, CatchallCached, Rows
    <3>2. QED BY <2>1, <3>1 DEF Probe
  <2>2. CASE ~CatchallCached(pattern)
    <3>1. PICK b \in BOOLEAN : flag' = b /\ pattern' = WithCatchall(pattern, b)
      BY <2>2 DEF Probe
    <3>2. Formats[1] \in Patterns
      BY CandidatesAssumption, TaskAssumption DEF ToSet
    <3>3. WithCatchall(pattern, b) \in Rows
      BY <1>1, <3>2, RowsAre DEF DomainTyped
    <3>4. QED BY <3>1, <3>3 DEF Probe
  <2>3. QED BY <2>1, <2>2
<1>3. UNCHANGED <<start, context, conventions, resolved, person>>
  BY DEF Probe
<1>4. DomainTyped' /\ RowIsThere'
  <2>1. shown' \subseteq Voices
    BY <1>1, ToldTypes DEF Probe, Voices
  <2>2. QED BY <1>1, <1>2, <1>3, <2>1 DEF DomainTyped, RowIsThere
<1>5. VerdictsTyped' /\ RowTyped' /\ PlaceTyped'
  BY <1>1, <1>2, <1>3 DEF VerdictsTyped, RowTyped, PlaceTyped, person, row
<1>6. AnswerIsHunters'
  BY <1>1, <1>3 DEF AnswerIsHunters, Probe
<1>7. QED BY <1>4, <1>5, <1>6, ReadyIsNext

LEMMA AskHunterReady == ASSUME Ready, AskHunter PROVE Ready'
<1>1. DomainTyped /\ VerdictsTyped /\ RowTyped /\ PlaceTyped /\ RowIsThere /\ AnswerIsHunters
  BY ReadyIs
<1>2. /\ pc = "hunter" /\ pc' = "next" /\ context = NoContext /\ pattern \in Rows
      /\ start.hunter \in Contexts /\ start \in Starts
  BY <1>1, StartsAssumption DEF AskHunter, RowIsThere, AnswerIsHunters, DomainTyped
<1>3. /\ context' \in Contexts \cup {NoContext} /\ resolved' \in BOOLEAN
      /\ context' # NoContext => context' = start.hunter /\ resolved'
  <2>1. CASE pattern.pattern = NoFormat \/ flag
    BY <1>1, <1>2, <2>1 DEF AskHunter, Resolve, DomainTyped
  <2>2. CASE ~(pattern.pattern = NoFormat \/ flag)
    BY <1>1, <1>2, <2>2 DEF AskHunter, DomainTyped
  <2>3. QED BY <2>1, <2>2
<1>4. PICK c \in Contexts \cup {NoContext} : c = context'
  BY <1>3
<1>5. /\ flag' = (flag \/ (c # NoContext /\ c.acceptAll)) /\ conventions' = FoundFormats(c)
      /\ pattern' = IF FoundFormats(c) # << >> /\ Deduced = NoFormat
                    THEN WithHint(pattern, Head(FoundFormats(c))) ELSE pattern
      /\ UNCHANGED <<start, person>>
  BY <1>4 DEF AskHunter
<1>6. flag' \in BOOLEAN /\ conventions' \in Seq(ToSet(Formats))
  BY <1>1, <1>5, ContextIs, FoundFormatsAre DEF DomainTyped
<1>7. pattern' \in Rows
  <2>1. FoundFormats(c) # << >> => Head(FoundFormats(c)) \in Patterns
    BY FoundFormatsAre, TaskAssumption
  <2>2. FoundFormats(c) # << >> => WithHint(pattern, Head(FoundFormats(c))) \in Rows
    BY <1>2, <2>1, RowsAre
  <2>3. QED BY <1>2, <1>5, <2>2
<1>8. DomainTyped' /\ RowIsThere' /\ AnswerIsHunters'
  <2>1. shown' \subseteq Voices
    BY <1>1, ToldTypes DEF AskHunter, Voices
  <2>2. QED BY <1>1, <1>2, <1>3, <1>5, <1>6, <1>7, <2>1 DEF DomainTyped, RowIsThere, AnswerIsHunters
<1>9. VerdictsTyped' /\ RowTyped' /\ PlaceTyped'
  BY <1>1, <1>2, <1>5 DEF VerdictsTyped, RowTyped, PlaceTyped, person, row
<1>10. QED BY <1>8, <1>9, ReadyIsNext

LEMMA NextPersonReady == ASSUME Ready, NextPerson PROVE Ready'
<1>1. DomainTyped /\ VerdictsTyped /\ RowTyped /\ PlaceTyped /\ RowIsThere /\ AnswerIsHunters
  BY ReadyIs
<1>2. pc = "next" /\ pattern \in Rows
  BY <1>1 DEF NextPerson, RowIsThere
<1>3. queue' \in Seq(ToSet(People)) /\ queue' # << >>
  BY <1>1 DEF NextPerson, PlaceTyped
<1>4. PICK p \in ToSet(People), c \in Contexts \cup {NoContext} : p = Head(queue') /\ c = context
  BY <1>1, <1>3 DEF DomainTyped
<1>5. Rank(p, c) \in Seq(PersonsCandidates)
  BY <1>1, <1>2, RankIs DEF DomainTyped, RankIsRight
<1>6. ladder' \in Seq(PersonsCandidates)
  <2>1. ladder' = << >> \/ ladder' = Rank(p, c)
    BY <1>4 DEF NextPerson
  <2>2. QED BY <1>5, <2>1, CandidatesTyped
<1>7. flag' \in BOOLEAN /\ pc' \in {"confirm", "ladder"}
  <2>1. pattern.catchall \in BOOLEAN
    BY <1>2 DEF Rows
  <2>2. QED BY <1>1, <2>1 DEF NextPerson, FlagNow, DomainTyped
<1>8. /\ UNCHANGED <<start, context, conventions, shown, pattern, resolved, verdict, charge>>
      /\ last' = NoVerdict /\ status' = Pending /\ email' = NoAddress /\ flagged' = FALSE
      /\ offered' = NoAddress
  BY DEF NextPerson
<1>9. DomainTyped' /\ RowIsThere' /\ AnswerIsHunters'
  BY <1>1, <1>2, <1>7, <1>8 DEF DomainTyped, RowIsThere, AnswerIsHunters
<1>10. VerdictsTyped' /\ RowTyped' /\ PlaceTyped'
  BY <1>1, <1>3, <1>6, <1>7, <1>8 DEF VerdictsTyped, RowTyped, PlaceTyped
<1>11. QED BY <1>9, <1>10, ReadyIsNext

LEMMA StopReady == ASSUME Ready, Stop PROVE Ready'
<1>1. DomainTyped /\ VerdictsTyped /\ RowTyped /\ PlaceTyped /\ AnswerIsHunters
  BY ReadyIs
<1>2. pc' = "stopped" /\ UNCHANGED <<domain, pattern, resolved, person>>
  BY DEF Stop
<1>3. DomainTyped' /\ RowIsThere' /\ AnswerIsHunters'
  BY <1>1, <1>2 DEF DomainTyped, RowIsThere, AnswerIsHunters, domain, prepared
<1>4. VerdictsTyped' /\ RowTyped' /\ PlaceTyped'
  BY <1>1, <1>2 DEF VerdictsTyped, RowTyped, PlaceTyped, person, row
<1>5. QED BY <1>3, <1>4, ReadyIsNext

LEMMA ReplyTypes ==
  ASSUME NEW reply \in Replies
  PROVE  reply.cost \in Nat
BY OneReply, TaskAssumption DEF Vendors

LEMMA VerifiedTypes ==
  ASSUME VerdictsTyped, NEW a \in Addresses, NEW v \in Verdicts, Verified(a, v)
  PROVE  VerdictsTyped' /\ last' = v
<1>1. CASE verdict[a] # NoVerdict
  BY <1>1 DEF Verified, VerdictsTyped
<1>2. CASE verdict[a] = NoVerdict
  <2>1. PICK reply \in Replies :
          /\ v = reply.verdict /\ verdict' = Stored(a, v)
          /\ charge' = [charge EXCEPT ![a] = @ + reply.cost]
    BY <1>2 DEF Verified
  <2>2. charge[a] + reply.cost \in Nat
    BY ReplyTypes DEF VerdictsTyped
  <2>3. charge' \in [Addresses -> Nat]
    BY <2>1, <2>2 DEF VerdictsTyped
  <2>4. verdict' \in [Addresses -> Storable \cup {NoVerdict}]
    BY <2>1 DEF Stored, VerdictsTyped, Storable
  <2>5. QED BY <2>3, <2>4 DEF Verified, VerdictsTyped
<1>3. QED BY <1>1, <1>2

LEMMA ClimbReady == ASSUME Ready, Climb PROVE Ready'
<1>1. DomainTyped /\ VerdictsTyped /\ RowTyped /\ PlaceTyped /\ RowIsThere /\ AnswerIsHunters
  BY ReadyIs
<1>2. /\ pc = "ladder" /\ pattern \in Rows /\ ladder # << >>
      /\ UNCHANGED <<prepared, resolved, queue, offered>>
  BY <1>1 DEF Climb, RowIsThere
<1>3. PICK c \in PersonsCandidates : c = Head(ladder)
  BY <1>1, <1>2 DEF PlaceTyped
<1>4. c.address \in Addresses /\ c.format \in Patterns
  BY DEF PersonsCandidates
<1>5. PICK v \in Verdicts : Verified(c.address, v) /\ Judge(c, v)
  BY <1>3 DEF Climb
<1>6. VerdictsTyped'
  BY <1>1, <1>4, <1>5, VerifiedTypes
<1>7. pattern' \in Rows
  <2>1. WithHit(pattern, c.format) \in Rows /\ WithCatchall(pattern, TRUE) \in Rows
    BY <1>2, <1>4, RowsAre
  <2>2. QED BY <1>2, <1>5, <2>1 DEF Judge
<1>8. RowTyped'
  BY <1>1, <1>2, <1>4, <1>5 DEF RowTyped, Judge, Result, row
<1>9. PlaceTyped'
  <2>1. pc' \in {"next", "confirm", "ladder"}
    BY <1>5 DEF Judge, Result
  <2>2. ladder' \in Seq(PersonsCandidates)
    <3>1. ladder' = Tail(ladder) \/ ladder' = << >>
      BY <1>5 DEF Judge
    <3>2. Tail(ladder) \in Seq(PersonsCandidates)
      BY <1>1, <1>2 DEF PlaceTyped
    <3>3. QED BY <3>1, <3>2, CandidatesTyped
  <2>3. QED BY <1>1, <1>2, <2>1, <2>2 DEF PlaceTyped
<1>10. DomainTyped' /\ RowIsThere' /\ AnswerIsHunters'
  <2>1. pc' \in {"next", "confirm", "ladder"}
    BY <1>5 DEF Judge, Result
  <2>2. shown' \subseteq Voices
    BY <1>1, ToldTypes DEF Climb, Voices
  <2>3. QED BY <1>1, <1>2, <1>7, <2>1, <2>2 DEF DomainTyped, RowIsThere, AnswerIsHunters, prepared
<1>11. QED BY <1>6, <1>8, <1>9, <1>10, ReadyIsNext

LEMMA ConfirmReady == ASSUME Ready, Confirm PROVE Ready'
<1>1. DomainTyped /\ VerdictsTyped /\ RowTyped /\ PlaceTyped /\ RowIsThere /\ AnswerIsHunters
  BY ReadyIs
<1>2. /\ pc = "confirm" /\ pattern \in Rows
      /\ UNCHANGED <<prepared, pattern, queue, ladder, last, verdict, offered, charge>>
  BY <1>1 DEF Confirm, RowIsThere
<1>3. PICK c \in {context, start.hunter} :
        /\ Told("hunter", c # NoContext /\ c.acceptAll)
        /\ IF context = NoContext THEN Resolve(c) ELSE c = context /\ UNCHANGED resolved
        /\ IF Confirmed(Current, c) # NoAddress
           THEN Result("valid", Confirmed(Current, c), TRUE)
           ELSE pc' = "finder" /\ UNCHANGED row
  BY DEF Confirm
<1>4. c \in Contexts \cup {NoContext} /\ Current \in ToSet(People)
  BY <1>1, StartsAssumption DEF DomainTyped, PlaceTyped, Current
<1>5. Confirmed(Current, c) \in Addresses \cup {NoAddress}
  BY <1>1, <1>2, <1>4, ConfirmedIs DEF DomainTyped
<1>6. resolved' \in BOOLEAN /\ (resolved => resolved')
  BY <1>1, <1>3 DEF Resolve, DomainTyped
<1>7. pc' \in {"next", "finder"} /\ RowTyped'
  BY <1>1, <1>2, <1>3, <1>5 DEF Result, RowTyped, row
<1>8. DomainTyped' /\ RowIsThere' /\ AnswerIsHunters'
  <2>1. shown' \subseteq Voices
    BY <1>1, <1>3, ToldTypes DEF Voices
  <2>2. QED BY <1>1, <1>2, <1>6, <1>7, <2>1 DEF DomainTyped, RowIsThere, AnswerIsHunters, prepared
<1>9. VerdictsTyped' /\ PlaceTyped'
  BY <1>1, <1>2, <1>7 DEF VerdictsTyped, PlaceTyped
<1>10. QED BY <1>7, <1>8, <1>9, ReadyIsNext

LEMMA SettlingReady == ASSUME Ready, Finder \/ Nothing PROVE Ready'
<1>1. DomainTyped /\ VerdictsTyped /\ RowTyped /\ PlaceTyped /\ RowIsThere /\ AnswerIsHunters
  BY ReadyIs
<1>2. /\ pc \in {"finder", "ladder"} /\ pc' \in {"next", "offer"} /\ pattern \in Rows
      /\ UNCHANGED <<prepared, pattern, resolved, queue, ladder, last, verdict, charge>>
  BY <1>1 DEF Finder, Nothing, LastResort, Result, RowIsThere, domain
<1>3. RowTyped'
  <2>1. CASE Nothing
    BY <1>1, <2>1 DEF Nothing, Result, RowTyped
  <2>2. CASE Finder
    <3>1. CASE Result("not_found", NoAddress, pc = "finder") /\ UNCHANGED <<offered, shown>>
      BY <1>1, <3>1 DEF Result, RowTyped
    <3>2. CASE ~(Result("not_found", NoAddress, pc = "finder") /\ UNCHANGED <<offered, shown>>)
      <4>1. PICK a \in Offers, acceptAll \in BOOLEAN :
              /\ offered' = a
              /\ IF pc = "finder" \/ acceptAll THEN Result("valid", a, TRUE)
                                               ELSE pc' = "offer" /\ UNCHANGED row
        BY <2>2, <3>2 DEF Finder
      <4>2. a \in Addresses
        BY TaskAssumption
      <4>3. QED BY <1>1, <4>1, <4>2 DEF Result, RowTyped, row
    <3>3. QED BY <3>1, <3>2
  <2>3. QED BY <2>1, <2>2
<1>4. DomainTyped' /\ RowIsThere' /\ AnswerIsHunters'
  <2>1. shown' = shown \/ \E acceptAll \in BOOLEAN : Told("finder", acceptAll)
    BY DEF Finder, Nothing, domain
  <2>2. shown' \subseteq Voices
    BY <1>1, <2>1, ToldTypes DEF DomainTyped, Voices
  <2>3. QED BY <1>1, <1>2, <2>2 DEF DomainTyped, RowIsThere, AnswerIsHunters, prepared
<1>5. VerdictsTyped' /\ PlaceTyped'
  BY <1>1, <1>2 DEF VerdictsTyped, PlaceTyped
<1>6. QED BY <1>3, <1>4, <1>5, ReadyIsNext

(* The finder's address is there to be verified. *)
OfferIsThere == pc = "offer" => offered \in Addresses

LEMMA OfferReady == ASSUME Ready, OfferIsThere, Offer PROVE Ready'
<1>1. DomainTyped /\ VerdictsTyped /\ RowTyped /\ PlaceTyped /\ RowIsThere /\ AnswerIsHunters
  BY ReadyIs
<1>2. /\ pc = "offer" /\ pattern \in Rows /\ offered \in Addresses
      /\ UNCHANGED <<prepared, resolved, queue, ladder, offered>>
  BY <1>1 DEF Offer, RowIsThere, OfferIsThere
<1>3. PICK v \in Verdicts : Verified(offered, v) /\ JudgeFinder(v)
  BY DEF Offer
<1>4. VerdictsTyped'
  BY <1>1, <1>2, <1>3, VerifiedTypes
<1>5. pattern' \in Rows
  <2>1. Formats[1] \in Patterns
    BY CandidatesAssumption, TaskAssumption DEF ToSet
  <2>2. WithCatchall(pattern, TRUE) \in Rows
    BY <1>2, <2>1, RowsAre
  <2>3. QED BY <1>2, <1>3, <2>2 DEF JudgeFinder
<1>6. pc' = "next" /\ RowTyped'
  BY <1>1, <1>2, <1>3 DEF JudgeFinder, Result, RowTyped
<1>7. DomainTyped' /\ RowIsThere' /\ AnswerIsHunters'
  <2>1. shown' \subseteq Voices
    BY <1>1, ToldTypes DEF Offer, Voices
  <2>2. QED BY <1>1, <1>2, <1>5, <1>6, <2>1 DEF DomainTyped, RowIsThere, AnswerIsHunters, prepared
<1>8. PlaceTyped'
  BY <1>1, <1>2, <1>6 DEF PlaceTyped
<1>9. QED BY <1>4, <1>6, <1>7, <1>8, ReadyIsNext

LEMMA OfferStays == ASSUME OfferIsThere, [Next]_vars PROVE OfferIsThere'
<1>1. CASE Finder
  <2>1. pc' = "offer" => offered' \in Offers
    BY <1>1 DEF Finder, Result
  <2>2. QED BY <2>1, TaskAssumption DEF OfferIsThere
<1>2. CASE UNCHANGED vars
  BY <1>2 DEF vars, OfferIsThere
<1>3. CASE Next /\ ~Finder
  BY <1>3 DEF Next, OfferIsThere, LoadKnown, Probe, AskHunter, NextPerson, Stop, Climb, Judge, Confirm,
     Nothing, Offer, JudgeFinder, Result
<1>4. QED BY <1>1, <1>2, <1>3

LEMMA ReadyNext == ASSUME Ready, OfferIsThere, [Next]_vars PROVE Ready'
<1>1. CASE UNCHANGED vars
  <2>1. DomainTyped' /\ VerdictsTyped' /\ RowTyped' /\ PlaceTyped' /\ RowIsThere' /\ AnswerIsHunters'
    BY <1>1, ReadyIs DEF vars, domain, prepared, row, DomainTyped, VerdictsTyped, RowTyped, PlaceTyped, RowIsThere,
       AnswerIsHunters
  <2>2. QED BY <2>1, ReadyIsNext
<1>2. QED
  BY <1>1, LoadKnownReady, ProbeReady, AskHunterReady, NextPersonReady, StopReady, ClimbReady,
     ConfirmReady, SettlingReady, OfferReady DEF Next

(* prepare_domain and process_domain (engine.py 711-841): whatever the databases, the
   vendors and Hunter say, every variable of the task stays what it is meant to be;
   in particular the domain has a row once the probe is over, which the task's later
   reads of it rely on, and every address on a ladder is one of the person's. *)
THEOREM TypeCorrect == Spec => []TypeOK
<1>1. Init => Ready /\ OfferIsThere
  BY ReadyInit DEF Init, OfferIsThere
<1>2. Ready /\ OfferIsThere /\ [Next]_vars => (Ready /\ OfferIsThere)'
  BY ReadyNext, OfferStays
<1>3. Ready => TypeOK
  BY DEF Ready
<1>4. QED BY <1>1, <1>2, <1>3, PTL DEF Spec


(* What every invariant below rests on. *)
Sure == Ready /\ OfferIsThere /\ InLookup

LEMMA SureInit == Init => Sure
BY ReadyInit, LookupInit DEF Init, OfferIsThere, Sure

LEMMA SureNext == ASSUME Sure, [Next]_vars PROVE Sure'
BY ReadyNext, OfferStays, LookupNext DEF Sure

(***************************************************************************)
(* A domain that accepts all mail                                          *)
(***************************************************************************)

(* Of the voices that say that the domain accepts all mail, the task heeds each but
   the finder's: by its flag, or by the domain's row. *)
Accepting == flag \/ (pattern \in Rows /\ pattern.catchall)
Heeded == shown \subseteq {"finder"} \/ Accepting
(* The loop has looked at both before a person's ladder, and the ladder is left when
   one of them changes. *)
NotAll == pc \in {"ladder", "offer"} => ~flag /\ ~pattern.catchall
AskedWhenAccepting == pc = "confirm" => Accepting

Careful == Heeded /\ NotAll /\ AskedWhenAccepting

LEMMA CatchallRow ==
  ASSUME NEW r \in Rows \cup {NoRow}
  PROVE  /\ \A b \in BOOLEAN : WithCatchall(r, b) \in Rows /\ WithCatchall(r, b).catchall = b
         /\ \A f \in Patterns : r \in Rows => WithHint(r, f) \in Rows /\ WithHint(r, f).catchall = r.catchall
         /\ \A f \in Patterns : r \in Rows => WithHit(r, f) \in Rows /\ WithHit(r, f).catchall = r.catchall
<1>1. Formats[1] \in Patterns /\ NoRow \notin Rows
  BY CandidatesAssumption, TaskAssumption, RowAssumption DEF ToSet
<1>2. ASSUME NEW b \in BOOLEAN PROVE WithCatchall(r, b).catchall = b
  BY DEF WithCatchall, Rows
<1>3. ASSUME NEW f \in Patterns, r \in Rows
      PROVE  WithHint(r, f).catchall = r.catchall /\ WithHit(r, f).catchall = r.catchall
  BY <1>1, <1>3 DEF WithHint, WithHit, Rows
<1>4. QED BY <1>1, <1>2, <1>3, RowsAre

LEMMA CarefulInit == Init => Careful
BY DEF Init, Careful, Heeded, NotAll, AskedWhenAccepting

(* Nobody has spoken before the probe: the stored row's word is the probe's. *)
Silent == pc \in {"load", "probe"} => shown = {}

LEMMA PreparingCareful ==
  ASSUME Sure, Careful, Silent, LoadKnown \/ Probe \/ AskHunter PROVE Careful'
<1>1. DomainTyped /\ RowIsThere
  BY ReadyIs DEF Sure
<1>2. CASE LoadKnown
  BY <1>2 DEF LoadKnown, Silent, Careful, Heeded, NotAll, AskedWhenAccepting, domain
<1>3. CASE Probe
  <2>1. shown' = IF flag' THEN {"probe"} ELSE {}
    BY <1>3 DEF Probe, Told, Silent
  <2>2. QED BY <1>3, <2>1 DEF Probe, Careful, Heeded, Accepting, NotAll, AskedWhenAccepting
<1>4. CASE AskHunter
  <2>1. pattern \in Rows /\ pc' = "next"
    BY <1>1, <1>4 DEF AskHunter, RowIsThere
  <2>2. pattern' \in Rows /\ pattern'.catchall = pattern.catchall
    <3>1. PICK c \in Contexts \cup {NoContext} : c = context'
      <4>1. context = NoContext /\ start.hunter \in Contexts
        BY <1>1, <1>4, ReadyIs, StartsAssumption DEF AskHunter, AnswerIsHunters, DomainTyped, Sure
      <4>2. QED BY <1>4, <4>1 DEF AskHunter
    <3>2. FoundFormats(c) # << >> => Head(FoundFormats(c)) \in Patterns
      BY FoundFormatsAre, TaskAssumption
    <3>3. pattern' = pattern
          \/ (FoundFormats(c) # << >> /\ pattern' = WithHint(pattern, Head(FoundFormats(c))))
      BY <1>4, <3>1 DEF AskHunter
    <3>4. QED BY <2>1, <3>2, <3>3, CatchallRow
  <2>3. flag => flag'
    BY <1>4 DEF AskHunter
  <2>4. shown' = shown \/ flag'
    BY <1>4 DEF AskHunter, Told
  <2>5. Accepting => Accepting'
    BY <2>2, <2>3 DEF Accepting
  <2>6. Heeded'
    BY <2>4, <2>5 DEF Careful, Heeded, Accepting
  <2>7. QED BY <2>1, <2>6 DEF Careful, NotAll, AskedWhenAccepting
<1>5. QED BY <1>2, <1>3, <1>4

LEMMA NextPersonCareful == ASSUME Sure, Careful, NextPerson PROVE Careful'
<1>1. pattern \in Rows /\ pattern' = pattern /\ shown' = shown
  BY ReadyIs DEF Sure, NextPerson, RowIsThere
<1>2. flag' = (flag \/ pattern.catchall) /\ pc' = IF flag' THEN "confirm" ELSE "ladder"
  BY DEF NextPerson, FlagNow
<1>3. QED BY <1>1, <1>2 DEF Careful, Heeded, Accepting, NotAll, AskedWhenAccepting

LEMMA ClimbCareful == ASSUME Sure, Careful, Climb PROVE Careful'
<1>1. PICK v \in Verdicts :
        /\ last' = v /\ Judge(Head(ladder), v)
  BY DEF Climb, Verified
<1>2. /\ pc = "ladder" /\ flag' = flag /\ ~flag /\ ~pattern.catchall
      /\ shown' = IF v = "catchall" THEN shown \cup {"verifier"} ELSE shown
  BY <1>1 DEF Climb, Told, prepared, Careful, NotAll
<1>3. shown \subseteq {"finder"}
  BY <1>2 DEF Careful, Heeded, Accepting
<1>4. CASE v = "catchall"
  <2>1. pattern' \in Rows /\ pattern'.catchall
    <3>1. pattern' = WithCatchall(pattern, TRUE)
      BY <1>1, <1>4 DEF Judge
    <3>2. pattern \in Rows \cup {NoRow}
      BY ReadyIs DEF Sure, DomainTyped
    <3>3. WithCatchall(pattern, TRUE) \in Rows /\ WithCatchall(pattern, TRUE).catchall = TRUE
      BY <3>2, CatchallRow
    <3>4. QED BY <3>1, <3>3
  <2>2. pc' = "confirm"
    BY <1>1, <1>4 DEF Judge
  <2>3. QED BY <2>1, <2>2 DEF Careful, Heeded, Accepting, NotAll, AskedWhenAccepting
<1>5. CASE v # "catchall"
  <2>1. pc' = "next" \/ (pc' = "ladder" /\ pattern' = pattern)
    BY <1>1, <1>5 DEF Judge, Result
  <2>2. QED BY <1>2, <1>3, <1>5, <2>1 DEF Careful, Heeded, NotAll, AskedWhenAccepting
<1>6. QED BY <1>4, <1>5

LEMMA OfferCareful == ASSUME Sure, Careful, Offer PROVE Careful'
<1>1. PICK v \in Verdicts : last' = v /\ JudgeFinder(v)
  BY DEF Offer, Verified
<1>2. /\ pc = "offer" /\ pc' = "next" /\ ~flag /\ ~pattern.catchall
      /\ shown' = IF v = "catchall" THEN shown \cup {"verifier"} ELSE shown
  BY <1>1 DEF Offer, JudgeFinder, Result, Told, Careful, NotAll
<1>3. shown \subseteq {"finder"}
  BY <1>2 DEF Careful, Heeded, Accepting
<1>4. v = "catchall" => pattern' \in Rows /\ pattern'.catchall
  BY <1>1, ReadyIs, CatchallRow DEF JudgeFinder, Sure, DomainTyped
<1>5. QED BY <1>2, <1>3, <1>4 DEF Careful, Heeded, Accepting, NotAll, AskedWhenAccepting

LEMMA SettlingCareful == ASSUME Sure, Careful, Confirm \/ Finder \/ Nothing PROVE Careful'
<1>1. UNCHANGED <<pattern, flag>>
  BY DEF Confirm, Finder, Nothing, domain, prepared
<1>2. CASE Confirm
  <2>1. Accepting /\ pc' \in {"next", "finder"}
    BY <1>2 DEF Confirm, Result, Careful, AskedWhenAccepting
  <2>2. QED BY <1>1, <2>1 DEF Careful, Heeded, Accepting, NotAll, AskedWhenAccepting
<1>3. CASE Finder \/ Nothing
  <2>1. shown' \subseteq shown \cup {"finder"}
    BY <1>3 DEF Finder, Nothing, Told, domain
  <2>2. pc' = "next" \/ (pc = "ladder" /\ pc' = "offer")
    BY <1>3 DEF Finder, Nothing, LastResort, Result
  <2>3. QED BY <1>1, <2>1, <2>2 DEF Careful, Heeded, Accepting, NotAll, AskedWhenAccepting
<1>4. QED BY <1>2, <1>3

LEMMA CarefulNext == ASSUME Sure, Careful, Silent, [Next]_vars PROVE Careful' /\ Silent'
<1>1. CASE Stop
  <2>1. pc' = "stopped" /\ UNCHANGED <<shown, flag, pattern>>
    BY <1>1 DEF Stop, domain, prepared
  <2>2. QED BY <2>1 DEF Careful, Heeded, Accepting, NotAll, AskedWhenAccepting, Silent
<1>2. CASE UNCHANGED vars
  <2>1. UNCHANGED <<pc, shown, flag, pattern>>
    BY <1>2 DEF vars, domain, prepared
  <2>2. QED BY <2>1 DEF Careful, Heeded, Accepting, NotAll, AskedWhenAccepting, Silent
<1>3. CASE LoadKnown
  <2>1. Silent'
    BY <1>3 DEF LoadKnown, Silent, domain
  <2>2. QED BY <1>3, <2>1, PreparingCareful
<1>4. CASE Next /\ ~Stop /\ ~LoadKnown
  <2>1. pc' \notin {"load", "probe"}
    BY <1>4 DEF Next, Probe, AskHunter, NextPerson, Climb, Judge, Confirm, Finder, Nothing, Offer,
       JudgeFinder, Result
  <2>2. Careful'
    BY <1>4, PreparingCareful, NextPersonCareful, ClimbCareful, OfferCareful, SettlingCareful DEF Next
  <2>3. QED BY <2>1, <2>2 DEF Silent
<1>5. QED BY <1>1, <1>2, <1>3, <1>4

NoneBought ==
  verdict' # verdict \/ charge' # charge \/ (pc = "ladder" /\ last' # last)
     => shown \subseteq {"finder"}

LEMMA NoneBoughtStep == ASSUME Sure, Careful, [Next]_vars PROVE NoneBought
<1>1. CASE Climb \/ Offer
  BY <1>1 DEF Climb, Offer, Careful, Heeded, Accepting, NotAll, NoneBought
<1>2. CASE Next /\ ~Climb /\ ~Offer
  <2>1. verdict' = verdict /\ charge' = charge
    BY <1>2 DEF Next, LoadKnown, Probe, AskHunter, NextPerson, Stop, Confirm, Nothing, Finder, person
  <2>2. pc = "ladder" => last' = last
    BY <1>2 DEF Next, LoadKnown, Probe, AskHunter, NextPerson, Stop, Confirm, Nothing, Finder, person
  <2>3. QED BY <2>1, <2>2 DEF NoneBought
<1>3. CASE UNCHANGED vars
  BY <1>3 DEF vars, NoneBought
<1>4. QED BY <1>1, <1>2, <1>3

(* process_domain and process_person (engine.py 764-841, 279-418): whoever has told the
   task that the domain accepts all mail, the probe, the stored row, Hunter's domain
   search or a verdict, its word is in the task's flag or in the domain's row; the loop
   looks at both before each person and the ladder is left when one changes, so no
   address is verified after it.  The email finder's word (engine.py 573-588) is in
   neither: after it alone, addresses are still bought. *)
THEOREM CatchallIsFree == Spec => CatchallNotBought
<1>1. Init => Sure /\ Careful /\ Silent
  BY SureInit, CarefulInit DEF Init, Silent
<1>2. Sure /\ Careful /\ Silent /\ [Next]_vars => (Sure /\ Careful /\ Silent)' /\ [NoneBought]_vars
  BY SureNext, CarefulNext, NoneBoughtStep
<1>3. QED BY <1>1, <1>2, PTL DEF Spec, CatchallNotBought, NoneBought

(***************************************************************************)
(* Who vouches for an address                                              *)
(***************************************************************************)

LEMMA VerifiedSays ==
  ASSUME VerdictsTyped, NEW a \in Addresses, NEW v \in Verdicts, Verified(a, v)
  PROVE  /\ v # "error" => verdict'[a] = v
         /\ \A b \in Addresses : verdict[b] # NoVerdict => verdict'[b] = verdict[b]
<1>1. CASE verdict[a] # NoVerdict
  BY <1>1 DEF Verified
<1>2. CASE verdict[a] = NoVerdict
  <2>1. verdict' = Stored(a, v)
    BY <1>2 DEF Verified
  <2>2. QED BY <1>2, <2>1 DEF Stored, VerdictsTyped
<1>3. QED BY <1>1, <1>2

VouchedFor(e) == offered = e \/ (resolved /\ e \in FoundAddresses(start.hunter))

LEMMA VouchedInit == Init => ValidIsVouched
BY DEF Init, ValidIsVouched

LEMMA VouchedNext == ASSUME Sure, ValidIsVouched, [Next]_vars PROVE ValidIsVouched'
<1>1. DomainTyped /\ VerdictsTyped /\ RowTyped /\ PlaceTyped /\ RowIsThere /\ AnswerIsHunters
  BY ReadyIs DEF Sure
<1>2. CASE Climb
  <2>1. PICK c \in PersonsCandidates : c = Head(ladder)
    BY <1>1, <1>2 DEF Climb, PlaceTyped
  <2>2. c.address \in Addresses
    BY DEF PersonsCandidates
  <2>3. PICK v \in Verdicts : Verified(c.address, v) /\ Judge(c, v)
    BY <1>2, <2>1 DEF Climb
  <2>4. status = Pending
    BY <1>2 DEF Climb, Sure, InLookup
  <2>5. status' = "valid" => v = "valid" /\ email' = c.address /\ flagged' = FALSE
    BY <2>3, <2>4 DEF Judge, Result, row
  <2>6. QED BY <1>1, <2>2, <2>3, <2>5, VerifiedSays DEF ValidIsVouched
<1>3. CASE Offer
  <2>1. offered \in Addresses /\ offered' = offered
    BY <1>3 DEF Offer, Sure, OfferIsThere
  <2>2. PICK v \in Verdicts : Verified(offered, v) /\ JudgeFinder(v)
    BY <1>3 DEF Offer
  <2>3. status' = "valid" => v \in {"valid", "catchall"} /\ email' = offered /\ flagged' = (v = "catchall")
    BY <2>2 DEF JudgeFinder, Result
  <2>4. v # "error" => verdict'[offered] = v
    BY <1>1, <2>1, <2>2, VerifiedSays
  <2>5. QED BY <2>1, <2>3, <2>4 DEF ValidIsVouched
<1>4. CASE Confirm
  <2>1. PICK c \in {context, start.hunter} :
          /\ IF context = NoContext THEN Resolve(c) ELSE c = context /\ UNCHANGED resolved
          /\ IF Confirmed(Current, c) # NoAddress
             THEN Result("valid", Confirmed(Current, c), TRUE)
             ELSE pc' = "finder" /\ UNCHANGED row
    BY <1>4 DEF Confirm
  <2>2. /\ c \in Contexts \cup {NoContext} /\ Current \in ToSet(People) /\ pattern \in Rows
        /\ status = Pending /\ start' = start /\ NoContext \notin Contexts
    BY <1>1, <1>4, StartsAssumption, TaskAssumption DEF DomainTyped, PlaceTyped, Current, Confirm,
       RowIsThere, Sure, InLookup, domain, prepared
  <2>3. Confirmed(Current, c) # NoAddress =>
          Confirmed(Current, c) \in FoundAddresses(c) /\ c = start.hunter /\ resolved'
    <3>1. Confirmed(Current, c) # NoAddress => Confirmed(Current, c) \in FoundAddresses(c) /\ c # NoContext
      BY <1>1, <2>2, ConfirmedIs DEF DomainTyped
    <3>2. c # NoContext => c = start.hunter /\ resolved'
      BY <1>1, <2>1 DEF Resolve, AnswerIsHunters
    <3>3. QED BY <3>1, <3>2
  <2>4. PICK e : e = Confirmed(Current, c)
    OBVIOUS
  <2>5. status' = "valid" => e # NoAddress /\ email' = e /\ flagged' = TRUE
    BY <2>1, <2>2, <2>4 DEF Result, row
  <2>6. e # NoAddress => e \in FoundAddresses(start.hunter) /\ resolved'
    BY <2>3, <2>4
  <2>7. PICK h : h = start.hunter /\ h = start'.hunter
    BY <2>2
  <2>8. QED BY <2>5, <2>6, <2>7 DEF ValidIsVouched
<1>5. CASE Finder
  <2>1. status = Pending
    BY <1>5 DEF Finder, LastResort, Sure, InLookup
  <2>2. status' = "valid" => email' = offered' /\ flagged' = TRUE
    BY <1>5, <2>1 DEF Finder, Result, row
  <2>3. QED BY <2>2 DEF ValidIsVouched
<1>6. CASE NextPerson \/ Nothing
  <2>1. status' # "valid"
    BY <1>6 DEF NextPerson, Nothing, Result
  <2>2. QED BY <2>1 DEF ValidIsVouched
<1>7. CASE LoadKnown \/ Probe \/ AskHunter \/ Stop \/ UNCHANGED vars
  <2>1. /\ UNCHANGED <<start, status, email, flagged, offered, verdict>> /\ (resolved => resolved')
    <3>1. CASE AskHunter
      <4>1. resolved => resolved'
        BY <1>1, <3>1 DEF AskHunter, Resolve, DomainTyped
      <4>2. QED BY <3>1, <4>1 DEF AskHunter, person, row
    <3>2. CASE LoadKnown \/ Probe \/ Stop \/ UNCHANGED vars
      BY <3>2 DEF LoadKnown, Probe, Stop, vars, domain, prepared, person, row
    <3>3. QED BY <1>7, <3>1, <3>2
  <2>2. QED BY <2>1 DEF ValidIsVouched
<1>8. QED BY <1>2, <1>3, <1>4, <1>5, <1>6, <1>7 DEF Next

(* _apply_result, _confirm_on_catchall and _try_email_finder (engine.py 178-206, 421-631):
   a row
   that says valid has its reason for it, and keeps it while the next people are looked
   up and Hunter is asked again. *)
THEOREM ValidAddressesAreVouched == Spec => []ValidIsVouched
<1>1. Init => Sure /\ ValidIsVouched
  BY SureInit, VouchedInit
<1>2. Sure /\ ValidIsVouched /\ [Next]_vars => (Sure /\ ValidIsVouched)'
  BY SureNext, VouchedNext
<1>3. QED BY <1>1, <1>2, PTL DEF Spec

(***************************************************************************)
(* The ladder                                                              *)
(***************************************************************************)

(* The ranking follows from the domain's row and its conventions. *)
LEMMA SameRank ==
  ASSUME UNCHANGED <<pattern, conventions, queue, context>>
  PROVE  Rank(Current, context)' = Rank(Current, context)
BY DEF Rank, Current

LEMMA SameConfirmed ==
  ASSUME UNCHANGED <<pattern, conventions, queue, start>>
  PROVE  Confirmed(Current, start.hunter)' = Confirmed(Current, start.hunter)
BY DEF Confirmed, Rank, Current

(* A lookup that has had no verdict yet has all its candidates. *)
WholeLadder == pc = "ladder" /\ last = NoVerdict => ladder = Rank(Current, context)

(* What is no longer on the ladder has been verified and missed; after the ladder,
   nobody found at the domain confirms a candidate. *)
Missed(a) == verdict[a] \in {"invalid", "unknown"}
RestMissed == pc = "ladder" => \A c \in ToSet(Rank(Current, context)) : c \in ToSet(ladder) \/ Missed(c.address)
NobodyConfirms == pc = "finder" /\ resolved => Confirmed(Current, start.hunter) = NoAddress

LEMMA WholeLadderNext == ASSUME Sure, WholeLadder, [Next]_vars PROVE WholeLadder'
<1>1. CASE NextPerson
  <2>1. pc' = "ladder" => ladder' = Rank(Head(queue'), context)
    BY <1>1 DEF NextPerson
  <2>2. Rank(Current, context)' = Rank(Head(queue'), context)
    BY <1>1 DEF NextPerson, Rank, Current
  <2>3. QED BY <2>1, <2>2 DEF WholeLadder
<1>2. CASE Climb
  <2>1. last' \in Verdicts
    BY <1>2 DEF Climb, Verified
  <2>2. QED BY <2>1 DEF WholeLadder
<1>3. CASE UNCHANGED vars
  <2>1. Rank(Current, context)' = Rank(Current, context)
    BY <1>3, SameRank DEF vars, domain, prepared
  <2>2. UNCHANGED <<pc, last, ladder>>
    BY <1>3 DEF vars
  <2>3. QED BY <2>1, <2>2 DEF WholeLadder
<1>4. CASE Next /\ ~NextPerson /\ ~Climb
  <2>1. pc' # "ladder"
    BY <1>4 DEF Next, LoadKnown, Probe, AskHunter, Stop, Confirm, Nothing, Finder, Offer, JudgeFinder, Result
  <2>2. QED BY <2>1 DEF WholeLadder
<1>5. QED BY <1>1, <1>2, <1>3, <1>4

LEMMA TailSet ==
  ASSUME NEW D, NEW s \in Seq(D), s # << >>
  PROVE  \A x \in ToSet(s) : x = Head(s) \/ x \in ToSet(Tail(s))
<1>1. PICK t \in Seq(D) : t = Tail(s)
  <2>1. Tail(s) \in Seq(D)
    OBVIOUS
  <2>2. QED BY <2>1
<1>2. /\ DOMAIN s = 1 .. Len(s) /\ Len(s) \in Nat /\ DOMAIN t = 1 .. (Len(s) - 1)
      /\ Head(s) = s[1] /\ \A i \in DOMAIN t : t[i] = s[i + 1]
  BY <1>1
<1>3. ASSUME NEW i \in DOMAIN s, i # 1 PROVE s[i] \in ToSet(t)
  <2>1. i - 1 \in DOMAIN t /\ s[i] = t[i - 1]
    BY <1>2, <1>3
  <2>2. QED BY <2>1 DEF ToSet
<1>4. QED BY <1>1, <1>2, <1>3 DEF ToSet

LEMMA RestMissedNext == ASSUME Sure, WholeLadder, RestMissed, [Next]_vars, WholeLadder' PROVE RestMissed'
<1>1. CASE NextPerson
  <2>1. pc' = "ladder" => ladder' = Rank(Current, context)'
    BY <1>1 DEF NextPerson, WholeLadder
  <2>2. QED BY <2>1 DEF RestMissed
<1>2. CASE Climb
  <2>1. DomainTyped /\ VerdictsTyped /\ PlaceTyped /\ RowIsThere /\ AnswerIsHunters
    BY ReadyIs DEF Sure
  <2>2. PICK c \in PersonsCandidates : c = Head(ladder)
    BY <1>2, <2>1 DEF Climb, PlaceTyped
  <2>3. c.address \in Addresses
    BY DEF PersonsCandidates
  <2>4. PICK v \in Verdicts : Verified(c.address, v) /\ Judge(c, v)
    BY <1>2, <2>2 DEF Climb
  <2>5. CASE v \in {"invalid", "unknown"}
    <3>1. ladder' = Tail(ladder) /\ UNCHANGED pattern /\ pc = "ladder" /\ ladder # << >>
      BY <1>2, <2>4, <2>5 DEF Climb, Judge
    <3>2. UNCHANGED <<conventions, queue, context>>
      BY <1>2 DEF Climb, domain, prepared
    <3>3. PICK rank : rank = Rank(Current, context) /\ rank = Rank(Current, context)'
      BY <3>1, <3>2, SameRank
    <3>4. rank \in Seq(PersonsCandidates)
      <4>1. Current \in ToSet(People) /\ context \in Contexts \cup {NoContext} /\ pattern \in Rows
        BY <2>1, <3>1 DEF DomainTyped, PlaceTyped, Current, RowIsThere
      <4>2. QED BY <2>1, <3>3, <4>1, RankIs DEF DomainTyped, RankIsRight
    <3>5. verdict'[c.address] = v
      BY <2>1, <2>3, <2>4, <2>5, VerifiedSays
    <3>6. ASSUME NEW x \in ToSet(rank) PROVE x \in ToSet(ladder') \/ verdict'[x.address] \in {"invalid", "unknown"}
      <4>1. CASE x \in ToSet(ladder)
        <5>1. x = c \/ x \in ToSet(ladder')
          BY <2>1, <2>2, <3>1, <4>1, TailSet DEF PlaceTyped
        <5>2. QED BY <2>5, <3>5, <5>1
      <4>2. CASE x \notin ToSet(ladder)
        <5>1. verdict[x.address] \in {"invalid", "unknown"}
          BY <3>1, <3>3, <4>2 DEF RestMissed, Missed
        <5>2. x.address \in Addresses
          BY <3>4, CandidatesTyped
        <5>3. verdict'[x.address] = verdict[x.address]
          BY <2>1, <2>3, <2>4, <5>1, <5>2, VerifiedSays
        <5>4. QED BY <5>1, <5>3
      <4>3. QED BY <4>1, <4>2
    <3>7. QED BY <3>3, <3>6 DEF RestMissed, Missed
  <2>6. CASE v \notin {"invalid", "unknown"}
    <3>1. pc' # "ladder"
      BY <2>4, <2>6 DEF Judge, Result
    <3>2. QED BY <3>1 DEF RestMissed
  <2>7. QED BY <2>5, <2>6
<1>3. CASE UNCHANGED vars
  <2>1. Rank(Current, context)' = Rank(Current, context)
    BY <1>3, SameRank DEF vars, domain, prepared
  <2>2. UNCHANGED <<pc, verdict, ladder>>
    BY <1>3 DEF vars
  <2>3. QED BY <2>1, <2>2 DEF RestMissed, Missed
<1>4. CASE Next /\ ~NextPerson /\ ~Climb
  <2>1. pc' # "ladder"
    BY <1>4 DEF Next, LoadKnown, Probe, AskHunter, Stop, Confirm, Nothing, Finder, Offer, JudgeFinder, Result
  <2>2. QED BY <2>1 DEF RestMissed
<1>5. QED BY <1>1, <1>2, <1>3, <1>4

LEMMA NobodyConfirmsNext == ASSUME Sure, NobodyConfirms, [Next]_vars PROVE NobodyConfirms'
<1>1. CASE Confirm
  <2>1. PICK c \in {context, start.hunter} :
          /\ IF context = NoContext THEN Resolve(c) ELSE c = context /\ UNCHANGED resolved
          /\ IF Confirmed(Current, c) # NoAddress
             THEN Result("valid", Confirmed(Current, c), TRUE)
             ELSE pc' = "finder" /\ UNCHANGED row
    BY <1>1 DEF Confirm
  <2>2. UNCHANGED <<pattern, conventions, queue, start>>
    BY <1>1 DEF Confirm, domain, prepared
  <2>3. pc' = "finder" => Confirmed(Current, c) = NoAddress
    BY <2>1 DEF Result
  <2>4. resolved' => c = start.hunter
    BY <2>1 DEF Resolve, Sure, Ready, AnswerIsHunters, TypeOK
  <2>5. Confirmed(Current, start.hunter)' = Confirmed(Current, start.hunter)
    BY <2>2, SameConfirmed
  <2>6. QED BY <2>3, <2>4, <2>5 DEF NobodyConfirms
<1>2. CASE UNCHANGED vars
  <2>1. Confirmed(Current, start.hunter)' = Confirmed(Current, start.hunter)
    BY <1>2, SameConfirmed DEF vars, domain, prepared
  <2>2. UNCHANGED <<pc, resolved>>
    BY <1>2 DEF vars
  <2>3. QED BY <2>1, <2>2 DEF NobodyConfirms
<1>3. CASE Next /\ ~Confirm
  <2>1. pc' # "finder"
    BY <1>3 DEF Next, LoadKnown, Probe, AskHunter, NextPerson, Stop, Climb, Judge, Nothing, Finder, Offer,
       JudgeFinder, Result
  <2>2. QED BY <2>1 DEF NobodyConfirms
<1>4. QED BY <1>1, <1>2, <1>3

AskedLast ==
  offered' # offered /\ offered' # NoAddress =>
       IF pc = "finder"
       THEN resolved => Confirmed(Current, start.hunter) = NoAddress
       ELSE \A c \in ToSet(Rank(Current, context)) : verdict[c.address] \in {"invalid", "unknown"}

LEMMA AskedLastStep == ASSUME Sure, RestMissed, NobodyConfirms, [Next]_vars PROVE AskedLast
<1>1. CASE Finder
  <2>1. CASE pc = "finder"
    BY <2>1 DEF NobodyConfirms, AskedLast
  <2>2. CASE pc # "finder"
    <3>1. pc = "ladder" /\ ladder = << >>
      BY <1>1, <2>2 DEF Finder, LastResort
    <3>2. ToSet(ladder) = {}
      <4>1. DOMAIN ladder = {}
        BY <3>1
      <4>2. QED BY <4>1 DEF ToSet
    <3>3. QED BY <2>2, <3>1, <3>2 DEF RestMissed, Missed, AskedLast
  <2>3. QED BY <2>1, <2>2
<1>2. CASE UNCHANGED vars
  BY <1>2 DEF vars, AskedLast
<1>3. CASE Next /\ ~Finder
  <2>1. offered' = offered \/ offered' = NoAddress
    BY <1>3 DEF Next, LoadKnown, Probe, AskHunter, NextPerson, Stop, Climb, Confirm, Nothing, Offer, person
  <2>2. QED BY <2>1 DEF AskedLast
<1>4. QED BY <1>1, <1>2, <1>3

(* process_person and _try_email_finder (engine.py 279-418, 522-631): a person's ladder only shrinks by misses that
   `verifications` keeps, and Hunter's answer about the domain does not change within a
   task, so the finder is asked when everything else has been tried. *)
THEOREM FinderComesLast == Spec => FinderIsLast
<1> DEFINE Inv == Sure /\ WholeLadder /\ RestMissed /\ NobodyConfirms
<1>1. Init => Inv
  BY SureInit DEF Init, WholeLadder, RestMissed, NobodyConfirms
<1>2. Inv /\ [Next]_vars => Inv' /\ [AskedLast]_vars
  BY SureNext, WholeLadderNext, RestMissedNext, NobodyConfirmsNext, AskedLastStep
<1>3. QED BY <1>1, <1>2, PTL DEF Spec, FinderIsLast, AskedLast

LEMMA LikelyIs ==
  ASSUME Sure, WholeLadder
  PROVE  LikelyFirst
<1> SUFFICES ASSUME pc = "ladder", last = NoVerdict, FewVariants(Current)
             PROVE  LET list == [i \in DOMAIN ladder |-> ladder[i].address] IN
                    /\ IsInjective(list) /\ Likely(Current) \subseteq ToSet(list)
                    /\ \A i \in DOMAIN list : list[i] \in Likely(Current) <=> i <= Cardinality(Likely(Current))
                    /\ Trusted(pattern) # NoPattern => ToSet(list) = Likely(Current)
  BY DEF LikelyFirst
<1> DEFINE list == [i \in DOMAIN ladder |-> ladder[i].address]
<1>1. DomainTyped /\ PlaceTyped /\ RowIsThere
  BY ReadyIs DEF Sure
<1>2. Current \in ToSet(People) /\ context \in Contexts \cup {NoContext} /\ pattern \in Rows
  BY <1>1 DEF DomainTyped, PlaceTyped, Current, RowIsThere
<1>3. RankIsRight(Current, context) /\ ladder = Rank(Current, context)
  BY <1>1, <1>2, RankIs DEF DomainTyped, WholeLadder
<1>4. PICK L : L = LikelyGiven(Current, context)
  OBVIOUS
<1>5. /\ EachOnce(ladder) /\ L \subseteq AddressesOf(ladder)
      /\ \A i \in DOMAIN ladder : ladder[i].address \in L <=> i <= Cardinality(L)
      /\ Trusted(pattern) # NoFormat => AddressesOf(ladder) = L
  BY <1>3, <1>4 DEF RankIsRight
<1>6. L = Likely(Current)
  <2>1. CASE Trusted(pattern) # NoFormat
    BY <1>2, <1>4, <2>1, TrustedIs, TaskAssumption DEF LikelyGiven, Likely, Made, MadeOf
  <2>2. CASE Trusted(pattern) = NoFormat
    <3>1. \A f : Made(Current, f) = MadeOf(Names[Current], f)
      BY DEF Made, MadeOf
    <3>2. {c.address : c \in ToSet(Sight(Current, context))} = AddressesOf(Sight(Current, context))
      BY AddressesAre
    <3>3. QED BY <1>4, <2>2, <3>1, <3>2, TaskAssumption DEF LikelyGiven, LikelyOnes, Likely
  <2>3. QED BY <2>1, <2>2
<1>7. ToSet(list) = AddressesOf(ladder) /\ IsInjective(list)
  BY <1>5 DEF ToSet, AddressesOf, EachOnce, IsInjective
<1>8. QED BY <1>5, <1>6, <1>7, TaskAssumption

(* build_ranked_candidates (hunter.py 461-523) with generate_candidates (permute.py 38-75), for
   all names, formats and answers: each address once, the likely ones in front, none of
   them cut off. *)
THEOREM LikelyComeFirst == Spec => []LikelyFirst
<1>1. Init => Sure /\ WholeLadder
  BY SureInit DEF Init, WholeLadder
<1>2. Sure /\ WholeLadder /\ [Next]_vars => (Sure /\ WholeLadder)'
  BY SureNext, WholeLadderNext
<1>3. Sure /\ WholeLadder => LikelyFirst
  BY LikelyIs
<1>4. QED BY <1>1, <1>2, <1>3, PTL DEF Spec

(***************************************************************************)
(* Hints                                                                   *)
(***************************************************************************)

HintShared ==
  /\ pc = "load" /\ pattern' # pattern => SharedBy(start.known, pattern'.pattern, Majority)
  /\ pc = "hunter" /\ pattern' # pattern =>
          /\ \E item \in ToSet(Found(start.hunter)) :
               item.who # NoOne /\ item.address \in Made(item.who, pattern'.pattern)
          /\ Deduced = NoFormat

LEMMA HintGives ==
  ASSUME NEW r \in Rows \cup {NoRow}, NEW f, WithHint(r, f) # r
  PROVE  WithHint(r, f).pattern = f
<1>1. CASE r = NoRow
  BY <1>1 DEF WithHint
<1>2. CASE r # NoRow
  <2>1. r \in Rows /\ WithHint(r, f) = [r EXCEPT !.pattern = f]
    BY <1>2 DEF WithHint
  <2>2. QED BY <2>1 DEF Rows
<1>3. QED BY <1>1, <1>2

LEMMA HintStep == ASSUME Sure, [Next]_vars PROVE HintShared
<1>1. DomainTyped /\ RowIsThere /\ AnswerIsHunters
  BY ReadyIs DEF Sure
<1>2. CASE pc = "load" /\ pattern' # pattern
  <2>1. LoadKnown
    BY <1>2 DEF Next, vars, LoadKnown, Probe, AskHunter, NextPerson, Stop, Climb, Confirm, Finder, LastResort,
       Nothing, Offer
  <2>2. Deduced # NoFormat /\ pattern' = WithHint(pattern, Deduced)
    BY <1>2, <2>1 DEF LoadKnown
  <2>3. pattern'.pattern = Deduced
    BY <1>1, <1>2, <2>2, HintGives DEF DomainTyped
  <2>4. SharedBy(start.known, Deduced, Majority)
    BY <1>1, <2>2, DeducedIs DEF DomainTyped
  <2>5. QED BY <1>2, <2>3, <2>4 DEF HintShared
<1>3. CASE pc = "hunter" /\ pattern' # pattern
  <2>1. AskHunter
    BY <1>3 DEF Next, vars, LoadKnown, Probe, AskHunter, NextPerson, Stop, Climb, Confirm, Finder, LastResort,
       Nothing, Offer
  <2>2. context = NoContext /\ start.hunter \in Contexts
    BY <1>1, <1>3, StartsAssumption DEF AnswerIsHunters, DomainTyped
  <2>3. PICK c \in Contexts \cup {NoContext} : c = context' /\ (c # NoContext => c = start.hunter)
    BY <2>1, <2>2 DEF AskHunter
  <2>4. FoundFormats(c) # << >> /\ Deduced = NoFormat /\ pattern' = WithHint(pattern, Head(FoundFormats(c)))
    BY <1>3, <2>1, <2>3 DEF AskHunter
  <2>5. pattern'.pattern = Head(FoundFormats(c))
    BY <1>1, <1>3, <2>4, HintGives DEF DomainTyped
  <2>6. c # NoContext /\ \E item \in ToSet(Found(c)) :
                   item.who # NoOne /\ item.address \in Made(item.who, Head(FoundFormats(c)))
    BY <2>4, FoundFormatsAre
  <2>7. QED BY <1>3, <2>3, <2>4, <2>5, <2>6 DEF HintShared
<1>4. QED BY <1>2, <1>3 DEF HintShared

(* convention_votes, agreeing_pattern and conventions_to_try (patterns.py 169-230): for
   any list of people, in any order and with any addresses, a format that is written to
   domain_patterns as a hint is that of a majority, or else of somebody Hunter found. *)
THEOREM HintsAreShared == Spec => HintIsShared
<1>1. Sure /\ [Next]_vars => Sure' /\ [HintShared]_vars
  BY SureNext, HintStep
<1>2. QED BY <1>1, SureInit, PTL DEF Spec, HintIsShared, HintShared
================================================================================
