------------------------- MODULE RoleSignIn_proofs -------------------------
(***************************************************************************)
(* What holds of RoleSignIn for any requests, responses, lists of roles    *)
(* and searches.  First the operators: what InOrder lists, that the order  *)
(* of roles is one, what extracting the roles of any list of values        *)
(* yields.  Then the command, from one inductive invariant.                *)
(***************************************************************************)
EXTENDS RoleSignIn, FiniteSetTheorems, SequenceTheorems,
        WellFoundedInduction, TLAPS

USE SamlAssumption, RoleSignInAssumption

----------------------------------------------------------------------------
(* Numbers.                                                                *)

(* A set of natural numbers has a least one.                               *)
LEMMA NatMin ==
  ASSUME NEW T \in SUBSET Nat, T # {}
  PROVE  \E m \in T : \A n \in T : m <= n
<1> DEFINE R == OpToRel(<, Nat)
<1>1. IsWellFoundedOn(R, Nat)
  BY NatLessThanWellFounded
<1> HIDE DEF R
<1>2. PICK m \in T : \A n \in T : ~(<<n, m>> \in R)
  BY <1>1, WFMin
<1>3. \A n \in T : ~(n < m)
  BY <1>2 DEF R, OpToRel
<1> QED BY <1>3

(* What holds of 0 and passes from n to n + 1 holds of every number.       *)
LEMMA EveryNumber ==
  ASSUME NEW T, 0 \in T, \A n \in Nat : n \in T => n + 1 \in T
  PROVE  Nat \subseteq T
<1> SUFFICES ASSUME Nat \ T # {} PROVE FALSE
  OBVIOUS
<1>1. PICK m \in Nat \ T : \A n \in Nat \ T : m <= n
  BY NatMin
<1>2. m # 0 /\ m - 1 \in Nat /\ m - 1 \in T
  BY <1>1
<1> QED BY <1>1, <1>2

(* A set of numbers up to n has a greatest one.                            *)
LEMMA Greatest ==
  ASSUME NEW n \in Nat, NEW S \in SUBSET (1..n), S # {}
  PROVE  Max(S) \in S /\ \A i \in S : i <= Max(S)
<1> DEFINE T == {k \in Nat : n - k \in S}
<1>1. \A i \in S : n - i \in Nat /\ n - (n - i) = i
  OBVIOUS
<1>2. T \in SUBSET Nat /\ T # {}
  BY <1>1
<1>3. PICK m \in T : \A k \in T : m <= k
  BY <1>2, NatMin
<1>4. n - m \in S /\ \A i \in S : i <= n - m
  BY <1>1, <1>3
<1> QED BY <1>4 DEF Max

----------------------------------------------------------------------------
(* Listing a finite set by a strict total order.                           *)

Orders(before, S) ==
  /\ \A x \in S : <<x, x>> \notin before
  /\ \A x, y, z \in S :
       <<x, y>> \in before /\ <<y, z>> \in before => <<x, z>> \in before
  /\ \A x, y \in S : x # y => <<x, y>> \in before \/ <<y, x>> \in before

(* Each member of S is listed once, in its place.                          *)
LEMMA InOrderIs ==
  ASSUME NEW S, IsFiniteSet(S), NEW before, Orders(before, S)
  PROVE  /\ Cardinality(S) \in Nat
         /\ InOrder(S, before) \in [1..Cardinality(S) -> S]
         /\ \A x \in S : \E k \in 1..Cardinality(S) : InOrder(S, before)[k] = x
<1> DEFINE Below(x) == {y \in S : <<y, x>> \in before}
           n == Cardinality(S)
           rank == [x \in S |-> Cardinality(Below(x))]
<1>1. n \in Nat
  BY FS_CardinalityType
<1>2. \A x \in S : IsFiniteSet(Below(x)) /\ Cardinality(Below(x)) \in 0..(n - 1)
  <2> TAKE x \in S
  <2>1. Below(x) \in SUBSET S /\ Below(x) # S
    BY DEF Orders
  <2>2. /\ IsFiniteSet(Below(x))
        /\ Cardinality(Below(x)) <= n
        /\ n # Cardinality(Below(x))
    BY <2>1, FS_Subset
  <2>3. Cardinality(Below(x)) \in Nat
    BY <2>2, FS_CardinalityType
  <2> QED BY <1>1, <2>2, <2>3
<1>3. ASSUME NEW x \in S, NEW y \in S, <<x, y>> \in before
      PROVE  rank[x] # rank[y]
  <2>1. Below(x) \in SUBSET Below(y) /\ Below(x) # Below(y)
    BY <1>3 DEF Orders
  <2>2. Cardinality(Below(y)) # Cardinality(Below(x))
    BY <1>2, <2>1, FS_Subset
  <2> QED BY <2>2
<1>4. rank \in Injection(S, 0..(n - 1))
  <2>1. rank \in [S -> 0..(n - 1)]
    BY <1>2
  <2>2. \A x, y \in S : x # y => rank[x] # rank[y]
    BY <1>3 DEF Orders
  <2> HIDE DEF rank, n
  <2> QED BY <2>1, <2>2 DEF Injection, IsInjective
<1>5. IsFiniteSet(0..(n - 1)) /\ Cardinality(0..(n - 1)) = n
  <2> HIDE DEF n
  <2>1. /\ IsFiniteSet(0..(n - 1))
        /\ Cardinality(0..(n - 1)) = IF 0 > n - 1 THEN 0 ELSE n - 1 - 0 + 1
    BY <1>1, FS_Interval
  <2> QED BY <1>1, <2>1
<1>6. rank \in Surjection(S, 0..(n - 1))
  <2> HIDE DEF rank
  <2> QED BY <1>4, <1>5, FS_Injection
<1>7. \A i \in 0..(n - 1) : \E x \in S : Cardinality(Below(x)) = i
  BY <1>6 DEF Surjection
<1>8. ASSUME NEW k \in 1..n
      PROVE  /\ InOrder(S, before)[k] \in S
             /\ Cardinality(Below(InOrder(S, before)[k])) = k - 1
  <2>1. \E x \in S : Cardinality(Below(x)) = k - 1
    <3> HIDE DEF n, Below
    <3>1. k - 1 \in 0..(n - 1)
      BY <1>1
    <3> QED BY <1>7, <3>1
  <2>2. InOrder(S, before)[k] = CHOOSE x \in S : Cardinality(Below(x)) = k - 1
    BY DEF InOrder
  <2> HIDE DEF Below, n
  <2> QED BY <2>1, <2>2
<1>9. InOrder(S, before) \in [1..n -> S]
  BY <1>8 DEF InOrder
<1>10. ASSUME NEW x \in S
       PROVE  \E k \in 1..n : InOrder(S, before)[k] = x
  <2> DEFINE k == rank[x] + 1
  <2>1. rank[x] \in 0..(n - 1)
    BY <1>2
  <2> HIDE DEF n, rank
  <2>2. k \in 1..n /\ k - 1 = rank[x]
    BY <1>1, <2>1
  <2> HIDE DEF k
  <2> DEFINE y == InOrder(S, before)[k]
  <2>3. y \in S /\ rank[y] = k - 1
    BY <1>8, <2>2 DEF rank
  <2> HIDE DEF y
  <2>4. y = x
    BY <1>4, <2>2, <2>3 DEF Injection, IsInjective
  <2> QED BY <2>2, <2>4 DEF y
<1> QED BY <1>1, <1>9, <1>10

----------------------------------------------------------------------------
(* The order of roles.                                                     *)

(* s and t are the same in their first k letters.                          *)
SameUpTo(s, t, k) == \A i \in 1..k : s[i] = t[i]

(* One name is before another when it differs first by a lesser letter, or *)
(* by ending.                                                              *)
LEMMA NameBeforeIs ==
  ASSUME NEW s \in Seq(Letter), NEW t \in Seq(Letter)
  PROVE  NameBefore(s, t) <=>
           \E k \in Nat :
             /\ k <= Len(s) /\ k < Len(t) /\ SameUpTo(s, t, k)
             /\ k = Len(s) \/ s[k + 1] < t[k + 1]
<1>1. ASSUME NEW k \in Nat, k <= Len(s), k <= Len(t)
      PROVE  SubSeq(s, 1, k) = SubSeq(t, 1, k) <=> SameUpTo(s, t, k)
  <2>1. /\ SubSeq(s, 1, k) = [i \in 1..k |-> s[i]]
        /\ SubSeq(t, 1, k) = [i \in 1..k |-> t[i]]
    BY <1>1
  <2> QED BY <2>1 DEF SameUpTo
<1>2. Len(s) \in Nat /\ Len(t) \in Nat
  OBVIOUS
<1> QED BY <1>1, <1>2 DEF NameBefore

(* That is a strict total order of names.                                  *)
LEMMA NamesOrdered ==
  ASSUME NEW s \in Seq(Letter), NEW t \in Seq(Letter), NEW u \in Seq(Letter)
  PROVE  /\ ~NameBefore(s, s)
         /\ NameBefore(s, t) /\ NameBefore(t, u) => NameBefore(s, u)
         /\ s # t => NameBefore(s, t) \/ NameBefore(t, s)
<1>1. /\ Len(s) \in Nat /\ Len(t) \in Nat /\ Len(u) \in Nat
      /\ \A i \in 1..Len(s) : s[i] \in Int
      /\ \A i \in 1..Len(t) : t[i] \in Int
      /\ \A i \in 1..Len(u) : u[i] \in Int
  OBVIOUS
<1>2. ~NameBefore(s, s)
  BY <1>1, NameBeforeIs
<1>3. ASSUME NameBefore(s, t), NameBefore(t, u) PROVE NameBefore(s, u)
  <2>1. PICK k \in Nat : /\ k <= Len(s) /\ k < Len(t) /\ SameUpTo(s, t, k)
                         /\ k = Len(s) \/ s[k + 1] < t[k + 1]
    BY <1>3, NameBeforeIs
  <2>2. PICK l \in Nat : /\ l <= Len(t) /\ l < Len(u) /\ SameUpTo(t, u, l)
                         /\ l = Len(t) \/ t[l + 1] < u[l + 1]
    BY <1>3, NameBeforeIs
  <2> DEFINE m == IF k <= l THEN k ELSE l
  <2>3. m \in Nat /\ m <= Len(s) /\ m < Len(u) /\ m <= k /\ m <= l
    BY <1>1, <2>1, <2>2
  <2>4. SameUpTo(s, u, m)
    BY <2>1, <2>2, <2>3 DEF SameUpTo
  <2>5. m = Len(s) \/ s[m + 1] < u[m + 1]
    <3>1. CASE k < l
      <4>1. m = k /\ k + 1 \in 1..l
        BY <3>1
      <4>2. t[k + 1] = u[k + 1]
        BY <2>2, <4>1 DEF SameUpTo
      <4> QED BY <2>1, <4>1, <4>2
    <3>2. CASE k = l
      <4>1. m = k /\ k # Len(t)
        BY <1>1, <2>1, <3>2
      <4>2. t[k + 1] < u[k + 1]
        BY <2>2, <3>2, <4>1
      <4>3. k = Len(s) \/ s[k + 1] < u[k + 1]
        <5> SUFFICES ASSUME k # Len(s) PROVE s[k + 1] < u[k + 1]
          OBVIOUS
        <5>1. s[k + 1] \in Int /\ t[k + 1] \in Int /\ u[k + 1] \in Int
          BY <1>1, <2>1, <2>2, <3>2
        <5> QED BY <2>1, <4>2, <5>1
      <4> QED BY <4>1, <4>3
    <3>3. CASE l < k
      <4>1. m = l /\ l + 1 \in 1..k /\ l # Len(t)
        BY <1>1, <2>1, <3>3
      <4>2. s[l + 1] = t[l + 1]
        BY <2>1, <4>1 DEF SameUpTo
      <4> QED BY <2>2, <4>1, <4>2
    <3> QED BY <3>1, <3>2, <3>3
  <2> QED BY <2>3, <2>4, <2>5, NameBeforeIs
<1>4. ASSUME s # t PROVE NameBefore(s, t) \/ NameBefore(t, s)
  <2> DEFINE T == {k \in Nat : \/ k = Len(s) \/ k = Len(t)
                               \/ k < Len(s) /\ k < Len(t) /\ s[k + 1] # t[k + 1]}
  <2>1. T \in SUBSET Nat /\ T # {}
    BY <1>1
  <2>2. PICK k \in T : \A l \in T : k <= l
    BY <2>1, NatMin
  <2>3. k <= Len(s) /\ k <= Len(t)
    BY <1>1, <2>2
  <2>4. SameUpTo(s, t, k) /\ SameUpTo(t, s, k)
    <3> SUFFICES ASSUME NEW i \in 1..k PROVE s[i] = t[i]
      BY DEF SameUpTo
    <3>1. i - 1 \in Nat /\ ~(k <= i - 1) /\ i - 1 + 1 = i
      OBVIOUS
    <3>2. i - 1 \notin T
      BY <2>2, <3>1
    <3> QED BY <1>1, <2>3, <3>1, <3>2
  <2>5. k < Len(s) \/ k < Len(t)
    <3> SUFFICES ASSUME k = Len(s), k = Len(t) PROVE FALSE
      BY <1>1, <2>3
    <3>1. \A i \in 1..Len(s) : s[i] = t[i]
      BY <2>4 DEF SameUpTo
    <3> QED BY <1>4, <3>1, SeqEqual
  <2>6. k < Len(s) /\ k < Len(t) => s[k + 1] < t[k + 1] \/ t[k + 1] < s[k + 1]
    BY <1>1, <2>2
  <2> QED BY <1>1, <2>3, <2>4, <2>5, <2>6, NameBeforeIs
<1> QED BY <1>2, <1>3, <1>4

(* A set of pairs of roles given by RoleBefore orders any set of roles.    *)
LEMMA RolesOrdered ==
  ASSUME NEW D \in SUBSET {r \in Arn : r.kind = "role"}
  PROVE  Orders({pair \in D \X D : RoleBefore(pair[1], pair[2])}, D)
<1> DEFINE before == {pair \in D \X D : RoleBefore(pair[1], pair[2])}
<1>1. \A r, s \in D : <<r, s>> \in before <=> RoleBefore(r, s)
  OBVIOUS
<1>2. \A r \in D : /\ r.account \in Int /\ r.partition \in Int
                   /\ r.name \in Seq(Letter)
                   /\ r = [kind |-> "role", account |-> r.account,
                           name |-> r.name, partition |-> r.partition]
  BY DEF Arn
<1>3. \A r \in D : ~RoleBefore(r, r)
  BY <1>2, NamesOrdered DEF RoleBefore
<1>4. ASSUME NEW r \in D, NEW s \in D, NEW t \in D, RoleBefore(r, s), RoleBefore(s, t)
      PROVE  RoleBefore(r, t)
  <2>1. /\ NameBefore(r.name, s.name) /\ NameBefore(s.name, t.name)
           => NameBefore(r.name, t.name)
    BY <1>2, NamesOrdered
  <2> QED BY <1>2, <1>4, <2>1 DEF RoleBefore
<1>5. ASSUME NEW r \in D, NEW s \in D, r # s
      PROVE  RoleBefore(r, s) \/ RoleBefore(s, r)
  <2>1. r.name # s.name => NameBefore(r.name, s.name) \/ NameBefore(s.name, r.name)
    BY <1>2, NamesOrdered
  <2>2. r.account # s.account \/ r.name # s.name \/ r.partition # s.partition
    BY <1>2, <1>5
  <2> QED BY <1>2, <2>1, <2>2 DEF RoleBefore
<1> HIDE DEF before
<1> QED BY <1>1, <1>3, <1>4, <1>5 DEF Orders

----------------------------------------------------------------------------
(* The roles of a list of values.                                          *)

Filled(values, after) ==
  after = [n \in 0..Len(values) |->
             IF n = 0 THEN [r \in {} |-> Malformed]
             ELSE Insert(after[n - 1], values[n])]

(* The maps of roles after each of the values exist, and ExtractRoles is   *)
(* the last of them.                                                       *)
LEMMA ExtractRolesIs ==
  ASSUME NEW values, Len(values) \in Nat
  PROVE  \E after : Filled(values, after) /\ ExtractRoles(values) = after[Len(values)]
<1> DEFINE Upto(m, f) == f = [n \in 0..m |-> IF n = 0 THEN [r \in {} |-> Malformed]
                                             ELSE Insert(f[n - 1], values[n])]
           T == {m \in Nat : \E f : Upto(m, f)}
<1>1. 0 \in T
  <2> DEFINE f == [n \in 0..0 |-> [r \in {} |-> Malformed]]
  <2>1. Upto(0, f)
    OBVIOUS
  <2> QED BY <2>1
<1>2. ASSUME NEW m \in Nat, m \in T PROVE m + 1 \in T
  <2>1. PICK f : Upto(m, f)
    BY <1>2
  <2> DEFINE g == [n \in 0..(m + 1) |-> IF n <= m THEN f[n] ELSE Insert(f[m], values[m + 1])]
  <2>2. \A n \in 0..m : f[n] = IF n = 0 THEN [r \in {} |-> Malformed]
                               ELSE Insert(f[n - 1], values[n])
    BY <2>1
  <2>3. \A n \in 0..(m + 1) : g[n] = IF n <= m THEN f[n] ELSE Insert(f[m], values[m + 1])
    OBVIOUS
  <2>4. ASSUME NEW n \in 0..(m + 1)
        PROVE  g[n] = IF n = 0 THEN [r \in {} |-> Malformed] ELSE Insert(g[n - 1], values[n])
    <3> HIDE DEF g
    <3>1. CASE n <= m
      <4>1. n # 0 => n - 1 \in 0..(m + 1) /\ n - 1 <= m
        BY <3>1
      <4> QED BY <2>2, <2>3, <3>1, <4>1
    <3>2. CASE n = m + 1
      <4>1. n # 0 /\ n - 1 = m /\ m \in 0..(m + 1) /\ ~(n <= m)
        BY <3>2
      <4> QED BY <2>3, <3>2, <4>1
    <3> QED BY <3>1, <3>2
  <2>5. Upto(m + 1, g)
    <3> DEFINE h == [n \in 0..(m + 1) |-> IF n = 0 THEN [r \in {} |-> Malformed]
                                          ELSE Insert(g[n - 1], values[n])]
    <3>1. \A n \in 0..(m + 1) : g[n] = h[n]
      BY <2>4
    <3>2. g = [n \in 0..(m + 1) |-> g[n]] /\ h = [n \in 0..(m + 1) |-> h[n]]
      OBVIOUS
    <3>3. g = h
      <4> HIDE DEF g, h
      <4> QED BY <3>1, <3>2
    <3> QED BY <3>3
  <2> HIDE DEF g, Upto
  <2>6. \E h : Upto(m + 1, h)
    BY <2>5
  <2> QED BY <2>6
<1>3. Len(values) \in T
  <2> HIDE DEF T
  <2> QED BY <1>1, <1>2, EveryNumber
<1>4. \E h : Filled(values, h)
  BY <1>3 DEF Filled
<1>5. Filled(values, CHOOSE h : Filled(values, h))
  BY <1>4
<1>6. ExtractRoles(values) = (CHOOSE h : Filled(values, h))[Len(values)]
  BY DEF ExtractRoles, Filled
<1> QED BY <1>5, <1>6

Offers(parts, r, p) == IsPair(parts) /\ RoleOf(parts) = r /\ PrincipalOf(parts) = p

(* `map` has the roles of the first n values, each with its last provider. *)
LastOfEach(values, n, map) ==
  /\ IsFiniteSet(DOMAIN map)
  /\ \A i \in 1..n : IsPair(values[i]) => RoleOf(values[i]) \in DOMAIN map
  /\ \A r \in DOMAIN map :
       \E i \in 1..n :
         /\ Offers(values[i], r, map[r])
         /\ \A j \in (i + 1)..n : ~(IsPair(values[j]) /\ RoleOf(values[j]) = r)

(* One more value keeps the last provider of each role.                    *)
LEMMA InsertLast ==
  ASSUME NEW values, NEW n \in Nat, NEW map, LastOfEach(values, n, map)
  PROVE  LastOfEach(values, n + 1, Insert(map, values[n + 1]))
<1> DEFINE v == values[n + 1]
           new == Insert(map, v)
<1>0. \A i \in 1..(n + 1) : i \in 1..n \/ i = n + 1
  OBVIOUS
<1>1. CASE ~IsPair(v)
  <2>1. new = map
    BY <1>1 DEF Insert
  <2>2. ASSUME NEW r \in DOMAIN map
        PROVE  \E i \in 1..(n + 1) :
                 /\ Offers(values[i], r, map[r])
                 /\ \A j \in (i + 1)..(n + 1) : ~(IsPair(values[j]) /\ RoleOf(values[j]) = r)
    <3>1. PICK i \in 1..n :
            /\ Offers(values[i], r, map[r])
            /\ \A j \in (i + 1)..n : ~(IsPair(values[j]) /\ RoleOf(values[j]) = r)
      BY DEF LastOfEach
    <3>2. \A j \in (i + 1)..(n + 1) : ~(IsPair(values[j]) /\ RoleOf(values[j]) = r)
      BY <1>1, <3>1
    <3>3. i \in 1..(n + 1)
      OBVIOUS
    <3> QED BY <3>1, <3>2, <3>3
  <2>3. \A i \in 1..(n + 1) : IsPair(values[i]) => RoleOf(values[i]) \in DOMAIN map
    BY <1>0, <1>1 DEF LastOfEach
  <2> HIDE DEF new
  <2>4. LastOfEach(values, n + 1, map)
    BY <2>2, <2>3 DEF LastOfEach
  <2> QED BY <2>1, <2>4 DEF new
<1>2. CASE IsPair(v)
  <2>1. /\ DOMAIN new = DOMAIN map \cup {RoleOf(v)}
        /\ \A r \in DOMAIN new : new[r] = IF r = RoleOf(v) THEN PrincipalOf(v) ELSE map[r]
    BY <1>2 DEF Insert
  <2> HIDE DEF new
  <2>2. IsFiniteSet(DOMAIN new)
    BY <2>1, FS_AddElement DEF LastOfEach
  <2>3. \A i \in 1..(n + 1) : IsPair(values[i]) => RoleOf(values[i]) \in DOMAIN new
    BY <1>0, <2>1 DEF LastOfEach
  <2>4. ASSUME NEW r \in DOMAIN new
        PROVE  \E i \in 1..(n + 1) :
                 /\ Offers(values[i], r, new[r])
                 /\ \A j \in (i + 1)..(n + 1) : ~(IsPair(values[j]) /\ RoleOf(values[j]) = r)
    <3>1. CASE r = RoleOf(v)
      <4>1. Offers(values[n + 1], r, new[r])
        BY <1>2, <2>1, <3>1 DEF Offers
      <4>2. n + 1 \in 1..(n + 1) /\ (n + 1 + 1)..(n + 1) = {}
        OBVIOUS
      <4> QED BY <4>1, <4>2
    <3>2. CASE r # RoleOf(v)
      <4>1. r \in DOMAIN map /\ new[r] = map[r]
        BY <2>1, <3>2
      <4>2. PICK i \in 1..n :
              /\ Offers(values[i], r, map[r])
              /\ \A j \in (i + 1)..n : ~(IsPair(values[j]) /\ RoleOf(values[j]) = r)
        BY <4>1 DEF LastOfEach
      <4>3. \A j \in (i + 1)..(n + 1) : ~(IsPair(values[j]) /\ RoleOf(values[j]) = r)
        BY <3>2, <4>2
      <4>4. i \in 1..(n + 1)
        OBVIOUS
      <4> QED BY <4>1, <4>2, <4>3, <4>4
    <3> QED BY <3>1, <3>2
  <2> HIDE DEF v
  <2>5. LastOfEach(values, n + 1, new)
    BY <2>2, <2>3, <2>4 DEF LastOfEach
  <2> QED BY <2>5 DEF new, v
<1> QED BY <1>1, <1>2

(* So does the whole loop of extract_roles.                                *)
LEMMA ExtractsLastOfEach ==
  ASSUME NEW values, Len(values) \in Nat
  PROVE  LastOfEach(values, Len(values), ExtractRoles(values))
<1>1. PICK after : Filled(values, after) /\ ExtractRoles(values) = after[Len(values)]
  BY ExtractRolesIs
<1>2. /\ after[0] = [r \in {} |-> Malformed]
      /\ \A n \in 1..Len(values) : after[n] = Insert(after[n - 1], values[n])
  <2>1. \A n \in 0..Len(values) : after[n] = IF n = 0 THEN [r \in {} |-> Malformed]
                                             ELSE Insert(after[n - 1], values[n])
    BY <1>1 DEF Filled
  <2> QED BY <2>1
<1> DEFINE T == {n \in Nat : n <= Len(values) => LastOfEach(values, n, after[n])}
<1>3. 0 \in T
  <2>1. LastOfEach(values, 0, [r \in {} |-> Malformed])
    BY FS_EmptySet DEF LastOfEach
  <2> QED BY <1>2, <2>1
<1>4. ASSUME NEW n \in Nat, n \in T PROVE n + 1 \in T
  <2> SUFFICES ASSUME n + 1 <= Len(values)
               PROVE  LastOfEach(values, n + 1, after[n + 1])
    OBVIOUS
  <2>1. LastOfEach(values, n, after[n])
    BY <1>4
  <2>2. after[n + 1] = Insert(after[n], values[n + 1])
    <3>1. n + 1 \in 1..Len(values) /\ n + 1 - 1 = n
      OBVIOUS
    <3> QED BY <1>2, <3>1
  <2>3. LastOfEach(values, n + 1, Insert(after[n], values[n + 1]))
    BY <2>1, InsertLast
  <2> QED BY <2>2, <2>3
<1>5. Len(values) \in T
  <2> HIDE DEF T
  <2> QED BY <1>3, <1>4, EveryNumber
<1> QED BY <1>1, <1>5

(* What is read from a response are roles with providers.                  *)
LEMMA RolesTyped ==
  ASSUME NEW r \in Responses
  PROVE  LET map == ExtractRoles(r.values)
         IN  /\ IsFiniteSet(DOMAIN map)
             /\ DOMAIN map \subseteq {x \in Arn : x.kind = "role"}
             /\ \A x \in DOMAIN map : map[x].kind = "saml-provider"
<1> DEFINE map == ExtractRoles(r.values)
           values == r.values
<1>1. values \in Seq(Seq(Arn \cup {Malformed}))
  BY DEF Response
<1> HIDE DEF values
<1>2. Len(values) \in Nat /\ LastOfEach(values, Len(values), map)
  BY <1>1, ExtractsLastOfEach DEF values
<1>3. ASSUME NEW x \in DOMAIN map
      PROVE  x \in Arn /\ x.kind = "role" /\ map[x].kind = "saml-provider"
  <2>1. PICK i \in 1..Len(values) : Offers(values[i], x, map[x])
    BY <1>2 DEF LastOfEach
  <2>2. values[i] \in Seq(Arn \cup {Malformed})
    BY <1>1, ElementOfSeq
  <2> DEFINE v == values[i]
  <2> HIDE DEF v
  <2>3. v \in Seq(Arn \cup {Malformed}) /\ IsPair(v) /\ x = RoleOf(v) /\ map[x] = PrincipalOf(v)
    BY <2>1, <2>2 DEF v, Offers
  <2>4. v[1] \in Arn /\ v[2] \in Arn
    BY <2>3 DEF IsPair
  <2> HIDE DEF map
  <2> QED BY <2>3, <2>4 DEF IsPair, RoleOf, PrincipalOf
<1> QED BY <1>2, <1>3 DEF LastOfEach

(* The list of the roles has each of them once.                            *)
LEMMA ListedIs ==
  ASSUME NEW map, IsFiniteSet(DOMAIN map),
         DOMAIN map \subseteq {x \in Arn : x.kind = "role"}
  PROVE  /\ Listed(map) \in Seq(DOMAIN map)
         /\ Len(Listed(map)) = Cardinality(DOMAIN map)
         /\ Cardinality(DOMAIN map) \in Nat
         /\ \A x \in DOMAIN map : \E k \in DOMAIN Listed(map) : Listed(map)[k] = x
<1> DEFINE D == DOMAIN map
           before == {pair \in D \X D : RoleBefore(pair[1], pair[2])}
<1>1. Orders(before, D)
  BY RolesOrdered
<1> HIDE DEF before
<1>2. /\ Cardinality(D) \in Nat
      /\ InOrder(D, before) \in [1..Cardinality(D) -> D]
      /\ \A x \in D : \E k \in 1..Cardinality(D) : InOrder(D, before)[k] = x
  BY <1>1, InOrderIs
<1>3. Listed(map) = InOrder(D, before)
  BY DEF Listed, before
<1> QED BY <1>2, <1>3

(* The rows that match, in their order, are rows.                          *)
LEMMA RowsInOrder ==
  ASSUME NEW n \in Nat, NEW rows \in SUBSET (1..n)
  PROVE  InOrder(rows, {pair \in rows \X rows : pair[1] < pair[2]}) \in Seq(rows)
<1> DEFINE before == {pair \in rows \X rows : pair[1] < pair[2]}
<1>1. IsFiniteSet(rows)
  <2>1. IsFiniteSet(1..n)
    BY FS_Interval
  <2> QED BY <2>1, FS_Subset
<1>2. Orders(before, rows)
  <2>1. \A i, j \in rows : <<i, j>> \in before <=> i < j
    OBVIOUS
  <2> HIDE DEF before
  <2> QED BY <2>1 DEF Orders
<1> HIDE DEF before
<1>3. /\ Cardinality(rows) \in Nat
      /\ InOrder(rows, before) \in [1..Cardinality(rows) -> rows]
  BY <1>1, <1>2, InOrderIs
<1> QED BY <1>3 DEF before

----------------------------------------------------------------------------
(* The inductive invariant.                                                *)

Accepted == response # Nothing /\ Accepts(response, OurTenant, OurApp)

(* The roles are those of the response, if it was accepted.                *)
Parsed ==
  /\ request \in Requests \cup {Nothing}
  /\ pc # "idle" => request \in Requests
  /\ response \in Responses \cup {Nothing}
  /\ roles = IF Accepted THEN ExtractRoles(response.values) ELSE NoAssertion
  /\ pc \in {"idle", "browser"} => response = Nothing
  /\ pc \in {"decide", "confirm", "select", "exchange", "done"} => Accepted

(* The selector shows rows of the list.                                    *)
Shown ==
  /\ pc \in {"idle", "browser", "decide", "confirm", "select", "exchange",
             "done", "failed"}
  /\ query \in Seq(Letter)
  /\ filtered \in Seq(DOMAIN list)
  /\ selected \in (IF filtered = <<>> THEN {0} ELSE 1..Len(filtered))
  /\ pc \in {"idle", "browser", "decide"} => query = <<>> /\ filtered = <<>>

Agreed ==
  /\ role \in DOMAIN roles
  /\ \/ role = request.role
     \/ event # "none" /\ request.interactive /\ ~request.explicit
     \/ request.role = NoRole /\ DOMAIN roles = {role}

(* Only a command that may replace the role asks a human, and STS is asked *)
(* for the role decided on.                                                *)
Asked ==
  /\ pc \in {"confirm", "select"} => request.interactive /\ ~request.explicit
  /\ pc = "confirm" => list # <<>>
  /\ pc = "exchange" => Agreed
  /\ role # NoRole => pc \in {"exchange", "done"} /\ Agreed
  /\ sts # Nothing => pc = "done" /\ Agreed /\ sts.role = role

IInv == Parsed /\ Shown /\ Asked

(* The invariant holds at the start.                                       *)
LEMMA Initially == Init => IInv
BY EmptySeq DEF Init, IInv, Parsed, Accepted, Shown, Asked

----------------------------------------------------------------------------
(* Every step keeps it.                                                    *)

(* Once a response is accepted, the list has the roles on offer.           *)
LEMMA RolesKnown ==
  ASSUME Parsed, Accepted
  PROVE  /\ roles = ExtractRoles(response.values) /\ response \in Responses
         /\ roles # NoAssertion
         /\ IsFiniteSet(DOMAIN roles)
         /\ DOMAIN roles \subseteq {x \in Arn : x.kind = "role"}
         /\ \A x \in DOMAIN roles : roles[x].kind = "saml-provider"
         /\ list \in Seq(DOMAIN roles)
         /\ Len(list) = Cardinality(DOMAIN roles)
         /\ \A x \in DOMAIN roles : \E k \in DOMAIN list : list[k] = x
<1>1. /\ roles = ExtractRoles(response.values)
      /\ response \in Responses
  BY DEF Parsed, Accepted
<1>2. /\ IsFiniteSet(DOMAIN roles)
      /\ DOMAIN roles \subseteq {x \in Arn : x.kind = "role"}
      /\ \A x \in DOMAIN roles : roles[x].kind = "saml-provider"
  BY <1>1, RolesTyped
<1>3. roles # NoAssertion
  BY <1>1
<1> QED BY <1>1, <1>2, <1>3, ListedIs DEF list

(* What the command may do is what the request allows.                     *)
LEMMA ChooseIs ==
  ASSUME Parsed, Accepted, request \in Requests
  PROVE  /\ Choose = "use requested" => request.role \in DOMAIN roles
         /\ Choose = "use only" =>
              request.role = NoRole /\ list # <<>> /\ DOMAIN roles = {list[1]}
         /\ Choose \in {"confirm", "select"} =>
              request.interactive /\ ~request.explicit /\ list # <<>>
<1>1. /\ request.role \in Arn \cup {NoRole}
      /\ request.explicit \in BOOLEAN /\ request.interactive \in BOOLEAN
      /\ request.explicit => request.role # NoRole
  BY DEF Request
<1>2. /\ IsFiniteSet(DOMAIN roles)
      /\ list \in Seq(DOMAIN roles) /\ Len(list) = Cardinality(DOMAIN roles)
      /\ \A x \in DOMAIN roles : \E k \in DOMAIN list : list[k] = x
  BY RolesKnown
<1>3. Len(list) \in Nat /\ (list # <<>> <=> Len(list) # 0) /\ DOMAIN list = 1..Len(list)
  BY <1>2, EmptySeq, LenProperties
<1>4. Len(list) = 1 => DOMAIN roles = {list[1]}
  <2> SUFFICES ASSUME Len(list) = 1 PROVE DOMAIN roles = {list[1]}
    OBVIOUS
  <2>1. list[1] \in DOMAIN roles
    BY <1>2, <1>3
  <2>2. \A x \in DOMAIN roles : x = list[1]
    BY <1>2, <1>3
  <2> QED BY <2>1, <2>2
<1>5. Decided = "Use" => request.role # NoRole /\ request.role \in DOMAIN roles
  BY DEF Decided, ResolveRole
<1>6. Decided = "Pick" =>
        request.role = NoRole /\ (request.interactive \/ Cardinality(DOMAIN roles) <= 1)
  BY <1>1 DEF Decided, ResolveRole
<1>7. Decided = "Replace" => request.interactive /\ ~request.explicit
  BY <1>1 DEF Decided, ResolveRole
<1> HIDE DEF list
<1>8. CASE Choose = "use requested"
  BY <1>5, <1>8 DEF Choose
<1>9. CASE Choose = "use only"
  BY <1>3, <1>4, <1>6, <1>9 DEF Choose
<1>10. CASE Choose \in {"confirm", "select"}
  <2>1. \/ Decided = "Replace" /\ Len(list) = 1
        \/ Decided \in {"Pick", "Replace"} /\ Len(list) # 1 /\ list # <<>>
    <3>1. CASE Choose = "confirm"
      BY <3>1 DEF Choose
    <3>2. CASE Choose = "select"
      BY <3>2 DEF Choose
    <3> QED BY <1>10, <3>1, <3>2
  <2>2. CASE Decided = "Replace"
    <3>1. list # <<>>
      BY <1>3, <2>1
    <3> HIDE DEF Choose
    <3> QED BY <1>7, <1>10, <2>2, <3>1
  <2>3. CASE Decided = "Pick" /\ Len(list) # 1 /\ list # <<>>
    <3>1. ~(Cardinality(DOMAIN roles) <= 1)
      BY <1>2, <1>3, <2>3
    <3> QED BY <1>1, <1>6, <1>10, <2>3, <3>1
  <2> QED BY <2>1, <2>2, <2>3
<1> QED BY <1>8, <1>9, <1>10

(* A command starts.                                                       *)
LEMMA StartKeeps ==
  ASSUME IInv, NEW r \in Requests, Start(r)
  PROVE  IInv'
<1>1. Parsed'
  BY DEF IInv, Parsed, Accepted, Start
<1>2. Shown'
  BY DEF IInv, Shown, Start, selector, list
<1>3. Asked'
  BY DEF IInv, Asked, Start, list
<1> QED BY <1>1, <1>2, <1>3 DEF IInv

(* A response is parsed, and accepted or refused.                          *)
LEMMA SignInKeeps ==
  ASSUME IInv, NEW captured \in Responses, SignIn(captured)
  PROVE  IInv'
<1>1. Parsed'
  BY DEF IInv, Parsed, Accepted, SignIn
<1>2. Shown'
  <2>1. filtered' = <<>> /\ query' = <<>> /\ selected' = 0 /\ pc' \in {"decide", "failed"}
    BY DEF IInv, Shown, SignIn, selector
  <2> QED BY <2>1, EmptySeq DEF Shown
<1>3. Asked'
  BY DEF IInv, Asked, SignIn
<1> QED BY <1>1, <1>2, <1>3 DEF IInv

(* The steps that only move the command on.                                *)
LEMMA MovesKeep ==
  ASSUME IInv, UNCHANGED <<signIn, selector, event, role, sts>>,
         \/ pc = "decide" /\ pc' = "done"
         \/ pc \in {"decide", "confirm", "select"} /\ pc' = "failed"
  PROVE  IInv'
<1>1. Parsed'
  BY DEF IInv, Parsed, Accepted, signIn
<1>2. Shown'
  BY DEF IInv, Shown, signIn, selector, list
<1>3. Asked'
  BY DEF IInv, Asked, signIn, list
<1> QED BY <1>1, <1>2, <1>3 DEF IInv

(* The role is decided without a question.                                 *)
LEMMA ResolvesToRoleKeeps ==
  ASSUME IInv, ResolvesToRole
  PROVE  IInv'
<1>1. /\ pc = "decide" /\ pc' = "exchange"
      /\ UNCHANGED <<signIn, selector, event, sts>>
      /\ \/ Choose = "use requested" /\ role' = request.role
         \/ Choose = "use only" /\ role' = list[1]
  BY DEF ResolvesToRole, UseRole
<1>2. Parsed'
  BY <1>1 DEF IInv, Parsed, Accepted, signIn
<1>3. Shown'
  BY <1>1 DEF IInv, Shown, signIn, selector, list
<1>4. Agreed'
  <2>1. /\ Choose = "use requested" => request.role \in DOMAIN roles
        /\ Choose = "use only" => request.role = NoRole /\ DOMAIN roles = {list[1]}
    <3>1. Parsed /\ Accepted /\ request \in Requests
      BY <1>1 DEF IInv, Parsed
    <3> HIDE DEF Choose, list
    <3> QED BY <3>1, ChooseIs
  <2> HIDE DEF list, Choose
  <2> QED BY <1>1, <2>1 DEF Agreed, signIn
<1>5. Asked'
  BY <1>1, <1>4 DEF IInv, Asked
<1> QED BY <1>2, <1>3, <1>5 DEF IInv

(* The selector opens, or a confirmation is asked for.                     *)
LEMMA ResolvesToPromptKeeps ==
  ASSUME IInv, ResolvesToPrompt
  PROVE  IInv'
<1>1. /\ pc = "decide" /\ UNCHANGED <<signIn, event, role, sts>>
      /\ \/ Choose = "confirm" /\ pc' = "confirm" /\ UNCHANGED selector
         \/ Choose = "select" /\ pc' = "select" /\ OpenSelector
  BY DEF ResolvesToPrompt
<1>2. Parsed'
  BY <1>1 DEF IInv, Parsed, Accepted, signIn
<1>3. request.interactive /\ ~request.explicit /\ list # <<>>
  <2>1. Parsed /\ Accepted /\ request \in Requests
    BY <1>1 DEF IInv, Parsed
  <2>2. Choose \in {"confirm", "select"}
    BY <1>1
  <2> HIDE DEF Choose, list
  <2> QED BY <2>1, <2>2, ChooseIs
<1>4. list' = list
  BY <1>1 DEF list, signIn
<1>5. Shown'
  <2>1. CASE UNCHANGED selector
    BY <1>1, <1>4, <2>1 DEF IInv, Shown, selector
  <2>2. CASE OpenSelector /\ pc' = "select"
    <3>1. list \in Seq(DOMAIN roles)
      BY <1>1, RolesKnown DEF IInv, Parsed
    <3>2. Len(list) \in Nat \ {0} /\ DOMAIN list = 1..Len(list)
      BY <1>3, <3>1, EmptySeq, LenProperties
    <3> HIDE DEF list
    <3>3. /\ query' = <<>> /\ selected' = 1
          /\ filtered' = [i \in 1..Len(list) |-> i]
      BY <2>2, <3>2 DEF OpenSelector
    <3>4. filtered' \in Seq(DOMAIN list) /\ Len(filtered') = Len(list)
      BY <3>2, <3>3
    <3>5. filtered' # <<>>
      BY <3>2, <3>4
    <3>6. selected' \in 1..Len(filtered') /\ query' \in Seq(Letter)
      BY <3>2, <3>3, <3>4, EmptySeq
    <3> QED BY <1>4, <2>2, <3>4, <3>5, <3>6 DEF Shown
  <2> QED BY <1>1, <2>1, <2>2
<1>6. Asked'
  <2> HIDE DEF list
  <2> QED BY <1>1, <1>3, <1>4 DEF IInv, Asked, signIn
<1> QED BY <1>2, <1>5, <1>6 DEF IInv

(* A row of the selector, or the only role, is one on offer.               *)
LEMMA ListedOnOffer ==
  ASSUME IInv, pc \in {"confirm", "select"}
  PROVE  /\ pc = "confirm" => list[1] \in DOMAIN roles
         /\ \A row \in 1..Len(filtered) : SelectedRole(row) \in DOMAIN roles
<1>1. list \in Seq(DOMAIN roles)
  BY RolesKnown DEF IInv, Parsed
<1>2. Len(list) \in Nat /\ DOMAIN list = 1..Len(list)
      /\ \A k \in DOMAIN list : list[k] \in DOMAIN roles
  BY <1>1, LenProperties, ElementOfSeq
<1>3. pc = "confirm" => Len(list) # 0
  BY <1>1, EmptySeq DEF IInv, Asked
<1> HIDE DEF list
<1>4. filtered \in Seq(DOMAIN list)
  BY DEF IInv, Shown
<1> QED BY <1>2, <1>3, <1>4, ElementOfSeq DEF SelectedRole

(* A human answers: the answer is a role on offer.                         *)
LEMMA AnswerKeeps ==
  ASSUME IInv, pc \in {"confirm", "select"}, pc' = "exchange",
         UNCHANGED <<signIn, query, filtered, sts>>,
         role' \in DOMAIN roles, event' # "none",
         selected' \in (IF filtered = <<>> THEN {0} ELSE 1..Len(filtered))
  PROVE  IInv'
<1>1. Parsed'
  BY DEF IInv, Parsed, Accepted, signIn
<1>2. Shown'
  BY DEF IInv, Shown, signIn, list
<1>3. Agreed'
  BY DEF IInv, Asked, Agreed, signIn
<1>4. Asked'
  BY <1>3 DEF IInv, Asked
<1> QED BY <1>1, <1>2, <1>4 DEF IInv

(* A search shows rows of the list again.                                  *)
LEMMA SearchKeeps ==
  ASSUME IInv, pc = "select", NEW text \in Seq(Letter), Search(text)
  PROVE  IInv'
<1>1. /\ UNCHANGED <<pc, signIn, event, role, sts>>
      /\ query' = text /\ selected' = IF filtered' = <<>> THEN 0 ELSE 1
  BY DEF Search, Filter
<1>2. list' = list
  BY <1>1 DEF list, signIn
<1>3. list \in Seq(DOMAIN roles)
  BY RolesKnown DEF IInv, Parsed
<1>4. filtered' \in Seq(DOMAIN list)
  <2> DEFINE rows == {i \in DOMAIN list : Matches(list[i].name, text)}
             before == {pair \in rows \X rows : pair[1] < pair[2]}
  <2>1. filtered' = InOrder(rows, before)
    BY DEF Search, Filter
  <2>2. Len(list) \in Nat /\ DOMAIN list = 1..Len(list)
    BY <1>3, LenProperties
  <2> HIDE DEF list
  <2>3. rows \in SUBSET (1..Len(list)) /\ rows \subseteq DOMAIN list
    BY <2>2
  <2> HIDE DEF rows
  <2>4. InOrder(rows, before) \in Seq(rows)
    BY <2>2, <2>3, RowsInOrder
  <2> HIDE DEF before
  <2> QED BY <2>1, <2>3, <2>4
<1>5. selected' \in (IF filtered' = <<>> THEN {0} ELSE 1..Len(filtered'))
  BY <1>1, <1>4, EmptySeq, LenProperties
<1>6. Parsed'
  BY <1>1 DEF IInv, Parsed, Accepted, signIn
<1> HIDE DEF list
<1>7. Shown'
  BY <1>1, <1>2, <1>4, <1>5 DEF IInv, Shown
<1>8. Asked'
  BY <1>1 DEF IInv, Asked, signIn
<1> QED BY <1>6, <1>7, <1>8 DEF IInv

(* A move stays within the rows shown.                                     *)
LEMMA MoveSelectionKeeps ==
  ASSUME IInv, Down \/ Up
  PROVE  IInv'
<1>1. /\ pc = "select" /\ filtered # <<>>
      /\ UNCHANGED <<pc, signIn, query, filtered, event, role, sts>>
      /\ \/ selected' = IF selected < Len(filtered) THEN selected + 1 ELSE selected
         \/ selected' = IF selected > 1 THEN selected - 1 ELSE selected
  BY DEF Down, Up
<1>2. list' = list
  BY <1>1 DEF list, signIn
<1>3. filtered \in Seq(DOMAIN list) /\ selected \in 1..Len(filtered)
  BY <1>1 DEF IInv, Shown
<1>4. selected' \in 1..Len(filtered)
  <2>1. Len(filtered) \in Nat
    BY <1>3, LenProperties
  <2> QED BY <1>1, <1>3, <2>1
<1>5. Parsed'
  BY <1>1 DEF IInv, Parsed, Accepted, signIn
<1> HIDE DEF list
<1>6. Shown'
  BY <1>1, <1>2, <1>4 DEF IInv, Shown
<1>7. Asked'
  BY <1>1 DEF IInv, Asked, signIn
<1> QED BY <1>5, <1>6, <1>7 DEF IInv

(* STS is asked.                                                           *)
LEMMA ExchangeKeeps ==
  ASSUME IInv, Exchange
  PROVE  IInv'
<1>1. Parsed'
  BY DEF IInv, Parsed, Accepted, Exchange, signIn
<1>2. Shown'
  BY DEF IInv, Shown, Exchange, signIn, selector, list
<1>3. Asked'
  BY DEF IInv, Asked, Agreed, Exchange, signIn
<1> QED BY <1>1, <1>2, <1>3 DEF IInv

(* The process ends.                                                       *)
LEMMA ExitKeeps ==
  ASSUME IInv, Exit
  PROVE  IInv'
<1>1. Parsed'
  BY DEF Parsed, Accepted, Exit
<1>2. Shown'
  BY EmptySeq DEF Shown, Exit
<1>3. Asked'
  BY DEF Asked, Exit
<1> QED BY <1>1, <1>2, <1>3 DEF IInv

(* Every step keeps the invariant.                                         *)
LEMMA Invariance ==
  ASSUME IInv, [Next]_vars
  PROVE  IInv'
<1>1. CASE UNCHANGED vars
  BY <1>1 DEF IInv, Parsed, Accepted, Shown, Asked, Agreed, vars, list
<1>2. CASE \E r \in Requests : Start(r)
  BY <1>2, StartKeeps
<1>3. CASE \E captured \in Responses : SignIn(captured)
  BY <1>3, SignInKeeps
<1>4. CASE ListRoles \/ ResolvesToNothing \/ Decline \/ LeaveSelector
  BY <1>4, MovesKeep DEF ListRoles, ResolvesToNothing, Decline, LeaveSelector
<1>5. CASE ResolvesToRole \/ ResolvesToPrompt
  BY <1>5, ResolvesToRoleKeeps, ResolvesToPromptKeeps
<1>6. CASE Confirm
  <2>1. /\ pc = "confirm" /\ pc' = "exchange"
        /\ UNCHANGED <<signIn, query, filtered, selected, sts>>
        /\ role' \in DOMAIN roles
    BY <1>6, ListedOnOffer DEF Confirm, selector
  <2>2. event' # "none"
    BY <1>6 DEF Confirm
  <2> QED BY <2>1, <2>2, AnswerKeeps DEF IInv, Shown
<1>7. CASE Enter
  <2>1. /\ pc = "select" /\ pc' = "exchange" /\ selected' = selected
        /\ UNCHANGED <<signIn, query, filtered, sts>>
        /\ selected # 0 /\ role' = SelectedRole(selected)
    BY <1>7 DEF Enter, Pick
  <2>2. selected \in 1..Len(filtered) /\ filtered # <<>>
    BY <2>1 DEF IInv, Shown
  <2>3. event' # "none"
    BY <1>7 DEF Enter, Pick
  <2>4. role' \in DOMAIN roles
    <3> HIDE DEF SelectedRole
    <3> QED BY <2>1, <2>2, ListedOnOffer
  <2> QED BY <2>1, <2>2, <2>3, <2>4, AnswerKeeps
<1>8. CASE \E row \in 1..Height : Click(row)
  <2>1. PICK row \in 1..Height : Click(row)
    BY <1>8
  <2>2. /\ pc = "select" /\ pc' = "exchange" /\ selected' = row
        /\ UNCHANGED <<signIn, query, filtered, sts>>
        /\ row <= Len(filtered) /\ role' = SelectedRole(row)
    BY <2>1 DEF Click, Pick
  <2>3. row \in 1..Len(filtered) /\ filtered # <<>>
    BY <2>2, LenProperties, EmptySeq DEF IInv, Shown
  <2>4. event' # "none"
    BY <2>1 DEF Click, Pick
  <2>5. role' \in DOMAIN roles
    BY <2>2, <2>3, ListedOnOffer
  <2> QED BY <2>2, <2>3, <2>4, <2>5, AnswerKeeps
<1>9. CASE Erase
  <2>1. pc = "select" /\ query \in Seq(Letter)
    BY <1>9 DEF Erase, IInv, Shown
  <2>2. (IF query = <<>> THEN query ELSE Front(query)) \in Seq(Letter)
    <3>1. query # <<>> => SubSeq(query, 1, Len(query) - 1) \in Seq(Letter)
      BY <2>1, LenProperties, EmptySeq
    <3> QED BY <2>1, <3>1 DEF Front
  <2> QED BY <1>9, <2>1, <2>2, SearchKeeps DEF Erase
<1>10. CASE \E letter \in Letter : Type(letter)
  <2>1. PICK letter \in Letter : Type(letter)
    BY <1>10
  <2>2. pc = "select" /\ Append(query, letter) \in Seq(Letter)
    BY <2>1 DEF Type, IInv, Shown
  <2> QED BY <2>1, <2>2, SearchKeeps DEF Type
<1>11. CASE Down \/ Up
  BY <1>11, MoveSelectionKeeps
<1>12. CASE Exchange \/ Exit
  BY <1>12, ExchangeKeeps, ExitKeeps
<1> QED
  BY <1>1, <1>2, <1>3, <1>4, <1>5, <1>6, <1>7, <1>8, <1>9, <1>10, <1>11, <1>12
  DEF Next, SelectorEvent

(* What is parsed, shown and asked fits together at every point of a       *)
(* command: sign_in, choose_role and the selector.                         *)
THEOREM Invariant == Spec => []IInv
BY Initially, Invariance, PTL DEF Spec

----------------------------------------------------------------------------
(* What follows from it.                                                   *)

(* Every variable keeps its type; the selected row is one of the filtered  *)
(* rows and the role decided on one the assertion offers, for lists and    *)
(* searches of any length.                                                 *)
THEOREM TypeCorrect == Spec => []TypeOK
<1>1. ASSUME IInv PROVE TypeOK
  <2>1. roles # NoAssertion => Accepted
    BY <1>1 DEF IInv, Parsed
  <2>2. roles # NoAssertion =>
          \A r \in DOMAIN roles : r.kind = "role" /\ roles[r].kind = "saml-provider"
    BY <1>1, <2>1, RolesKnown DEF IInv
  <2>3. \A i \in DOMAIN filtered : filtered[i] \in DOMAIN list
    <3>1. filtered \in Seq(DOMAIN list)
      BY <1>1 DEF IInv, Shown
    <3> QED BY <3>1, LenProperties, ElementOfSeq
  <2>4. sts # Nothing => roles # NoAssertion
    <3>1. sts # Nothing => Accepted
      BY <1>1 DEF IInv, Asked, Parsed
    <3> QED BY <1>1, <3>1, RolesKnown DEF IInv
  <2> HIDE DEF list
  <2> QED BY <1>1, <2>2, <2>3, <2>4 DEF IInv, Parsed, Shown, Asked, Agreed, TypeOK
<1> QED BY <1>1, Invariant, PTL

(* STS is asked for the role requested, for one a human agreed to, or,     *)
(* where none was requested, for the only one on offer (resolve_role and   *)
(* choose_role).                                                           *)
THEOREM AsksForTheAgreed == Spec => []NeverReplacedSilently
<1>1. IInv => NeverReplacedSilently
  BY DEF IInv, Asked, Agreed, NeverReplacedSilently
<1> QED BY <1>1, Invariant, PTL

(* A pair read from a value of the attribute is a pair in the sense of the *)
(* reference definition, in either order.                                  *)
LEMMA OffersIsPairs ==
  ASSUME NEW v \in Seq(Arn \cup {Malformed}), NEW r, NEW p
  PROVE  Offers(v, r, p) <=> Pairs(v, r, p)
<1>1. CASE Len(v) # 2
  BY <1>1 DEF Offers, Pairs, IsPair
<1>2. CASE Len(v) = 2
  BY <1>2 DEF Offers, Pairs, IsPair, RoleOf, PrincipalOf
<1> QED BY <1>1, <1>2

(* Exactly the well-formed values count, and of two for one role the last  *)
(* (extract_roles, parse_role_value).                                      *)
THEOREM OffersEachLastPair == Spec => []OffersTheLastPairs
<1>1. ASSUME IInv PROVE OffersTheLastPairs
  <2> DEFINE values == response.values
             Arns == UNION {Range(values[i]) : i \in DOMAIN values}
             IsLastPair(r, p) ==
               \E i \in DOMAIN values :
                 /\ Pairs(values[i], r, p)
                 /\ \A j \in (i + 1)..Len(values) :
                      ~ \E other \in Arns : Pairs(values[j], r, other)
  <2> SUFFICES ASSUME roles # NoAssertion, NEW r \in Arns, NEW p \in Arns
               PROVE  IsLastPair(r, p) <=> (r \in DOMAIN roles /\ roles[r] = p)
    BY DEF OffersTheLastPairs
  <2>1. roles = ExtractRoles(values) /\ response \in Responses
    BY <1>1, RolesKnown DEF IInv, Parsed
  <2>2. values \in Seq(Seq(Arn \cup {Malformed}))
    BY <2>1 DEF Response
  <2> HIDE DEF values
  <2>3. /\ Len(values) \in Nat /\ DOMAIN values = 1..Len(values)
        /\ \A i \in 1..Len(values) : values[i] \in Seq(Arn \cup {Malformed})
    BY <2>2, LenProperties, ElementOfSeq
  <2>4. LastOfEach(values, Len(values), roles)
    BY <2>1, <2>3, ExtractsLastOfEach
  <2>5. \A i \in 1..Len(values) : \A q, o : Offers(values[i], q, o) <=> Pairs(values[i], q, o)
    BY <2>3, OffersIsPairs
  <2>6. ASSUME NEW j \in 1..Len(values), IsPair(values[j]), RoleOf(values[j]) = r
        PROVE  \E other \in Arns : Pairs(values[j], r, other)
    <3> DEFINE other == PrincipalOf(values[j])
    <3>1. Pairs(values[j], r, other)
      BY <2>5, <2>6 DEF Offers
    <3>2. other \in Range(values[j])
      <4>1. DOMAIN values[j] = 1..2
        BY <2>3, <2>6, LenProperties DEF IsPair
      <4> QED BY <4>1 DEF PrincipalOf, Range
    <3>3. other \in Arns
      BY <2>3, <3>2
    <3> QED BY <3>1, <3>3
  <2>7. ASSUME NEW j \in 1..Len(values), NEW other, Pairs(values[j], r, other)
        PROVE  IsPair(values[j]) /\ RoleOf(values[j]) = r
    BY <2>5, <2>7 DEF Offers
  <2> HIDE DEF Arns
  <2>8. ASSUME r \in DOMAIN roles, roles[r] = p PROVE IsLastPair(r, p)
    <3>1. PICK i \in 1..Len(values) :
            /\ Offers(values[i], r, roles[r])
            /\ \A j \in (i + 1)..Len(values) : ~(IsPair(values[j]) /\ RoleOf(values[j]) = r)
      BY <2>4, <2>8 DEF LastOfEach
    <3>2. Pairs(values[i], r, p)
      BY <2>5, <2>8, <3>1
    <3>3. \A j \in (i + 1)..Len(values) : j \in 1..Len(values)
      BY <2>3
    <3> QED BY <2>3, <2>7, <3>1, <3>2, <3>3
  <2>9. ASSUME IsLastPair(r, p) PROVE r \in DOMAIN roles /\ roles[r] = p
    <3>1. PICK i \in 1..Len(values) :
            /\ Pairs(values[i], r, p)
            /\ \A j \in (i + 1)..Len(values) : ~ \E other \in Arns : Pairs(values[j], r, other)
      BY <2>3, <2>9
    <3>2. Offers(values[i], r, p)
      BY <2>5, <3>1
    <3>3. r \in DOMAIN roles
      BY <2>4, <3>2 DEF LastOfEach, Offers
    <3>4. PICK k \in 1..Len(values) :
            /\ Offers(values[k], r, roles[r])
            /\ \A j \in (k + 1)..Len(values) : ~(IsPair(values[j]) /\ RoleOf(values[j]) = r)
      BY <2>4, <3>3 DEF LastOfEach
    <3>5. ~(k < i)
      BY <2>3, <3>2, <3>4 DEF Offers
    <3>6. ~(i < k)
      <4> SUFFICES ASSUME i < k PROVE FALSE
        OBVIOUS
      <4>1. k \in (i + 1)..Len(values)
        BY <2>3
      <4>2. \E other \in Arns : Pairs(values[k], r, other)
        BY <2>6, <3>4 DEF Offers
      <4> QED BY <3>1, <4>1, <4>2
    <3>7. i = k
      BY <3>5, <3>6
    <3> QED BY <3>2, <3>3, <3>4, <3>7 DEF Offers
  <2> QED BY <2>8, <2>9
<1> QED BY <1>1, Invariant, PTL

----------------------------------------------------------------------------
(* The checks of an assertion.                                             *)

StatesTime(conditions) ==
  conditions.notBefore # NoTime \/ conditions.notOnOrAfter # NoTime

(* An assertion has one <Conditions> that states times, as the schema of   *)
(* SAML has it; of several the code keeps the last.                        *)
OneWindow ==
  \A r \in Responses : \A i, j \in DOMAIN r.conditions :
    StatesTime(r.conditions[i]) /\ StatesTime(r.conditions[j]) => i = j

(* Where no <Conditions> states a time there is none.                      *)
LEMMA NoneGiven ==
  ASSUME NEW times, \A j \in DOMAIN times : times[j] = NoTime
  PROVE  LastGiven(times) = NoTime
BY DEF LastGiven

(* Where one states it, it is that one, if it can be read.                 *)
LEMMA OneGiven ==
  ASSUME NEW n \in Nat, NEW times, DOMAIN times = 1..n, NEW i \in 1..n,
         \A j \in 1..n : j # i => times[j] = NoTime
  PROVE  LastGiven(times) = IF IsTime(times[i]) THEN times[i] ELSE NoTime
<1> DEFINE given == {j \in DOMAIN times : times[j] # NoTime}
<1>1. CASE times[i] = NoTime
  BY <1>1, NoneGiven DEF IsTime
<1>2. CASE times[i] # NoTime
  <2>1. given = {i}
    BY <1>2
  <2>2. Max(given) = i
    <3>1. {i} \in SUBSET (1..n) /\ {i} # {}
      OBVIOUS
    <3>2. Max({i}) \in {i}
      BY <3>1, Greatest
    <3> QED BY <2>1, <3>2
  <2>3. LastGiven(times) = IF times[i] = Unreadable THEN NoTime ELSE times[i]
    <3>1. LastGiven(times) = IF given = {} \/ times[Max(given)] = Unreadable THEN NoTime
                             ELSE times[Max(given)]
      BY DEF LastGiven
    <3> HIDE DEF given
    <3> QED BY <2>1, <2>2, <3>1
  <2> QED BY <1>2, <2>3 DEF IsTime
<1> QED BY <1>1, <1>2

(* The two ends of a window, checked as the code does and as it means.     *)
LEMMA InWindowIs ==
  ASSUME NEW from \in Time \cup {NoTime, Unreadable},
         NEW until \in Time \cup {NoTime, Unreadable}
  PROVE  InWindow(IF IsTime(from) THEN from ELSE NoTime,
                  IF IsTime(until) THEN until ELSE NoTime) <=>
           /\ IsTime(from) => 0 \in (from - Skew)..Horizon
           /\ IsTime(until) => until > 0
           /\ IsTime(from) /\ IsTime(until) => (from..(until - 1)) # {}
<1>1. IsTime(from) => from \in Int
  BY DEF IsTime, Time
<1>2. IsTime(until) => until \in Int
  BY DEF IsTime, Time
<1>3. /\ IsTime(from) => from # NoTime
      /\ IsTime(until) => until # NoTime
  BY DEF IsTime
<1>4. ASSUME IsTime(from), IsTime(until)
      PROVE  (from..(until - 1)) # {} <=> ~(from >= until)
  <2>1. from < until => from \in from..(until - 1)
    BY <1>1, <1>2, <1>4
  <2> QED BY <1>1, <1>2, <1>4, <2>1
<1>5. IsTime(from) => (0 \in (from - Skew)..Horizon <=> ~(Skew < from))
  BY <1>1
<1>6. IsTime(until) => (until > 0 <=> ~(0 >= until))
  BY <1>2
<1>7. CASE IsTime(from) /\ IsTime(until)
  BY <1>3, <1>4, <1>5, <1>6, <1>7 DEF InWindow
<1>8. CASE IsTime(from) /\ ~IsTime(until)
  BY <1>3, <1>5, <1>8 DEF InWindow
<1>9. CASE ~IsTime(from) /\ IsTime(until)
  BY <1>3, <1>6, <1>9 DEF InWindow
<1>10. CASE ~IsTime(from) /\ ~IsTime(until)
  BY <1>10 DEF InWindow
<1> QED BY <1>7, <1>8, <1>9, <1>10

(* The checks of one response, against the reference definition.           *)
LEMMA AcceptsIs ==
  ASSUME OneWindow, NEW r \in Responses
  PROVE  Accepts(r, OurTenant, OurApp) <=> Valid(r)
<1> DEFINE c == r.conditions
           Within(i) ==
             /\ IsTime(c[i].notBefore) => 0 \in (c[i].notBefore - Skew)..Horizon
             /\ IsTime(c[i].notOnOrAfter) => c[i].notOnOrAfter > 0
             /\ IsTime(c[i].notBefore) /\ IsTime(c[i].notOnOrAfter)
                => (c[i].notBefore..(c[i].notOnOrAfter - 1)) # {}
           starts == [i \in DOMAIN c |-> c[i].notBefore]
           ends == [i \in DOMAIN c |-> c[i].notOnOrAfter]
<1>1. /\ c \in Seq(Conditions) /\ r.recipient \in {"none", "AWS", "other"}
  BY DEF Response
<1>2. \A i, j \in DOMAIN c : StatesTime(c[i]) /\ StatesTime(c[j]) => i = j
  BY DEF OneWindow
<1>3. OurApp \in Audiences(r) <=> \E i \in DOMAIN c : OurApp \in c[i].audiences
  BY DEF Audiences
<1>4. NotBefore(r) = LastGiven(starts) /\ NotOnOrAfter(r) = LastGiven(ends)
  BY DEF NotBefore, NotOnOrAfter
<1> HIDE DEF c
<1>5. Len(c) \in Nat /\ DOMAIN c = 1..Len(c) /\ \A i \in DOMAIN c : c[i] \in Conditions
  BY <1>1, LenProperties, ElementOfSeq
<1>6. /\ DOMAIN starts = 1..Len(c) /\ \A i \in DOMAIN c : starts[i] = c[i].notBefore
      /\ DOMAIN ends = 1..Len(c) /\ \A i \in DOMAIN c : ends[i] = c[i].notOnOrAfter
  BY <1>5
<1> HIDE DEF starts, ends
<1>7. InWindow(NotBefore(r), NotOnOrAfter(r)) <=> \A i \in DOMAIN c : Within(i)
  <2>1. CASE \A i \in DOMAIN c : ~StatesTime(c[i])
    <3>1. NotBefore(r) = NoTime /\ NotOnOrAfter(r) = NoTime
      BY <1>4, <1>5, <1>6, <2>1, NoneGiven DEF StatesTime
    <3>2. \A i \in DOMAIN c : ~IsTime(c[i].notBefore) /\ ~IsTime(c[i].notOnOrAfter)
      BY <2>1 DEF StatesTime, IsTime
    <3> QED BY <3>1, <3>2 DEF InWindow
  <2>2. ASSUME NEW i \in DOMAIN c, StatesTime(c[i])
        PROVE  InWindow(NotBefore(r), NotOnOrAfter(r)) <=> \A j \in DOMAIN c : Within(j)
    <3>1. \A j \in DOMAIN c : j # i => ~StatesTime(c[j])
      BY <1>2, <2>2
    <3>2. \A j \in 1..Len(c) : j # i => starts[j] = NoTime /\ ends[j] = NoTime
      BY <1>5, <1>6, <3>1 DEF StatesTime
    <3> DEFINE from == c[i].notBefore
               until == c[i].notOnOrAfter
    <3>3. /\ NotBefore(r) = IF IsTime(from) THEN from ELSE NoTime
          /\ NotOnOrAfter(r) = IF IsTime(until) THEN until ELSE NoTime
      <4>1. LastGiven(starts) = IF IsTime(starts[i]) THEN starts[i] ELSE NoTime
        BY <1>5, <1>6, <3>2, OneGiven
      <4>2. LastGiven(ends) = IF IsTime(ends[i]) THEN ends[i] ELSE NoTime
        BY <1>5, <1>6, <3>2, OneGiven
      <4> QED BY <1>4, <1>6, <4>1, <4>2
    <3>4. from \in Time \cup {NoTime, Unreadable} /\ until \in Time \cup {NoTime, Unreadable}
      BY <1>5 DEF Conditions
    <3>5. \A j \in DOMAIN c : j # i => Within(j)
      BY <3>1 DEF StatesTime, IsTime
    <3>6. Within(i) <=> InWindow(IF IsTime(from) THEN from ELSE NoTime,
                                 IF IsTime(until) THEN until ELSE NoTime)
      <4> HIDE DEF from, until
      <4>1. InWindow(IF IsTime(from) THEN from ELSE NoTime,
                     IF IsTime(until) THEN until ELSE NoTime) <=>
              /\ IsTime(from) => 0 \in (from - Skew)..Horizon
              /\ IsTime(until) => until > 0
              /\ IsTime(from) /\ IsTime(until) => (from..(until - 1)) # {}
        BY <3>4, InWindowIs
      <4> QED BY <4>1 DEF from, until
    <3> HIDE DEF Within, from, until
    <3> QED BY <3>3, <3>5, <3>6
  <2> QED BY <2>1, <2>2
<1>8. Valid(r) <=>
        /\ r.envelope = "assertion" /\ r.issuer = OurTenant
        /\ r.recipient \in {"none", "AWS"}
        /\ \E i \in DOMAIN c : OurApp \in c[i].audiences
        /\ \A i \in DOMAIN c : Within(i)
  BY DEF Valid, c
<1> HIDE DEF Within
<1> QED BY <1>1, <1>3, <1>7, <1>8 DEF Accepts

(* The chain of checks in SamlAssertion::parse accepts exactly the valid   *)
(* responses, whatever windows, audiences and issuers they state.          *)
THEOREM AcceptsExactlyTheValid == OneWindow => (Spec => []AcceptsTheValid)
<1> SUFFICES ASSUME OneWindow PROVE Spec => []AcceptsTheValid
  OBVIOUS
<1>1. IInv => AcceptsTheValid
  <2> SUFFICES ASSUME IInv, response # Nothing
               PROVE  (roles # NoAssertion) <=> Valid(response)
    BY DEF AcceptsTheValid
  <2>1. response \in Responses
    BY DEF IInv, Parsed
  <2>2. Accepted <=> Valid(response)
    BY <2>1, AcceptsIs DEF Accepted
  <2>3. roles # NoAssertion <=> Accepted
    BY RolesKnown DEF IInv, Parsed
  <2> QED BY <2>2, <2>3
<1> QED BY <1>1, Invariant, PTL
=============================================================================
