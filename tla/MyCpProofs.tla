----------------------------- MODULE MyCpProofs -----------------------------
(***************************************************************************)
(* Proofs about MyCp, for every file system with symbolic links that lead  *)
(* to places in it or to nothing, every pair of paths and any calls that   *)
(* fail: what is touched, and what it means that mycp said nothing.        *)
(***************************************************************************)
EXTENDS MyCp, SequenceTheorems, WellFoundedInduction, TLAPS

-----------------------------------------------------------------------------
(* Paths.                                                                  *)

LEMMA PathIs ==
  ASSUME NEW p \in Paths
  PROVE  Len(p) \in Nat /\ (\A n \in 1..Len(p) : p[n] \in Names)
         /\ (Len(p) = 0 <=> p = <<>>)
BY DEF Paths

LEMMA PathsEqual ==
  ASSUME NEW p \in Paths, NEW q \in Paths,
         Len(p) = Len(q), \A n \in 1..Len(p) : p[n] = q[n]
  PROVE  p = q
BY SeqEqual DEF Paths

LEMMA PrefixIs ==
  ASSUME NEW p \in Paths, NEW n \in 0..Len(p)
  PROVE  /\ SubSeq(p, 1, n) \in Paths /\ Len(SubSeq(p, 1, n)) = n
         /\ \A k \in 1..n : SubSeq(p, 1, n)[k] = p[k]
<1>1. Len(p) \in Nat /\ \A k \in 1..n : p[k] \in Names BY PathIs
<1>2. /\ SubSeq(p, 1, n) \in Seq(Names)
      /\ Len(SubSeq(p, 1, n)) = IF 1 <= n THEN n - 1 + 1 ELSE 0
      /\ \A k \in 1..n-1+1 : SubSeq(p, 1, n)[k] = p[1 + k - 1]
  BY <1>1, SubSeqProperties
<1> QED BY <1>1, <1>2 DEF Paths

LEMMA RestIs ==
  ASSUME NEW p \in Paths, NEW n \in 0..Len(p)
  PROVE  /\ SubSeq(p, n + 1, Len(p)) \in Paths /\ Len(SubSeq(p, n + 1, Len(p))) = Len(p) - n
         /\ \A k \in 1..Len(p)-n : SubSeq(p, n + 1, Len(p))[k] = p[n + k]
<1> DEFINE m == n + 1
<1>1. Len(p) \in Nat /\ m \in Int /\ \A k \in m..Len(p) : p[k] \in Names BY PathIs
<1> HIDE DEF m
<1>2. /\ SubSeq(p, m, Len(p)) \in Seq(Names)
      /\ Len(SubSeq(p, m, Len(p))) = IF m <= Len(p) THEN Len(p) - m + 1 ELSE 0
      /\ \A k \in 1..Len(p)-m+1 : SubSeq(p, m, Len(p))[k] = p[m + k - 1]
  BY <1>1, SubSeqProperties
<1>3. m = n + 1 BY DEF m
<1>4. SubSeq(p, m, Len(p)) = SubSeq(p, n + 1, Len(p)) BY <1>3
<1>5. \A k \in 1..Len(p)-n : SubSeq(p, m, Len(p))[k] = p[n + k]
  <2> SUFFICES ASSUME NEW k \in 1..Len(p)-n PROVE SubSeq(p, m, Len(p))[k] = p[n + k] OBVIOUS
  <2>1. k \in 1..Len(p)-m+1 /\ m + k - 1 = n + k BY <1>1, <1>3
  <2> QED BY <1>2, <2>1
<1>6. Len(SubSeq(p, m, Len(p))) = Len(p) - n BY <1>1, <1>2, <1>3
<1> QED BY <1>2, <1>4, <1>5, <1>6 DEF Paths

LEMMA UnderIs ==
  ASSUME NEW p \in Paths, NEW q \in Paths
  PROVE  Under(p, q) <=> Len(p) <= Len(q) /\ \A n \in 1..Len(p) : q[n] = p[n]
<1>0. Len(p) \in Nat /\ Len(q) \in Nat BY PathIs
<1>1. ASSUME Len(p) <= Len(q)
      PROVE  SubSeq(q, 1, Len(p)) = p <=> \A n \in 1..Len(p) : q[n] = p[n]
  <2>1. Len(p) \in 0..Len(q) BY <1>0, <1>1
  <2>3. /\ SubSeq(q, 1, Len(p)) \in Paths /\ Len(SubSeq(q, 1, Len(p))) = Len(p)
        /\ \A k \in 1..Len(p) : SubSeq(q, 1, Len(p))[k] = q[k]
    BY <2>1, PrefixIs
  <2>4. (\A n \in 1..Len(p) : q[n] = p[n]) => SubSeq(q, 1, Len(p)) = p
    BY <2>3, PathsEqual
  <2> QED BY <2>3, <2>4
<1> QED BY <1>1 DEF Under

LEMMA UnderOrder ==
  ASSUME NEW p \in Paths, NEW q \in Paths, NEW r \in Paths
  PROVE  /\ Under(p, p)
         /\ Under(p, q) /\ Under(q, r) => Under(p, r)
         /\ Under(p, r) /\ Under(q, r) => Under(p, q) \/ Under(q, p)
         /\ Under(p, q) /\ Under(q, p) => p = q
<1>0. Len(p) \in Nat /\ Len(q) \in Nat /\ Len(r) \in Nat BY PathIs
<1>1. Under(p, p) BY <1>0, UnderIs
<1>2. ASSUME Under(p, q), Under(q, r) PROVE Under(p, r)
  BY <1>0, <1>2, UnderIs
<1>3. ASSUME Under(p, r), Under(q, r) PROVE Under(p, q) \/ Under(q, p)
  BY <1>0, <1>3, UnderIs
<1>4. ASSUME Under(p, q), Under(q, p) PROVE p = q
  <2>1. Len(p) = Len(q) /\ \A n \in 1..Len(p) : p[n] = q[n] BY <1>0, <1>4, UnderIs
  <2> QED BY <2>1, PathsEqual
<1> QED BY <1>1, <1>2, <1>3, <1>4

LEMMA ParentIs ==
  ASSUME NEW p \in Paths, p # <<>>
  PROVE  /\ Parent(p) \in Paths /\ Len(Parent(p)) = Len(p) - 1 /\ Len(p) > 0
         /\ \A k \in 1..Len(p)-1 : Parent(p)[k] = p[k]
<1>1. Len(p) \in Nat /\ Len(p) # 0 BY PathIs
<1>2. Len(p) - 1 \in 0..Len(p) BY <1>1
<1>3. /\ SubSeq(p, 1, Len(p) - 1) \in Paths /\ Len(SubSeq(p, 1, Len(p) - 1)) = Len(p) - 1
      /\ \A k \in 1..Len(p)-1 : SubSeq(p, 1, Len(p) - 1)[k] = p[k]
  BY <1>2, PrefixIs
<1> QED BY <1>1, <1>3 DEF Parent

LEMMA AppendIs ==
  ASSUME NEW p \in Paths, NEW x \in Names
  PROVE  /\ Append(p, x) \in Paths /\ Len(Append(p, x)) = Len(p) + 1
         /\ \A k \in 1..Len(p) : Append(p, x)[k] = p[k]
         /\ Append(p, x)[Len(p) + 1] = x
BY AppendProperties DEF Paths

LEMMA AppendEqual ==
  ASSUME NEW p \in Paths, NEW x \in Names, NEW q \in Paths, Len(q) = Len(p) + 1,
         \A k \in 1..Len(p) : q[k] = p[k], q[Len(q)] = x
  PROVE  q = Append(p, x)
<1>1. Len(p) \in Nat BY PathIs
<1>2. ASSUME NEW k \in 1..Len(q) PROVE q[k] = Append(p, x)[k]
  <2>1. CASE k = Len(q)
    <3>1. k = Len(p) + 1 BY <2>1
    <3> QED BY <2>1, <3>1, AppendIs
  <2>2. CASE k # Len(q)
    <3>1. k \in 1..Len(p) BY <1>1, <2>2
    <3> QED BY <3>1, AppendIs
  <2> QED BY <2>1, <2>2
<1>3. Append(p, x) \in Paths /\ Len(Append(p, x)) = Len(q) BY AppendIs
<1> QED BY <1>2, <1>3, PathsEqual

LEMMA ChildIs ==
  ASSUME NEW p \in Paths, NEW q \in Paths, q # <<>>, Parent(q) = p
  PROVE  /\ Len(q) = Len(p) + 1 /\ Under(p, q) /\ p # q
         /\ q = Append(p, q[Len(q)]) /\ q[Len(q)] \in Names
<1>1. /\ Len(p) = Len(q) - 1 /\ Len(q) > 0 /\ Len(q) \in Nat /\ Len(p) \in Nat
      /\ \A k \in 1..Len(q)-1 : p[k] = q[k]
  BY ParentIs, PathIs
<1>2. Under(p, q) BY <1>1, UnderIs
<1>3. q[Len(q)] \in Names BY <1>1, PathIs
<1>4. q = Append(p, q[Len(q)])
  <2>1. Len(q) = Len(p) + 1 /\ \A k \in 1..Len(p) : q[k] = p[k] BY <1>1
  <2> QED BY <1>3, <2>1, AppendEqual
<1> QED BY <1>1, <1>2, <1>3, <1>4

(* The entry of directory p on the way to q. *)
Toward(p, q) == SubSeq(q, 1, Len(p) + 1)

LEMMA TowardIs ==
  ASSUME NEW p \in Paths, NEW q \in Paths, Under(p, q), p # q
  PROVE  /\ Toward(p, q) \in Paths /\ Toward(p, q) # <<>>
         /\ Parent(Toward(p, q)) = p /\ Under(Toward(p, q), q)
         /\ Len(p) < Len(q) /\ Len(Toward(p, q)) = Len(p) + 1
<1>1. /\ Len(p) \in Nat /\ Len(q) \in Nat /\ Len(p) <= Len(q)
      /\ \A n \in 1..Len(p) : q[n] = p[n]
  BY PathIs, UnderIs
<1>2. Len(p) < Len(q)
  <2> SUFFICES ASSUME Len(p) = Len(q) PROVE FALSE BY <1>1
  <2> QED BY <1>1, PathsEqual
<1> DEFINE t == Toward(p, q)
<1>3. t \in Paths /\ Len(t) = Len(p) + 1 /\ \A k \in 1..Len(p)+1 : t[k] = q[k]
  <2>1. Len(p) + 1 \in 0..Len(q) BY <1>1, <1>2
  <2> QED BY <2>1, PrefixIs DEF Toward
<1>4. t # <<>> BY <1>1, <1>3, PathIs
<1>5. Under(t, q) BY <1>1, <1>2, <1>3, UnderIs
<1>6. Parent(t) = p
  <2> HIDE DEF t
  <2>0. Parent(t) \in Paths /\ Len(Parent(t)) = Len(t) - 1
        /\ \A k \in 1..Len(t)-1 : Parent(t)[k] = t[k]
    BY <1>3, <1>4, ParentIs
  <2>1. Parent(t) \in Paths /\ Len(Parent(t)) = Len(p) /\ \A k \in 1..Len(p) : Parent(t)[k] = t[k]
    BY <1>1, <1>3, <2>0
  <2>2. \A k \in 1..Len(p) : Parent(t)[k] = p[k] BY <1>1, <1>3, <2>1
  <2> QED BY <2>1, <2>2, PathsEqual
<1> QED BY <1>2, <1>3, <1>4, <1>5, <1>6
(* The entry of directory p on the way to q, by its name. *)
LEMMA NextName ==
  ASSUME NEW p \in Paths, NEW q \in Paths, Under(p, q), p # q
  PROVE  LET x == q[Len(p) + 1]
         IN  x \in Names /\ Append(p, x) \in Paths /\ Under(Append(p, x), q)
             /\ Len(p) < Len(q)
<1> DEFINE x == q[Len(p) + 1]
           t == Toward(p, q)
<1>1. t \in Paths /\ t # <<>> /\ Parent(t) = p /\ Under(t, q) /\ Len(t) = Len(p) + 1
      /\ Len(p) < Len(q) /\ Len(p) \in Nat
  BY TowardIs, PathIs
<1>2. t = Append(p, t[Len(t)]) /\ t[Len(t)] \in Names BY <1>1, ChildIs
<1>3. t[Len(t)] = x
  <2> HIDE DEF t, x
  <2>1. \A n \in 1..Len(t) : q[n] = t[n] BY <1>1, UnderIs
  <2>2. Len(t) \in 1..Len(t) BY <1>1
  <2> QED BY <1>1, <2>1, <2>2 DEF x
<1> QED BY <1>1, <1>2, <1>3

LEMMA ParentOfChild ==
  ASSUME NEW p \in Paths, NEW x \in Names
  PROVE  /\ Parent(Append(p, x)) = p /\ Append(p, x) # <<>> /\ Append(p, x) \in Paths
         /\ Append(p, x)[Len(Append(p, x))] = x /\ Len(Append(p, x)) = Len(p) + 1
         /\ Len(p) \in Nat /\ Under(p, Append(p, x)) /\ p # Append(p, x)
<1> DEFINE q == Append(p, x)
<1>1. /\ q \in Paths /\ Len(q) = Len(p) + 1 /\ q[Len(p) + 1] = x /\ Len(p) \in Nat
      /\ \A k \in 1..Len(p) : q[k] = p[k]
  BY AppendIs, PathIs
<1> HIDE DEF q
<1>2. q # <<>> BY <1>1, PathIs
<1>3. /\ Parent(q) \in Paths /\ Len(Parent(q)) = Len(q) - 1
      /\ \A k \in 1..Len(q)-1 : Parent(q)[k] = q[k]
  BY <1>1, <1>2, ParentIs
<1>4. Parent(q) = p
  <2>1. Len(Parent(q)) = Len(p) /\ \A k \in 1..Len(p) : Parent(q)[k] = p[k] BY <1>1, <1>3
  <2> QED BY <1>3, <2>1, PathsEqual
<1>5. Under(p, q) /\ p # q BY <1>1, UnderIs
<1> QED BY <1>1, <1>2, <1>4, <1>5 DEF q

-----------------------------------------------------------------------------
(***************************************************************************)
(* Where paths lead.  A path is followed from the left, one name after the *)
(* other, so there is a function that obeys the rule of Lead.              *)
(***************************************************************************)
Follow(l, f, p) ==
  IF p = <<>> THEN <<>>
  ELSE LET q == Append(f[Parent(p)], p[Len(p)])
       IN  IF q \in DOMAIN l THEN l[q] ELSE q

IsLead(l, f) == f = [p \in Paths |-> Follow(l, f, p)]

LEMMA LeadIs == \A l : Lead(l) = CHOOSE f : IsLead(l, f)
BY Zenon DEF Lead, IsLead, Follow

LEMMA StrongInduction ==
  ASSUME NEW G, \A n \in Nat : (\A m \in 0..n-1 : m \in G) => n \in G
  PROVE  Nat \subseteq G
<1> SUFFICES ASSUME Nat \ G # {} PROVE FALSE OBVIOUS
<1>1. PICK n \in Nat \ G : \A m \in Nat \ G : ~(<<m, n>> \in OpToRel(<, Nat))
  BY NatLessThanWellFounded, WFMin, Nat \ G \subseteq Nat
<1>2. PICK m \in 0..n-1 : m \notin G BY <1>1
<1>3. m \in Nat \ G /\ n \in Nat /\ m < n BY <1>2
<1>4. <<m, n>> \in OpToRel(<, Nat) BY <1>3 DEF OpToRel
<1> QED BY <1>1, <1>3, <1>4

LEMMA LeadExists == \A l : IsLead(l, Lead(l))
<1> SUFFICES ASSUME NEW l PROVE IsLead(l, Lead(l)) OBVIOUS
<1> DEFINE Part(f, n) == \A p \in Paths : Len(p) <= n => f[p] = Follow(l, f, p)
           G == {n \in Nat : \E f : Part(f, n)}
<1>1. ASSUME NEW f, NEW g, NEW n \in Nat, NEW m \in Nat, Part(f, n), Part(g, m)
      PROVE  \A p \in Paths : Len(p) <= n /\ Len(p) <= m => f[p] = g[p]
  <2> DEFINE H == {k \in Nat : \A p \in Paths : Len(p) = k /\ k <= n /\ k <= m => f[p] = g[p]}
  <2>1. ASSUME NEW k \in Nat, \A j \in 0..k-1 : j \in H PROVE k \in H
    <3> SUFFICES ASSUME NEW p \in Paths, Len(p) = k, k <= n, k <= m PROVE f[p] = g[p]
      OBVIOUS
    <3>1. f[p] = Follow(l, f, p) /\ g[p] = Follow(l, g, p) BY <1>1
    <3>2. CASE p = <<>> BY <3>1, <3>2 DEF Follow
    <3>3. CASE p # <<>>
      <4>1. Parent(p) \in Paths /\ Len(Parent(p)) = k - 1 /\ k > 0 BY <3>3, ParentIs
      <4>2. k - 1 \in 0..k-1 /\ k - 1 <= n /\ k - 1 <= m BY <4>1
      <4>3. f[Parent(p)] = g[Parent(p)] BY <2>1, <4>1, <4>2
      <4>4. Follow(l, f, p) = Follow(l, g, p) BY <4>3, Zenon DEF Follow
      <4> QED BY <3>1, <4>4
    <3> QED BY <3>2, <3>3
  <2> HIDE DEF H
  <2>2. Nat \subseteq H BY <2>1, StrongInduction
  <2>3. \A p \in Paths : Len(p) \in Nat BY PathIs
  <2> QED BY <2>2, <2>3 DEF H
<1>2. ASSUME NEW n \in Nat, \A m \in 0..n-1 : m \in G PROVE n \in G
  <2>1. CASE n = 0
    <3> DEFINE f == [p \in Paths |-> <<>>]
    <3>1. \A p \in Paths : Len(p) <= 0 => p = <<>> BY PathIs
    <3>2. \A p \in Paths : f[p] = <<>> OBVIOUS
    <3>3. Part(f, 0) BY <3>1, <3>2 DEF Follow
    <3> QED BY <2>1, <3>3
  <2>2. CASE n # 0
    <3>1. n - 1 \in 0..n-1 /\ n - 1 \in Nat BY <2>2
    <3>2. PICK f : Part(f, n - 1) BY <1>2, <3>1
    <3> DEFINE g == [p \in Paths |-> Follow(l, f, p)]
    <3>3. ASSUME NEW p \in Paths, Len(p) <= n PROVE g[p] = Follow(l, g, p)
      <4>1. g[p] = Follow(l, f, p) OBVIOUS
      <4>2. CASE p = <<>> BY <4>1, <4>2 DEF Follow
      <4>3. CASE p # <<>>
        <5>1. Parent(p) \in Paths /\ Len(Parent(p)) = Len(p) - 1 /\ Len(p) \in Nat
          BY <4>3, ParentIs, PathIs
        <5>2. Len(Parent(p)) <= n - 1 BY <3>3, <5>1
        <5>3. f[Parent(p)] = Follow(l, f, Parent(p)) BY <3>2, <5>1, <5>2
        <5>4. g[Parent(p)] = f[Parent(p)] BY <5>1, <5>3
        <5> HIDE DEF g
        <5> QED BY <4>1, <5>4, Zenon DEF Follow
      <4> QED BY <4>2, <4>3
    <3> HIDE DEF g
    <3> QED BY <3>3
  <2> QED BY <2>1, <2>2
<1>3. Nat \subseteq G
  <2> HIDE DEF G
  <2> QED BY <1>2, StrongInduction
<1> DEFINE F(n) == CHOOSE f : Part(f, n)
           h == [p \in Paths |-> F(Len(p))[p]]
<1>4. \A n \in Nat : Part(F(n), n) BY <1>3, Zenon
<1>5. ASSUME NEW p \in Paths PROVE h[p] = Follow(l, h, p)
  <2>1. Len(p) \in Nat BY PathIs
  <2>2. h[p] = F(Len(p))[p] OBVIOUS
  <2>3. \A q \in Paths : h[q] = F(Len(q))[q] OBVIOUS
  <2> HIDE DEF F, h
  <2>4. F(Len(p))[p] = Follow(l, F(Len(p)), p)
    <3>1. Part(F(Len(p)), Len(p)) BY <1>4, <2>1
    <3> QED BY <2>1, <3>1
  <2>5. CASE p = <<>> BY <2>2, <2>4, <2>5 DEF Follow
  <2>6. CASE p # <<>>
    <3> DEFINE q == Parent(p)
    <3>1. q \in Paths /\ Len(q) \in Nat /\ Len(q) <= Len(p) BY <2>1, <2>6, ParentIs, PathIs
    <3> HIDE DEF q
    <3>2. Part(F(Len(q)), Len(q)) /\ Part(F(Len(p)), Len(p)) BY <1>4, <2>1, <3>1
    <3>3. F(Len(q))[q] = F(Len(p))[q] BY <1>1, <2>1, <3>1, <3>2
    <3>4. h[q] = F(Len(p))[q] BY <2>3, <3>1, <3>3
    <3> QED BY <2>2, <2>4, <3>4, Zenon DEF Follow, q
  <2> QED BY <2>5, <2>6
<1>6. IsLead(l, h)
  <2>1. h = [p \in Paths |-> h[p]] OBVIOUS
  <2> HIDE DEF h
  <2> QED BY <1>5, <2>1, Zenon DEF IsLead
<1>7. \E f : IsLead(l, f) BY <1>6
<1> QED BY <1>7, LeadIs, Zenon

(* Links lead to places, and a place is not a link. *)
LinksOK ==
  /\ links \in [DOMAIN links -> Paths] /\ DOMAIN links \subseteq Paths \ {<<>>}
  /\ \A p \in DOMAIN links : links[p] \notin DOMAIN links

LEMMA LinksAre == ASSUME NEW s, AreLinks(links, s) PROVE LinksOK
<1>1. ASSUME NEW p \in DOMAIN links PROVE links[p] \notin DOMAIN links
  <2>1. links[p] \in Paths BY DEF AreLinks
  <2>2. Len(links[p]) \in Nat BY <2>1, PathIs
  <2>3. SubSeq(links[p], 1, Len(links[p])) = links[p]
    <3>1. Under(links[p], links[p]) BY <2>1, UnderOrder
    <3> QED BY <3>1 DEF Under
  <2>4. Len(links[p]) \in 0..Len(links[p]) BY <2>2
  <2> QED BY <2>3, <2>4 DEF AreLinks
<1> QED BY <1>1 DEF AreLinks, LinksOK

LEMMA RealRule ==
  ASSUME LinksOK, NEW p \in Paths
  PROVE  /\ Real(<<>>) = <<>>
         /\ \A x \in Names : LET q == Append(Real(p), x)
                             IN  Real(Append(p, x)) = IF q \in DOMAIN links THEN links[q] ELSE q
<1> DEFINE f == Lead(links)
<1>1. f = [r \in Paths |-> Follow(links, f, r)] BY LeadExists DEF IsLead
<1>2. \A r \in Paths : Real(r) = Follow(links, f, r)
  <2>1. \A r \in Paths : f[r] = Follow(links, f, r) BY <1>1, Zenon
  <2> QED BY <2>1 DEF Real
<1>3. <<>> \in Paths BY DEF Paths
<1>4. ASSUME NEW x \in Names
      PROVE  LET q == Append(Real(p), x)
             IN  Real(Append(p, x)) = IF q \in DOMAIN links THEN links[q] ELSE q
  <2>1. /\ Append(p, x) \in Paths /\ Append(p, x) # <<>> /\ Parent(Append(p, x)) = p
        /\ Append(p, x)[Len(Append(p, x))] = x
    BY ParentOfChild
  <2> DEFINE r == Append(p, x)
  <2>2. Real(r) = Follow(links, f, r) BY <1>2, <2>1
  <2>3. f[Parent(r)] = Real(p) /\ r[Len(r)] = x /\ r # <<>> BY <2>1 DEF Real
  <2> HIDE DEF f, r
  <2>4. Follow(links, f, r) = LET q == Append(Real(p), x)
                              IN  IF q \in DOMAIN links THEN links[q] ELSE q
    BY <2>3, Zenon DEF Follow
  <2> QED BY <2>2, <2>4 DEF r
<1> QED BY <1>2, <1>3, <1>4 DEF Follow

LEMMA RealIs ==
  ASSUME LinksOK, NEW p \in Paths
  PROVE  Real(p) \in Paths /\ Real(p) \notin DOMAIN links
<1> DEFINE G == {n \in Nat : \A r \in Paths : Len(r) = n =>
                               Real(r) \in Paths /\ Real(r) \notin DOMAIN links}
<1>1. ASSUME NEW n \in Nat, \A m \in 0..n-1 : m \in G PROVE n \in G
  <2> SUFFICES ASSUME NEW r \in Paths, Len(r) = n
               PROVE  Real(r) \in Paths /\ Real(r) \notin DOMAIN links
    OBVIOUS
  <2>1. CASE r = <<>>
    <3>1. Real(r) = <<>> BY <2>1, RealRule
    <3>2. <<>> \notin DOMAIN links BY DEF LinksOK
    <3> QED BY <2>1, <3>1, <3>2
  <2>2. CASE r # <<>>
    <3> DEFINE u == Parent(r)
               x == r[Len(r)]
    <3>1. u \in Paths /\ Len(u) = n - 1 /\ n > 0 BY <2>2, ParentIs
    <3>2. r = Append(u, x) /\ x \in Names BY <2>2, <3>1, ChildIs
    <3> HIDE DEF u, x
    <3>3. n - 1 \in 0..n-1 BY <3>1
    <3>4. Real(u) \in Paths BY <1>1, <3>1, <3>3
    <3>5. Append(Real(u), x) \in Paths BY <3>2, <3>4, AppendIs
    <3>6. LET q == Append(Real(u), x)
          IN  Real(r) = IF q \in DOMAIN links THEN links[q] ELSE q
      BY <3>1, <3>2, RealRule
    <3> QED BY <3>5, <3>6 DEF LinksOK
  <2> QED BY <2>1, <2>2
<1> HIDE DEF G
<1>2. Nat \subseteq G BY <1>1, StrongInduction
<1>3. Len(p) \in Nat BY PathIs
<1> QED BY <1>2, <1>3 DEF G

LEMMA RealStays == ASSUME UNCHANGED links PROVE \A p : Real(p)' = Real(p)
BY DEF Real

(* What leads somewhere leads through directories. *)
LEMMA StepDown ==
  ASSUME NEW s, IsTree(s), LinksOK,
         \A p \in DOMAIN links : Parent(p) \in DOMAIN s /\ s[Parent(p)].kind = "dir",
         NEW p \in Paths, NEW x \in Names, Real(Append(p, x)) \in DOMAIN s
  PROVE  Real(p) \in DOMAIN s /\ s[Real(p)].kind = "dir"
<1> DEFINE q == Append(Real(p), x)
<1>1. Real(p) \in Paths BY RealIs
<1>2. Parent(q) = Real(p) /\ q # <<>> BY <1>1, ParentOfChild
<1>3. Real(Append(p, x)) = IF q \in DOMAIN links THEN links[q] ELSE q BY RealRule
<1>4. CASE q \in DOMAIN links BY <1>2, <1>4
<1>5. CASE q \notin DOMAIN links
  <2>1. q \in DOMAIN s BY <1>3, <1>5
  <2> HIDE DEF q
  <2> QED BY <1>2, <2>1 DEF IsTree
<1> QED BY <1>4, <1>5

LEMMA AboveIs ==
  ASSUME NEW s, IsTree(s), LinksOK,
         \A p \in DOMAIN links : Parent(p) \in DOMAIN s /\ s[Parent(p)].kind = "dir",
         NEW p \in Paths, Real(p) \in DOMAIN s, NEW a \in Paths, Under(a, p), a # p
  PROVE  Real(a) \in DOMAIN s /\ s[Real(a)].kind = "dir"
<1> DEFINE G == {n \in Nat : \A r \in Paths :
                   Len(r) = n /\ Under(a, r) /\ a # r /\ Real(r) \in DOMAIN s =>
                     Real(a) \in DOMAIN s /\ s[Real(a)].kind = "dir"}
<1>1. ASSUME NEW n \in Nat, \A m \in 0..n-1 : m \in G PROVE n \in G
  <2> SUFFICES ASSUME NEW r \in Paths, Len(r) = n, Under(a, r), a # r, Real(r) \in DOMAIN s
               PROVE  Real(a) \in DOMAIN s /\ s[Real(a)].kind = "dir"
    OBVIOUS
  <2> DEFINE u == Parent(r)
             x == r[Len(r)]
  <2>1. Len(a) < Len(r) /\ Len(a) \in Nat BY TowardIs, PathIs
  <2>2. r # <<>> BY <2>1, PathIs
  <2>3. /\ u \in Paths /\ Len(u) = n - 1 /\ n > 0 /\ r = Append(u, x) /\ x \in Names
        /\ Under(u, r)
    BY <2>2, ParentIs, ChildIs
  <2> HIDE DEF u, x
  <2>4. Real(u) \in DOMAIN s /\ s[Real(u)].kind = "dir" BY <2>3, StepDown
  <2>5. CASE a = u BY <2>4, <2>5
  <2>6. CASE a # u
    <3>1. Under(a, u) \/ Under(u, a) BY <2>3, UnderOrder
    <3>2. Under(u, a) => Under(a, u)
      <4> SUFFICES ASSUME Under(u, a) PROVE Under(a, u) OBVIOUS
      <4>1. Len(u) <= Len(a) /\ \A k \in 1..Len(u) : a[k] = u[k] BY <2>3, UnderIs
      <4>2. Len(u) = Len(a) BY <2>1, <2>3, <4>1
      <4> QED BY <2>3, <2>6, <4>1, <4>2, PathsEqual
    <3>3. n - 1 \in 0..n-1 BY <2>3
    <3> QED BY <1>1, <2>3, <2>4, <2>6, <3>1, <3>2, <3>3
  <2> QED BY <2>5, <2>6
<1> HIDE DEF G
<1>2. Nat \subseteq G BY <1>1, StrongInduction
<1>3. Len(p) \in Nat BY PathIs
<1> QED BY <1>2, <1>3 DEF G


-----------------------------------------------------------------------------
(* Moved is a change of the first names, and loses nothing. *)
LEMMA MovedIs ==
  ASSUME arg.origin \in Paths, Target \in Paths, NEW p \in Paths, Under(arg.origin, p)
  PROVE  /\ Moved(p) \in Paths
         /\ Len(Moved(p)) = Len(Target) + (Len(p) - Len(arg.origin))
         /\ \A k \in 1..Len(Target) : Moved(p)[k] = Target[k]
         /\ \A k \in 1..Len(p)-Len(arg.origin) :
              Moved(p)[Len(Target) + k] = p[Len(arg.origin) + k]
         /\ Under(Target, Moved(p))
<1> DEFINE o == arg.origin
           rest == SubSeq(p, Len(o) + 1, Len(p))
<1>1. Len(o) \in Nat /\ Len(p) \in Nat /\ Len(Target) \in Nat /\ Len(o) <= Len(p)
  BY PathIs, UnderIs
<1>2. rest \in Paths /\ Len(rest) = Len(p) - Len(o)
      /\ \A k \in 1..Len(p)-Len(o) : rest[k] = p[Len(o) + k]
  <2>1. Len(o) \in 0..Len(p) BY <1>1
  <2> QED BY <2>1, RestIs
<1>3. Moved(p) = Target \o rest BY DEF Moved
<1> HIDE DEF rest
<1>4. /\ Target \o rest \in Paths /\ Len(Target \o rest) = Len(Target) + Len(rest)
      /\ \A k \in 1..Len(Target)+Len(rest) :
           (Target \o rest)[k] = IF k <= Len(Target) THEN Target[k] ELSE rest[k - Len(Target)]
  BY <1>2, ConcatProperties DEF Paths
<1>5. \A k \in 1..Len(Target) : Moved(p)[k] = Target[k] BY <1>1, <1>2, <1>3, <1>4
<1>6. \A k \in 1..Len(p)-Len(o) : Moved(p)[Len(Target) + k] = p[Len(o) + k]
  BY <1>1, <1>2, <1>3, <1>4
<1>8. Moved(p) \in Paths /\ Len(Target) <= Len(Moved(p)) BY <1>1, <1>2, <1>3, <1>4
<1>7. Under(Target, Moved(p)) BY <1>5, <1>8, UnderIs
<1> QED BY <1>1, <1>2, <1>3, <1>4, <1>5, <1>6, <1>7


LEMMA MovedOrigin ==
  ASSUME arg.origin \in Paths, Target \in Paths
  PROVE  Moved(arg.origin) = Target /\ Under(arg.origin, arg.origin)
<1>1. Under(arg.origin, arg.origin) BY UnderOrder
<1>2. /\ Moved(arg.origin) \in Paths /\ Len(arg.origin) \in Nat /\ Len(Target) \in Nat
      /\ Len(Moved(arg.origin)) = Len(Target) + (Len(arg.origin) - Len(arg.origin))
      /\ \A k \in 1..Len(Target) : Moved(arg.origin)[k] = Target[k]
  BY <1>1, MovedIs, PathIs
<1>3. Len(Moved(arg.origin)) = Len(Target) BY <1>2
<1> QED BY <1>1, <1>2, <1>3, PathsEqual

(* DestPath keeps in step with the way down. *)
LEMMA MovedChild ==
  ASSUME arg.origin \in Paths, Target \in Paths,
         NEW p \in Paths, NEW q \in Paths, q # <<>>, Parent(q) = p, Under(arg.origin, p)
  PROVE  /\ Under(arg.origin, q) /\ Moved(q) = Append(Moved(p), q[Len(q)])
         /\ Moved(q) # <<>> /\ Parent(Moved(q)) = Moved(p)
<1> DEFINE o == arg.origin
           last == q[Len(q)]
<1>1. /\ Len(q) = Len(p) + 1 /\ Under(p, q) /\ last \in Names /\ q \in Paths
      /\ Len(p) \in Nat /\ Len(q) \in Nat /\ Len(o) \in Nat /\ Len(Target) \in Nat
      /\ \A k \in 1..Len(p) : q[k] = p[k]
      /\ Len(o) <= Len(p)
  BY ChildIs, UnderIs, PathIs
<1>2. Under(o, q) BY <1>1, UnderOrder
<1>3. /\ Moved(p) \in Paths /\ Len(Moved(p)) = Len(Target) + (Len(p) - Len(o))
      /\ \A k \in 1..Len(Target) : Moved(p)[k] = Target[k]
      /\ \A k \in 1..Len(p)-Len(o) : Moved(p)[Len(Target) + k] = p[Len(o) + k]
  BY MovedIs
<1>4. /\ Moved(q) \in Paths /\ Len(Moved(q)) = Len(Target) + (Len(q) - Len(o))
      /\ \A k \in 1..Len(Target) : Moved(q)[k] = Target[k]
      /\ \A k \in 1..Len(q)-Len(o) : Moved(q)[Len(Target) + k] = q[Len(o) + k]
  BY <1>2, MovedIs
<1>5. Len(Moved(q)) = Len(Moved(p)) + 1 /\ Len(Moved(p)) \in Nat BY <1>1, <1>3, <1>4
<1>6. ASSUME NEW k \in 1..Len(Moved(p)) PROVE Moved(q)[k] = Moved(p)[k]
  <2>1. CASE k <= Len(Target) BY <1>1, <1>3, <1>4, <2>1
  <2>2. CASE k > Len(Target)
    <3>1. /\ k - Len(Target) \in 1..Len(p)-Len(o) /\ k - Len(Target) \in 1..Len(q)-Len(o)
          /\ Len(Target) + (k - Len(Target)) = k
          /\ Len(o) + (k - Len(Target)) \in 1..Len(p)
      BY <1>1, <1>3, <1>5, <2>2
    <3>2. Moved(p)[k] = p[Len(o) + (k - Len(Target))] BY <1>3, <3>1
    <3>3. Moved(q)[k] = q[Len(o) + (k - Len(Target))] BY <1>4, <3>1
    <3> QED BY <1>1, <3>1, <3>2, <3>3
  <2> QED BY <1>1, <1>5, <2>1, <2>2
<1>7. Moved(q)[Len(Moved(p)) + 1] = last
  <2>1. /\ Len(q) - Len(o) \in 1..Len(q)-Len(o)
        /\ Len(Target) + (Len(q) - Len(o)) = Len(Moved(p)) + 1
        /\ Len(o) + (Len(q) - Len(o)) = Len(q)
    BY <1>1, <1>3
  <2> QED BY <1>4, <2>1
<1>8. Moved(q) = Append(Moved(p), last)
  <2>1. Moved(q)[Len(Moved(q))] = last BY <1>5, <1>7
  <2>2. last \in Names /\ Moved(p) \in Paths /\ Moved(q) \in Paths BY <1>1, <1>3, <1>4
  <2> HIDE DEF last
  <2> QED BY <1>5, <1>6, <2>1, <2>2, AppendEqual
<1>9. Moved(q) # <<>> BY <1>4, <1>5, PathIs
<1>10. Parent(Moved(q)) = Moved(p)
  <2>1. Moved(q) \in Paths BY <1>4
  <2>2. /\ Parent(Moved(q)) \in Paths /\ Len(Parent(Moved(q))) = Len(Moved(q)) - 1
        /\ \A k \in 1..Len(Moved(q))-1 : Parent(Moved(q))[k] = Moved(q)[k]
    BY <2>1, <1>9, ParentIs
  <2>3. /\ Parent(Moved(q)) \in Paths /\ Len(Parent(Moved(q))) = Len(Moved(p))
        /\ \A k \in 1..Len(Moved(p)) : Parent(Moved(q))[k] = Moved(q)[k]
    <3>1. Len(Moved(q)) - 1 = Len(Moved(p)) BY <1>5
    <3> QED BY <2>2, <3>1
  <2> QED BY <1>3, <1>6, <2>3, PathsEqual
<1> QED BY <1>2, <1>8, <1>9, <1>10

LEMMA BelowIs ==
  ASSUME arg.origin \in Paths, NEW p
  PROVE  p \in Below <=> p \in Paths /\ Under(arg.origin, p) /\ Len(p) <= PATH_MAX
<1> DEFINE o == arg.origin
<1>0. Len(o) \in Nat /\ PATH_MAX \in Nat BY PathIs, MyCpAssumption
<1>1. ASSUME p \in Below PROVE p \in Paths /\ Under(o, p) /\ Len(p) <= PATH_MAX
  <2>0. PICK rest \in UNION {[1..n -> Names] : n \in 0..PATH_MAX-Len(o)} : p = o \o rest
    BY <1>1 DEF Below
  <2>1. PICK n \in 0..PATH_MAX-Len(o) : rest \in [1..n -> Names] OBVIOUS
  <2>2. n \in Nat BY <1>0
  <2>3. rest \in Seq(Names) BY <2>1, <2>2, SeqDef
  <2>4. Len(rest) = n BY <2>1, <2>2, <2>3
  <2>5. /\ o \o rest \in Paths /\ Len(o \o rest) = Len(o) + Len(rest)
        /\ \A k \in 1..Len(o)+Len(rest) :
             (o \o rest)[k] = IF k <= Len(o) THEN o[k] ELSE rest[k - Len(o)]
    BY <2>3, ConcatProperties DEF Paths
  <2> HIDE DEF o
  <2>6. Len(o) <= Len(p) /\ \A k \in 1..Len(o) : p[k] = o[k] BY <1>0, <2>0, <2>1, <2>2, <2>4, <2>5
  <2>7. Under(o, p) BY <2>0, <2>5, <2>6, UnderIs DEF o
  <2>8. Len(p) <= PATH_MAX BY <1>0, <2>0, <2>1, <2>2, <2>4, <2>5
  <2> QED BY <2>0, <2>5, <2>7, <2>8
<1>2. ASSUME p \in Paths, Under(o, p), Len(p) <= PATH_MAX PROVE p \in Below
  <2> DEFINE rest == SubSeq(p, Len(o) + 1, Len(p))
             n == Len(p) - Len(o)
  <2>1. Len(p) \in Nat /\ Len(o) <= Len(p) /\ \A k \in 1..Len(o) : p[k] = o[k]
    BY <1>2, UnderIs, PathIs
  <2>2. /\ rest \in Paths /\ Len(rest) = Len(p) - Len(o)
        /\ \A k \in 1..Len(p)-Len(o) : rest[k] = p[Len(o) + k]
    <3>1. Len(o) \in 0..Len(p) BY <1>0, <2>1
    <3> QED BY <1>2, <3>1, RestIs
  <2>3. n \in 0..PATH_MAX-Len(o) BY <1>0, <1>2, <2>1
  <2> HIDE DEF rest
  <2>4. rest \in [1..n -> Names] BY <2>2 DEF Paths
  <2>5. /\ o \o rest \in Paths /\ Len(o \o rest) = Len(o) + Len(rest)
        /\ \A k \in 1..Len(o)+Len(rest) :
             (o \o rest)[k] = IF k <= Len(o) THEN o[k] ELSE rest[k - Len(o)]
    BY <2>2, ConcatProperties DEF Paths
  <2>6. ASSUME NEW k \in 1..Len(p) PROVE p[k] = (o \o rest)[k]
    <3>1. k \in 1..Len(o)+Len(rest) BY <1>0, <2>1, <2>2
    <3>2. CASE k <= Len(o) BY <2>1, <2>5, <3>1, <3>2
    <3>3. CASE ~(k <= Len(o))
      <4>1. k - Len(o) \in 1..Len(p)-Len(o) /\ Len(o) + (k - Len(o)) = k
        BY <1>0, <2>1, <3>3
      <4> QED BY <2>2, <2>5, <3>1, <3>3, <4>1
    <3> QED BY <3>2, <3>3
  <2>7. Len(o \o rest) = Len(p) BY <1>0, <2>1, <2>2, <2>5
  <2>8. p = o \o rest BY <1>2, <2>5, <2>6, <2>7, PathsEqual
  <2> QED BY <2>3, <2>4, <2>8 DEF Below
<1> QED BY <1>1, <1>2

-----------------------------------------------------------------------------
(***************************************************************************)
(* The file system: what a call may make of one.                           *)
(***************************************************************************)

(* No directory comes to be a file, or a file a directory. *)
Kinds == \A place \in DOMAIN was : place \in DOMAIN fs /\ fs[place].kind = was[place].kind

FsOK == IsTree(was) /\ IsTree(fs) /\ AreLinks(links, was) /\ Kinds

LEMMA FsIs ==
  ASSUME FsOK
  PROVE  /\ LinksOK /\ IsTree(was) /\ IsTree(fs)
         /\ \A p \in DOMAIN links : Parent(p) \in DOMAIN was /\ was[Parent(p)].kind = "dir"
         /\ \A p \in DOMAIN links : Parent(p) \in DOMAIN fs /\ fs[Parent(p)].kind = "dir"
<1>1. LinksOK BY LinksAre DEF FsOK
<1>2. \A p \in DOMAIN links : Parent(p) \in DOMAIN was /\ was[Parent(p)].kind = "dir"
  BY DEF FsOK, AreLinks
<1> QED BY <1>1, <1>2 DEF FsOK, Kinds

Writes(place, g, kind) ==
  /\ g \in [DOMAIN fs \union {place} -> Nodes] /\ g[place].kind = kind
  /\ \A q \in DOMAIN fs : q # place => g[q] = fs[q]
  /\ \/ /\ place \in Paths \ DOMAIN fs
        /\ Parent(place) \in DOMAIN fs /\ fs[Parent(place)].kind = "dir"
     \/ place \in DOMAIN fs /\ fs[place].kind = kind

LEMMA WriteKeeps ==
  ASSUME IsTree(fs), NEW place, NEW g, NEW kind, Writes(place, g, kind)
  PROVE  /\ IsTree(g) /\ DOMAIN g = DOMAIN fs \union {place}
         /\ \A q \in DOMAIN fs : g[q].kind = fs[q].kind
<1>1. DOMAIN g = DOMAIN fs \union {place} /\ g \in [DOMAIN g -> Nodes] BY DEF Writes
<1>2. \A q \in DOMAIN fs : g[q].kind = fs[q].kind
  <2> SUFFICES ASSUME NEW q \in DOMAIN fs PROVE g[q].kind = fs[q].kind OBVIOUS
  <2>1. CASE q # place BY <2>1 DEF Writes
  <2>2. CASE q = place BY <2>2 DEF Writes
  <2> QED BY <2>1, <2>2
<1>3. DOMAIN g \subseteq Paths BY <1>1 DEF IsTree, Writes
<1>4. <<>> \in DOMAIN g /\ g[<<>>].kind = "dir" BY <1>1, <1>2 DEF IsTree
<1>5. ASSUME NEW q \in DOMAIN g \ {<<>>}
      PROVE  Parent(q) \in DOMAIN g /\ g[Parent(q)].kind = "dir"
  <2>1. Parent(q) \in DOMAIN fs /\ fs[Parent(q)].kind = "dir"
    <3>1. CASE q \in DOMAIN fs BY <3>1 DEF IsTree
    <3>2. CASE q \notin DOMAIN fs BY <1>1, <3>2 DEF Writes
    <3> QED BY <3>1, <3>2
  <2> QED BY <1>1, <1>2, <2>1
<1> QED BY <1>1, <1>2, <1>3, <1>4, <1>5 DEF IsTree

LEMMA WithWrites ==
  ASSUME FsOK, NEW p \in Paths, NEW kind \in {"dir", "file"},
         Room(p) \/ (Real(p) \in DOMAIN fs /\ fs[Real(p)].kind = kind)
  PROVE  Writes(Real(p), With(p, Node(kind, <<>>)), kind)
<1>1. Node(kind, <<>>) \in Nodes /\ Node(kind, <<>>).kind = kind BY DEF Node, Nodes
<1>2. fs \in [DOMAIN fs -> Nodes] /\ Real(p) \in Paths BY FsIs, RealIs DEF IsTree
<1> QED BY <1>1, <1>2 DEF Writes, With, Room

LEMMA OpenedWrites ==
  ASSUME FsOK, NEW p \in Paths, Opens(p)
  PROVE  \/ There(p, "special") /\ Opened(p) = fs
         \/ Writes(Real(p), Opened(p), "file") /\ Opened(p)[Real(p)] = Node("file", <<>>)
<1>1. CASE There(p, "special") BY <1>1 DEF Opened
<1>2. CASE ~There(p, "special")
  <2>1. Opened(p) = With(p, Node("file", <<>>)) BY <1>2 DEF Opened
  <2>2. Room(p) \/ (Real(p) \in DOMAIN fs /\ fs[Real(p)].kind = "file")
    BY <1>2 DEF Opens, There
  <2>3. With(p, Node("file", <<>>))[Real(p)] = Node("file", <<>>) BY DEF With
  <2> QED BY <2>1, <2>2, <2>3, WithWrites
<1> QED BY <1>1, <1>2

(* Other blocks in the file that is open for writing. *)
LEMMA DataWrites ==
  ASSUME FsOK, There(to, "file"), NEW data \in Seq(Blocks),
         fs' = [fs EXCEPT ![Real(to)].data = data]
  PROVE  Writes(Real(to), fs', "file") /\ fs'[Real(to)].data = data
<1> DEFINE place == Real(to)
           node == [fs[place] EXCEPT !.data = data]
<1>1. place \in DOMAIN fs /\ fs[place].kind = "file" /\ fs \in [DOMAIN fs -> Nodes]
  BY FsIs DEF There, IsTree
<1>2. fs[place] \in Nodes BY <1>1
<1>3. node \in Nodes /\ node.kind = "file" /\ node.data = data BY <1>1, <1>2 DEF Nodes
<1>4. fs' = [fs EXCEPT ![place] = node] OBVIOUS
<1> HIDE DEF node, place
<1>5. fs'[place] = node /\ \A q \in DOMAIN fs : q # place => fs'[q] = fs[q] BY <1>1, <1>4
<1>6. fs' \in [DOMAIN fs -> Nodes] BY <1>1, <1>3, <1>4
<1>7. DOMAIN fs \union {place} = DOMAIN fs BY <1>1
<1> QED BY <1>1, <1>3, <1>5, <1>6, <1>7 DEF Writes, place

LEMMA DataIs ==
  ASSUME FsOK, NEW p, Real(p) \in DOMAIN fs
  PROVE  fs[Real(p)].data \in Seq(Blocks) /\ fs[Real(p)] \in Nodes
<1>1. fs[Real(p)] \in Nodes BY FsIs DEF IsTree
<1> QED BY <1>1 DEF Nodes

LEMMA WrittenWrites ==
  ASSUME FsOK, NEW b \in Blocks, fs' = Written(b)
  PROVE  \/ ~There(to, "file") /\ fs' = fs
         \/ /\ There(to, "file") /\ Writes(Real(to), fs', "file")
            /\ fs'[Real(to)].data = Append(fs[Real(to)].data, b)
<1>1. CASE ~There(to, "file") BY <1>1 DEF Written
<1>2. CASE There(to, "file")
  <2>1. Real(to) \in DOMAIN fs BY <1>2 DEF There
  <2>2. Append(fs[Real(to)].data, b) \in Seq(Blocks) BY <2>1, DataIs
  <2>3. fs' = [fs EXCEPT ![Real(to)].data = Append(fs[Real(to)].data, b)] BY <1>2 DEF Written
  <2> QED BY <1>2, <2>2, <2>3, DataWrites
<1> QED BY <1>1, <1>2

LEMMA KeptWrites ==
  ASSUME FsOK, NEW n \in Nat, There(to, "file") => n <= Len(fs[Real(to)].data), fs' = Kept(n)
  PROVE  fs' = fs \/ Writes(Real(to), fs', "file")
<1>1. CASE ~There(to, "file") BY <1>1 DEF Kept
<1>2. CASE There(to, "file")
  <2> DEFINE d == fs[Real(to)].data
  <2>1. d \in Seq(Blocks) BY <1>2, DataIs DEF There
  <2>2. fs' = [fs EXCEPT ![Real(to)].data = SubSeq(d, 1, n)] BY <1>2 DEF Kept
  <2>3. n <= Len(d) BY <1>2
  <2> HIDE DEF d
  <2>4. \A k \in 1..n : d[k] \in Blocks BY <2>1, <2>3
  <2>5. SubSeq(d, 1, n) \in Seq(Blocks) BY <2>4, SubSeqProperties
  <2> QED BY <1>2, <2>2, <2>5, DataWrites
<1> QED BY <1>1, <1>2

-----------------------------------------------------------------------------
(***************************************************************************)
(* The first invariant: where the program is in the tree.  a and b are the *)
(* arguments of a call of copy_file or copy_dir.  Where the copy goes is   *)
(* settled once main() has looked: no directory comes to be, or ceases to  *)
(* be one, that would change it.                                           *)
(***************************************************************************)
OnTheWay(a, b) == a \in Origin(fs) /\ b = Moved(a)

Calling == pc \in {"file", "copy", "enter"}
Frames  == [from : Paths, to : Paths, seen : SUBSET Names, entries : SUBSET Names]

TypeOK ==
  /\ FsOK
  /\ arg \in [origin : Paths, dest : Paths, slash : BOOLEAN]
  /\ pc \in {"main", "file", "copy", "enter", "dir", "done"}
  /\ pos \in Nat /\ rc \in {0, 1} /\ told \in BOOLEAN /\ missed \subseteq Paths
  /\ stack \in Seq(Frames)

Places ==
  /\ pc = "main" => fs = was /\ stack = <<>> /\ rc = 0
  /\ pc = "dir" => stack # <<>>
  /\ pc = "done" /\ ~told => stack = <<>>
  /\ Calling => OnTheWay(from, to)
  /\ \A k \in DOMAIN stack : OnTheWay(stack[k].from, stack[k].to)

Settled ==
  pc \notin {"main", "done"} =>
    /\ arg.origin \in Origin(was)
    /\ \/ was[Real(arg.origin)].kind = "dir"
       \/ was[Real(arg.origin)].kind = "file" /\ pc \notin {"enter", "dir"} /\ stack = <<>>

(* The file being written is as long as what was read. *)
Growing ==
  /\ pc = "file" => pos = 0
  /\ pc = "copy" /\ There(to, "file") => Len(fs[Real(to)].data) = pos

CInv == TypeOK /\ Places /\ Settled /\ Growing /\ OnlyCopiesChange

LEMMA TargetIs ==
  ASSUME TypeOK, Real(arg.origin) \in DOMAIN was
  PROVE  Target \in Paths
<1>1. arg.dest \in Paths /\ arg.origin \in Paths BY DEF TypeOK
<1>2. CASE Target = arg.dest BY <1>1, <1>2
<1>3. CASE Target = Inside /\ was[Real(arg.origin)].kind = "file"
  <2>1. arg.origin # <<>>
    <3>1. Real(<<>>) = <<>> BY <1>1, FsIs, RealRule DEF TypeOK
    <3> QED BY <1>3, <3>1, FsIs DEF TypeOK, IsTree
  <2>2. Len(arg.origin) \in 1..Len(arg.origin) BY <1>1, <2>1, PathIs
  <2>3. arg.origin[Len(arg.origin)] \in Names BY <1>1, <2>2, PathIs
  <2> QED BY <1>1, <1>3, <2>3, AppendIs DEF Inside
<1> QED BY <1>2, <1>3 DEF Target

(* Steps that leave the destination a directory or not one. *)
LEMMA TargetStays ==
  ASSUME UNCHANGED <<was, links, arg>>,
         \/ was[Real(arg.origin)].kind = "dir"
         \/ There(arg.dest, "dir")' <=> There(arg.dest, "dir")
  PROVE  Target' = Target
<1>1. Inside' = Inside BY DEF Inside
<1>2. Real(arg.origin)' = Real(arg.origin) BY DEF Real
<1>3. /\ was'[Real(arg.origin)'] = was[Real(arg.origin)]
      /\ arg'.slash = arg.slash /\ arg'.dest = arg.dest
  BY <1>2
<1>4. CASE was[Real(arg.origin)].kind = "dir" BY <1>1, <1>3, <1>4 DEF Target
<1>5. CASE There(arg.dest, "dir")' <=> There(arg.dest, "dir") BY <1>1, <1>3, <1>5 DEF Target
<1> QED BY <1>4, <1>5

LEMMA FileMakesNoDir ==
  ASSUME NEW place, Writes(place, fs', "file"), UNCHANGED links, NEW q
  PROVE  There(q, "dir")' <=> There(q, "dir")
<1>1. DOMAIN fs' = DOMAIN fs \union {place} /\ fs'[place].kind = "file" BY DEF Writes
<1>2. Real(q)' = Real(q) BY RealStays
<1>3. CASE Real(q) # place BY <1>1, <1>2, <1>3 DEF Writes, There
<1>4. CASE Real(q) = place BY <1>1, <1>2, <1>4 DEF Writes, There
<1> QED BY <1>3, <1>4

LEMMA MovedStays ==
  ASSUME Target' = Target, UNCHANGED arg
  PROVE  \A p : Moved(p)' = Moved(p)
BY DEF Moved

LEMMA OriginStays ==
  ASSUME UNCHANGED <<arg, links>>
  PROVE  /\ Below' = Below /\ \A p : Real(p)' = Real(p)
         /\ \A s : Origin(s)' = Origin(s)
<1>1. Below' = Below BY DEF Below
<1>2. \A p : Real(p)' = Real(p) BY RealStays
<1> QED BY <1>1, <1>2 DEF Origin

LEMMA OnTheWayStays ==
  ASSUME Target' = Target, UNCHANGED <<arg, links>>, DOMAIN fs \subseteq DOMAIN fs',
         NEW a, NEW b, OnTheWay(a, b)
  PROVE  OnTheWay(a, b)'
<1>1. Moved(a)' = Moved(a) BY MovedStays
<1>2. Below' = Below /\ \A p : Real(p)' = Real(p) BY OriginStays
<1> QED BY <1>1, <1>2 DEF OnTheWay, Origin

(* A call that writes only where it should. *)
LEMMA CopyChanges ==
  ASSUME FsOK, OnlyCopiesChange, Target' = Target, UNCHANGED <<was, links, arg>>,
         NEW a \in Origin(fs), NEW kind, Writes(Real(Moved(a)), fs', kind)
  PROVE  OnlyCopiesChange' /\ FsOK' /\ DOMAIN fs \subseteq DOMAIN fs'
<1> DEFINE new == Real(Moved(a))
<1>1. /\ IsTree(fs') /\ DOMAIN fs' = DOMAIN fs \union {new}
      /\ \A q \in DOMAIN fs : fs'[q].kind = fs[q].kind
  BY WriteKeeps DEF FsOK
<1>2. \A p \in DOMAIN fs : p # new => fs'[p] = fs[p] BY DEF Writes
<1>3. DOMAIN was' \subseteq DOMAIN fs' BY <1>1 DEF OnlyCopiesChange
<1>4. \A q : Moved(q)' = Moved(q) /\ Real(q)' = Real(q) BY MovedStays, OriginStays
<1>5. \A q \in Origin(fs) : q \in Origin(fs)' BY <1>1, <1>4, OriginStays DEF Origin
<1>6. \A q : Real(Moved(q))' = Real(Moved(q))
  <2>1. \A q : Real(Moved(q))' = Lead(links')[Moved(q)'] BY DEF Real
  <2> QED BY <1>4, <2>1 DEF Real
<1>7. ASSUME NEW p \in DOMAIN fs', p \notin DOMAIN was' \/ fs'[p] # was'[p]
      PROVE  \/ p = Real(arg.dest)' /\ p \notin DOMAIN was'
             \/ \E q \in Origin(fs)' : p = Real(Moved(q))'
  <2>1. CASE p = new BY <1>5, <1>6, <2>1
  <2>2. CASE p # new
    <3>1. p \in DOMAIN fs /\ fs'[p] = fs[p] BY <1>1, <1>2, <2>2
    <3>2. p \notin DOMAIN was \/ fs[p] # was[p] BY <1>7, <3>1
    <3>3. Real(arg.dest)' = Real(arg.dest) BY DEF Real
    <3>4. CASE p = Real(arg.dest) /\ p \notin DOMAIN was BY <3>3, <3>4
    <3>5. CASE \E q \in Origin(fs) : p = Real(Moved(q)) BY <1>5, <1>6, <3>5
    <3> QED BY <3>1, <3>2, <3>4, <3>5 DEF OnlyCopiesChange
  <2> QED BY <2>1, <2>2
<1>8. OnlyCopiesChange' BY <1>3, <1>7 DEF OnlyCopiesChange
<1>9. FsOK' BY <1>1 DEF FsOK, Kinds
<1> QED BY <1>1, <1>8, <1>9

(* A step that touches no file. *)
LEMMA NothingChanges ==
  ASSUME UNCHANGED <<fs, was, links, arg>>
  PROVE  /\ Target' = Target /\ \A a, b : OnTheWay(a, b)' <=> OnTheWay(a, b)
         /\ OnlyCopiesChange' <=> OnlyCopiesChange
         /\ FsOK' <=> FsOK
<1>1. Target' = Target BY DEF Target, Inside, There, Real
<1>2. \A q : Moved(q)' = Moved(q) BY <1>1, MovedStays
<1>3. Origin(fs)' = Origin(fs) BY OriginStays DEF Origin
<1>4. \A a, b : OnTheWay(a, b)' <=> OnTheWay(a, b) BY <1>2, <1>3 DEF OnTheWay
<1>5. \A q : Real(Moved(q))' = Real(Moved(q))
  <2>1. \A q : Real(Moved(q))' = Lead(links')[Moved(q)'] BY DEF Real
  <2> QED BY <1>2, <2>1 DEF Real
<1>6. Real(arg.dest)' = Real(arg.dest) BY DEF Real
<1>7. OnlyCopiesChange' <=> OnlyCopiesChange BY <1>3, <1>5, <1>6 DEF OnlyCopiesChange
<1> QED BY <1>1, <1>4, <1>7 DEF FsOK, Kinds

-----------------------------------------------------------------------------
(* Each step preserves it.                                                 *)
LEMMA InitCInv == Init => CInv
<1> SUFFICES ASSUME Init PROVE CInv OBVIOUS
<1>1. IsTree(fs) /\ AreLinks(links, fs) /\ was = fs BY MyCpAssumption DEF Init
<1>2. arg \in [origin : Paths, dest : Paths, slash : BOOLEAN] BY MyCpAssumption DEF Init
<1>3. TypeOK
  <2>1. stack \in Seq(Frames) BY DEF Init
  <2> QED BY <1>1, <1>2, <2>1 DEF Init, TypeOK, FsOK, Kinds
<1>4. Places BY <1>1 DEF Init, Places, Calling
<1>5. Settled /\ Growing BY DEF Init, Settled, Growing
<1>6. OnlyCopiesChange BY <1>1 DEF OnlyCopiesChange
<1> QED BY <1>3, <1>4, <1>5, <1>6 DEF CInv

(* The ends that say so. *)
LEMMA Stops ==
  ASSUME CInv, UNCHANGED <<fs, was, links, arg, stack, pos, missed>>,
         told' = TRUE, rc' = 1, pc' = "done"
  PROVE  CInv'
<1>1. TypeOK' BY NothingChanges DEF CInv, TypeOK
<1>2. Places'
  <2>1. \A k \in DOMAIN stack : OnTheWay(stack[k].from, stack[k].to) BY DEF CInv, Places
  <2> QED BY <2>1, NothingChanges DEF Places, Calling
<1>3. Settled' /\ Growing' BY DEF Settled, Growing
<1>4. OnlyCopiesChange' BY NothingChanges DEF CInv
<1> QED BY <1>1, <1>2, <1>3, <1>4 DEF CInv

LEMMA StepRefuse == CInv /\ Refuse => CInv'
<1> SUFFICES ASSUME CInv, Refuse PROVE CInv' OBVIOUS
<1>1. /\ UNCHANGED <<fs, was, links, arg, stack, pos, missed>>
      /\ told' = TRUE /\ rc' = 1 /\ pc' = "done"
  BY DEF Refuse, Say, Exit, Args
<1> QED BY <1>1, Stops

(* main() calls copy_file, or copy_dir, for origin and target. *)
LEMMA MainCalls ==
  ASSUME CInv, pc = "main", UNCHANGED <<was, links, arg, told, missed>>,
         NEW place \in {"file", "enter"}, Call(place, arg.origin, Target'),
         There(arg.origin, IF place = "file" THEN "file" ELSE "dir"),
         OnlyCopiesChange', FsOK', DOMAIN fs \subseteq DOMAIN fs'
  PROVE  CInv'
<1>1. fs = was /\ stack = <<>> /\ TypeOK BY DEF CInv, Places
<1>2. /\ pc' = place /\ from' = arg.origin /\ to' = Target' /\ pos' = 0 /\ stack' = <<>>
      /\ rc' = rc
  BY <1>1 DEF Call
<1>3. TypeOK' BY <1>1, <1>2 DEF TypeOK
<1>4. /\ Len(arg.origin) <= PATH_MAX /\ Real(arg.origin) \in DOMAIN fs
      /\ fs[Real(arg.origin)].kind = IF place = "file" THEN "file" ELSE "dir"
  BY DEF There
<1>5. Real(arg.origin)' = Real(arg.origin) BY DEF Real
<1>6. arg'.origin \in Paths /\ Target' \in Paths
  <2>1. TypeOK' /\ Real(arg.origin)' \in DOMAIN was' BY <1>1, <1>3, <1>4, <1>5
  <2>2. (TypeOK /\ Real(arg.origin) \in DOMAIN was => Target \in Paths)'
    BY TargetIs, PTL
  <2> QED BY <2>1, <2>2 DEF TypeOK
<1>7. Moved(arg.origin)' = Target'
  <2>1. (arg.origin \in Paths /\ Target \in Paths =>
           Moved(arg.origin) = Target /\ Under(arg.origin, arg.origin))'
    BY MovedOrigin, PTL
  <2> QED BY <1>6, <2>1
<1>8. arg.origin \in Below
  <2>1. arg.origin \in Paths BY <1>1 DEF TypeOK
  <2> QED BY <1>4, <2>1, BelowIs, UnderOrder
<1>9. arg.origin \in Origin(fs)' /\ arg.origin \in Origin(was)'
  <2>1. Below' = Below /\ \A p : Real(p)' = Real(p) BY OriginStays
  <2> QED BY <1>1, <1>4, <1>8, <2>1 DEF Origin
<1>10. OnTheWay(from, to)' BY <1>2, <1>7, <1>9 DEF OnTheWay
<1>11. Places' BY <1>2, <1>10 DEF Places, Calling
<1>12. Settled' BY <1>1, <1>2, <1>4, <1>5, <1>9 DEF Settled
<1>13. Growing' BY <1>2 DEF Growing
<1> QED BY <1>3, <1>11, <1>12, <1>13 DEF CInv

LEMMA StepMain == CInv /\ Main => CInv'
<1> SUFFICES ASSUME CInv, Main PROVE CInv' OBVIOUS
<1>1. TypeOK /\ OnlyCopiesChange /\ FsOK BY DEF CInv, TypeOK
<1>2. CASE NoOrigin \/ NotCopiable \/ DirOnFile
  BY <1>2, StepRefuse DEF NoOrigin, NotCopiable, DirOnFile
<1>3. CASE MakeFails
  <2>1. /\ UNCHANGED <<fs, was, links, arg, stack, pos, missed>>
        /\ told' = TRUE /\ rc' = 1 /\ pc' = "done"
    BY <1>3 DEF MakeFails, Say, Exit, Args
  <2> QED BY <2>1, Stops
<1>4. CASE FileToFile
  <2>1. pc = "main" /\ UNCHANGED <<fs, was, links, arg, told, missed>>
    BY <1>4 DEF FileToFile, Args, Silent
  <2>2. There(arg.origin, "file") BY <1>4 DEF FileToFile
  <2>3. ~arg.slash /\ ~There(arg.dest, "dir") BY <1>4 DEF FileToFile, DestThere
  <2>4. Target = arg.dest BY <2>3 DEF Target
  <2>5. Target' = arg.dest BY <2>1, <2>4, NothingChanges
  <2>6. Call("file", arg.origin, Target') BY <1>4, <2>5 DEF FileToFile
  <2> QED BY <1>1, <2>1, <2>2, <2>6, NothingChanges, MainCalls
<1>5. CASE FileIntoDir
  <2>1. pc = "main" /\ UNCHANGED <<fs, was, links, arg, told, missed>>
    BY <1>5 DEF FileIntoDir, Args, Silent
  <2>2. There(arg.origin, "file") /\ There(arg.dest, "dir") /\ fs = was
    BY <1>5, <2>1 DEF FileIntoDir, CInv, Places
  <2>3. Target = Inside BY <2>2 DEF Target, There
  <2>4. Target' = Inside BY <2>1, <2>3, NothingChanges
  <2>5. Call("file", arg.origin, Target') BY <1>5, <2>4 DEF FileIntoDir
  <2> QED BY <1>1, <2>1, <2>2, <2>5, NothingChanges, MainCalls
<1>6. CASE DirToDir
  <2>1. pc = "main" /\ UNCHANGED <<fs, was, links, arg, told, missed>>
    BY <1>6 DEF DirToDir, Args, Silent
  <2>2. There(arg.origin, "dir") /\ fs = was BY <1>6, <2>1 DEF DirToDir, CInv, Places
  <2>3. Target = arg.dest BY <2>2 DEF Target, There
  <2>4. Target' = arg.dest BY <2>1, <2>3, NothingChanges
  <2>5. Call("enter", arg.origin, Target') BY <1>6, <2>4 DEF DirToDir
  <2> QED BY <1>1, <2>1, <2>2, <2>5, NothingChanges, MainCalls
<1>7. CASE MakeDest
  <2>1. /\ pc = "main" /\ UNCHANGED <<was, links, arg, told, missed>> /\ Vacant(arg.dest)
        /\ fs' = With(arg.dest, Dir) /\ fs = was
    BY <1>7 DEF MakeDest, Makes, Args, Silent, CInv, Places
  <2>2. Writes(Real(arg.dest), fs', "dir")
    <3>1. Dir = Node("dir", <<>>) BY DEF Dir
    <3>2. arg.dest \in Paths BY <1>1 DEF TypeOK
    <3> QED BY <1>1, <2>1, <3>1, <3>2, WithWrites DEF Vacant
  <2>3. /\ IsTree(fs') /\ DOMAIN fs' = DOMAIN fs \union {Real(arg.dest)}
        /\ \A q \in DOMAIN fs : fs'[q].kind = fs[q].kind
    BY <1>1, <2>2, WriteKeeps DEF FsOK
  <2>4. Real(arg.dest)' = Real(arg.dest) /\ Real(arg.origin)' = Real(arg.origin)
    BY <2>1 DEF Real
  <2>5. OnlyCopiesChange'
    <3>1. \A p \in DOMAIN fs' : p \notin DOMAIN was' \/ fs'[p] # was'[p] =>
            p = Real(arg.dest)' /\ p \notin DOMAIN was'
      BY <2>1, <2>2, <2>3, <2>4 DEF Writes, Vacant, Room
    <3> QED BY <2>1, <2>3, <3>1 DEF OnlyCopiesChange
  <2>6. FsOK' BY <1>1, <2>1, <2>3 DEF FsOK, Kinds
  <2>7. CASE There(arg.origin, "dir")
    <3>1. was'[Real(arg.origin)'].kind # "file" BY <2>1, <2>4, <2>7 DEF There
    <3>2. Target' = arg.dest BY <2>1, <3>1 DEF Target
    <3>3. Call("enter", arg.origin, Target') BY <1>7, <2>7, <3>2 DEF MakeDest
    <3> QED BY <2>1, <2>3, <2>5, <2>6, <2>7, <3>3, MainCalls
  <2>8. CASE ~There(arg.origin, "dir")
    <3>1. There(arg.origin, "file") /\ arg.slash BY <1>7, <2>8 DEF MakeDest, Makes
    <3>2. was'[Real(arg.origin)'].kind = "file" /\ arg'.slash /\ Inside' = Inside
      BY <2>1, <2>4, <3>1 DEF Inside, There
    <3>3. Target' = Inside BY <3>2 DEF Target
    <3>4. Call("file", arg.origin, Target') BY <1>7, <2>8, <3>3 DEF MakeDest
    <3> QED BY <2>1, <2>3, <2>5, <2>6, <3>1, <3>4, MainCalls
  <2> QED BY <2>7, <2>8
<1> QED BY <1>2, <1>3, <1>4, <1>5, <1>6, <1>7 DEF Main

LEMMA OriginIs ==
  ASSUME arg.origin \in Paths, NEW s, NEW p
  PROVE  p \in Origin(s) <=> /\ p \in Paths /\ Under(arg.origin, p) /\ Len(p) <= PATH_MAX
                             /\ Real(p) \in DOMAIN s
BY BelowIs DEF Origin

(* What is known inside of copy_file and copy_dir. *)
LEMMA Running ==
  ASSUME CInv, pc \notin {"main", "done"}
  PROVE  /\ TypeOK /\ FsOK /\ OnlyCopiesChange
         /\ arg.origin \in Paths /\ arg.dest \in Paths /\ Target \in Paths
         /\ stack \in Seq(Frames) /\ DOMAIN stack = 1..Len(stack) /\ Len(stack) \in Nat
         /\ \A k \in DOMAIN stack : stack[k] \in Frames
         /\ \A k \in DOMAIN stack : OnTheWay(stack[k].from, stack[k].to)
         /\ Calling => OnTheWay(from, to) /\ from \in Paths /\ to \in Paths
<1>1. TypeOK /\ FsOK /\ OnlyCopiesChange BY DEF CInv, TypeOK
<1>2. arg.origin \in Paths /\ arg.dest \in Paths /\ stack \in Seq(Frames) BY <1>1 DEF TypeOK
<1>3. Target \in Paths BY <1>1, <1>2, TargetIs, OriginIs DEF CInv, Settled
<1>4. /\ \A k \in DOMAIN stack : OnTheWay(stack[k].from, stack[k].to)
      /\ Calling => OnTheWay(from, to)
  BY DEF CInv, Places
<1>5. Calling => from \in Paths /\ to \in Paths
  <2> SUFFICES ASSUME Calling PROVE from \in Paths /\ to \in Paths OBVIOUS
  <2>1. from \in Paths /\ Under(arg.origin, from) /\ to = Moved(from)
    BY <1>2, <1>4, OriginIs DEF OnTheWay
  <2> QED BY <1>2, <1>3, <2>1, MovedIs
<1> QED BY <1>1, <1>2, <1>3, <1>4, <1>5

(* Back in copy_dir's loop, or in main(): the frames that stay are there.  *)
LEMMA Returns ==
  ASSUME CInv, pc \notin {"main", "done"}, UNCHANGED <<was, links, arg>>, Target' = Target,
         OnlyCopiesChange', FsOK', DOMAIN fs \subseteq DOMAIN fs',
         told' \in BOOLEAN, missed' \subseteq Paths,
         NEW calls \in Seq(Frames), Return(calls),
         Len(calls) <= Len(stack), \A k \in DOMAIN calls : calls[k] = stack[k]
  PROVE  CInv'
<1>1. /\ stack' = calls /\ pc' = (IF calls = <<>> THEN "done" ELSE "dir")
      /\ UNCHANGED <<from, to, pos, rc>>
  BY DEF Return
<1>2. TypeOK' BY <1>1 DEF CInv, TypeOK
<1>3. /\ DOMAIN calls = 1..Len(calls) /\ Len(calls) \in Nat /\ Len(stack) \in Nat
      /\ DOMAIN stack = 1..Len(stack)
  BY Running
<1>4. \A k \in DOMAIN calls : OnTheWay(calls[k].from, calls[k].to)'
  <2> SUFFICES ASSUME NEW k \in DOMAIN calls PROVE OnTheWay(calls[k].from, calls[k].to)' OBVIOUS
  <2>1. k \in DOMAIN stack /\ calls[k] = stack[k] BY <1>3
  <2>2. OnTheWay(calls[k].from, calls[k].to) BY <2>1, Running
  <2> QED BY <2>2, OnTheWayStays
<1>5. Places' BY <1>1, <1>4 DEF Places, Calling
<1>6. Settled'
  <2>1. CASE stack = <<>> BY <1>1, <1>3, <2>1 DEF Settled
  <2>2. CASE stack # <<>>
    <3>1. arg.origin \in Origin(was) /\ was[Real(arg.origin)].kind = "dir"
      BY <2>2 DEF CInv, Settled
    <3>2. arg.origin \in Origin(was)' /\ was'[Real(arg.origin)'].kind = "dir"
      <4>1. Real(arg.origin)' = Real(arg.origin) BY DEF Real
      <4>2. \A p : Real(p)' = Real(p) /\ Below' = Below BY OriginStays
      <4> QED BY <3>1, <4>1, <4>2 DEF Origin
    <3> QED BY <1>1, <3>2 DEF Settled
  <2> QED BY <2>1, <2>2
<1>7. Growing' BY <1>1 DEF Growing
<1> QED BY <1>2, <1>5, <1>6, <1>7 DEF CInv

LEMMA ReturnsBack ==
  ASSUME CInv, pc \notin {"main", "done"}, UNCHANGED <<was, links, arg>>, Target' = Target,
         OnlyCopiesChange', FsOK', DOMAIN fs \subseteq DOMAIN fs',
         told' \in BOOLEAN, missed' \subseteq Paths, Return(stack)
  PROVE  CInv'
BY Running, Returns

LEMMA SettledStays ==
  ASSUME Settled, pc \notin {"main", "done"}, UNCHANGED <<was, links, arg, stack>>,
         pc' \in {"enter", "dir"} => was[Real(arg.origin)].kind = "dir"
  PROVE  Settled'
<1>1. Real(arg.origin)' = Real(arg.origin) BY DEF Real
<1>2. \A p : Real(p)' = Real(p) /\ Below' = Below BY OriginStays
<1>3. arg.origin \in Origin(was) => arg.origin \in Origin(was)' BY <1>2 DEF Origin
<1>4. was'[Real(arg.origin)'] = was[Real(arg.origin)] BY <1>1
<1> QED BY <1>3, <1>4 DEF Settled

(* What copy_file writes goes to the place of its file. *)
LEMMA FileWrites ==
  ASSUME CInv, pc \in {"file", "copy"}, UNCHANGED <<was, links, arg>>,
         fs' = fs \/ Writes(Real(to), fs', "file")
  PROVE  /\ Target' = Target /\ OnlyCopiesChange' /\ FsOK' /\ DOMAIN fs \subseteq DOMAIN fs'
<1>1. CASE fs' = fs BY <1>1, NothingChanges, Running
<1>2. CASE Writes(Real(to), fs', "file")
  <2>1. There(arg.dest, "dir")' <=> There(arg.dest, "dir")
    <3>1. \A q : There(q, "dir")' <=> There(q, "dir") BY <1>2, FileMakesNoDir
    <3>2. Real(arg.dest)' = Real(arg.dest) /\ \A q : Real(q)' = Real(q) BY RealStays DEF Real
    <3> QED BY <3>1, <3>2 DEF There
  <2>2. Target' = Target BY <2>1, TargetStays
  <2>3. from \in Origin(fs) /\ to = Moved(from) BY Running DEF Calling, OnTheWay
  <2>4. FsOK /\ OnlyCopiesChange BY Running
  <2> QED BY <1>2, <2>2, <2>3, <2>4, CopyChanges
<1> QED BY <1>1, <1>2

LEMMA StepFileOpen == CInv /\ FileOpen => CInv'
<1> SUFFICES ASSUME CInv, FileOpen PROVE CInv' OBVIOUS
<1>1. /\ pc = "file" /\ pc' = "copy" /\ Opens(to) /\ fs' = Opened(to)
      /\ UNCHANGED <<was, links, arg, from, to, pos, stack, rc, told, missed>>
  BY DEF FileOpen, Args, Silent
<1>2. FsOK /\ to \in Paths BY <1>1, Running DEF Calling
<1>3. \/ There(to, "special") /\ fs' = fs
      \/ Writes(Real(to), fs', "file") /\ fs'[Real(to)] = Node("file", <<>>)
  BY <1>1, <1>2, OpenedWrites
<1>4. /\ Target' = Target /\ OnlyCopiesChange' /\ FsOK' /\ DOMAIN fs \subseteq DOMAIN fs'
  BY <1>1, <1>3, FileWrites
<1>5. TypeOK' BY <1>1, <1>4 DEF CInv, TypeOK
<1>6. Places'
  <2>1. OnTheWay(from, to) /\ \A k \in DOMAIN stack : OnTheWay(stack[k].from, stack[k].to)
    BY <1>1 DEF CInv, Places, Calling
  <2> QED BY <1>1, <1>4, <2>1, OnTheWayStays DEF Places, Calling
<1>7. Settled' BY <1>1, SettledStays DEF CInv
<1>8. Growing'
  <2>1. Real(to)' = Real(to) BY <1>1 DEF Real
  <2>2. pos = 0 BY <1>1 DEF CInv, Growing
  <2>3. CASE There(to, "special") /\ fs' = fs BY <1>1, <2>1, <2>3 DEF Growing, There
  <2>4. CASE fs'[Real(to)] = Node("file", <<>>)
    <3>1. fs'[Real(to)'].data = <<>> /\ Len(<<>>) = 0 BY <2>1, <2>4 DEF Node
    <3> QED BY <1>1, <2>2, <3>1 DEF Growing
  <2> QED BY <1>3, <2>3, <2>4
<1> QED BY <1>4, <1>5, <1>6, <1>7, <1>8 DEF CInv

LEMMA BlockIs ==
  ASSUME CInv, pc = "copy", More
  PROVE  Block \in Blocks
<1>1. Real(from) \in DOMAIN fs /\ FsOK BY Running, OriginIs DEF Calling, OnTheWay
<1>2. fs[Real(from)].data \in Seq(Blocks) BY <1>1, DataIs
<1>3. pos \in Nat /\ pos < Len(fs[Real(from)].data) BY DEF More, CInv, TypeOK
<1>4. pos + 1 \in 1..Len(fs[Real(from)].data) BY <1>2, <1>3
<1> QED BY <1>2, <1>4 DEF Block

LEMMA StepCopy == CInv /\ Copy => CInv'
<1> SUFFICES ASSUME CInv, Copy PROVE CInv' OBVIOUS
<1>1. /\ pc = "copy" /\ pc' = "copy" /\ More /\ fs' = Written(Block) /\ pos' = pos + 1
      /\ UNCHANGED <<was, links, arg, from, to, stack, rc, told, missed>>
  BY DEF Copy, Args, Silent
<1>2. FsOK BY <1>1, Running
<1>3. \/ ~There(to, "file") /\ fs' = fs
      \/ /\ There(to, "file") /\ Writes(Real(to), fs', "file")
         /\ fs'[Real(to)].data = Append(fs[Real(to)].data, Block)
  BY <1>1, <1>2, BlockIs, WrittenWrites
<1>4. /\ Target' = Target /\ OnlyCopiesChange' /\ FsOK' /\ DOMAIN fs \subseteq DOMAIN fs'
  BY <1>1, <1>3, FileWrites
<1>5. TypeOK' BY <1>1, <1>4 DEF CInv, TypeOK
<1>6. Places'
  <2>1. OnTheWay(from, to) /\ \A k \in DOMAIN stack : OnTheWay(stack[k].from, stack[k].to)
    BY <1>1 DEF CInv, Places, Calling
  <2> QED BY <1>1, <1>4, <2>1, OnTheWayStays DEF Places, Calling
<1>7. Settled' BY <1>1, SettledStays DEF CInv
<1>8. Growing'
  <2>1. Real(to)' = Real(to) BY <1>1 DEF Real
  <2>2. CASE ~There(to, "file") /\ fs' = fs BY <1>1, <2>1, <2>2 DEF Growing, There
  <2>3. CASE /\ There(to, "file")
             /\ fs'[Real(to)].data = Append(fs[Real(to)].data, Block)
    <3>1. Len(fs[Real(to)].data) = pos BY <1>1, <2>3 DEF CInv, Growing
    <3>2. fs[Real(to)].data \in Seq(Blocks) BY <1>2, <2>3, DataIs DEF There
    <3>3. Block \in Blocks BY <1>1, BlockIs
    <3>4. Len(fs'[Real(to)].data) = pos + 1 BY <2>3, <3>1, <3>2, <3>3, AppendProperties
    <3> QED BY <1>1, <2>1, <3>4 DEF Growing
  <2> QED BY <1>3, <2>2, <2>3
<1> QED BY <1>4, <1>5, <1>6, <1>7, <1>8 DEF CInv

LEMMA StepCopyEnds == CInv /\ (FileOpenFails \/ CopyFails \/ CopyEnd \/ CloseFails) => CInv'
<1> SUFFICES ASSUME CInv, FileOpenFails \/ CopyFails \/ CopyEnd \/ CloseFails PROVE CInv' OBVIOUS
<1>1. /\ pc \in {"file", "copy"} /\ Return(stack) /\ UNCHANGED <<was, links, arg>>
      /\ told' \in BOOLEAN
      /\ \/ fs' = fs
         \/ fs' = Written("part")
         \/ pc = "copy" /\ \E n \in 0..pos : fs' = Kept(n)
  BY DEF FileOpenFails, CopyFails, CopyEnd, CloseFails, Args, Say, Silent, Misses, CInv, TypeOK
<1>2. FsOK /\ from \in Paths /\ missed \subseteq Paths BY <1>1, Running DEF Calling, TypeOK
<1>3. missed' \subseteq Paths
  BY <1>2 DEF FileOpenFails, CopyFails, CopyEnd, CloseFails, Say, Silent, Misses
<1>4. fs' = fs \/ Writes(Real(to), fs', "file")
  <2>1. "part" \in Blocks BY MyCpAssumption
  <2>2. ASSUME NEW n \in 0..pos, pc = "copy", fs' = Kept(n)
        PROVE  fs' = fs \/ Writes(Real(to), fs', "file")
    <3>1. n \in Nat /\ (There(to, "file") => n <= Len(fs[Real(to)].data))
      BY <2>2 DEF CInv, TypeOK, Growing
    <3> QED BY <1>2, <2>2, <3>1, KeptWrites
  <2> QED BY <1>1, <1>2, <2>1, <2>2, WrittenWrites
<1>5. /\ Target' = Target /\ OnlyCopiesChange' /\ FsOK' /\ DOMAIN fs \subseteq DOMAIN fs'
  BY <1>1, <1>4, FileWrites
<1> QED BY <1>1, <1>3, <1>5, ReturnsBack

LEMMA TopIs ==
  ASSUME CInv, pc = "dir"
  PROVE  /\ Len(stack) \in DOMAIN stack /\ Top \in Frames /\ OnTheWay(Top.from, Top.to)
         /\ Top.from \in Paths /\ Under(arg.origin, Top.from) /\ Top.to = Moved(Top.from)
         /\ stack # <<>>
<1>1. stack # <<>> BY DEF CInv, Places
<1>2. /\ stack \in Seq(Frames) /\ DOMAIN stack = 1..Len(stack) /\ Len(stack) \in Nat
      /\ \A k \in DOMAIN stack : stack[k] \in Frames /\ OnTheWay(stack[k].from, stack[k].to)
      /\ arg.origin \in Paths
  BY Running
<1>3. Len(stack) \in DOMAIN stack BY <1>1, <1>2
<1>4. Top \in Frames /\ OnTheWay(Top.from, Top.to) BY <1>2, <1>3 DEF Top
<1> QED BY <1>1, <1>2, <1>3, <1>4, OriginIs DEF OnTheWay

LEMMA StepEnter == CInv /\ Enter => CInv'
<1> SUFFICES ASSUME CInv, Enter PROVE CInv' OBVIOUS
<1> DEFINE frame == [from |-> from, to |-> to, seen |-> {}, entries |-> Entries(fs, Real(from))]
<1>1. /\ pc = "enter" /\ pc' = "dir" /\ stack' = Append(stack, frame)
      /\ UNCHANGED <<was, links, arg, from, to, pos, rc, told, missed>>
      /\ fs' = fs \/ (Vacant(to) /\ fs' = With(to, Dir))
  BY DEF Enter, Args, Silent
<1>2. /\ FsOK /\ OnlyCopiesChange /\ from \in Paths /\ to \in Paths
      /\ OnTheWay(from, to) /\ from \in Origin(fs) /\ to = Moved(from)
  BY <1>1, Running DEF Calling, OnTheWay
<1>3. arg.origin \in Origin(was) /\ was[Real(arg.origin)].kind = "dir"
  BY <1>1 DEF CInv, Settled
<1>4. Target' = Target BY <1>1, <1>3, TargetStays
<1>5. OnlyCopiesChange' /\ FsOK' /\ DOMAIN fs \subseteq DOMAIN fs'
  <2>1. CASE fs' = fs BY <1>1, <1>2, <2>1, NothingChanges
  <2>2. CASE Vacant(to) /\ fs' = With(to, Dir)
    <3>1. Writes(Real(to), fs', "dir") BY <1>2, <2>2, WithWrites DEF Dir, Vacant
    <3> QED BY <1>1, <1>2, <1>4, <3>1, CopyChanges
  <2> QED BY <1>1, <2>1, <2>2
<1>6. frame \in Frames BY <1>2 DEF Frames, Entries
<1>7. /\ stack \in Seq(Frames) /\ DOMAIN stack = 1..Len(stack) /\ Len(stack) \in Nat
      /\ \A k \in DOMAIN stack : OnTheWay(stack[k].from, stack[k].to)
  BY <1>1, Running
<1>8. TypeOK' BY <1>1, <1>5, <1>6, <1>7 DEF CInv, TypeOK
<1>9. ASSUME NEW k \in DOMAIN stack' PROVE OnTheWay(stack'[k].from, stack'[k].to)
  <2> HIDE DEF frame
  <2>1. CASE k \in DOMAIN stack
    <3>1. stack'[k] = stack[k] BY <1>1, <1>6, <1>7, <2>1
    <3> QED BY <1>7, <2>1, <3>1
  <2>2. CASE k \notin DOMAIN stack
    <3>1. stack'[k] = frame BY <1>1, <1>6, <1>7, <2>2
    <3>2. stack'[k].from = from /\ stack'[k].to = to BY <3>1 DEF frame
    <3> QED BY <1>2, <3>2
  <2> QED BY <2>1, <2>2
<1>10. Places'
  <2>1. stack' # <<>> BY <1>1, <1>6, <1>7
  <2>2. \A a, b : OnTheWay(a, b) => OnTheWay(a, b)' BY <1>1, <1>4, <1>5, OnTheWayStays
  <2> QED BY <1>1, <1>9, <2>1, <2>2 DEF Places, Calling
<1>11. Settled'
  <2>1. Real(arg.origin)' = Real(arg.origin) BY <1>1 DEF Real
  <2>2. \A p : Real(p)' = Real(p) /\ Below' = Below BY <1>1, OriginStays
  <2>3. arg.origin \in Origin(was)' BY <1>1, <1>3, <2>2 DEF Origin
  <2> QED BY <1>1, <1>3, <2>1, <2>3 DEF Settled
<1>12. Growing' BY <1>1 DEF Growing
<1> QED BY <1>5, <1>8, <1>10, <1>11, <1>12 DEF CInv

LEMMA StepEnterFails == CInv /\ EnterFails => CInv'
<1> SUFFICES ASSUME CInv, EnterFails PROVE CInv' OBVIOUS
<1>1. /\ pc = "enter" /\ Return(stack) /\ UNCHANGED <<fs, was, links, arg, missed>>
      /\ told' \in BOOLEAN
  BY DEF EnterFails, Args, Say
<1>2. Target' = Target /\ OnlyCopiesChange' /\ FsOK' /\ missed' \subseteq Paths
  BY <1>1, NothingChanges, Running DEF TypeOK
<1> QED BY <1>1, <1>2, ReturnsBack

(* What the next entry is. *)
LEMMA EntryIs ==
  ASSUME CInv, pc = "dir", NEW x \in Names, ~StatFails(OriginPath(x))
  PROVE  LET p == OriginPath(x)
         IN  /\ OnTheWay(p, DestPath(x)) /\ p \in Origin(fs) /\ p \in Paths
             /\ Moved(p) = DestPath(x) /\ Parent(p) = Top.from /\ p # <<>>
             /\ Under(arg.origin, p)
<1> DEFINE p == OriginPath(x)
<1>1. /\ Top.from \in Paths /\ Under(arg.origin, Top.from) /\ Top.to = Moved(Top.from)
      /\ arg.origin \in Paths /\ Target \in Paths
  BY TopIs, Running
<1>2. /\ p \in Paths /\ p # <<>> /\ Parent(p) = Top.from /\ p[Len(p)] = x
  BY <1>1, ParentOfChild DEF OriginPath
<1> HIDE DEF p
<1>3. Under(arg.origin, p) /\ Moved(p) = Append(Moved(Top.from), p[Len(p)])
  BY <1>1, <1>2, MovedChild
<1>4. Moved(p) = DestPath(x) BY <1>1, <1>2, <1>3 DEF DestPath
<1>5. Len(p) <= PATH_MAX /\ Real(p) \in DOMAIN fs BY DEF StatFails, There, p
<1>6. p \in Origin(fs) BY <1>1, <1>2, <1>3, <1>5, OriginIs
<1> QED BY <1>2, <1>3, <1>4, <1>6 DEF OnTheWay, p

LEMMA StepEntry == ASSUME CInv, NEW x \in Names, Entry(x) PROVE CInv'
<1> DEFINE n == Len(stack)
           p == OriginPath(x)
           frame == [Top EXCEPT !.seen = Top.seen \union {x}]
<1>1. /\ pc = "dir" /\ from' = p /\ to' = DestPath(x) /\ pos' = 0
      /\ stack' = [stack EXCEPT ![n] = frame] /\ ~StatFails(p)
      /\ UNCHANGED <<was, links, arg, fs, rc, told, missed>>
      /\ pc' \in {"file", "enter", "dir"}
  BY DEF Entry, Args, Silent, Top
<1>2. n \in DOMAIN stack /\ Top \in Frames /\ OnTheWay(Top.from, Top.to) /\ stack # <<>>
  BY <1>1, TopIs
<1>3. OnTheWay(p, DestPath(x)) BY <1>1, EntryIs
<1> HIDE DEF p
<1>4. /\ stack \in Seq(Frames) /\ DOMAIN stack = 1..Len(stack) /\ Len(stack) \in Nat
      /\ \A k \in DOMAIN stack : stack[k] \in Frames /\ OnTheWay(stack[k].from, stack[k].to)
  BY <1>1, Running
<1>5. frame \in Frames /\ frame.from = Top.from /\ frame.to = Top.to BY <1>2 DEF Frames
<1> HIDE DEF frame
<1>6. stack' \in Seq(Frames) /\ DOMAIN stack' = DOMAIN stack /\ Len(stack') = Len(stack)
  BY <1>1, <1>2, <1>4, <1>5
<1>7. TypeOK' BY <1>1, <1>6, NothingChanges DEF CInv, TypeOK
<1>8. ASSUME NEW k \in DOMAIN stack' PROVE OnTheWay(stack'[k].from, stack'[k].to)
  <2>1. CASE k = n
    <3>1. stack'[k] = frame BY <1>1, <1>2, <2>1
    <3> QED BY <1>2, <1>5, <3>1
  <2>2. CASE k # n
    <3>1. stack'[k] = stack[k] /\ k \in DOMAIN stack BY <1>1, <1>6, <2>2
    <3> QED BY <1>4, <3>1
  <2> QED BY <2>1, <2>2
<1>9. \A a, b : OnTheWay(a, b)' <=> OnTheWay(a, b) BY <1>1, NothingChanges
<1>10. Places'
  <2>1. stack' # <<>> BY <1>2, <1>4, <1>6
  <2> QED BY <1>1, <1>3, <1>8, <1>9, <2>1 DEF Places, Calling
<1>11. Settled'
  <2>1. arg.origin \in Origin(was) /\ was[Real(arg.origin)].kind = "dir"
    BY <1>1, <1>2 DEF CInv, Settled
  <2>2. Real(arg.origin)' = Real(arg.origin) BY <1>1 DEF Real
  <2>3. \A q : Real(q)' = Real(q) /\ Below' = Below BY <1>1, OriginStays
  <2>4. arg.origin \in Origin(was)' BY <1>1, <2>1, <2>3 DEF Origin
  <2> QED BY <1>1, <2>1, <2>2, <2>4 DEF Settled
<1>12. OnlyCopiesChange' BY <1>1, NothingChanges DEF CInv
<1>13. Growing' BY <1>1 DEF Growing
<1> QED BY <1>7, <1>10, <1>11, <1>12, <1>13 DEF CInv

LEMMA StepEntryGone == ASSUME CInv, NEW x, EntryGone(x) PROVE CInv'
<1>1. /\ UNCHANGED <<fs, was, links, arg, stack, pos, missed>>
      /\ told' = TRUE /\ rc' = 1 /\ pc' = "done"
  BY DEF EntryGone, Say, Exit, Args
<1> QED BY <1>1, Stops

(* The stack without its last frame. *)
LEMMA Popped ==
  ASSUME CInv, pc = "dir"
  PROVE  /\ Parent(stack) \in Seq(Frames) /\ Len(Parent(stack)) = Len(stack) - 1
         /\ \A k \in DOMAIN Parent(stack) : Parent(stack)[k] = stack[k]
         /\ DOMAIN Parent(stack) = 1..Len(stack)-1
<1>1. /\ stack \in Seq(Frames) /\ DOMAIN stack = 1..Len(stack) /\ Len(stack) \in Nat
      /\ Len(stack) \in DOMAIN stack
  BY Running, TopIs
<1>2. \A k \in 1..Len(stack)-1 : stack[k] \in Frames BY <1>1
<1> DEFINE n == Len(stack) - 1
<1>3. n \in Nat /\ n \in Int /\ \A k \in 1..n : stack[k] \in Frames BY <1>1, <1>2
<1> HIDE DEF n
<1>4. /\ SubSeq(stack, 1, n) \in Seq(Frames)
      /\ Len(SubSeq(stack, 1, n)) = IF 1 <= n THEN n - 1 + 1 ELSE 0
      /\ \A k \in 1..n-1+1 : SubSeq(stack, 1, n)[k] = stack[1 + k - 1]
  BY <1>3, SubSeqProperties
<1>5. Parent(stack) = SubSeq(stack, 1, n) BY DEF Parent, n
<1>6. /\ Parent(stack) \in Seq(Frames) /\ Len(Parent(stack)) = n
      /\ \A k \in 1..n : Parent(stack)[k] = stack[k]
  BY <1>3, <1>4, <1>5
<1> QED BY <1>6 DEF n

LEMMA StepLeave == CInv /\ (Leave \/ LeaveUnread) => CInv'
<1> SUFFICES ASSUME CInv, Leave \/ LeaveUnread PROVE CInv' OBVIOUS
<1>1. /\ pc = "dir" /\ Return(Parent(stack)) /\ UNCHANGED <<fs, was, links, arg, told>>
      /\ missed' = missed \/ missed' = missed \union {Top.from}
  BY DEF Leave, LeaveUnread, Args, Silent, Misses
<1>2. Target' = Target /\ OnlyCopiesChange' /\ FsOK' /\ told' \in BOOLEAN
  BY <1>1, NothingChanges, Running DEF TypeOK
<1>3. missed' \subseteq Paths
  <2>1. Top.from \in Paths /\ missed \subseteq Paths BY <1>1, TopIs, Running DEF TypeOK
  <2> QED BY <1>1, <2>1
<1>4. Len(Parent(stack)) <= Len(stack) BY <1>1, Popped, Running
<1> QED BY <1>1, <1>2, <1>3, <1>4, Popped, Returns

LEMMA NextCInv == CInv /\ [Next]_vars => CInv'
<1> SUFFICES ASSUME CInv, [Next]_vars PROVE CInv' OBVIOUS
<1>1. CASE Main BY <1>1, StepMain
<1>2. CASE FileOpen BY <1>2, StepFileOpen
<1>3. CASE Copy BY <1>3, StepCopy
<1>4. CASE FileOpenFails \/ CopyFails \/ CopyEnd \/ CloseFails BY <1>4, StepCopyEnds
<1>5. CASE Enter BY <1>5, StepEnter
<1>6. CASE EnterFails BY <1>6, StepEnterFails
<1>7. CASE \E x \in Names : Entry(x) \/ EntryGone(x) BY <1>7, StepEntry, StepEntryGone
<1>8. CASE Leave \/ LeaveUnread BY <1>8, StepLeave
<1>9. CASE UNCHANGED vars
  <2>1. UNCHANGED <<fs, was, links, arg, pc, from, to, pos, stack, told, missed, rc>>
    BY <1>9 DEF vars
  <2>2. TypeOK' BY <2>1, NothingChanges DEF CInv, TypeOK
  <2>3. Places' BY <2>1, NothingChanges DEF CInv, Places, Calling
  <2>4. Settled'
    <3>1. Real(arg.origin)' = Real(arg.origin) BY <2>1 DEF Real
    <3>2. \A q : Real(q)' = Real(q) /\ Below' = Below BY <2>1, OriginStays
    <3>3. arg.origin \in Origin(was) => arg.origin \in Origin(was)' BY <2>1, <3>2 DEF Origin
    <3> QED BY <2>1, <3>1, <3>3 DEF CInv, Settled
  <2>5. OnlyCopiesChange' BY <2>1, NothingChanges DEF CInv
  <2>6. Growing'
    <3>1. Real(to)' = Real(to) BY <2>1 DEF Real
    <3> QED BY <2>1, <3>1 DEF CInv, Growing, There
  <2> QED BY <2>2, <2>3, <2>4, <2>5, <2>6 DEF CInv
<1> QED BY <1>1, <1>2, <1>3, <1>4, <1>5, <1>6, <1>7, <1>8, <1>9 DEF Next

LEMMA CopyInvariant == Spec => []CInv
BY InitCInv, NextCInv, PTL DEF Spec

(* Whatever fails, however origin and destination lie to each other and    *)
(* wherever links lead, nothing is touched but the places to which a copy  *)
(* of something of the origin leads (through links also outside of the     *)
(* destination), and the directory made for it (main, copy_file, copy_dir).*)
THEOREM OnlyTheCopyChanges == Spec => []OnlyCopiesChange
<1>1. CInv => OnlyCopiesChange BY DEF CInv
<1> QED BY <1>1, CopyInvariant, PTL

-----------------------------------------------------------------------------
(***************************************************************************)
(* The second invariant: if the copy and the origin do not overlap, all    *)
(* that the origin's paths lead to is as it was.  (Each step that writes   *)
(* does so where the copy of something of the origin goes, which by this   *)
(* invariant was there to begin with.)                                     *)
(***************************************************************************)
Untouched ==
  ~Overlap => \A p \in Origin(fs) : Real(p) \in DOMAIN was /\ fs[Real(p)] = was[Real(p)]

LEMMA PlacesStay ==
  ASSUME UNCHANGED <<arg, links>>, Target' = Target
  PROVE  /\ \A p : Moved(p)' = Moved(p) /\ Real(Moved(p))' = Real(Moved(p)) /\ Real(p)' = Real(p)
         /\ Below' = Below
<1>1. \A p : Moved(p)' = Moved(p) BY MovedStays
<1>2. \A p : Real(Moved(p))' = Lead(links')[Moved(p)'] BY DEF Real
<1> QED BY <1>1, <1>2, OriginStays DEF Real

LEMMA OverlapStays ==
  ASSUME UNCHANGED <<was, links, arg>>, Target' = Target
  PROVE  Overlap' <=> Overlap
<1>1. Origin(was)' = Origin(was)
  <2>1. \A p : Real(p)' = Real(p) /\ Below' = Below BY OriginStays
  <2> QED BY <2>1 DEF Origin
<1>2. /\ \A p : Real(Moved(p))' = Real(Moved(p)) /\ Real(p)' = Real(p)
      /\ Below' = Below
  BY PlacesStay
<1> QED BY <1>1, <1>2 DEF Overlap

LEMMA UntouchedStays ==
  ASSUME Untouched, UNCHANGED <<was, links, arg>>, Target' = Target,
         fs' = fs \/ \E a \in Origin(fs), kind \in {"dir", "file"} :
                       Writes(Real(Moved(a)), fs', kind)
  PROVE  Untouched'
<1> SUFFICES ASSUME ~Overlap, NEW p \in Below, Real(p) \in DOMAIN fs'
             PROVE  Real(p) \in DOMAIN was /\ fs'[Real(p)] = was[Real(p)]
  <2>1. \A q : Real(q)' = Real(q) /\ Below' = Below BY PlacesStay
  <2> QED BY <2>1, OverlapStays DEF Untouched, Origin
<1>1. CASE fs' = fs BY <1>1 DEF Untouched, Origin
<1>2. ASSUME NEW a \in Origin(fs), NEW kind, Writes(Real(Moved(a)), fs', kind)
      PROVE  Real(p) \in DOMAIN was /\ fs'[Real(p)] = was[Real(p)]
  <2>1. a \in Origin(was) BY DEF Untouched, Origin
  <2>2. Real(p) # Real(Moved(a)) BY <2>1 DEF Overlap
  <2>3. Real(p) \in DOMAIN fs /\ fs'[Real(p)] = fs[Real(p)] BY <1>2, <2>2 DEF Writes
  <2> QED BY <2>3 DEF Untouched, Origin
<1> QED BY <1>1, <1>2

LEMMA InitUntouched == Init => Untouched
BY DEF Init, Untouched, Origin

LEMMA MakeDestUntouched == CInv /\ CInv' /\ MakeDest => Untouched'
<1> SUFFICES ASSUME CInv, CInv', MakeDest PROVE Untouched' OBVIOUS
<1>1. /\ pc = "main" /\ UNCHANGED <<was, links, arg>> /\ Vacant(arg.dest)
      /\ fs' = With(arg.dest, Dir) /\ fs = was
  BY DEF MakeDest, Makes, Args, CInv, Places
<1>2. /\ FsOK /\ FsOK' /\ arg.origin \in Paths /\ arg.dest \in Paths
      /\ Real(arg.dest) \notin DOMAIN fs
  BY <1>1 DEF CInv, TypeOK, Vacant, Room
<1>3. Writes(Real(arg.dest), fs', "dir") BY <1>1, <1>2, WithWrites DEF Dir, Vacant
<1> SUFFICES ASSUME ~Overlap', NEW p \in Below, Real(p) \in DOMAIN fs'
             PROVE  Real(p) \in DOMAIN was /\ fs'[Real(p)] = was[Real(p)]
  <2>1. \A q : Real(q)' = Real(q) /\ Below' = Below BY <1>1, OriginStays
  <2> QED BY <1>1, <2>1 DEF Untouched, Origin
<1>4. CASE Real(p) # Real(arg.dest) BY <1>1, <1>3, <1>4 DEF Writes
<1>5. CASE Real(p) = Real(arg.dest)
  <2>1. CASE There(arg.origin, "dir")
    <3>1. pc' = "enter" /\ from' = arg.origin /\ to' = arg.dest BY <2>1 DEF MakeDest, Call
    <3>2. OnTheWay(from, to)' /\ arg.origin' \in Origin(was)' BY <3>1 DEF CInv, Places, Settled, Calling
    <3>3. Moved(arg.origin)' = arg.dest BY <1>1, <3>1, <3>2 DEF OnTheWay, Moved
    <3>4. Real(Moved(arg.origin))' = Real(arg.dest)
      <4>1. Real(Moved(arg.origin))' = Lead(links')[Moved(arg.origin)'] BY DEF Real
      <4> QED BY <1>1, <3>3, <4>1 DEF Real
    <3>5. p \in Below' /\ Real(p)' = Real(p) BY <1>1, OriginStays
    <3>6. Overlap' BY <1>5, <3>2, <3>4, <3>5 DEF Overlap
    <3> QED BY <3>6
  <2>2. CASE There(arg.origin, "file")
    <3>1. Real(arg.origin) \in DOMAIN fs /\ fs[Real(arg.origin)].kind = "file"
      BY <2>2 DEF There
    <3>2. p # arg.origin BY <1>2, <1>5, <3>1
    <3>3. p \in Paths /\ Under(arg.origin, p) BY <1>2, BelowIs
    <3>4. IsTree(fs') /\ LinksOK
          /\ \A q \in DOMAIN links : Parent(q) \in DOMAIN fs' /\ fs'[Parent(q)].kind = "dir"
      <4>1. /\ IsTree(fs') /\ DOMAIN fs' = DOMAIN fs \union {Real(arg.dest)}
            /\ \A q \in DOMAIN fs : fs'[q].kind = fs[q].kind
        BY <1>2, <1>3, WriteKeeps DEF FsOK
      <4> QED BY <1>2, <4>1, FsIs
    <3>5. fs'[Real(arg.origin)].kind = "dir" BY <1>2, <3>2, <3>3, <3>4, AboveIs
    <3>6. fs'[Real(arg.origin)] = fs[Real(arg.origin)] BY <1>2, <1>3, <3>1 DEF Writes
    <3> QED BY <3>1, <3>5, <3>6
  <2> QED BY <2>1, <2>2 DEF MakeDest, Makes
<1> QED BY <1>4, <1>5

LEMMA NextUntouched == CInv /\ CInv' /\ Untouched /\ [Next]_vars => Untouched'
<1> SUFFICES ASSUME CInv, CInv', Untouched, [Next]_vars PROVE Untouched' OBVIOUS
<1>1. CASE MakeDest BY <1>1, MakeDestUntouched
<1>2. ASSUME UNCHANGED <<fs, was, links, arg>> PROVE Untouched'
  BY <1>2, NothingChanges, UntouchedStays
<1>3. CASE FileOpen \/ Copy \/ FileOpenFails \/ CopyFails \/ CopyEnd \/ CloseFails
  <2>1. /\ pc \in {"file", "copy"} /\ UNCHANGED <<was, links, arg>>
        /\ FileOpen => pc = "file" /\ Opens(to) /\ fs' = Opened(to)
        /\ Copy => pc = "copy" /\ More /\ fs' = Written(Block)
        /\ FileOpenFails \/ CopyFails \/ CopyEnd => fs' = fs \/ fs' = Written("part")
        /\ CloseFails => pc = "copy" /\ \E n \in 0..pos : fs' = Kept(n)
    BY <1>3 DEF FileOpen, Copy, FileOpenFails, CopyFails, CopyEnd, CloseFails, Args
  <2>2. FsOK /\ to \in Paths /\ from \in Origin(fs) /\ to = Moved(from)
    BY <2>1, Running DEF Calling, OnTheWay
  <2>3. fs' = fs \/ Writes(Real(to), fs', "file")
    <3>1. "part" \in Blocks BY MyCpAssumption
    <3>2. ASSUME NEW n \in 0..pos, pc = "copy", fs' = Kept(n)
          PROVE  fs' = fs \/ Writes(Real(to), fs', "file")
      <4>1. n \in Nat /\ (There(to, "file") => n <= Len(fs[Real(to)].data))
        BY <3>2 DEF CInv, TypeOK, Growing
      <4> QED BY <2>2, <3>2, <4>1, KeptWrites
    <3>3. CASE FileOpen BY <2>1, <2>2, <3>3, OpenedWrites
    <3>4. CASE Copy BY <2>1, <2>2, <3>4, BlockIs, WrittenWrites
    <3> QED BY <1>3, <2>1, <2>2, <3>1, <3>2, <3>3, <3>4, WrittenWrites
  <2>4. Target' = Target BY <2>1, <2>3, FileWrites
  <2> QED BY <2>1, <2>2, <2>3, <2>4, UntouchedStays
<1>4. CASE Enter
  <2>1. /\ pc = "enter" /\ UNCHANGED <<was, links, arg>>
        /\ fs' = fs \/ (Vacant(to) /\ fs' = With(to, Dir))
    BY <1>4 DEF Enter, Args
  <2>2. FsOK /\ to \in Paths /\ from \in Origin(fs) /\ to = Moved(from)
    BY <2>1, Running DEF Calling, OnTheWay
  <2>3. fs' = fs \/ Writes(Real(to), fs', "dir") BY <2>1, <2>2, WithWrites DEF Dir, Vacant
  <2>4. Target' = Target
    <3>1. was[Real(arg.origin)].kind = "dir" BY <2>1 DEF CInv, Settled
    <3> QED BY <2>1, <3>1, TargetStays
  <2> QED BY <2>1, <2>2, <2>3, <2>4, UntouchedStays
<1>5. CASE EnterFails \/ Leave \/ LeaveUnread \/ \E x \in Names : Entry(x) \/ EntryGone(x)
  BY <1>2, <1>5 DEF EnterFails, Leave, LeaveUnread, Entry, EntryGone, Args
<1>6. CASE NoOrigin \/ NotCopiable \/ DirOnFile \/ MakeFails
  BY <1>2, <1>6 DEF NoOrigin, NotCopiable, DirOnFile, Refuse, MakeFails, Args
<1>7. CASE FileToFile \/ FileIntoDir \/ DirToDir
  BY <1>2, <1>7 DEF FileToFile, FileIntoDir, DirToDir, Args
<1>8. CASE UNCHANGED vars BY <1>2, <1>8 DEF vars
<1> QED BY <1>1, <1>3, <1>4, <1>5, <1>6, <1>7, <1>8 DEF Next, Main

LEMMA OriginUntouched == Spec => []Untouched
BY InitUntouched, NextUntouched, CopyInvariant, PTL DEF Spec

-----------------------------------------------------------------------------
(***************************************************************************)
(* The third invariant: what it means that nothing was said so far.  All   *)
(* of the origin has been copied, but for what the calls of copy_dir that  *)
(* are being made have still to come to, and what was missed unsaid.       *)
(***************************************************************************)
Handled(p) ==
  /\ was[Real(p)].kind = "file" =>
       \/ There(Moved(p), "special")
       \/ There(Moved(p), "file") /\ (fs[Real(Moved(p))] = was[Real(p)] \/ p \in missed)
  /\ was[Real(p)].kind = "dir" => Real(Moved(p)) \in DOMAIN fs /\ Len(Moved(p)) <= PATH_MAX

AheadOf(frame, p) ==
  Under(frame.from, p) /\ p # frame.from /\ p[Len(frame.from) + 1] \notin frame.seen

Ahead(p) ==
  \/ Calling /\ Under(from, p)
  \/ \E k \in DOMAIN stack : AheadOf(stack[k], p)

AllMet == \A p \in Origin(was) : Handled(p) \/ Ahead(p) \/ Unread(p)

Asked ==
  /\ pc \in {"file", "copy"} => from \in Origin(was) /\ was[Real(from)].kind = "file"
  /\ pc = "enter" => from \in Origin(was) /\ was[Real(from)].kind = "dir"

CopiedTo(n) ==
  \/ There(to, "special")
  \/ /\ There(to, "file") /\ n \in 0..Len(was[Real(from)].data)
     /\ fs[Real(to)].data = SubSeq(was[Real(from)].data, 1, n)

Listed ==
  \A k \in DOMAIN stack : \A x \in Names :
    Append(stack[k].from, x) \in Origin(was) => x \in stack[k].entries

Quiet ==
  ~told =>
    /\ rc = 0
    /\ pc # "main" /\ ~Overlap =>
         AllMet /\ Asked /\ Listed /\ (pc = "copy" => CopiedTo(pos))

(* The origin's directories and what is in them. *)
LEMMA OriginAbove ==
  ASSUME CInv, NEW p \in Origin(was), NEW a \in Paths, Under(arg.origin, a), Under(a, p), a # p
  PROVE  a \in Origin(was) /\ was[Real(a)].kind = "dir"
<1>1. FsOK /\ arg.origin \in Paths BY DEF CInv, TypeOK
<1>2. p \in Paths /\ Len(p) <= PATH_MAX /\ Real(p) \in DOMAIN was BY <1>1, OriginIs
<1>3. Real(a) \in DOMAIN was /\ was[Real(a)].kind = "dir" BY <1>1, <1>2, FsIs, AboveIs
<1>4. Len(a) < Len(p) /\ Len(a) \in Nat /\ Len(p) \in Nat BY <1>2, NextName, PathIs
<1>5. Len(a) <= PATH_MAX BY <1>2, <1>4, MyCpAssumption
<1> QED BY <1>1, <1>3, <1>5, OriginIs

LEMMA OriginWas ==
  ASSUME UNCHANGED <<was, links, arg>>
  PROVE  Origin(was)' = Origin(was) /\ \A p : was'[Real(p)'] = was[Real(p)]
<1>1. \A p : Real(p)' = Real(p) /\ Below' = Below BY OriginStays
<1> QED BY <1>1 DEF Origin

LEMMA HandledStays ==
  ASSUME UNCHANGED <<was, links, arg>>, Target' = Target, missed \subseteq missed',
         NEW p, Handled(p),
         Real(Moved(p)) \in DOMAIN fs =>
           Real(Moved(p)) \in DOMAIN fs' /\ fs'[Real(Moved(p))] = fs[Real(Moved(p))]
  PROVE  Handled(p)'
<1>1. Moved(p)' = Moved(p) /\ Real(Moved(p))' = Real(Moved(p)) /\ Real(p)' = Real(p)
  BY PlacesStay
<1>2. \A kind : There(Moved(p), kind) => There(Moved(p), kind)'
  <2> SUFFICES ASSUME NEW kind, There(Moved(p), kind) PROVE There(Moved(p), kind)' OBVIOUS
  <2>1. /\ Len(Moved(p)) <= PATH_MAX /\ Real(Moved(p)) \in DOMAIN fs
        /\ fs[Real(Moved(p))].kind = kind
    BY DEF There
  <2> QED BY <1>1, <2>1 DEF There
<1>3. was'[Real(p)'] = was[Real(p)] BY <1>1
<1>4. was[Real(p)].kind = "file" =>
        \/ There(Moved(p), "special")'
        \/ There(Moved(p), "file")' /\ (fs'[Real(Moved(p))'] = was[Real(p)] \/ p \in missed')
  BY <1>1, <1>2 DEF Handled, There
<1>5. was[Real(p)].kind = "dir" => Real(Moved(p))' \in DOMAIN fs' /\ Len(Moved(p)') <= PATH_MAX
  BY <1>1 DEF Handled
<1> QED BY <1>3, <1>4, <1>5 DEF Handled

LEMMA WriteElsewhere ==
  ASSUME ~Overlap, NEW p \in Origin(was), NEW a \in Origin(was), a # p,
         NEW kind, fs' = fs \/ Writes(Real(Moved(a)), fs', kind)
  PROVE  Real(Moved(p)) \in DOMAIN fs =>
           Real(Moved(p)) \in DOMAIN fs' /\ fs'[Real(Moved(p))] = fs[Real(Moved(p))]
<1>1. Real(Moved(p)) # Real(Moved(a)) BY DEF Overlap
<1> QED BY <1>1 DEF Writes

LEMMA UnreadStays ==
  ASSUME missed \subseteq missed', NEW p, Unread(p)
  PROVE  Unread(p)'
BY DEF Unread

LEMMA ListedStays ==
  ASSUME UNCHANGED <<was, links, arg>>, Listed,
         \A k \in DOMAIN stack' : \/ k \in DOMAIN stack /\ stack'[k].from = stack[k].from
                                     /\ stack'[k].entries = stack[k].entries
                                  \/ \A x \in Names : Append(stack'[k].from, x) \in Origin(was) =>
                                       x \in stack'[k].entries
  PROVE  Listed'
<1>1. Origin(was)' = Origin(was) BY OriginWas
<1> SUFFICES ASSUME NEW k \in DOMAIN stack', NEW x \in Names,
                    Append(stack'[k].from, x) \in Origin(was)
             PROVE  x \in stack'[k].entries
  BY <1>1 DEF Listed
<1> QED BY DEF Listed

LEMMA InitQuiet == Init => Quiet
BY DEF Init, Quiet

LEMMA MainQuiet == CInv /\ CInv' /\ Quiet /\ Main => Quiet'
<1> SUFFICES ASSUME CInv, CInv', Quiet, Main PROVE Quiet' OBVIOUS
<1>1. CASE told' BY <1>1 DEF Quiet
<1>2. CASE ~told'
  <2>1. /\ pc = "main" /\ UNCHANGED <<was, links, arg, told, stack, rc>> /\ from' = arg.origin
        /\ \/ pc' = "file" /\ There(arg.origin, "file")
           \/ pc' = "enter" /\ There(arg.origin, "dir")
    BY <1>2 DEF Main, NoOrigin, NotCopiable, DirOnFile, Refuse, MakeFails, Say, FileToFile,
       FileIntoDir, MakeDest, Makes, DirToDir, Call, Silent, Args
  <2>2. fs = was /\ stack = <<>> /\ rc = 0 BY <2>1 DEF CInv, Places
  <2>3. arg.origin \in Paths BY DEF CInv, TypeOK
  <2>4. Origin(was)' = Origin(was) /\ \A p : was'[Real(p)'] = was[Real(p)] BY <2>1, OriginWas
  <2>5. AllMet'
    <3>1. \A p \in Origin(was) : Under(arg.origin, p) BY <2>3, OriginIs
    <3>2. \A p \in Origin(was) : Ahead(p)' BY <2>1, <3>1 DEF Ahead, Calling
    <3> QED BY <2>4, <3>2 DEF AllMet
  <2>6. arg.origin \in Origin(was)
    <3>1. Len(arg.origin) <= PATH_MAX /\ Real(arg.origin) \in DOMAIN was
      BY <2>1, <2>2 DEF There
    <3> QED BY <2>3, <3>1, OriginIs, UnderOrder
  <2>7. Asked'
    <3>1. Real(from)' = Real(arg.origin) BY <2>1 DEF Real
    <3>2. was'[Real(from)'] = was[Real(arg.origin)] BY <2>1, <3>1
    <3> QED BY <2>1, <2>2, <2>4, <2>6, <3>2 DEF Asked, There
  <2>8. Listed' BY <2>1, <2>2 DEF Listed
  <2> QED BY <2>1, <2>2, <2>5, <2>7, <2>8 DEF Quiet
<1> QED BY <1>1, <1>2

(* What the steps of a call have in common. *)
LEMMA StaysQuiet ==
  ASSUME CInv, Quiet, pc \notin {"main", "done"}, UNCHANGED <<was, links, arg, rc, told>>,
         Target' = Target,
         AllMet /\ Asked /\ Listed /\ (pc = "copy" => CopiedTo(pos)) /\ ~Overlap /\ ~told
           => AllMet' /\ Asked' /\ Listed' /\ (pc' = "copy" => CopiedTo(pos)')
  PROVE  Quiet'
BY OverlapStays DEF Quiet

(* Opening the file, or writing to it, is all to what is still ahead. *)
LEMMA FileMeets ==
  ASSUME CInv, ~Overlap, AllMet, Asked, pc \in {"file", "copy"}, pc' = "copy",
         UNCHANGED <<was, links, arg, from, to, stack, missed>>, Target' = Target,
         fs' = fs \/ Writes(Real(to), fs', "file")
  PROVE  AllMet'
<1>1. from \in Paths /\ from \in Origin(was) /\ to = Moved(from)
  BY Running DEF Calling, OnTheWay, Asked
<1>2. Origin(was)' = Origin(was) BY OriginWas
<1> SUFFICES ASSUME NEW p \in Origin(was) PROVE Handled(p)' \/ Ahead(p)' \/ Unread(p)'
  BY <1>2 DEF AllMet
<1>3. CASE Ahead(p)
  <2>1. Calling' /\ Calling BY DEF Calling
  <2>2. Ahead(p)' <=> Ahead(p) BY <2>1 DEF Ahead, AheadOf, Under
  <2> QED BY <1>3, <2>2
<1>4. CASE Unread(p) BY <1>4, UnreadStays
<1>5. CASE ~Ahead(p) /\ ~Unread(p)
  <2>1. Handled(p) BY <1>5 DEF AllMet
  <2>2. from # p
    <3>1. ~Under(from, p) BY <1>5 DEF Ahead, Calling
    <3> QED BY <1>1, <3>1, UnderOrder
  <2> QED BY <1>1, <2>1, <2>2, WriteElsewhere, HandledStays
<1> QED BY <1>3, <1>4, <1>5

LEMMA AskedStays ==
  ASSUME UNCHANGED <<was, links, arg, from>>, Asked, pc \in {"file", "copy"}, pc' = "copy"
  PROVE  Asked'
<1>1. Real(from)' = Real(from) BY DEF Real
<1>2. was'[Real(from)'] = was[Real(from)] BY <1>1
<1>3. Origin(was)' = Origin(was) BY OriginWas
<1> QED BY <1>2, <1>3 DEF Asked

LEMMA FileOpenQuiet == CInv /\ Quiet /\ FileOpen => Quiet'
<1> SUFFICES ASSUME CInv, Quiet, FileOpen PROVE Quiet' OBVIOUS
<1>1. /\ pc = "file" /\ pc' = "copy" /\ Opens(to) /\ fs' = Opened(to)
      /\ UNCHANGED <<was, links, arg, from, to, pos, stack, rc, told, missed>>
  BY DEF FileOpen, Args, Silent
<1>2. FsOK /\ to \in Paths /\ arg.origin \in Paths BY <1>1, Running DEF Calling
<1>3. \/ There(to, "special") /\ fs' = fs
      \/ Writes(Real(to), fs', "file") /\ fs'[Real(to)] = Node("file", <<>>)
  BY <1>1, <1>2, OpenedWrites
<1>4. Target' = Target BY <1>1, <1>3, FileWrites
<1>5. SUFFICES ASSUME AllMet, Asked, Listed, ~Overlap
               PROVE  AllMet' /\ Asked' /\ Listed' /\ CopiedTo(pos)'
  BY <1>1, <1>4, StaysQuiet
<1>6. AllMet' BY <1>1, <1>3, <1>4, <1>5, FileMeets
<1>7. Asked' BY <1>1, <1>5, AskedStays
<1>8. Listed' BY <1>1, <1>5, ListedStays
<1>9. CopiedTo(pos)'
  <2>0. Real(to)' = Real(to) /\ Real(from)' = Real(from) BY <1>1 DEF Real
  <2>1. CASE There(to, "special") /\ fs' = fs BY <1>1, <2>0, <2>1 DEF CopiedTo, There
  <2>2. CASE Writes(Real(to), fs', "file") /\ fs'[Real(to)] = Node("file", <<>>)
    <3>1. Real(to) \in DOMAIN fs' /\ fs'[Real(to)].kind = "file" /\ fs'[Real(to)].data = <<>>
      BY <2>2 DEF Writes, Node
    <3>2. Len(to) <= PATH_MAX BY <1>1 DEF Opens, There, Room
    <3>3. There(to, "file")' BY <1>1, <2>0, <3>1, <3>2 DEF There
    <3>4. Real(from) \in DOMAIN was /\ IsTree(was) /\ pos = 0
      BY <1>1, <1>2, <1>5, OriginIs, FsIs DEF Asked, CInv, Growing
    <3>5. was[Real(from)].data \in Seq(Blocks) BY <3>4 DEF IsTree, Nodes
    <3>6. SubSeq(was[Real(from)].data, 1, 0) = <<>> /\ Len(was[Real(from)].data) \in Nat
      BY <3>5, SubSeqProperties
    <3>7. was'[Real(from)'] = was[Real(from)] /\ fs'[Real(to)'].data = <<>> /\ pos' = 0
      BY <1>1, <2>0, <3>1, <3>4
    <3> QED BY <3>3, <3>6, <3>7 DEF CopiedTo
  <2> QED BY <1>3, <2>1, <2>2
<1> QED BY <1>6, <1>7, <1>8, <1>9

LEMMA CopyQuiet == CInv /\ Untouched /\ Quiet /\ Copy => Quiet'
<1> SUFFICES ASSUME CInv, Untouched, Quiet, Copy PROVE Quiet' OBVIOUS
<1>1. /\ pc = "copy" /\ pc' = "copy" /\ More /\ fs' = Written(Block) /\ pos' = pos + 1
      /\ UNCHANGED <<was, links, arg, from, to, stack, rc, told, missed>>
  BY DEF Copy, Args, Silent
<1>2. FsOK /\ from \in Origin(fs) BY <1>1, Running DEF Calling, OnTheWay
<1>3. \/ ~There(to, "file") /\ fs' = fs
      \/ /\ There(to, "file") /\ Writes(Real(to), fs', "file")
         /\ fs'[Real(to)].data = Append(fs[Real(to)].data, Block)
  BY <1>1, <1>2, BlockIs, WrittenWrites
<1>4. Target' = Target BY <1>1, <1>3, FileWrites
<1>5. SUFFICES ASSUME AllMet, Asked, Listed, CopiedTo(pos), ~Overlap
               PROVE  AllMet' /\ Asked' /\ Listed' /\ CopiedTo(pos)'
  BY <1>1, <1>4, StaysQuiet
<1>6. AllMet' BY <1>1, <1>3, <1>4, <1>5, FileMeets
<1>7. Asked' BY <1>1, <1>5, AskedStays
<1>8. Listed' BY <1>1, <1>5, ListedStays
<1>9. CopiedTo(pos)'
  <2>0. /\ Real(to)' = Real(to) /\ Real(from)' = Real(from)
        /\ was'[Real(from)'] = was[Real(from)]
    BY <1>1 DEF Real
  <2>1. CASE There(to, "special")
    <3>1. fs' = fs BY <1>3, <2>1 DEF There
    <3> QED BY <1>1, <2>0, <2>1, <3>1 DEF CopiedTo, There
  <2>2. CASE ~There(to, "special")
    <3> DEFINE d == was[Real(from)].data
    <3>1. fs[Real(from)] = was[Real(from)] /\ Real(from) \in DOMAIN was
      BY <1>2, <1>5 DEF Untouched
    <3>2. d \in Seq(Blocks) BY <1>2, <3>1, FsIs DEF IsTree, Nodes
    <3>3. pos \in Nat /\ pos < Len(d) /\ Len(d) \in Nat /\ Block = d[pos + 1]
      BY <1>1, <3>1, <3>2 DEF More, Block, CInv, TypeOK
    <3>4. There(to, "file") /\ fs[Real(to)].data = SubSeq(d, 1, pos)
      BY <1>5, <2>2 DEF CopiedTo
    <3>5. /\ Real(to) \in DOMAIN fs' /\ fs'[Real(to)].kind = "file"
          /\ fs'[Real(to)].data = Append(SubSeq(d, 1, pos), d[pos + 1])
      BY <1>3, <3>3, <3>4 DEF Writes
    <3> HIDE DEF d
    <3>6. Append(SubSeq(d, 1, pos), d[pos + 1]) = SubSeq(d, 1, pos + 1)
      BY <3>2, <3>3
    <3>7. There(to, "file")' BY <1>1, <2>0, <3>4, <3>5 DEF There
    <3>8. pos + 1 \in 0..Len(d) BY <3>3
    <3>9. was'[Real(from)'].data = d /\ fs'[Real(to)'].data = SubSeq(d, 1, pos')
          /\ pos' \in 0..Len(d)
      BY <1>1, <2>0, <3>5, <3>6, <3>8 DEF d
    <3> QED BY <3>7, <3>9 DEF CopiedTo
  <2> QED BY <2>1, <2>2
<1> QED BY <1>6, <1>7, <1>8, <1>9

(* A step that changes no file: what was met is met. *)
LEMMA StillHandled ==
  ASSUME UNCHANGED <<fs, was, links, arg>>, missed \subseteq missed', NEW p, Handled(p)
  PROVE  Handled(p)'
BY NothingChanges, HandledStays

(* The end of copy_file, whether close() saved everything or not. *)
LEMMA CopyEndQuiet == CInv /\ Untouched /\ Quiet /\ (CopyEnd \/ CloseFails) => Quiet'
<1> SUFFICES ASSUME CInv, Untouched, Quiet, CopyEnd \/ CloseFails PROVE Quiet' OBVIOUS
<1>1. /\ pc = "copy" /\ pc' \in {"done", "dir"} /\ ~More
      /\ UNCHANGED <<was, links, arg, from, to, pos, stack, rc, told>>
      /\ missed \subseteq missed'
      /\ \/ fs' = fs
         \/ from \in missed' /\ \E n \in 0..pos : fs' = Kept(n)
  BY DEF CopyEnd, CloseFails, Return, Args, Silent, Misses
<1>2. FsOK /\ from \in Origin(fs) /\ to = Moved(from) /\ from \in Paths /\ arg.origin \in Paths
  BY <1>1, Running DEF Calling, OnTheWay
<1>3. fs' = fs \/ Writes(Real(to), fs', "file")
  <2>1. ASSUME NEW n \in 0..pos, fs' = Kept(n)
        PROVE  fs' = fs \/ Writes(Real(to), fs', "file")
    <3>1. n \in Nat /\ (There(to, "file") => n <= Len(fs[Real(to)].data))
      BY <1>1 DEF CInv, TypeOK, Growing
    <3> QED BY <1>2, <2>1, <3>1, KeptWrites
  <2> QED BY <1>1, <2>1
<1>4. Target' = Target BY <1>1, <1>3, FileWrites
<1>5. SUFFICES ASSUME AllMet, Asked, Listed, CopiedTo(pos), ~Overlap
               PROVE  AllMet' /\ Asked' /\ Listed'
  BY <1>1, <1>4, StaysQuiet
<1>6. /\ from \in Origin(was) /\ was[Real(from)].kind = "file"
      /\ Real(from) \in DOMAIN was /\ fs[Real(from)] = was[Real(from)]
  BY <1>1, <1>2, <1>5 DEF Asked, Untouched
<1>7. Handled(from)'
  <2>0. /\ Moved(from)' = to /\ Real(to)' = Real(to) /\ Real(from)' = Real(from)
        /\ Real(Moved(from))' = Real(to) /\ was'[Real(from)'] = was[Real(from)]
    <3>1. Moved(from)' = to BY <1>1, <1>2, <1>4 DEF Moved
    <3>2. Real(Moved(from))' = Lead(links')[Moved(from)'] BY DEF Real
    <3> QED BY <1>1, <3>1, <3>2 DEF Real
  <2>1. CASE There(to, "special")
    <3>1. fs' = fs BY <1>1, <2>1 DEF Kept, There
    <3>2. There(Moved(from), "special")' BY <2>0, <2>1, <3>1 DEF There
    <3> QED BY <1>6, <2>0, <3>2 DEF Handled
  <2>2. CASE There(to, "file")
    <3>1. There(Moved(from), "file")'
      <4>1. Real(to) \in DOMAIN fs' /\ fs'[Real(to)].kind = "file" /\ Len(to) <= PATH_MAX
        BY <1>3, <2>2 DEF There, Writes
      <4> QED BY <2>0, <4>1 DEF There
    <3>2. CASE from \in missed'
      <4>1. from' \in missed' BY <1>1, <3>2
      <4> QED BY <1>6, <2>0, <3>1, <4>1 DEF Handled
    <3>3. CASE fs' = fs
      <4>1. pos \in 0..Len(was[Real(from)].data) /\ ~There(to, "special")
            /\ fs[Real(to)].data = SubSeq(was[Real(from)].data, 1, pos)
        BY <1>5, <2>2 DEF CopiedTo, There
      <4>2. was[Real(from)] \in Nodes BY <1>2, <1>6, FsIs DEF IsTree
      <4>3. was[Real(from)].data \in Seq(Blocks) /\ Len(was[Real(from)].data) \in Nat
        BY <4>2 DEF Nodes
      <4>4. pos = Len(was[Real(from)].data) BY <1>1, <1>6, <4>1, <4>3 DEF More
      <4>5. fs[Real(to)].data = was[Real(from)].data BY <4>1, <4>3, <4>4
      <4>6. fs[Real(to)].kind = "file" /\ fs[Real(to)] \in Nodes
        BY <1>2, <2>2, DataIs DEF There
      <4>7. fs[Real(to)] = was[Real(from)] BY <1>6, <4>2, <4>5, <4>6 DEF Nodes
      <4>8. fs'[Real(Moved(from))'] = was'[Real(from)'] BY <2>0, <3>3, <4>7
      <4> QED BY <1>6, <2>0, <3>1, <4>8 DEF Handled
    <3> QED BY <1>1, <3>2, <3>3
  <2> QED BY <1>5, <2>1, <2>2 DEF CopiedTo
<1>8. AllMet'
  <2>1. Origin(was)' = Origin(was) BY <1>1, OriginWas
  <2> SUFFICES ASSUME NEW p \in Origin(was) PROVE Handled(p)' \/ Ahead(p)' \/ Unread(p)'
    BY <2>1 DEF AllMet
  <2>2. CASE p = from
    <3>1. from' = p BY <1>1, <2>2
    <3> QED BY <1>7, <3>1 DEF Handled, Moved, Real, There
  <2>3. CASE Unread(p) BY <1>1, <2>3, UnreadStays
  <2>4. CASE Handled(p) /\ p # from
    BY <1>1, <1>2, <1>3, <1>4, <1>5, <1>6, <2>4, WriteElsewhere, HandledStays
  <2>5. CASE Ahead(p) /\ p # from
    <3>1. p \in Paths /\ Under(arg.origin, from) BY <1>2, OriginIs
    <3>2. ~Under(from, p)
      <4> SUFFICES ASSUME Under(from, p) PROVE FALSE OBVIOUS
      <4>1. was[Real(from)].kind = "dir" BY <1>2, <2>5, <3>1, OriginAbove
      <4> QED BY <1>6, <4>1
    <3> QED BY <1>1, <2>5, <3>2 DEF Ahead, AheadOf, Under
  <2> QED BY <1>5, <2>2, <2>3, <2>4, <2>5 DEF AllMet
<1>9. Asked' BY <1>1 DEF Asked
<1>10. Listed' BY <1>1, <1>5, ListedStays
<1> QED BY <1>8, <1>9, <1>10

LEMMA EnterQuiet == CInv /\ Quiet /\ Enter => Quiet'
<1> SUFFICES ASSUME CInv, Quiet, Enter PROVE Quiet' OBVIOUS
<1> DEFINE frame == [from |-> from, to |-> to, seen |-> {}, entries |-> Entries(fs, Real(from))]
           n == Len(stack) + 1
<1>1. /\ pc = "enter" /\ pc' = "dir" /\ stack' = Append(stack, frame)
      /\ UNCHANGED <<was, links, arg, from, to, pos, rc, told, missed>>
      /\ \/ ~StatFails(to) /\ fs' = fs
         \/ Vacant(to) /\ fs' = With(to, Dir)
  BY DEF Enter, Args, Silent
<1>2. /\ FsOK /\ arg.origin \in Paths
      /\ from \in Paths /\ to \in Paths /\ from \in Origin(fs) /\ to = Moved(from)
      /\ stack \in Seq(Frames) /\ DOMAIN stack = 1..Len(stack) /\ Len(stack) \in Nat
  BY <1>1, Running DEF Calling, OnTheWay
<1>3. Target' = Target
  <2>1. was[Real(arg.origin)].kind = "dir" BY <1>1 DEF CInv, Settled
  <2> QED BY <1>1, <2>1, TargetStays
<1>4. /\ fs' = fs \/ Writes(Real(to), fs', "dir")
      /\ Real(to) \in DOMAIN fs' /\ Len(to) <= PATH_MAX
  <2>1. CASE ~StatFails(to) /\ fs' = fs BY <2>1 DEF StatFails, There
  <2>2. CASE Vacant(to) /\ fs' = With(to, Dir)
    <3>1. Writes(Real(to), fs', "dir") BY <1>2, <2>2, WithWrites DEF Dir, Vacant
    <3> QED BY <2>2, <3>1 DEF Vacant, Room, Writes
  <2> QED BY <1>1, <2>1, <2>2
<1>5. frame.from = from /\ frame.seen = {} /\ frame.entries = Entries(fs, Real(from)) OBVIOUS
<1>6. frame \in Frames BY <1>2 DEF Frames, Entries
<1> HIDE DEF frame
<1>7. /\ n \in DOMAIN stack' /\ stack'[n] = frame
      /\ \A k \in DOMAIN stack : k \in DOMAIN stack' /\ stack'[k] = stack[k]
      /\ \A k \in DOMAIN stack' : k \in DOMAIN stack \/ k = n
  BY <1>1, <1>2, <1>6
<1> HIDE DEF n
<1>8. SUFFICES ASSUME AllMet, Asked, Listed, ~Overlap
               PROVE  AllMet' /\ Asked' /\ Listed'
  BY <1>1, <1>3, StaysQuiet
<1>9. from \in Origin(was) /\ was[Real(from)].kind = "dir" BY <1>1, <1>8 DEF Asked
<1>10. AllMet'
  <2>1. Origin(was)' = Origin(was) BY <1>1, OriginWas
  <2> SUFFICES ASSUME NEW p \in Origin(was) PROVE Handled(p)' \/ Ahead(p)' \/ Unread(p)'
    BY <2>1 DEF AllMet
  <2>2. CASE p = from
    <3>1. /\ Moved(p)' = to /\ Real(Moved(p))' = Real(to) /\ Real(p)' = Real(p)
          /\ was'[Real(p)'] = was[Real(p)]
      BY <1>1, <1>2, <1>3, <2>2, PlacesStay
    <3> QED BY <1>4, <1>9, <2>2, <3>1 DEF Handled
  <2>3. CASE Under(from, p) /\ p # from
    <3>1. AheadOf(stack'[n], p) BY <1>5, <1>7, <2>3 DEF AheadOf
    <3> QED BY <1>7, <3>1 DEF Ahead, AheadOf, Under
  <2>4. CASE Handled(p) /\ p # from
    BY <1>1, <1>2, <1>3, <1>4, <1>8, <1>9, <2>4, WriteElsewhere, HandledStays
  <2>5. CASE Ahead(p) /\ ~Under(from, p)
    <3>1. PICK k \in DOMAIN stack : AheadOf(stack[k], p) BY <2>5 DEF Ahead
    <3>2. k \in DOMAIN stack' /\ stack'[k] = stack[k] BY <1>7
    <3> QED BY <3>1, <3>2 DEF Ahead, AheadOf, Under
  <2>6. CASE Unread(p) BY <1>1, <2>6, UnreadStays
  <2> QED BY <1>8, <2>2, <2>3, <2>4, <2>5, <2>6 DEF AllMet
<1>11. Asked' BY <1>1 DEF Asked
<1>12. Listed'
  <2>1. ASSUME NEW x \in Names, Append(from, x) \in Origin(was)
        PROVE  x \in Entries(fs, Real(from))
    <3>1. Real(Append(from, x)) \in DOMAIN was BY <2>1 DEF Origin
    <3>2. LET q == Append(Real(from), x)
          IN  Real(Append(from, x)) = IF q \in DOMAIN links THEN links[q] ELSE q
      BY <1>2, FsIs, RealRule
    <3>3. Append(Real(from), x) \in DOMAIN fs \union DOMAIN links
      BY <1>2, <3>1, <3>2 DEF FsOK, Kinds
    <3> QED BY <3>3 DEF Entries
  <2>2. \A k \in DOMAIN stack' : \/ k \in DOMAIN stack /\ stack'[k].from = stack[k].from
                                    /\ stack'[k].entries = stack[k].entries
                                 \/ \A x \in Names : Append(stack'[k].from, x) \in Origin(was) =>
                                      x \in stack'[k].entries
    BY <1>5, <1>7, <2>1
  <2> QED BY <1>1, <1>8, <2>2, ListedStays
<1> QED BY <1>10, <1>11, <1>12

LEMMA EntryQuiet == ASSUME CInv, Untouched, Quiet, NEW x \in Names, Entry(x) PROVE Quiet'
<1> DEFINE n == Len(stack)
           e == OriginPath(x)
           frame == [Top EXCEPT !.seen = Top.seen \union {x}]
<1>1. /\ pc = "dir" /\ from' = e /\ pos' = 0
      /\ stack' = [stack EXCEPT ![n] = frame] /\ ~StatFails(e)
      /\ UNCHANGED <<was, links, arg, fs, rc, told, missed>>
      /\ There(e, "file") => pc' = "file"
      /\ There(e, "dir") => pc' = "enter"
      /\ ~There(e, "file") /\ ~There(e, "dir") => pc' = "dir"
  BY DEF Entry, Args, Silent, Top, There
<1>2. /\ n \in DOMAIN stack /\ Top \in Frames /\ Top.from \in Paths
      /\ Under(arg.origin, Top.from) /\ stack # <<>>
  BY <1>1, TopIs
<1>3. /\ FsOK /\ arg.origin \in Paths
      /\ stack \in Seq(Frames) /\ DOMAIN stack = 1..Len(stack)
  BY <1>1, Running
<1>4. e \in Origin(fs) /\ e \in Paths /\ Under(arg.origin, e) BY <1>1, EntryIs
<1>5. e = Append(Top.from, x) BY DEF OriginPath
<1>6. /\ frame.from = Top.from /\ frame.seen = Top.seen \union {x}
      /\ frame.entries = Top.entries /\ Top = stack[n]
  BY <1>2 DEF Frames, Top
<1> HIDE DEF frame, e
<1>7. /\ DOMAIN stack' = DOMAIN stack /\ stack'[n] = frame
      /\ \A k \in DOMAIN stack : k # n => stack'[k] = stack[k]
      /\ \A k \in DOMAIN stack : stack'[k].from = stack[k].from
                                 /\ stack'[k].entries = stack[k].entries
  <2>1. DOMAIN stack' = DOMAIN stack /\ stack'[n] = frame
        /\ \A k \in DOMAIN stack : k # n => stack'[k] = stack[k]
    BY <1>1, <1>2, <1>3
  <2> QED BY <1>6, <2>1
<1> HIDE DEF n
<1>8. Target' = Target BY <1>1, NothingChanges
<1>9. SUFFICES ASSUME AllMet, Asked, Listed, ~Overlap
               PROVE  AllMet' /\ Asked' /\ Listed' /\ pc' # "copy"
  BY <1>1, <1>8, StaysQuiet
<1>10. /\ Real(e) \in DOMAIN was /\ fs[Real(e)] = was[Real(e)] /\ e \in Origin(was)
  BY <1>4, <1>9 DEF Untouched, Origin
<1>11. There(e, "file") \/ There(e, "dir") \/ There(e, "special") BY <1>1 DEF StatFails
<1>12. Origin(was)' = Origin(was) /\ \A p : was'[Real(p)'] = was[Real(p)] BY <1>1, OriginWas
<1>13. AllMet'
  <2> SUFFICES ASSUME NEW p \in Origin(was) PROVE Handled(p)' \/ Ahead(p)' \/ Unread(p)'
    BY <1>12 DEF AllMet
  <2>1. CASE Handled(p) BY <1>1, <2>1, StillHandled
  <2>2. CASE Unread(p) BY <1>1, <2>2, UnreadStays
  <2>3. CASE Ahead(p)
    <3>1. PICK k \in DOMAIN stack : AheadOf(stack[k], p)
      BY <1>1, <2>3 DEF Ahead, Calling
    <3>2. CASE k # n \/ p[Len(stack[k].from) + 1] # x
      <4>1. AheadOf(stack'[k], p) BY <1>6, <1>7, <3>1, <3>2 DEF AheadOf
      <4> QED BY <1>7, <4>1 DEF Ahead, AheadOf, Under
    <3>3. CASE k = n /\ p[Len(stack[k].from) + 1] = x
      <4>1. p \in Paths BY <1>3, OriginIs
      <4>2. Under(e, p)
        <5>1. Under(Top.from, p) /\ p # Top.from /\ p[Len(Top.from) + 1] = x
          BY <1>6, <3>1, <3>3 DEF AheadOf
        <5> QED BY <1>2, <1>5, <4>1, <5>1, NextName
      <4>3. CASE There(e, "file") \/ There(e, "dir")
        <5>1. pc' \in {"file", "enter"} BY <1>1, <4>3
        <5> QED BY <1>1, <4>2, <5>1 DEF Ahead, Calling, Under
      <4>4. CASE There(e, "special")
        <5>1. was[Real(e)].kind = "special" BY <1>10, <4>4 DEF There
        <5>2. p = e BY <1>4, <4>2, <5>1, OriginAbove
        <5>3. Handled(p) BY <5>1, <5>2 DEF Handled
        <5> QED BY <1>1, <5>3, StillHandled
      <4> QED BY <1>11, <4>3, <4>4
    <3> QED BY <3>2, <3>3
  <2> QED BY <1>9, <2>1, <2>2, <2>3 DEF AllMet
<1>14. Asked' /\ pc' # "copy"
  <2>0. /\ from' \in Origin(was)' /\ Real(from)' = Real(e)
        /\ was'[Real(from)'] = was[Real(e)]
    <3>1. Real(from)' = Real(e) BY <1>1 DEF Real
    <3> QED BY <1>1, <1>10, <1>12, <3>1
  <2>1. CASE There(e, "file") BY <1>1, <1>10, <2>0, <2>1 DEF Asked, There
  <2>2. CASE There(e, "dir") BY <1>1, <1>10, <2>0, <2>2 DEF Asked, There
  <2>3. CASE ~There(e, "file") /\ ~There(e, "dir") BY <1>1, <2>3 DEF Asked
  <2> QED BY <2>1, <2>2, <2>3
<1>15. Listed' BY <1>1, <1>7, <1>9, ListedStays
<1> QED BY <1>13, <1>14, <1>15

LEMMA LeaveQuiet == CInv /\ Quiet /\ (Leave \/ LeaveUnread) => Quiet'
<1> SUFFICES ASSUME CInv, Quiet, Leave \/ LeaveUnread PROVE Quiet' OBVIOUS
<1>1. /\ pc = "dir" /\ pc' \in {"done", "dir"} /\ stack' = Parent(stack)
      /\ \/ Top.entries \subseteq Top.seen
         \/ Top.from \in missed'
      /\ missed \subseteq missed'
      /\ UNCHANGED <<fs, was, links, arg, from, to, pos, rc, told>>
  BY DEF Leave, LeaveUnread, Return, Args, Silent, Misses
<1>2. /\ DOMAIN stack' = 1..Len(stack)-1 /\ DOMAIN stack = 1..Len(stack) /\ Len(stack) \in Nat
      /\ \A k \in DOMAIN stack' : stack'[k] = stack[k]
      /\ arg.origin \in Paths
  BY <1>1, Popped, Running
<1>3. Target' = Target BY <1>1, NothingChanges
<1>4. SUFFICES ASSUME AllMet, Asked, Listed, ~Overlap
               PROVE  AllMet' /\ Asked' /\ Listed'
  BY <1>1, <1>3, StaysQuiet
<1>5. AllMet'
  <2>0. Origin(was)' = Origin(was) BY <1>1, OriginWas
  <2> SUFFICES ASSUME NEW p \in Origin(was) PROVE Handled(p)' \/ Ahead(p)' \/ Unread(p)'
    BY <2>0 DEF AllMet
  <2>1. CASE Handled(p) BY <1>1, <2>1, StillHandled
  <2>2. CASE Unread(p) BY <1>1, <2>2, UnreadStays
  <2>3. CASE Ahead(p)
    <3>1. PICK k \in DOMAIN stack : AheadOf(stack[k], p)
      BY <1>1, <2>3 DEF Ahead, Calling
    <3>2. CASE k = Len(stack)
      <4>1. /\ Top = stack[k] /\ Top.from \in Paths /\ Under(arg.origin, Top.from)
            /\ p \in Paths
        BY <1>1, <1>2, <3>2, TopIs, OriginIs DEF Top
      <4>2. CASE Top.from \in missed'
        BY <3>1, <4>1, <4>2 DEF Unread, AheadOf, Under
      <4>3. CASE Top.entries \subseteq Top.seen
        <5> DEFINE x == p[Len(Top.from) + 1]
                   t == Append(Top.from, x)
        <5>1. x \in Names /\ t \in Paths /\ Under(t, p) /\ x \notin Top.seen
          BY <3>1, <4>1, NextName DEF AheadOf
        <5>2. Under(arg.origin, t) BY <1>2, <4>1, <5>1, ParentOfChild, UnderOrder
        <5> HIDE DEF x, t
        <5>3. t \in Origin(was) BY <5>1, <5>2, OriginAbove
        <5>4. x \in Top.entries BY <1>4, <3>1, <4>1, <5>1, <5>3 DEF Listed, t
        <5> QED BY <4>3, <5>1, <5>4
      <4> QED BY <1>1, <4>2, <4>3
    <3>3. CASE k # Len(stack)
      <4>1. k \in DOMAIN stack' /\ stack'[k] = stack[k] BY <1>2, <3>3
      <4> QED BY <3>1, <4>1 DEF Ahead, AheadOf, Under
    <3> QED BY <3>2, <3>3
  <2> QED BY <1>4, <2>1, <2>2, <2>3 DEF AllMet
<1>6. Asked' BY <1>1 DEF Asked
<1>7. Listed'
  <2>1. \A k \in DOMAIN stack' : k \in DOMAIN stack /\ stack'[k] = stack[k] BY <1>2
  <2> QED BY <1>1, <1>4, <2>1, ListedStays
<1> QED BY <1>5, <1>6, <1>7

LEMMA NextQuiet == CInv /\ CInv' /\ Untouched /\ Quiet /\ [Next]_vars => Quiet'
<1> SUFFICES ASSUME CInv, CInv', Untouched, Quiet, [Next]_vars PROVE Quiet' OBVIOUS
<1>1. CASE Main BY <1>1, MainQuiet
<1>2. CASE FileOpen BY <1>2, FileOpenQuiet
<1>3. CASE Copy BY <1>3, CopyQuiet
<1>4. CASE CopyEnd \/ CloseFails BY <1>4, CopyEndQuiet
<1>5. CASE Enter BY <1>5, EnterQuiet
<1>6. CASE FileOpenFails \/ CopyFails \/ EnterFails \/ \E x \in Names : EntryGone(x)
  BY <1>6 DEF FileOpenFails, CopyFails, EnterFails, EntryGone, Say, Quiet
<1>7. CASE \E x \in Names : Entry(x) BY <1>7, EntryQuiet
<1>8. CASE Leave \/ LeaveUnread BY <1>8, LeaveQuiet
<1>9. CASE UNCHANGED vars
  <2>1. UNCHANGED <<fs, was, links, arg, pc, from, to, pos, stack, told, missed, rc>>
    BY <1>9 DEF vars
  <2>2. Target' = Target BY <2>1, NothingChanges
  <2>3. /\ Origin(was)' = Origin(was) /\ \A p : was'[Real(p)'] = was[Real(p)]
        /\ Real(to)' = Real(to) /\ was'[Real(from)'] = was[Real(from)]
    <3>1. Real(to)' = Real(to) /\ Real(from)' = Real(from) BY <2>1 DEF Real
    <3> QED BY <2>1, <3>1, OriginWas
  <2>4. AllMet => AllMet'
    <3>1. \A p : Handled(p) => Handled(p)' BY <2>1, StillHandled
    <3>2. \A p : Unread(p) => Unread(p)' BY <2>1, UnreadStays
    <3>3. \A p : Ahead(p) => Ahead(p)' BY <2>1 DEF Ahead, AheadOf, Calling, Under
    <3> QED BY <2>3, <3>1, <3>2, <3>3 DEF AllMet
  <2>5. Asked => Asked' BY <2>1, <2>3 DEF Asked
  <2>6. Listed => Listed' BY <2>1, ListedStays
  <2>7. CopiedTo(pos) => CopiedTo(pos)' BY <2>1, <2>3 DEF CopiedTo, There
  <2>8. Overlap' <=> Overlap BY <2>1, <2>2, OverlapStays
  <2> QED BY <2>1, <2>4, <2>5, <2>6, <2>7, <2>8 DEF Quiet
<1> QED BY <1>1, <1>2, <1>3, <1>4, <1>5, <1>6, <1>7, <1>8, <1>9 DEF Next

LEMMA QuietEnds == CInv /\ Untouched /\ Quiet => QuietMeansCopied
<1> SUFFICES ASSUME CInv, Untouched, Quiet, pc = "done", ~told PROVE QuietMeansCopied
  BY DEF QuietMeansCopied
<1>1. stack = <<>> /\ rc = 0 BY DEF CInv, Places, Quiet
<1>2. SUFFICES ASSUME ~Overlap, NEW p \in Origin(was)
               PROVE  /\ Real(p) \in DOMAIN fs /\ fs[Real(p)] = was[Real(p)]
                      /\ was[Real(p)].kind = "file" /\ ~Unread(p) =>
                           \/ There(Moved(p), "special")
                           \/ /\ There(Moved(p), "file")
                              /\ fs[Real(Moved(p))] = was[Real(p)] \/ p \in missed
                      /\ was[Real(p)].kind = "dir" /\ ~Unread(p) =>
                           There(Moved(p), "dir") \/ Barren(p) \/ p \in missed
  BY <1>1 DEF QuietMeansCopied
<1>3. FsOK /\ arg.origin \in Paths /\ missed \subseteq Paths BY DEF CInv, TypeOK
<1>4. p \in Paths /\ Under(arg.origin, p) BY <1>3, OriginIs
<1>5. Real(p) \in DOMAIN fs /\ fs[Real(p)] = was[Real(p)]
  <2>1. Real(p) \in DOMAIN fs BY <1>3 DEF FsOK, Kinds, Origin
  <2> QED BY <1>2, <2>1 DEF Untouched, Origin
<1>6. \A q \in Origin(was) : Handled(q) \/ Unread(q)
  <2>1. AllMet BY <1>2 DEF Quiet
  <2> QED BY <1>1, <2>1 DEF AllMet, Ahead, Calling
<1>7. ASSUME was[Real(p)].kind = "dir", ~Unread(p), ~Barren(p), p \notin missed
      PROVE  There(Moved(p), "dir")
  <2>1. PICK q \in Origin(was) : q # <<>> /\ Parent(q) = p /\ was[Real(q)].kind # "special"
    BY <1>7 DEF Barren
  <2>2. q \in Paths /\ Real(q) \in DOMAIN was BY <1>3, OriginIs
  <2>3. was[Real(q)] \in Nodes BY <1>3, <2>2, FsIs DEF IsTree
  <2>4. Under(p, q) /\ p # q /\ q[Len(q)] \in Names /\ Len(q) = Len(p) + 1
    BY <1>4, <2>1, <2>2, ChildIs
  <2>5. ~Unread(q)
    <3> SUFFICES ASSUME NEW m \in missed, m # q, Under(m, q) PROVE FALSE BY DEF Unread
    <3>1. m \in Paths BY <1>3
    <3>2. Under(m, p)
      <4>1. Under(m, p) \/ Under(p, m) BY <1>4, <2>2, <2>4, <3>1, UnderOrder
      <4>2. ASSUME Under(p, m) PROVE m = p
        <5>1. Len(m) < Len(q) /\ Len(m) \in Nat /\ Len(p) \in Nat
          BY <2>2, <3>1, <1>4, NextName, PathIs
        <5>2. Len(p) <= Len(m) /\ \A k \in 1..Len(p) : m[k] = p[k]
          BY <1>4, <3>1, <4>2, UnderIs
        <5>3. Len(m) = Len(p) BY <2>4, <5>1, <5>2
        <5> QED BY <1>4, <3>1, <5>2, <5>3, PathsEqual
      <4> QED BY <1>4, <4>1, <4>2, UnderOrder
    <3> QED BY <1>7, <3>2 DEF Unread
  <2>6. Real(Moved(q)) \in DOMAIN fs
    <3>1. Handled(q) BY <1>6, <2>5
    <3>2. was[Real(q)].kind \in {"file", "dir"} BY <2>1, <2>3 DEF Nodes
    <3> QED BY <3>1, <3>2 DEF Handled, There
  <2>7. Target \in Paths
    <3>1. Real(arg.origin) \in DOMAIN was
      <4>1. CASE p = arg.origin BY <4>1 DEF Origin
      <4>2. CASE p # arg.origin
        <5>1. Under(arg.origin, arg.origin) BY <1>3, UnderOrder
        <5> QED BY <1>3, <1>4, <4>2, <5>1, OriginAbove DEF Origin
      <4> QED BY <4>1, <4>2
    <3> QED BY <3>1, TargetIs DEF CInv
  <2>8. Moved(q) = Append(Moved(p), q[Len(q)]) /\ Moved(p) \in Paths
    BY <1>3, <1>4, <2>1, <2>2, <2>7, MovedChild, MovedIs
  <2>9. Real(Moved(p)) \in DOMAIN fs /\ fs[Real(Moved(p))].kind = "dir"
    <3>1. Real(Append(Moved(p), q[Len(q)])) \in DOMAIN fs BY <2>6, <2>8
    <3> QED BY <1>3, <2>4, <2>8, <3>1, FsIs, StepDown
  <2>10. Len(Moved(p)) <= PATH_MAX BY <1>6, <1>7 DEF Handled
  <2> QED BY <2>9, <2>10 DEF There
<1> QED BY <1>5, <1>6, <1>7 DEF Handled

(* If mycp ends without a message everything was copied, whatever there    *)
(* was, wherever links lead and whichever calls failed, but for what a     *)
(* readdir or a close that failed has kept from it: each other error path  *)
(* of main, copy_file and copy_dir that goes on has its perror, and the    *)
(* loop of copy_dir leaves out nothing that was there.                     *)
THEOREM SilenceMeansCopied == Spec => []QuietMeansCopied
<1>1. Init => Quiet BY InitQuiet
<1>2. CInv /\ CInv' /\ Untouched /\ Quiet /\ [Next]_vars => Quiet' BY NextQuiet
<1>3. CInv /\ Untouched /\ Quiet => QuietMeansCopied BY QuietEnds
<1> QED BY <1>1, <1>2, <1>3, CopyInvariant, OriginUntouched, PTL DEF Spec

=============================================================================
