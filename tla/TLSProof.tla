------------------------------ MODULE TLSProof -------------------------------
(***************************************************************************)
(* Proofs about thread-local storage, for every number of threads, page    *)
(* size and word width.                                                    *)
(***************************************************************************)
EXTENDS TLSProperties, FiniteSetTheorems, TLAPS

(* Position i of a storage is byte i % PageSize of page i \div PageSize,   *)
(* and no other position is.                                               *)
LEMMA Split ==
  ASSUME NEW i \in Nat
  PROVE  /\ i \div PageSize \in Nat /\ i % PageSize \in Offsets
         /\ i = (i \div PageSize) * PageSize + (i % PageSize)
<1>1. PageSize \in Nat /\ PageSize > 0
  BY TLSAssumption
<1>2. i \div PageSize \in Nat
  BY <1>1
<1>3. i % PageSize \in 0..(PageSize - 1)
  BY <1>1
<1>4. i = (i \div PageSize) * PageSize + (i % PageSize)
  BY <1>1
<1> QED BY <1>1, <1>2, <1>3, <1>4 DEF Offsets

LEMMA CountIsNat ==
  ASSUME NEW n \in Sizes
  PROVE  PageCount(n) \in Nat
<1>1. n + PageSize - 1 \in Nat
  BY TLSAssumption
<1>2. (n + PageSize - 1) % Word \in Nat
  BY <1>1, TLSAssumption
<1> QED BY <1>2, TLSAssumption DEF PageCount

LEMMA SizeIsNat ==
  ASSUME NEW n \in Sizes
  PROVE  n \in Nat
<1>1. Sizes \subseteq 0..(Word - 1) /\ Word \in Nat
  BY TLSAssumption
<1> QED BY <1>1

-----------------------------------------------------------------------------
(* The inductive invariant.  OnePlace is the reason why reference counts   *)
(* can be counted by thread: a page has the same index in every storage    *)
(* that has it, since only tls_clone shares pages.                         *)
MemType ==
  /\ tls \in [Threads -> Nodes \cup {None}]
  /\ mapped \subseteq Pages /\ lost \subseteq Pages
  /\ ref_count \in [Pages -> Nat]
  /\ bytes \in [Pages -> [Offsets -> Bytes]]

OnePlace ==
  \A t, u \in Threads : Has(t) /\ Has(u) =>
    \A k \in DOMAIN tls[t].pages, l \in DOMAIN tls[u].pages :
      tls[t].pages[k] = tls[u].pages[l] => k = l

SharingInv == lost \subseteq mapped /\ OnePlace /\ MappedIsHeld /\ RefCountsExact

Inv == MemType /\ SharingInv

Sharers(p) == {t \in Threads : p \in Holds(t)}

-----------------------------------------------------------------------------
LEMMA NodeIsSome ==
  ASSUME NEW n \in Sizes, NEW pages \in Arrays(n)
  PROVE  [size |-> n, pages |-> pages] # None
  BY NoneAssumption

LEMMA NodeType ==
  ASSUME MemType, NEW t \in Threads, Has(t)
  PROVE  /\ tls[t].size \in Sizes
         /\ tls[t].pages \in Arrays(tls[t].size)
         /\ tls[t] = [size |-> tls[t].size, pages |-> tls[t].pages]
<1>1. tls[t] \in Nodes
  BY DEF MemType, Has
<1>2. PICK n \in Sizes : tls[t] \in [size : {n}, pages : Arrays(n)]
  BY <1>1 DEF Nodes
<1> QED BY <1>2

LEMMA HoldsType ==
  ASSUME MemType, NEW t \in Threads
  PROVE  /\ Has(t) => DOMAIN tls[t].pages \subseteq Nat
         /\ Has(t) => \A k \in DOMAIN tls[t].pages : tls[t].pages[k] \in Holds(t)
         /\ \A p \in Holds(t) : Has(t) /\ \E k \in DOMAIN tls[t].pages : tls[t].pages[k] = p
         /\ Holds(t) \subseteq Pages
<1>1. CASE ~Has(t)
  BY <1>1 DEF Holds
<1>2. CASE Has(t)
  <2>1. PageCount(tls[t].size) \in Nat /\ tls[t].pages \in Arrays(tls[t].size)
    BY <1>2, NodeType, CountIsNat
  <2>2. DOMAIN tls[t].pages = 0..(PageCount(tls[t].size) - 1)
    BY <2>1 DEF Arrays
  <2>3. \A k \in DOMAIN tls[t].pages : tls[t].pages[k] \in Pages
    BY <2>1 DEF Arrays
  <2>4. Holds(t) = {tls[t].pages[k] : k \in DOMAIN tls[t].pages}
    BY <1>2 DEF Holds, Range
  <2> QED BY <1>2, <2>1, <2>2, <2>3, <2>4
<1> QED BY <1>1, <1>2

LEMMA HeldIsMapped ==
  ASSUME Inv, NEW t \in Threads
  PROVE  Holds(t) \subseteq mapped \ lost
  BY DEF Inv, SharingInv, MappedIsHeld

LEMMA SharersFinite ==
  ASSUME NEW p
  PROVE  IsFiniteSet(Sharers(p)) /\ Cardinality(Sharers(p)) \in Nat
<1>1. IsFiniteSet(Sharers(p))
  BY TLSAssumption, FS_Subset DEF Sharers
<1> QED BY <1>1, FS_CardinalityType

(* Two sharers make the count at least two.                                *)
LEMMA OneSharer ==
  ASSUME Inv, NEW p \in mapped \ lost, NEW t \in Sharers(p), NEW u \in Sharers(p), t # u
  PROVE  ref_count[p] > 1
<1>1. IsFiniteSet({t, u}) /\ Cardinality({t, u}) = 2
  <2>1. IsFiniteSet({t}) /\ Cardinality({t}) = 1
    BY FS_Singleton
  <2>2. {t, u} = {t} \cup {u} /\ u \notin {t}
    OBVIOUS
  <2>3. Cardinality({t} \cup {u}) = Cardinality({t}) + 1 /\ IsFiniteSet({t} \cup {u})
    BY <2>1, <2>2, FS_AddElement
  <2> QED BY <2>1, <2>2, <2>3
<1>2. Cardinality({t, u}) <= Cardinality(Sharers(p))
  BY SharersFinite, FS_Subset
<1>3. ref_count[p] = Cardinality(Sharers(p))
  BY DEF Inv, SharingInv, RefCountsExact, Sharers
<1> QED BY <1>1, <1>2, <1>3, SharersFinite

LEMMA InitInv == Init => Inv
<1> SUFFICES ASSUME Init PROVE Inv
  OBVIOUS
<1>1. MemType
  <2>1. Blank \in [Offsets -> Bytes]
    BY TLSAssumption DEF Blank
  <2> QED BY <2>1 DEF Init, MemType
<1>2. \A t \in Threads : ~Has(t) /\ Holds(t) = {}
  BY DEF Init, Has, Holds
<1>3. SharingInv
  BY <1>2 DEF SharingInv, OnePlace, MappedIsHeld, RefCountsExact, Init
<1> QED BY <1>1, <1>3 DEF Inv

-----------------------------------------------------------------------------
LEMMA FreshPages ==
  ASSUME NEW S, NEW f \in Fresh(S)
  PROVE  /\ f \in [S -> Pages \ mapped]
         /\ \A k, l \in S : f[k] = f[l] => k = l
         /\ Range(f) = {f[k] : k \in S}
         /\ Range(f) \subseteq Pages \ mapped
<1>1. f \in [S -> Pages \ mapped] /\ IsInjective(f)
  BY DEF Fresh, Injection
<1>2. \A k, l \in S : f[k] = f[l] => k = l
  BY <1>1 DEF IsInjective
<1>3. Range(f) = {f[k] : k \in S}
  BY <1>1 DEF Range
<1> QED BY <1>1, <1>2, <1>3

(* A thread whose node does not change holds what it held.                 *)
LEMMA SameNode ==
  ASSUME NEW u \in Threads, tls'[u] = tls[u]
  PROVE  Has(u)' = Has(u) /\ Holds(u)' = Holds(u)
  BY DEF Has, Holds

LEMMA CreateInv ==
  ASSUME Inv, NEW t \in Threads, NEW n \in Sizes, tls_create(t, n)
  PROVE  Inv'
<1> DEFINE S == 0..(PageCount(n) - 1)
<1> HIDE DEF S
<1>1. PICK pages \in Fresh(S) :
        /\ tls' = [tls EXCEPT ![t] = [size |-> n, pages |-> pages]]
        /\ mapped' = mapped \cup Range(pages)
        /\ ref_count' = [p \in Pages |-> IF p \in Range(pages) THEN 1 ELSE ref_count[p]]
        /\ bytes' = [p \in Pages |-> IF p \in Range(pages) THEN Blank ELSE bytes[p]]
  BY DEF tls_create, S
<1>2. /\ pages \in [S -> Pages \ mapped]
      /\ \A k, l \in S : pages[k] = pages[l] => k = l
      /\ Range(pages) = {pages[k] : k \in S}
      /\ Range(pages) \subseteq Pages \ mapped
  BY FreshPages
<1>3. ~Has(t) /\ lost' = lost /\ Holds(t) = {}
  BY DEF tls_create, Holds
<1>4. pages \in Arrays(n)
  BY <1>2 DEF Arrays, S
<1>5. /\ tls'[t] = [size |-> n, pages |-> pages] /\ Has(t)'
      /\ tls'[t].pages = pages /\ DOMAIN pages = S
      /\ Holds(t)' = Range(pages)
  <2>1. tls'[t] = [size |-> n, pages |-> pages]
    BY <1>1 DEF Inv, MemType
  <2>2. Has(t)'
    BY <2>1, <1>4, NodeIsSome DEF Has
  <2> QED BY <2>1, <2>2, <1>2 DEF Holds
<1>6. \A u \in Threads \ {t} : tls'[u] = tls[u] /\ Has(u)' = Has(u) /\ Holds(u)' = Holds(u)
  <2>1. \A u \in Threads \ {t} : tls'[u] = tls[u]
    BY <1>1 DEF Inv, MemType
  <2> QED BY <2>1, SameNode
<1>7. MemType'
  <2>1. tls' \in [Threads -> Nodes \cup {None}]
    <3>1. [size |-> n, pages |-> pages] \in Nodes
      BY <1>4 DEF Nodes
    <3> QED BY <3>1, <1>1 DEF Inv, MemType
  <2>2. Blank \in [Offsets -> Bytes]
    BY TLSAssumption DEF Blank
  <2>3. bytes' \in [Pages -> [Offsets -> Bytes]]
    BY <1>1, <2>2 DEF Inv, MemType
  <2>4. ref_count' \in [Pages -> Nat]
    BY <1>1 DEF Inv, MemType
  <2>5. mapped' \subseteq Pages /\ lost' \subseteq Pages
    BY <1>1, <1>2, <1>3 DEF Inv, MemType
  <2> QED BY <2>1, <2>3, <2>4, <2>5 DEF MemType
<1>8. OnePlace'
  <2> SUFFICES ASSUME NEW v \in Threads, NEW u \in Threads, Has(v)', Has(u)',
                      NEW k \in DOMAIN tls'[v].pages, NEW l \in DOMAIN tls'[u].pages,
                      tls'[v].pages[k] = tls'[u].pages[l]
               PROVE  k = l
    BY DEF OnePlace
  <2>1. \A w \in Threads \ {t} : Has(w) =>
          \A m \in DOMAIN tls[w].pages : tls[w].pages[m] \in mapped
    BY HeldIsMapped, HoldsType DEF Inv
  <2>2. \A m \in S : pages[m] \notin mapped
    BY <1>2
  <2>3. CASE v = t /\ u = t
    BY <2>3, <1>5, <1>2
  <2>4. CASE v = t /\ u # t
    BY <2>4, <1>5, <1>6, <2>1, <2>2
  <2>5. CASE v # t /\ u = t
    BY <2>5, <1>5, <1>6, <2>1, <2>2
  <2>6. CASE v # t /\ u # t
    BY <2>6, <1>6 DEF Inv, SharingInv, OnePlace
  <2> QED BY <2>3, <2>4, <2>5, <2>6
<1>9. lost' \subseteq mapped' /\ MappedIsHeld'
  <2>1. lost \subseteq mapped /\ mapped \ lost = UNION {Holds(u) : u \in Threads}
    BY DEF Inv, SharingInv, MappedIsHeld
  <2>2. \A p : (\E u \in Threads : p \in Holds(u)') <=>
               (\E u \in Threads : p \in Holds(u)) \/ p \in Range(pages)
    BY <1>3, <1>5, <1>6
  <2>3. mapped' \ lost' = (mapped \ lost) \cup Range(pages)
    BY <1>1, <1>2, <1>3, <2>1
  <2>4. \A p : p \in mapped' \ lost' <=> \E u \in Threads : p \in Holds(u)'
    BY <2>1, <2>2, <2>3
  <2>5. MappedIsHeld'
    BY <2>4 DEF MappedIsHeld
  <2> QED BY <1>1, <1>3, <2>1, <2>5
<1>10. RefCountsExact'
  <2> SUFFICES ASSUME NEW p \in mapped' \ lost'
               PROVE  ref_count'[p] = Cardinality({u \in Threads : p \in Holds(u)'})
    BY DEF RefCountsExact
  <2>0. p \in Pages
    BY <1>7 DEF MemType
  <2>1. CASE p \in Range(pages)
    <3>1. \A u \in Threads \ {t} : p \notin Holds(u)
      BY <2>1, <1>2, HeldIsMapped
    <3>2. {u \in Threads : p \in Holds(u)'} = {t}
      BY <3>1, <2>1, <1>5, <1>6
    <3> QED BY <3>2, <2>0, <2>1, <1>1, FS_Singleton
  <2>2. CASE p \notin Range(pages)
    <3>1. {u \in Threads : p \in Holds(u)'} = {u \in Threads : p \in Holds(u)}
      BY <2>2, <1>3, <1>5, <1>6
    <3>2. p \in mapped \ lost /\ ref_count'[p] = ref_count[p]
      BY <2>0, <2>2, <1>1, <1>3
    <3> QED BY <3>1, <3>2 DEF Inv, SharingInv, RefCountsExact
  <2> QED BY <2>1, <2>2
<1> QED BY <1>7, <1>8, <1>9, <1>10 DEF Inv, SharingInv

LEMMA NoMemoryInv ==
  ASSUME Inv, NEW t \in Threads, NEW n \in Sizes, tls_create_NoMemory(t, n)
  PROVE  Inv'
<1>1. PICK i \in 0..(PageCount(n) - 1) : \E pages \in Fresh(0..(i - 1)) :
        /\ mapped' = mapped \cup Range(pages)
        /\ ref_count' = [p \in Pages |-> IF p \in Range(pages) THEN 1 ELSE ref_count[p]]
        /\ bytes' = [p \in Pages |-> IF p \in Range(pages) THEN Blank ELSE bytes[p]]
        /\ lost' = lost \cup Range(pages)
  BY DEF tls_create_NoMemory
<1> DEFINE S == 0..(i - 1)
<1> HIDE DEF S
<1>2. PICK pages \in Fresh(S) :
        /\ mapped' = mapped \cup Range(pages)
        /\ ref_count' = [p \in Pages |-> IF p \in Range(pages) THEN 1 ELSE ref_count[p]]
        /\ bytes' = [p \in Pages |-> IF p \in Range(pages) THEN Blank ELSE bytes[p]]
        /\ lost' = lost \cup Range(pages)
  BY <1>1 DEF S
<1>3. Range(pages) \subseteq Pages \ mapped
  BY FreshPages
<1>4. tls' = tls /\ \A u \in Threads : Has(u)' = Has(u) /\ Holds(u)' = Holds(u)
  BY DEF tls_create_NoMemory, Has, Holds
<1>5. MemType'
  <2>1. Blank \in [Offsets -> Bytes]
    BY TLSAssumption DEF Blank
  <2>2. bytes' \in [Pages -> [Offsets -> Bytes]]
    BY <1>2, <2>1 DEF Inv, MemType
  <2>3. ref_count' \in [Pages -> Nat]
    BY <1>2 DEF Inv, MemType
  <2>4. mapped' \subseteq Pages /\ lost' \subseteq Pages
    BY <1>2, <1>3 DEF Inv, MemType
  <2> QED BY <1>4, <2>2, <2>3, <2>4 DEF Inv, MemType
<1>6. mapped' \ lost' = mapped \ lost /\ lost' \subseteq mapped'
  BY <1>2, <1>3 DEF Inv, SharingInv
<1>7. OnePlace' /\ MappedIsHeld'
  BY <1>4, <1>6 DEF Inv, SharingInv, OnePlace, MappedIsHeld
<1>8. RefCountsExact'
  <2> SUFFICES ASSUME NEW p \in mapped \ lost
               PROVE  ref_count'[p] = Cardinality({u \in Threads : p \in Holds(u)'})
    BY <1>6 DEF RefCountsExact
  <2>1. p \in Pages /\ p \notin Range(pages)
    BY <1>3 DEF Inv, MemType
  <2>2. ref_count'[p] = ref_count[p]
    BY <2>1, <1>2
  <2>3. {u \in Threads : p \in Holds(u)'} = {u \in Threads : p \in Holds(u)}
    BY <1>4
  <2> QED BY <2>2, <2>3 DEF Inv, SharingInv, RefCountsExact
<1> QED BY <1>5, <1>6, <1>7, <1>8 DEF Inv, SharingInv

(* One sharer less, and one more.                                          *)
LEMMA FewerSharers ==
  ASSUME NEW p, NEW t \in Sharers(p)
  PROVE  Cardinality(Sharers(p) \ {t}) = Cardinality(Sharers(p)) - 1
  BY SharersFinite, FS_RemoveElement

LEMMA MoreSharers ==
  ASSUME NEW p, NEW t, t \notin Sharers(p)
  PROVE  Cardinality(Sharers(p) \cup {t}) = Cardinality(Sharers(p)) + 1
  BY SharersFinite, FS_AddElement

LEMMA CloneInv ==
  ASSUME Inv, NEW t \in Threads, NEW u \in Threads, tls_clone(t, u)
  PROVE  Inv'
<1>1. /\ ~Has(t) /\ Has(u) /\ Holds(t) = {}
      /\ tls' = [tls EXCEPT ![t] = tls[u]]
      /\ ref_count' = [p \in Pages |-> IF p \in Holds(u) THEN ref_count[p] + 1 ELSE ref_count[p]]
      /\ mapped' = mapped /\ bytes' = bytes /\ lost' = lost
  BY DEF tls_clone, Holds
<1>2. tls'[t] = tls[u] /\ Has(t)' /\ Holds(t)' = Holds(u)
  BY <1>1 DEF Inv, MemType, Has, Holds
<1>3. \A v \in Threads \ {t} : tls'[v] = tls[v] /\ Has(v)' = Has(v) /\ Holds(v)' = Holds(v)
  <2>1. \A v \in Threads \ {t} : tls'[v] = tls[v]
    BY <1>1 DEF Inv, MemType
  <2> QED BY <2>1, SameNode
<1>4. MemType'
  <2>1. ref_count' \in [Pages -> Nat]
    BY <1>1 DEF Inv, MemType
  <2> QED BY <2>1, <1>1 DEF Inv, MemType
<1>5. OnePlace'
  <2> SUFFICES ASSUME NEW v \in Threads, NEW w \in Threads, Has(v)', Has(w)',
                      NEW k \in DOMAIN tls'[v].pages, NEW l \in DOMAIN tls'[w].pages,
                      tls'[v].pages[k] = tls'[w].pages[l]
               PROVE  k = l
    BY DEF OnePlace
  <2> DEFINE From(x) == IF x = t THEN u ELSE x
  <2>1. /\ From(v) \in Threads /\ From(w) \in Threads
        /\ Has(From(v)) /\ Has(From(w))
        /\ tls'[v] = tls[From(v)] /\ tls'[w] = tls[From(w)]
    BY <1>1, <1>2, <1>3
  <2> HIDE DEF From
  <2> QED BY <2>1 DEF Inv, SharingInv, OnePlace
<1>6. lost' \subseteq mapped' /\ MappedIsHeld'
  <2>1. \A p : (\E v \in Threads : p \in Holds(v)') <=> \E v \in Threads : p \in Holds(v)
    BY <1>1, <1>2, <1>3
  <2>2. \A p : p \in mapped' \ lost' <=> \E v \in Threads : p \in Holds(v)'
    BY <2>1, <1>1 DEF Inv, SharingInv, MappedIsHeld
  <2>3. MappedIsHeld'
    BY <2>2 DEF MappedIsHeld
  <2> QED BY <2>3, <1>1 DEF Inv, SharingInv
<1>7. RefCountsExact'
  <2> SUFFICES ASSUME NEW p \in mapped \ lost
               PROVE  ref_count'[p] = Cardinality({v \in Threads : p \in Holds(v)'})
    BY <1>1 DEF RefCountsExact
  <2>1. p \in Pages /\ ref_count[p] = Cardinality(Sharers(p)) /\ t \notin Sharers(p)
    BY <1>1 DEF Inv, MemType, SharingInv, RefCountsExact, Sharers
  <2>2. CASE p \in Holds(u)
    <3>1. {v \in Threads : p \in Holds(v)'} = Sharers(p) \cup {t}
      BY <2>2, <1>2, <1>3 DEF Sharers
    <3> QED BY <3>1, <2>1, <2>2, <1>1, MoreSharers
  <2>3. CASE p \notin Holds(u)
    <3>1. {v \in Threads : p \in Holds(v)'} = Sharers(p)
      BY <2>3, <1>1, <1>2, <1>3 DEF Sharers
    <3> QED BY <3>1, <2>1, <2>3, <1>1
  <2> QED BY <2>2, <2>3
<1> QED BY <1>4, <1>5, <1>6, <1>7 DEF Inv, SharingInv

LEMMA DestroyInv ==
  ASSUME Inv, NEW t \in Threads, tls_destroy(t)
  PROVE  Inv'
<1>1. /\ Has(t)
      /\ tls' = [tls EXCEPT ![t] = None]
      /\ ref_count' = [p \in Pages |-> IF p \in Holds(t) THEN ref_count[p] - 1 ELSE ref_count[p]]
      /\ mapped' = mapped \ {p \in Holds(t) : ref_count[p] = 1}
      /\ bytes' = bytes /\ lost' = lost
  BY DEF tls_destroy
<1>2. tls'[t] = None /\ ~Has(t)' /\ Holds(t)' = {}
  BY <1>1 DEF Inv, MemType, Has, Holds
<1>3. \A v \in Threads \ {t} : tls'[v] = tls[v] /\ Has(v)' = Has(v) /\ Holds(v)' = Holds(v)
  <2>1. \A v \in Threads \ {t} : tls'[v] = tls[v]
    BY <1>1 DEF Inv, MemType
  <2> QED BY <2>1, SameNode
<1>4. \A p \in mapped \ lost :
        /\ p \in Pages /\ ref_count[p] = Cardinality(Sharers(p))
        /\ p \in Holds(t) => t \in Sharers(p)
        /\ {v \in Threads : p \in Holds(v)'} = Sharers(p) \ {t}
  <2> TAKE p \in mapped \ lost
  <2>1. p \in Pages /\ ref_count[p] = Cardinality(Sharers(p))
    BY DEF Inv, MemType, SharingInv, RefCountsExact, Sharers
  <2>2. p \in Holds(t) => t \in Sharers(p)
    BY DEF Sharers
  <2>3. \A v \in Threads : p \in Holds(v)' <=> v # t /\ p \in Holds(v)
    BY <1>2, <1>3
  <2>4. {v \in Threads : p \in Holds(v)'} = Sharers(p) \ {t}
    BY <2>3 DEF Sharers
  <2> QED BY <2>1, <2>2, <2>4
<1>5. Holds(t) \subseteq mapped \ lost
  BY HeldIsMapped
<1>6. \A p \in Holds(t) :
        /\ ref_count[p] \in Nat \ {0}
        /\ ref_count[p] = 1 <=> Sharers(p) \ {t} = {}
  <2> TAKE p \in Holds(t)
  <2>1. ref_count[p] = Cardinality(Sharers(p)) /\ t \in Sharers(p) /\ p \in Pages
    BY <1>4, <1>5
  <2>2. IsFiniteSet(Sharers(p) \ {t}) /\ Cardinality(Sharers(p) \ {t}) \in Nat
    BY SharersFinite, FS_RemoveElement, FS_CardinalityType
  <2>3. Cardinality(Sharers(p) \ {t}) = Cardinality(Sharers(p)) - 1
    BY <2>1, FewerSharers
  <2>4. Cardinality(Sharers(p) \ {t}) = 0 <=> Sharers(p) \ {t} = {}
    BY <2>2, FS_EmptySet
  <2> QED BY <2>1, <2>2, <2>3, <2>4, SharersFinite
<1>7. MemType'
  <2>0. \A p \in Holds(t) : ref_count[p] - 1 \in Nat
    BY <1>6
  <2>1. ref_count' \in [Pages -> Nat]
    BY <1>1, <2>0 DEF Inv, MemType
  <2> QED BY <2>1, <1>1 DEF Inv, MemType
<1>8. OnePlace'
  BY <1>2, <1>3 DEF Inv, SharingInv, OnePlace
<1>9. lost' \subseteq mapped' /\ MappedIsHeld'
  <2>1. \A p : p \in mapped' \ lost' <=>
               p \in mapped \ lost /\ (p \in Holds(t) => Sharers(p) \ {t} # {})
    BY <1>1, <1>5, <1>6
  <2>2. \A p : p \in mapped \ lost <=> \E v \in Threads : p \in Holds(v)
    BY DEF Inv, SharingInv, MappedIsHeld
  <2>3. \A p : (\E v \in Threads : p \in Holds(v)') <=> \E v \in Threads \ {t} : p \in Holds(v)
    BY <1>2, <1>3
  <2>4. \A p : p \in mapped' \ lost' <=> \E v \in Threads : p \in Holds(v)'
    BY <2>1, <2>2, <2>3 DEF Sharers
  <2>5. MappedIsHeld'
    BY <2>4 DEF MappedIsHeld
  <2>6. lost' \subseteq mapped'
    BY <1>1, <1>5 DEF Inv, SharingInv
  <2> QED BY <2>5, <2>6
<1>10. RefCountsExact'
  <2> SUFFICES ASSUME NEW p \in mapped' \ lost'
               PROVE  ref_count'[p] = Cardinality({v \in Threads : p \in Holds(v)'})
    BY DEF RefCountsExact
  <2>1. p \in mapped \ lost
    BY <1>1
  <2>2. CASE p \in Holds(t)
    <3>1. ref_count'[p] = ref_count[p] - 1
      BY <1>1, <1>4, <2>1, <2>2
    <3> QED BY <3>1, <2>1, <2>2, <1>4, FewerSharers
  <2>3. CASE p \notin Holds(t)
    <3>1. ref_count'[p] = ref_count[p] /\ t \notin Sharers(p)
      BY <1>1, <1>4, <2>1, <2>3 DEF Sharers
    <3>2. Sharers(p) \ {t} = Sharers(p)
      BY <3>1
    <3> QED BY <3>1, <3>2, <2>1, <1>4
  <2> QED BY <2>2, <2>3
<1> QED BY <1>7, <1>8, <1>9, <1>10 DEF Inv, SharingInv

-----------------------------------------------------------------------------
(* tls_write.                                                              *)
LEMMA PositionsType ==
  ASSUME NEW r \in Ranges
  PROVE  /\ r.offset \in Nat /\ r.length \in Nat /\ Stop(r) \in Nat
         /\ Positions(r) \subseteq Nat
         /\ \A i \in Positions(r) : i - r.offset \in 0..(r.length - 1)
         /\ \A i \in Positions(r) : i \div PageSize \in Touched(r)
<1>1. r.offset \in Nat /\ r.length \in Nat /\ Word \in Nat /\ Word > 0
  BY TLSAssumption
<1>2. Stop(r) \in Nat /\ Stop(r) <= r.offset + r.length
  BY <1>1 DEF Stop
<1> QED BY <1>1, <1>2 DEF Positions, Touched

LEMMA WritePages ==
  ASSUME Inv, NEW t \in Threads, NEW r \in Ranges, NEW copy \in Fresh(Shared(t, r)),
         Has(t), Touched(r) \subseteq DOMAIN tls[t].pages,
         NEW pages, pages = NewPages(t, r, copy)
  PROVE  /\ pages \in Arrays(tls[t].size) /\ DOMAIN pages = DOMAIN tls[t].pages
         /\ \A k \in Shared(t, r) : pages[k] = copy[k] /\ pages[k] \in Range(copy)
         /\ \A k \in DOMAIN pages \ Shared(t, r) : pages[k] = tls[t].pages[k]
         /\ \A k, l \in DOMAIN pages : pages[k] = pages[l] => k = l
         /\ Range(copy) = {copy[k] : k \in Shared(t, r)}
         /\ Range(copy) \subseteq Pages \ mapped
         /\ Shared(t, r) \subseteq Touched(r)
<1> DEFINE S == Shared(t, r)
           old == tls[t].pages
<1>1. /\ copy \in [S -> Pages \ mapped]
      /\ \A k, l \in S : copy[k] = copy[l] => k = l
      /\ Range(copy) = {copy[k] : k \in S}
      /\ Range(copy) \subseteq Pages \ mapped
  BY FreshPages
<1>2. S \subseteq Touched(r)
  BY DEF Shared
<1>3. old \in Arrays(tls[t].size) /\ tls[t].size \in Sizes
  BY NodeType DEF Inv
<1>4. \A k \in DOMAIN old : old[k] \in mapped
  BY HeldIsMapped, HoldsType DEF Inv
<1>5. \A k, l \in DOMAIN old : old[k] = old[l] => k = l
  BY DEF Inv, SharingInv, OnePlace
<1>6. /\ DOMAIN pages = DOMAIN old
      /\ \A k \in S : pages[k] = copy[k]
      /\ \A k \in DOMAIN pages \ S : pages[k] = old[k]
  BY <1>2 DEF NewPages
<1>7. pages \in Arrays(tls[t].size)
  BY <1>1, <1>3, <1>6 DEF Arrays, NewPages
<1>8. \A k, l \in DOMAIN pages : pages[k] = pages[l] => k = l
  <2> HIDE DEF S, old
  <2> TAKE k, l \in DOMAIN pages
  <2>1. \A m \in S : pages[m] \notin mapped
    BY <1>1, <1>6
  <2>2. \A m \in DOMAIN pages \ S : pages[m] \in mapped
    BY <1>4, <1>6
  <2>3. CASE k \in S /\ l \in S
    BY <2>3, <1>1, <1>6
  <2>4. CASE k \notin S /\ l \notin S
    BY <2>4, <1>5, <1>6
  <2> QED BY <2>1, <2>2, <2>3, <2>4
<1> QED BY <1>1, <1>2, <1>6, <1>7, <1>8

LEMMA WriteInv ==
  ASSUME Inv, NEW t \in Threads, NEW r \in Ranges, NEW buffer \in Buffers(r),
         tls_write(t, r, buffer)
  PROVE  Inv'
<1> DEFINE S == Shared(t, r)
           old == tls[t].pages
<1>1. Has(t) /\ Touched(r) \subseteq DOMAIN old /\ lost' = lost
  BY DEF tls_write, InBounds
<1>2. PICK copy \in Fresh(S) :
        LET pages    == NewPages(t, r, copy)
            index(p) == CHOOSE k \in Touched(r) : pages[k] = p
        IN  /\ tls' = [tls EXCEPT ![t] = [size |-> tls[t].size, pages |-> pages]]
            /\ mapped' = mapped \cup Range(copy)
            /\ ref_count' = [p \in Pages |-> IF p \in Range(copy) THEN 1
                                             ELSE IF p \in Left(t, r) THEN ref_count[p] - 1
                                             ELSE ref_count[p]]
            /\ bytes' = [p \in Pages |-> IF \E k \in Touched(r) : pages[k] = p
                                         THEN Written(t, r, buffer, index(p)) ELSE bytes[p]]
  BY DEF tls_write
<1> DEFINE pages == NewPages(t, r, copy)
           index(p) == CHOOSE k \in Touched(r) : pages[k] = p
<1>3. /\ tls' = [tls EXCEPT ![t] = [size |-> tls[t].size, pages |-> pages]]
      /\ mapped' = mapped \cup Range(copy)
      /\ ref_count' = [p \in Pages |-> IF p \in Range(copy) THEN 1
                                       ELSE IF p \in Left(t, r) THEN ref_count[p] - 1
                                       ELSE ref_count[p]]
      /\ bytes' = [p \in Pages |-> IF \E k \in Touched(r) : pages[k] = p
                                   THEN Written(t, r, buffer, index(p)) ELSE bytes[p]]
  BY <1>2
<1> HIDE DEF pages, index
<1>4. /\ pages \in Arrays(tls[t].size) /\ DOMAIN pages = DOMAIN old
      /\ \A k \in S : pages[k] = copy[k] /\ pages[k] \in Range(copy)
      /\ \A k \in DOMAIN pages \ S : pages[k] = old[k]
      /\ \A k, l \in DOMAIN pages : pages[k] = pages[l] => k = l
      /\ Range(copy) = {copy[k] : k \in S}
      /\ Range(copy) \subseteq Pages \ mapped
      /\ S \subseteq Touched(r)
  BY <1>1, WritePages DEF pages
<1>5. tls[t].size \in Sizes
  BY <1>1, NodeType DEF Inv
<1>6. /\ tls'[t] = [size |-> tls[t].size, pages |-> pages]
      /\ Has(t)' /\ tls'[t].pages = pages
  <2>1. tls'[t] = [size |-> tls[t].size, pages |-> pages]
    BY <1>3 DEF Inv, MemType
  <2>2. Has(t)'
    BY <2>1, <1>4, <1>5, NodeIsSome DEF Has
  <2> QED BY <2>1, <2>2
<1>7. \A v \in Threads \ {t} : tls'[v] = tls[v] /\ Has(v)' = Has(v) /\ Holds(v)' = Holds(v)
  <2>1. \A v \in Threads \ {t} : tls'[v] = tls[v]
    BY <1>3 DEF Inv, MemType
  <2> QED BY <2>1, SameNode
<1>8. \A k \in DOMAIN old : old[k] \in Holds(t) /\ old[k] \in mapped \ lost
  BY <1>1, HoldsType, HeldIsMapped DEF Inv
<1>9. \A p : p \in Holds(t)' <=> p \in Holds(t) \ Left(t, r) \/ p \in Range(copy)
  <2>1. \A p : p \in Holds(t)' <=> \E k \in DOMAIN pages : pages[k] = p
    BY <1>6 DEF Holds, Range
  <2>2. \A p : p \in Holds(t) <=> \E k \in DOMAIN old : old[k] = p
    BY <1>1 DEF Holds, Range
  <2>3. \A k, l \in DOMAIN old : old[k] = old[l] => k = l
    BY <1>1 DEF Inv, SharingInv, OnePlace
  <2>4. \A p : p \in Left(t, r) <=> \E k \in S : old[k] = p
    BY DEF Left
  <2>5. S \subseteq DOMAIN old
    BY <1>1, <1>4
  <2> HIDE DEF S, old
  <2> QED BY <2>1, <2>2, <2>3, <2>4, <2>5, <1>4
<1>10. \A p \in Left(t, r) : p \in Holds(t) /\ p \in mapped \ lost /\ ref_count[p] > 1
  BY <1>1, <1>4, <1>8 DEF Left, Shared
<1>11. MemType'
  <2>1. tls' \in [Threads -> Nodes \cup {None}]
    <3>1. [size |-> tls[t].size, pages |-> pages] \in Nodes
      BY <1>4, <1>5 DEF Nodes
    <3> QED BY <3>1, <1>3 DEF Inv, MemType
  <2>2. mapped' \subseteq Pages /\ lost' \subseteq Pages
    BY <1>1, <1>3, <1>4 DEF Inv, MemType
  <2>3. ref_count' \in [Pages -> Nat]
    <3>1. \A p \in Left(t, r) : ref_count[p] - 1 \in Nat
      BY <1>10 DEF Inv, MemType
    <3> QED BY <3>1, <1>3 DEF Inv, MemType
  <2>4. bytes' \in [Pages -> [Offsets -> Bytes]]
    <3>1. \A k \in Touched(r) : Written(t, r, buffer, k) \in [Offsets -> Bytes]
      <4> TAKE k \in Touched(r)
      <4>1. bytes[old[k]] \in [Offsets -> Bytes]
        BY <1>1, <1>8 DEF Inv, MemType
      <4>2. \A i \in Positions(r) : buffer[i - r.offset] \in Bytes
        BY PositionsType DEF Buffers
      <4> QED BY <4>1, <4>2 DEF Written
    <3>2. \A p : (\E k \in Touched(r) : pages[k] = p) => index(p) \in Touched(r)
      BY DEF index
    <3> QED BY <3>1, <3>2, <1>3 DEF Inv, MemType
  <2> QED BY <2>1, <2>2, <2>3, <2>4 DEF MemType
<1>12. OnePlace'
  <2> SUFFICES ASSUME NEW v \in Threads, NEW u \in Threads, Has(v)', Has(u)',
                      NEW k \in DOMAIN tls'[v].pages, NEW l \in DOMAIN tls'[u].pages,
                      tls'[v].pages[k] = tls'[u].pages[l]
               PROVE  k = l
    BY DEF OnePlace
  <2>1. \A w \in Threads \ {t} : Has(w) =>
          \A m \in DOMAIN tls[w].pages : tls[w].pages[m] \in mapped
    BY HeldIsMapped, HoldsType DEF Inv
  <2>2. \A m \in DOMAIN pages : pages[m] \in mapped => m \in DOMAIN old /\ pages[m] = old[m]
    BY <1>4
  <2>3. CASE v = t /\ u = t
    BY <2>3, <1>6, <1>4
  <2>4. CASE v = t /\ u # t
    BY <2>4, <1>1, <1>6, <1>7, <2>1, <2>2 DEF Inv, SharingInv, OnePlace
  <2>5. CASE v # t /\ u = t
    BY <2>5, <1>1, <1>6, <1>7, <2>1, <2>2 DEF Inv, SharingInv, OnePlace
  <2>6. CASE v # t /\ u # t
    BY <2>6, <1>7 DEF Inv, SharingInv, OnePlace
  <2> QED BY <2>3, <2>4, <2>5, <2>6
<1>13. \A p \in mapped \ lost :
         /\ p \in Pages /\ p \notin Range(copy)
         /\ ref_count[p] = Cardinality(Sharers(p))
         /\ p \in Holds(t) => t \in Sharers(p)
  BY <1>4 DEF Inv, MemType, SharingInv, RefCountsExact, Sharers
<1>14. lost' \subseteq mapped' /\ MappedIsHeld'
  <2>1. \A p \in Left(t, r) : \E v \in Threads \ {t} : p \in Holds(v)
    <3> TAKE p \in Left(t, r)
    <3>1. Cardinality(Sharers(p) \ {t}) = ref_count[p] - 1 /\ ref_count[p] > 1 /\ ref_count[p] \in Nat
      BY <1>10, <1>13, FewerSharers DEF Inv, MemType
    <3>2. IsFiniteSet(Sharers(p) \ {t})
      BY SharersFinite, FS_RemoveElement
    <3>3. Sharers(p) \ {t} # {}
      BY <3>1, <3>2, FS_EmptySet
    <3> QED BY <3>3 DEF Sharers
  <2>2. \A p : p \in mapped \ lost <=> \E v \in Threads : p \in Holds(v)
    BY DEF Inv, SharingInv, MappedIsHeld
  <2>3. \A p : (\E v \in Threads : p \in Holds(v)') <=>
               p \in Range(copy) \/ (\E v \in Threads : p \in Holds(v))
    BY <1>7, <1>9, <2>1
  <2>4. \A p : p \in mapped' \ lost' <=> p \in mapped \ lost \/ p \in Range(copy)
    BY <1>1, <1>3, <1>4 DEF Inv, SharingInv
  <2>5. \A p : p \in mapped' \ lost' <=> \E v \in Threads : p \in Holds(v)'
    BY <2>2, <2>3, <2>4
  <2>6. MappedIsHeld'
    BY <2>5 DEF MappedIsHeld
  <2> QED BY <2>6, <1>1, <1>3 DEF Inv, SharingInv
<1>15. RefCountsExact'
  <2> SUFFICES ASSUME NEW p \in mapped' \ lost'
               PROVE  ref_count'[p] = Cardinality({v \in Threads : p \in Holds(v)'})
    BY DEF RefCountsExact
  <2>0. p \in Pages
    BY <1>11 DEF MemType
  <2>1. CASE p \in Range(copy)
    <3>1. \A v \in Threads \ {t} : p \notin Holds(v)
      BY <2>1, <1>4, HeldIsMapped
    <3>2. {v \in Threads : p \in Holds(v)'} = {t}
      BY <3>1, <2>1, <1>7, <1>9
    <3> QED BY <3>2, <2>0, <2>1, <1>3, FS_Singleton
  <2>2. CASE p \in Left(t, r)
    <3>1. \A v \in Threads : p \in Holds(v)' <=> v # t /\ p \in Holds(v)
      BY <2>2, <1>7, <1>9, <1>10, <1>13
    <3>2. {v \in Threads : p \in Holds(v)'} = Sharers(p) \ {t}
      BY <3>1 DEF Sharers
    <3>3. ref_count'[p] = ref_count[p] - 1
      BY <2>0, <2>2, <1>3, <1>10, <1>13
    <3> QED BY <3>2, <3>3, <2>2, <1>10, <1>13, FewerSharers
  <2>3. CASE p \notin Range(copy) /\ p \notin Left(t, r)
    <3>1. p \in mapped \ lost /\ ref_count'[p] = ref_count[p]
      BY <2>0, <2>3, <1>1, <1>3
    <3>2. \A v \in Threads : p \in Holds(v)' <=> p \in Holds(v)
      BY <2>3, <1>7, <1>9
    <3>3. {v \in Threads : p \in Holds(v)'} = {v \in Threads : p \in Holds(v)}
      BY <3>2
    <3> QED BY <3>1, <3>3 DEF Inv, SharingInv, RefCountsExact
  <2> QED BY <2>1, <2>2, <2>3
<1> QED BY <1>11, <1>12, <1>14, <1>15 DEF Inv, SharingInv

-----------------------------------------------------------------------------
(* Calls that leave the memory alone.                                      *)
LEMMA QuietInv ==
  ASSUME Inv, UNCHANGED <<tls, memVars>>
  PROVE  Inv'
<1>1. MemType'
  BY DEF Inv, MemType, memVars
<1>2. \A u \in Threads : Has(u)' = Has(u) /\ Holds(u)' = Holds(u)
  BY SameNode
<1>3. OnePlace'
  BY <1>2 DEF Inv, SharingInv, OnePlace
<1>4. lost' \subseteq mapped' /\ MappedIsHeld' /\ RefCountsExact'
  BY <1>2 DEF Inv, SharingInv, MappedIsHeld, RefCountsExact, memVars
<1> QED BY <1>1, <1>3, <1>4 DEF Inv, SharingInv

LEMMA InvStep == Inv /\ [Next]_vars => Inv'
<1> SUFFICES ASSUME Inv, [Next]_vars PROVE Inv'
  OBVIOUS
<1>1. CASE UNCHANGED vars
  BY <1>1, QuietInv DEF vars, memVars
<1>2. ASSUME NEW t \in Threads, TlsCall(t) PROVE Inv'
  <2>1. CASE \E n \in Sizes : tls_create(t, n)
    BY <2>1, CreateInv
  <2>2. CASE \E n \in Sizes : tls_create_NoMemory(t, n)
    BY <2>2, NoMemoryInv
  <2>3. CASE \E r \in Ranges : \E buffer \in Buffers(r) : tls_write(t, r, buffer)
    BY <2>3, WriteInv
  <2>4. CASE tls_destroy(t)
    BY <2>4, DestroyInv
  <2>5. CASE \E u \in Threads : tls_clone(t, u)
    BY <2>5, CloneInv
  <2>6. CASE \E r \in Ranges : tls_write_NoMemory(t, r) \/ tls_access_Fault(t, r)
    BY <2>6, QuietInv DEF tls_write_NoMemory, tls_access_Fault
  <2>7. CASE \E r \in Ranges : tls_read(t, r) \/ tls_access_OutOfBounds(t, r)
    BY <2>7, QuietInv DEF tls_read, tls_access_OutOfBounds, Refused
  <2>8. CASE tls_create_Exists(t) \/ tls_destroy_None(t)
    BY <2>8, QuietInv DEF tls_create_Exists, tls_destroy_None, Refused
  <2>9. CASE \E u \in Threads : tls_clone_Refused(t, u)
    BY <2>9, QuietInv DEF tls_clone_Refused, Refused
  <2> QED BY <1>2, <2>1, <2>2, <2>3, <2>4, <2>5, <2>6, <2>7, <2>8, <2>9 DEF TlsCall, Access
<1> QED BY <1>1, <1>2 DEF Next

LEMMA AlwaysInv == Spec => []Inv
  BY InitInv, InvStep, PTL DEF Spec

(* The count in struct page is the number of threads that share the page,  *)
(* whatever they create, clone, write and destroy, and however mmap fails. *)
THEOREM RefCountsExactThm == Spec => []RefCountsExact
<1>1. Inv => RefCountsExact
  BY DEF Inv, SharingInv
<1> QED BY <1>1, AlwaysInv, PTL

(* No page is unmapped while a thread has it, and none stays mapped after  *)
(* its last thread has destroyed its storage.                              *)
THEOREM MappedIsHeldThm == Spec => []MappedIsHeld
<1>1. Inv => MappedIsHeld
  BY DEF Inv, SharingInv
<1> QED BY <1>1, AlwaysInv, PTL

-----------------------------------------------------------------------------
(* Copy-on-write implements private storage, as long as no offset + length *)
(* of a client wraps round.                                                *)
NoWrap == \A r \in Ranges : r.offset + r.length < Word

LEMMA ByteType ==
  ASSUME MemType, NEW t \in Threads, Has(t), NEW i \in Nat
  PROVE  ByteAt(t, i) \in Bytes
<1>1. CASE i \div PageSize \in DOMAIN tls[t].pages
  <2>1. tls[t].pages[i \div PageSize] \in Pages
    BY <1>1, HoldsType
  <2> QED BY <1>1, <2>1, Split DEF ByteAt, MemType
<1>2. CASE i \div PageSize \notin DOMAIN tls[t].pages
  BY <1>2, TLSAssumption DEF ByteAt
<1> QED BY <1>1, <1>2

LEMMA StoreType ==
  ASSUME MemType, NEW t \in Threads
  PROVE  /\ Has(t) => /\ Store[t] \in Contents(tls[t].size)
                      /\ DOMAIN Store[t] = 0..(tls[t].size - 1)
                      /\ \A i \in 0..(tls[t].size - 1) : Store[t][i] = ByteAt(t, i)
         /\ Store[t] = None <=> ~Has(t)
<1>1. CASE Has(t)
  <2>1. Store[t] = [i \in 0..(tls[t].size - 1) |-> ByteAt(t, i)]
    BY <1>1 DEF Store
  <2>2. \A i \in 0..(tls[t].size - 1) : ByteAt(t, i) \in Bytes
    BY <1>1, ByteType
  <2>3. Store[t] \in Contents(tls[t].size)
    BY <2>1, <2>2 DEF Contents
  <2>4. Store[t] # None
    BY <1>1, <2>3, NodeType, NoneAssumption
  <2> QED BY <1>1, <2>1, <2>3, <2>4
<1>2. CASE ~Has(t)
  BY <1>2 DEF Store
<1> QED BY <1>1, <1>2

(* The storage of a thread stays as it is if its node and the memory of    *)
(* its pages do.                                                           *)
LEMMA StoreSame ==
  ASSUME MemType, NEW u \in Threads, tls'[u] = tls[u],
         \A p \in Holds(u) : bytes'[p] = bytes[p]
  PROVE  Store'[u] = Store[u]
<1>1. CASE Has(u)
  <2>1. Has(u)'
    BY <1>1 DEF Has
  <2>2. \A i : ByteAt(u, i)' = ByteAt(u, i)
    BY <1>1, HoldsType DEF ByteAt
  <2> QED BY <1>1, <2>1, <2>2 DEF Store
<1>2. CASE ~Has(u)
  <2>1. ~Has(u)'
    BY <1>2 DEF Has
  <2> QED BY <1>2, <2>1 DEF Store
<1> QED BY <1>1, <1>2

(* A call that gives thread t the contents x and leaves the others alone.  *)
LEMMA StoreUpdate ==
  ASSUME NEW t \in Threads, NEW x, Store'[t] = x,
         \A u \in Threads \ {t} : Store'[u] = Store[u]
  PROVE  Store' = [Store EXCEPT ![t] = x]
  BY DEF Store

LEMMA StoreQuiet ==
  ASSUME UNCHANGED <<tls, memVars>>
  PROVE  UNCHANGED Store
  BY DEF Store, Has, ByteAt, memVars

LEMMA WithinBounds ==
  ASSUME Inv, NoWrap, NEW t \in Threads, NEW r \in Ranges
  PROVE  Private!Within(t, r) <=> InBounds(t, r)
<1>1. /\ r.offset \in Nat /\ r.length \in Nat
      /\ Stop(r) = r.offset + r.length
  <2>1. r.offset \in Nat /\ r.length \in Nat /\ Word \in Nat \ {0} /\ r.offset + r.length < Word
    BY TLSAssumption DEF NoWrap
  <2> QED BY <2>1 DEF Stop
<1>2. CASE Has(t)
  <2>1. tls[t].size \in Nat /\ DOMAIN Store[t] = 0..(tls[t].size - 1) /\ Store[t] # None
    <3>1. tls[t].size \in Nat
      <4>1. tls[t].size \in Sizes
        BY <1>2, NodeType DEF Inv
      <4> QED BY <4>1, SizeIsNat
    <3>2. DOMAIN Store[t] = 0..(tls[t].size - 1) /\ Store[t] # None
      BY <1>2, StoreType DEF Inv
    <3> QED BY <3>1, <3>2
  <2>2. 0 .. (r.offset + r.length - 1) \subseteq 0..(tls[t].size - 1)
          <=> r.offset + r.length <= tls[t].size
    BY <1>1, <2>1
  <2> QED BY <1>1, <1>2, <2>1, <2>2 DEF Private!Within, InBounds
<1>3. CASE ~Has(t)
  BY <1>3, StoreType DEF Private!Within, InBounds, Inv
<1> QED BY <1>2, <1>3

LEMMA CreateImplements ==
  ASSUME Inv, NEW t \in Threads, NEW n \in Sizes, tls_create(t, n)
  PROVE  Private!Create(t)
<1> DEFINE S == 0..(PageCount(n) - 1)
<1> HIDE DEF S
<1>1. PICK pages \in Fresh(S) :
        /\ tls' = [tls EXCEPT ![t] = [size |-> n, pages |-> pages]]
        /\ bytes' = [p \in Pages |-> IF p \in Range(pages) THEN Blank ELSE bytes[p]]
  BY DEF tls_create, S
<1>2. /\ pages \in [S -> Pages \ mapped]
      /\ Range(pages) = {pages[k] : k \in S}
      /\ Range(pages) \subseteq Pages \ mapped
  BY FreshPages
<1>3. tls'[t] = [size |-> n, pages |-> pages] /\ Has(t)'
  <2>1. tls'[t] = [size |-> n, pages |-> pages]
    BY <1>1 DEF Inv, MemType
  <2>2. pages \in Arrays(n)
    BY <1>2 DEF Arrays, S
  <2> QED BY <2>1, <2>2, NodeIsSome DEF Has
<1>4. Store'[t] = [i \in 0..(n - 1) |-> Zero]
  <2>1. \A i \in 0..(n - 1) : ByteAt(t, i)' = Zero
    <3> TAKE i \in 0..(n - 1)
    <3>1. i \in Nat
      BY TLSAssumption
    <3>2. i % PageSize \in Offsets
      BY <3>1, Split
    <3>3. \A k \in S : bytes'[pages[k]] = Blank
      BY <1>1, <1>2
    <3>4. \A k \in DOMAIN pages : bytes'[pages[k]][i % PageSize] = Zero
      BY <1>2, <3>2, <3>3 DEF Blank
    <3> QED BY <1>3, <3>4 DEF ByteAt
  <2> QED BY <1>3, <2>1 DEF Store
<1>5. \A u \in Threads \ {t} : Store'[u] = Store[u]
  <2> TAKE u \in Threads \ {t}
  <2>1. tls'[u] = tls[u]
    BY <1>1 DEF Inv, MemType
  <2>2. \A p \in Holds(u) : bytes'[p] = bytes[p]
    BY <1>1, <1>2, HeldIsMapped, HoldsType DEF Inv
  <2> QED BY <2>1, <2>2, StoreSame DEF Inv
<1>6. Store' = [Store EXCEPT ![t] = [i \in 0..(n - 1) |-> Zero]]
  BY <1>4, <1>5, StoreUpdate
<1>7. Store[t] = None
  BY StoreType DEF tls_create, Inv
<1>8. Private!Done(t, "create")
  BY DEF tls_create, Outcome, Nothing, Private!Done, Private!Outcome, Private!Nothing
<1> QED BY <1>6, <1>7, <1>8 DEF Private!Create

LEMMA NoMemoryImplements ==
  ASSUME Inv, NEW t \in Threads, NEW n \in Sizes, tls_create_NoMemory(t, n)
  PROVE  Private!Create(t)
<1>1. PICK i \in 0..(PageCount(n) - 1) : \E pages \in Fresh(0..(i - 1)) :
        bytes' = [p \in Pages |-> IF p \in Range(pages) THEN Blank ELSE bytes[p]]
  BY DEF tls_create_NoMemory
<1> DEFINE S == 0..(i - 1)
<1> HIDE DEF S
<1>2. PICK pages \in Fresh(S) :
        bytes' = [p \in Pages |-> IF p \in Range(pages) THEN Blank ELSE bytes[p]]
  BY <1>1 DEF S
<1>3. Range(pages) \subseteq Pages \ mapped
  BY FreshPages
<1>4. \A u \in Threads : Store'[u] = Store[u]
  <2> TAKE u \in Threads
  <2>1. tls'[u] = tls[u]
    BY DEF tls_create_NoMemory
  <2>2. \A p \in Holds(u) : bytes'[p] = bytes[p]
    BY <1>2, <1>3, HeldIsMapped, HoldsType DEF Inv
  <2> QED BY <2>1, <2>2, StoreSame DEF Inv
<1>5. Store' = Store
  BY <1>4 DEF Store
<1>6. Private!Outcome(t, "create", -1, Private!Nothing)
  BY DEF tls_create_NoMemory, Outcome, Nothing, Private!Outcome, Private!Nothing
<1>7. MmapFails
  BY DEF tls_create_NoMemory
<1> QED BY <1>5, <1>6, <1>7 DEF Private!Create, Private!Refused

LEMMA DestroyImplements ==
  ASSUME Inv, NEW t \in Threads, tls_destroy(t)
  PROVE  Private!Destroy(t)
<1>1. Has(t) /\ tls' = [tls EXCEPT ![t] = None] /\ bytes' = bytes
  BY DEF tls_destroy
<1>2. Store'[t] = None
  <2>1. tls'[t] = None
    BY <1>1 DEF Inv, MemType
  <2> QED BY <2>1 DEF Store, Has
<1>3. \A u \in Threads \ {t} : Store'[u] = Store[u]
  BY <1>1, StoreSame DEF Inv, MemType
<1>4. Store' = [Store EXCEPT ![t] = None]
  BY <1>2, <1>3, StoreUpdate
<1>5. Store[t] # None
  BY <1>1, StoreType DEF Inv
<1>6. Private!Done(t, "destroy")
  BY DEF tls_destroy, Outcome, Nothing, Private!Done, Private!Outcome, Private!Nothing
<1> QED BY <1>4, <1>5, <1>6 DEF Private!Destroy

LEMMA CloneImplements ==
  ASSUME Inv, NEW t \in Threads, NEW u \in Threads, tls_clone(t, u)
  PROVE  Private!Clone(t, u)
<1>1. ~Has(t) /\ Has(u) /\ tls' = [tls EXCEPT ![t] = tls[u]] /\ bytes' = bytes
  BY DEF tls_clone
<1>2. Store'[t] = Store[u]
  <2>1. tls'[t] = tls[u]
    BY <1>1 DEF Inv, MemType
  <2>2. Has(t)' /\ \A i : ByteAt(t, i)' = ByteAt(u, i)
    BY <1>1, <2>1 DEF Has, ByteAt
  <2> QED BY <1>1, <2>1, <2>2 DEF Store
<1>3. \A v \in Threads \ {t} : Store'[v] = Store[v]
  BY <1>1, StoreSame DEF Inv, MemType
<1>4. Store' = [Store EXCEPT ![t] = Store[u]]
  BY <1>2, <1>3, StoreUpdate
<1>5. Store[t] = None /\ Store[u] # None
  BY <1>1, StoreType DEF Inv
<1>6. Private!Done(t, "clone")
  BY DEF tls_clone, Outcome, Nothing, Private!Done, Private!Outcome, Private!Nothing
<1> QED BY <1>4, <1>5, <1>6 DEF Private!Clone

LEMMA ReadImplements ==
  ASSUME Inv, NoWrap, NEW t \in Threads, NEW r \in Ranges, tls_read(t, r)
  PROVE  Private!Read(t, r)
<1>1. /\ r.offset \in Nat /\ r.length \in Nat /\ Stop(r) = r.offset + r.length
      /\ Positions(r) = r.offset .. (r.offset + r.length - 1)
  <2>1. r.offset \in Nat /\ r.length \in Nat /\ Word \in Nat \ {0} /\ r.offset + r.length < Word
    BY TLSAssumption DEF NoWrap
  <2>2. Stop(r) = r.offset + r.length
    BY <2>1 DEF Stop
  <2> QED BY <2>1, <2>2 DEF Positions
<1>2. Has(t) /\ InBounds(t, r) /\ Touched(r) \subseteq DOMAIN tls[t].pages
  BY DEF tls_read, InBounds
<1>3. {i - r.offset : i \in Positions(r)} = 0..(r.length - 1)
  <2>1. \A j \in 0..(r.length - 1) : r.offset + j \in Positions(r) /\ j = (r.offset + j) - r.offset
    BY <1>1
  <2>2. \A i \in Positions(r) : i - r.offset \in 0..(r.length - 1)
    BY <1>1
  <2> QED BY <2>1, <2>2
<1>4. \A j \in 0..(r.length - 1) :
        bytes[tls[t].pages[(r.offset + j) \div PageSize]][(r.offset + j) % PageSize]
          = Store[t][r.offset + j]
  <2> TAKE j \in 0..(r.length - 1)
  <2>1. r.offset + j \in Positions(r) /\ r.offset + j < Stop(r)
    BY <1>1
  <2>2. (r.offset + j) \div PageSize \in DOMAIN tls[t].pages
    BY <1>2, <2>1 DEF Touched
  <2>3. tls[t].size \in Nat
    <3>1. tls[t].size \in Sizes
      BY <1>2, NodeType DEF Inv
    <3> QED BY <3>1, SizeIsNat
  <2>4. r.offset + j \in 0..(tls[t].size - 1)
    BY <1>1, <1>2, <2>1, <2>3 DEF InBounds
  <2>5. Store[t][r.offset + j] = ByteAt(t, r.offset + j)
    BY <1>2, <2>4 DEF Store
  <2> QED BY <2>2, <2>5 DEF ByteAt
<1>5. Private!Outcome(t, "read", 0, [j \in 0..(r.length - 1) |-> Store[t][r.offset + j]])
  BY <1>3, <1>4 DEF tls_read, Outcome, Private!Outcome
<1>6. UNCHANGED Store
  BY StoreQuiet DEF tls_read
<1>7. Private!Within(t, r)
  BY <1>2, WithinBounds
<1>8. out'.by = t /\ out'.op = "read"
  BY DEF tls_read, Outcome
<1> QED BY <1>5, <1>6, <1>7, <1>8 DEF Private!Read

LEMMA WriteImplements ==
  ASSUME Inv, NoWrap, NEW t \in Threads, NEW r \in Ranges, NEW buffer \in Buffers(r),
         tls_write(t, r, buffer)
  PROVE  Private!Write(t, r, buffer)
<1> DEFINE S == Shared(t, r)
           old == tls[t].pages
<1>1. Has(t) /\ Touched(r) \subseteq DOMAIN old /\ InBounds(t, r)
  BY DEF tls_write, InBounds
<1>2. PICK copy \in Fresh(S) :
        LET pages    == NewPages(t, r, copy)
            index(p) == CHOOSE k \in Touched(r) : pages[k] = p
        IN  /\ tls' = [tls EXCEPT ![t] = [size |-> tls[t].size, pages |-> pages]]
            /\ bytes' = [p \in Pages |-> IF \E k \in Touched(r) : pages[k] = p
                                         THEN Written(t, r, buffer, index(p)) ELSE bytes[p]]
  BY DEF tls_write
<1> DEFINE pages == NewPages(t, r, copy)
           index(p) == CHOOSE k \in Touched(r) : pages[k] = p
<1>3. /\ tls' = [tls EXCEPT ![t] = [size |-> tls[t].size, pages |-> pages]]
      /\ bytes' = [p \in Pages |-> IF \E k \in Touched(r) : pages[k] = p
                                   THEN Written(t, r, buffer, index(p)) ELSE bytes[p]]
  BY <1>2
<1> HIDE DEF pages, index
<1>4. /\ pages \in Arrays(tls[t].size) /\ DOMAIN pages = DOMAIN old
      /\ \A k \in S : pages[k] = copy[k] /\ pages[k] \in Range(copy)
      /\ \A k \in DOMAIN pages \ S : pages[k] = old[k]
      /\ \A k, l \in DOMAIN pages : pages[k] = pages[l] => k = l
      /\ Range(copy) \subseteq Pages \ mapped
      /\ S \subseteq Touched(r)
  BY <1>1, WritePages DEF pages
<1>5. tls[t].size \in Sizes /\ tls[t].size \in Nat
  BY <1>1, NodeType, SizeIsNat DEF Inv
<1>6. /\ tls'[t] = [size |-> tls[t].size, pages |-> pages]
      /\ Has(t)' /\ tls'[t].pages = pages /\ tls'[t].size = tls[t].size
  <2>1. tls'[t] = [size |-> tls[t].size, pages |-> pages]
    BY <1>3 DEF Inv, MemType
  <2>2. Has(t)'
    BY <2>1, <1>4, <1>5, NodeIsSome DEF Has
  <2> QED BY <2>1, <2>2
<1>7. \A k \in DOMAIN old : old[k] \in Holds(t) /\ old[k] \in mapped \ lost /\ old[k] \in Pages
  BY <1>1, HoldsType, HeldIsMapped DEF Inv
<1>8. \A u \in Threads \ {t} : Store'[u] = Store[u]
  <2> TAKE u \in Threads \ {t}
  <2>1. tls'[u] = tls[u]
    BY <1>3 DEF Inv, MemType
  <2>2. \A p \in Holds(u) : ~\E k \in Touched(r) : pages[k] = p
    <3> SUFFICES ASSUME NEW p \in Holds(u), NEW k \in Touched(r), pages[k] = p PROVE FALSE
      OBVIOUS
    <3>1. p \in mapped \ lost
      BY HeldIsMapped
    <3>2. k \notin S /\ old[k] = p
      BY <3>1, <1>1, <1>4
    <3>3. p \in Holds(t)
      BY <3>2, <1>1, <1>7
    <3>4. ref_count[p] > 1
      BY <3>1, <3>3, OneSharer DEF Sharers
    <3> QED BY <3>2, <3>4 DEF Shared
  <2>3. \A p \in Holds(u) : bytes'[p] = bytes[p]
    BY <2>2, <1>3, HoldsType DEF Inv
  <2> QED BY <2>1, <2>3, StoreSame DEF Inv
<1>9. ASSUME NEW i \in 0..(tls[t].size - 1)
      PROVE  ByteAt(t, i)' = IF i \in Positions(r) THEN buffer[i - r.offset] ELSE ByteAt(t, i)
  <2> DEFINE k == i \div PageSize
             o == i % PageSize
  <2>1. i \in Nat /\ o \in Offsets /\ i = k * PageSize + o
    BY <1>5, Split
  <2>2. i \in Positions(r) => k \in Touched(r)
    BY DEF Touched
  <2> HIDE DEF k, o
  <2>3. CASE k \in Touched(r)
    <3>1. pages[k] \in Pages /\ k \in DOMAIN pages
      BY <2>3, <1>1, <1>4, <1>7
    <3>2. index(pages[k]) = k
      BY <2>3, <1>1, <1>4 DEF index
    <3>3. bytes'[pages[k]] = Written(t, r, buffer, k)
      BY <2>3, <3>1, <3>2, <1>3
    <3>4. Written(t, r, buffer, k)[o] =
            IF i \in Positions(r) THEN buffer[i - r.offset] ELSE bytes[old[k]][o]
      BY <2>1 DEF Written
    <3>5. ByteAt(t, i)' = bytes'[pages[k]][o]
      BY <3>1, <1>6 DEF ByteAt, k, o
    <3>6. ByteAt(t, i) = bytes[old[k]][o]
      BY <3>1, <1>4 DEF ByteAt, k, o
    <3> QED BY <3>3, <3>4, <3>5, <3>6
  <2>4. CASE k \notin Touched(r) /\ k \in DOMAIN old
    <3>1. pages[k] = old[k] /\ k \in DOMAIN pages
      BY <2>4, <1>4
    <3>2. ~\E l \in Touched(r) : pages[l] = pages[k]
      BY <2>4, <3>1, <1>1, <1>4
    <3>3. bytes'[old[k]] = bytes[old[k]]
      BY <2>4, <3>1, <3>2, <1>3, <1>7
    <3>4. ByteAt(t, i)' = bytes'[old[k]][o] /\ ByteAt(t, i) = bytes[old[k]][o]
      BY <2>4, <3>1, <1>6 DEF ByteAt, k, o
    <3> QED BY <2>2, <2>4, <3>3, <3>4
  <2>5. CASE k \notin Touched(r) /\ k \notin DOMAIN old
    <3>1. ByteAt(t, i)' = Zero /\ ByteAt(t, i) = Zero
      BY <2>5, <1>4, <1>6 DEF ByteAt, k
    <3> QED BY <2>2, <2>5, <3>1
  <2> QED BY <2>3, <2>4, <2>5
<1>10. Positions(r) = Private!Positions(r)
  <2>1. r.offset \in Nat /\ r.length \in Nat /\ Word \in Nat \ {0} /\ r.offset + r.length < Word
    BY TLSAssumption DEF NoWrap
  <2>2. Stop(r) = r.offset + r.length
    BY <2>1 DEF Stop
  <2> QED BY <2>1, <2>2 DEF Positions, Private!Positions
<1>11. Store'[t] = [i \in DOMAIN Store[t] |->
                      IF i \in Private!Positions(r) THEN buffer[i - r.offset] ELSE Store[t][i]]
  <2>1. DOMAIN Store[t] = 0..(tls[t].size - 1)
    BY <1>1, StoreType DEF Inv
  <2>2. \A i \in 0..(tls[t].size - 1) : Store[t][i] = ByteAt(t, i)
    BY <1>1, StoreType DEF Inv
  <2>3. Store'[t] = [i \in 0..(tls[t].size - 1) |-> ByteAt(t, i)']
    BY <1>6 DEF Store
  <2> QED BY <2>1, <2>2, <2>3, <1>9, <1>10
<1>12. Store' = [Store EXCEPT ![t] = [i \in DOMAIN Store[t] |->
                      IF i \in Private!Positions(r) THEN buffer[i - r.offset] ELSE Store[t][i]]]
  BY <1>8, <1>11, StoreUpdate
<1>13. Private!Done(t, "write")
  BY DEF tls_write, Outcome, Nothing, Private!Done, Private!Outcome, Private!Nothing
<1>14. Private!Within(t, r)
  BY <1>1, WithinBounds
<1>15. Store' = [Store EXCEPT ![t] = [i \in DOMAIN @ |->
                   IF i \in Private!Positions(r) THEN buffer[i - r.offset] ELSE @[i]]]
  BY <1>12 DEF Store
<1> QED BY <1>13, <1>14, <1>15 DEF Private!Write

LEMMA RefusedImplements ==
  ASSUME NEW t, NEW o, Refused(t, o)
  PROVE  Private!Refused(t, o)
<1>1. UNCHANGED Store
  BY StoreQuiet DEF Refused
<1>2. Private!Outcome(t, o, -1, Private!Nothing)
  BY DEF Refused, Outcome, Nothing, Private!Outcome, Private!Nothing
<1> QED BY <1>1, <1>2 DEF Private!Refused

LEMMA InitImplements == Init => Private!Init
<1> SUFFICES ASSUME Init PROVE Private!Init
  OBVIOUS
<1>1. Store = [t \in Threads |-> None]
  BY DEF Init, Store, Has
<1> QED BY <1>1 DEF Init, Private!Init, Nothing, Private!Nothing

(* An access that is refused is refused by private storage too.            *)
LEMMA OutOfBoundsImplements ==
  ASSUME Inv, NoWrap, NEW t \in Threads, NEW r \in Ranges, tls_access_OutOfBounds(t, r)
  PROVE  Private!Read(t, r) \/ \E buffer \in Private!Buffers(r) : Private!Write(t, r, buffer)
<1>1. ~Private!Within(t, r)
  BY WithinBounds DEF tls_access_OutOfBounds
<1>2. CASE Refused(t, "read")
  BY <1>1, <1>2, RefusedImplements DEF Private!Read
<1>3. CASE Refused(t, "write")
  <2>1. Private!Refused(t, "write")
    BY <1>3, RefusedImplements
  <2>2. \A buffer : Private!Write(t, r, buffer)
    BY <1>1, <2>1 DEF Private!Write
  <2>3. [j \in 0..(r.length - 1) |-> Zero] \in Private!Buffers(r)
    BY TLSAssumption DEF Private!Buffers
  <2> QED BY <2>2, <2>3
<1> QED BY <1>2, <1>3 DEF tls_access_OutOfBounds

(* Every step is a step of private storage, or leaves it as it is.         *)
LEMMA StepImplements ==
  ASSUME Inv, NoWrap, [Next]_vars
  PROVE  [Private!Next]_(Private!vars)
<1>1. ASSUME UNCHANGED <<tls, memVars, out>>
      PROVE  UNCHANGED Private!vars
  BY <1>1, StoreQuiet DEF Private!vars
<1>2. CASE UNCHANGED vars
  BY <1>1, <1>2 DEF vars
<1>3. ASSUME NEW t \in Threads, TlsCall(t)
      PROVE  Private!Next \/ UNCHANGED Private!vars
  <2>1. CASE \E n \in Sizes : tls_create(t, n) \/ tls_create_NoMemory(t, n)
    <3>1. Private!Create(t)
      BY <2>1, CreateImplements, NoMemoryImplements
    <3> QED BY <3>1 DEF Private!Next
  <2>2. CASE tls_create_Exists(t)
    <3>1. Private!Refused(t, "create")
      BY <2>2, RefusedImplements DEF tls_create_Exists
    <3>2. Private!Create(t)
      BY <2>2, <3>1, StoreType DEF Private!Create, tls_create_Exists, Inv
    <3> QED BY <3>2 DEF Private!Next
  <2>3. CASE Access(t)
    <3>1. PICK r \in Ranges :
            \/ \E buffer \in Buffers(r) : tls_write(t, r, buffer)
            \/ tls_write_NoMemory(t, r)
            \/ tls_read(t, r)
            \/ tls_access_OutOfBounds(t, r)
            \/ tls_access_Fault(t, r)
      BY <2>3 DEF Access
    <3>2. CASE \E buffer \in Buffers(r) : tls_write(t, r, buffer)
      <4>1. \E buffer \in Private!Buffers(r) : Private!Write(t, r, buffer)
        BY <3>2, WriteImplements DEF Buffers, Private!Buffers
      <4> QED BY <4>1 DEF Private!Next
    <3>3. CASE tls_write_NoMemory(t, r) \/ tls_access_Fault(t, r)
      BY <1>1, <3>3 DEF tls_write_NoMemory, tls_access_Fault
    <3>4. CASE tls_read(t, r)
      BY <3>4, ReadImplements DEF Private!Next
    <3>5. CASE tls_access_OutOfBounds(t, r)
      BY <3>5, OutOfBoundsImplements DEF Private!Next
    <3> QED BY <3>1, <3>2, <3>3, <3>4, <3>5
  <2>4. CASE tls_destroy(t)
    BY <2>4, DestroyImplements DEF Private!Next
  <2>5. CASE tls_destroy_None(t)
    <3>1. Private!Refused(t, "destroy")
      BY <2>5, RefusedImplements DEF tls_destroy_None
    <3>2. Private!Destroy(t)
      BY <2>5, <3>1, StoreType DEF Private!Destroy, tls_destroy_None, Inv
    <3> QED BY <3>2 DEF Private!Next
  <2>6. ASSUME NEW u \in Threads, tls_clone(t, u)
        PROVE  Private!Next
    BY <2>6, CloneImplements DEF Private!Next
  <2>7. ASSUME NEW u \in Threads, tls_clone_Refused(t, u)
        PROVE  Private!Next
    <3>1. Private!Refused(t, "clone")
      BY <2>7, RefusedImplements DEF tls_clone_Refused
    <3>2. Private!Clone(t, u)
      BY <2>7, <3>1, StoreType DEF Private!Clone, tls_clone_Refused, Inv
    <3> QED BY <3>2 DEF Private!Next
  <2> QED BY <1>3, <2>1, <2>2, <2>3, <2>4, <2>5, <2>6, <2>7 DEF TlsCall
<1> QED BY <1>1, <1>2, <1>3 DEF Next, vars

(* As long as no offset + length of a client wraps round, sharing pages    *)
(* and copying them on the first write implements private storage.         *)
THEOREM ImplementsPrivateThm == NoWrap => (Spec => ImplementsPrivate)
<1> SUFFICES ASSUME NoWrap PROVE Spec => ImplementsPrivate
  OBVIOUS
<1>1. Inv /\ [Next]_vars => [Private!Next]_(Private!vars)
  BY StepImplements
<1> QED BY <1>1, InitImplements, AlwaysInv, PTL DEF Spec, ImplementsPrivate, Private!Spec

-----------------------------------------------------------------------------
(* What calls return.  A range that wraps round is read as an empty one.   *)
OutType == status \in {"up", "exit1", "wild"} /\ out \in Outcomes

LEMMA OutcomeType ==
  ASSUME NEW t \in Threads \cup {None}, NEW o \in Calls, NEW r \in {0, -1},
         NEW n \in 0..Word, NEW g \in Contents(n), Outcome(t, o, r, g)
  PROVE  out' \in Outcomes
  BY DEF Outcome, Outcomes, Calls

LEMMA NothingType == Nothing \in Contents(0) /\ 0 \in 0..Word
<1>1. 0..(0 - 1) = {}
  OBVIOUS
<1> QED BY <1>1, TLSAssumption DEF Nothing, Contents

LEMMA ReadType ==
  ASSUME MemType, NEW t \in Threads, NEW r \in Ranges, tls_read(t, r)
  PROVE  out' \in Outcomes
<1>1. /\ r.offset \in 0..(Word - 1) /\ r.length \in 0..(Word - 1) /\ Word \in Nat \ {0}
  BY TLSAssumption
<1>. DEFINE n == IF r.offset <= Stop(r) THEN Stop(r) - r.offset ELSE 0
<1>2. Stop(r) \in 0..(Word - 1)
  BY <1>1 DEF Stop
<1>3. n \in 0..Word /\ {i - r.offset : i \in Positions(r)} = 0..(n - 1)
  <2>1. n \in 0..Word
    BY <1>1, <1>2
  <2>2. \A j \in 0..(n - 1) : r.offset + j \in Positions(r) /\ j = (r.offset + j) - r.offset
    BY <1>1, <1>2 DEF Positions
  <2>3. \A i \in Positions(r) : i - r.offset \in 0..(n - 1)
    BY <1>1, <1>2 DEF Positions
  <2> QED BY <2>1, <2>2, <2>3
<1>. HIDE DEF n
<1>4. ASSUME NEW j \in 0..(n - 1)
      PROVE  bytes[tls[t].pages[(r.offset + j) \div PageSize]][(r.offset + j) % PageSize] \in Bytes
  <2>1. r.offset + j \in Positions(r) /\ r.offset + j \in Nat
    <3>1. PICK i \in Positions(r) : j = i - r.offset
      BY <1>3
    <3>2. i \in Nat
      BY <1>1 DEF Positions
    <3> QED BY <3>1, <3>2, <1>1
  <2>2. (r.offset + j) \div PageSize \in DOMAIN tls[t].pages /\ Has(t)
    BY <2>1 DEF tls_read, Touched, InBounds
  <2>3. ByteAt(t, r.offset + j) \in Bytes
    BY <2>1, <2>2, ByteType
  <2> QED BY <2>2, <2>3 DEF ByteAt
<1>. DEFINE g == [j \in {i - r.offset : i \in Positions(r)} |->
               LET i == r.offset + j
               IN  bytes[tls[t].pages[i \div PageSize]][i % PageSize]]
<1>5. g \in Contents(n)
  BY <1>3, <1>4 DEF Contents
<1>6. Outcome(t, "read", 0, g)
  BY DEF tls_read
<1>. HIDE DEF g
<1> QED BY <1>3, <1>5, <1>6, OutcomeType DEF Calls

LEMMA OutStep ==
  ASSUME Inv, OutType, [Next]_vars
  PROVE  OutType'
<1>1. CASE UNCHANGED vars
  BY <1>1 DEF OutType, vars
<1>2. ASSUME status = "up", NEW t \in Threads, TlsCall(t) PROVE OutType'
  <2>. DEFINE Says(o, r) == Outcome(t, o, r, Nothing)
  <2>1. ASSUME NEW o \in Calls, NEW r \in {0, -1}, Says(o, r) PROVE out' \in Outcomes
    BY <2>1, NothingType, OutcomeType
  <2>2. CASE \E n \in Sizes : tls_create(t, n) \/ tls_create_NoMemory(t, n)
    <3>1. UNCHANGED status /\ (Says("create", 0) \/ Says("create", -1))
      BY <2>2 DEF tls_create, tls_create_NoMemory
    <3> QED BY <3>1, <2>1 DEF OutType, Calls
  <2>3. CASE \E r \in Ranges : \E buffer \in Buffers(r) : tls_write(t, r, buffer)
    <3>1. UNCHANGED status /\ Says("write", 0)
      BY <2>3 DEF tls_write
    <3> QED BY <3>1, <2>1 DEF OutType, Calls
  <2>4. CASE \/ tls_destroy(t) \/ \E u \in Threads : tls_clone(t, u)
    <3>1. UNCHANGED status /\ (Says("destroy", 0) \/ Says("clone", 0))
      BY <2>4 DEF tls_destroy, tls_clone
    <3> QED BY <3>1, <2>1 DEF OutType, Calls
  <2>5. CASE \/ tls_create_Exists(t) \/ tls_destroy_None(t)
             \/ \E u \in Threads : tls_clone_Refused(t, u)
             \/ \E r \in Ranges : tls_access_OutOfBounds(t, r)
    <3>1. UNCHANGED status /\ \E o \in {"create", "destroy", "clone", "write", "read"} : Says(o, -1)
      BY <2>5 DEF tls_create_Exists, tls_destroy_None, tls_clone_Refused,
                  tls_access_OutOfBounds, Refused
    <3> QED BY <3>1, <2>1 DEF OutType, Calls
  <2>6. CASE \E r \in Ranges : tls_write_NoMemory(t, r) \/ tls_access_Fault(t, r)
    BY <2>6 DEF tls_write_NoMemory, tls_access_Fault, OutType
  <2>7. CASE \E r \in Ranges : tls_read(t, r)
    <3>1. out' \in Outcomes
      BY <2>7, ReadType DEF Inv
    <3>2. UNCHANGED status
      BY <2>7 DEF tls_read
    <3> QED BY <3>1, <3>2 DEF OutType
  <2> QED BY <1>2, <2>2, <2>3, <2>4, <2>5, <2>6, <2>7 DEF TlsCall, Access
<1> QED BY <1>1, <1>2 DEF Next

(* Every variable has its type: what tls_read copies are bytes, as many as *)
(* the range has, and reference counts do not fall below zero.             *)
THEOREM TypesThm == Spec => []TypeOK
<1>1. Init => OutType
  BY NothingType DEF Init, OutType, Outcomes, Calls
<1>2. Inv /\ OutType => TypeOK
  BY DEF Inv, MemType, OutType, TypeOK
<1> QED BY <1>1, <1>2, OutStep, AlwaysInv, PTL DEF Spec

=============================================================================
