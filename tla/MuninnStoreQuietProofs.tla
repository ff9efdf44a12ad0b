----------------------- MODULE MuninnStoreQuietProofs -----------------------
(***************************************************************************)
(* What holds of MuninnStore, for every value of the other constants, when *)
(* the rest of the process keeps quiet: a listing is complete when nothing *)
(* of its vault is forgotten meanwhile, and the ID cache is never stale    *)
(* when one goroutine calls at a time, for a user and a session.  The runs *)
(* list_during_delete and get_missing show what happens otherwise.         *)
(***************************************************************************)
EXTENDS MuninnStoreProofs

-----------------------------------------------------------------------------
(* Pages.  A listing asks for the entries of rank off + 1 .. off + n, and  *)
(* the ranks of a finite vault are 1 .. Cardinality of the vault.          *)

UpTo(V, id) == {j \in V : Before(j, id)}

Rank(V, id) == Cardinality(UpTo(V, id))

FirstRanks(V, n) == {id \in V : Rank(V, id) <= n}

LEMMA BeforeOrders ==
  ASSUME NEW i \in Nat, NEW j \in Nat
  PROVE  /\ Before(i, i)
         /\ Before(i, j) \/ Before(j, i)
         /\ Before(i, j) /\ Before(j, i) => i = j
         /\ \A k \in Nat : Before(i, j) /\ Before(j, k) => Before(i, k)
BY DEF Before

LEMMA RankType ==
  ASSUME NEW V \in SUBSET Nat, IsFiniteSet(V), NEW id \in V
  PROVE  /\ IsFiniteSet(UpTo(V, id))
         /\ Rank(V, id) \in Nat /\ Rank(V, id) >= 1
         /\ Rank(V, id) <= Cardinality(V)
<1> DEFINE D == UpTo(V, id)
<1>1. D \subseteq V /\ id \in D
  BY BeforeOrders DEF UpTo
<1>2. /\ IsFiniteSet(D) /\ Cardinality(D) \in Nat /\ Cardinality(V) \in Nat
      /\ Cardinality(D) <= Cardinality(V)
  BY <1>1, FS_Subset, FS_CardinalityType
<1>3. Cardinality(D) # 0
  BY <1>1, <1>2, FS_EmptySet
<1> QED  BY <1>2, <1>3 DEF Rank

(* Ranks go up along the order of the listing, strictly. *)
LEMMA RankGrows ==
  ASSUME NEW V \in SUBSET Nat, IsFiniteSet(V), NEW i \in V, NEW j \in V,
         Before(i, j), i # j
  PROVE  Rank(V, i) < Rank(V, j)
<1>1. UpTo(V, i) \subseteq UpTo(V, j)
  BY BeforeOrders DEF UpTo
<1>2. j \in UpTo(V, j) /\ j \notin UpTo(V, i)
  BY BeforeOrders DEF UpTo
<1>3. /\ IsFiniteSet(UpTo(V, j)) /\ Rank(V, i) \in Nat /\ Rank(V, j) \in Nat
  BY RankType
<1>4. /\ Rank(V, i) <= Rank(V, j)
      /\ Rank(V, i) = Rank(V, j) => UpTo(V, i) = UpTo(V, j)
  BY <1>1, <1>3, FS_Subset DEF Rank
<1> QED  BY <1>2, <1>3, <1>4

(* A non-empty set of numbers has a smallest one. *)
LEMMA SmallestMember ==
  ASSUME NEW S \in SUBSET Nat, S # {}
  PROVE  \E n \in S : \A m \in S : n <= m
<1>1. PICK n \in S : \A m \in S : ~(<<m, n>> \in OpToRel(<, Nat))
  BY WFMin, NatLessThanWellFounded, Zenon
<1>2. ASSUME NEW m \in S PROVE n <= m
  <2>1. <<m, n>> \notin OpToRel(<, Nat)
    BY <1>1
  <2>2. m \in Nat /\ n \in Nat
    OBVIOUS
  <2>3. ~(m < n)
    BY <2>1, <2>2, Zenon DEF OpToRel
  <2> QED  BY <2>2, <2>3
<1> QED  BY <1>2

(* Of the entries of higher rank than n one comes first: the next rank.    *)
LEMMA NextRank ==
  ASSUME NEW V \in SUBSET Nat, IsFiniteSet(V), NEW n \in Nat,
         Cardinality(FirstRanks(V, n)) = n, n < Cardinality(V)
  PROVE  /\ IsFiniteSet(FirstRanks(V, n + 1))
         /\ Cardinality(FirstRanks(V, n + 1)) = n + 1
<1> DEFINE F == FirstRanks(V, n)
           S == {Rank(V, id) : id \in V \ F}
<1>1. F \subseteq V /\ F # V /\ IsFiniteSet(F)
  <2>1. F \subseteq V
    BY DEF FirstRanks
  <2>2. F # V
    BY FS_CardinalityType
  <2> QED  BY <2>1, <2>2, FS_Subset
<1>2. \A id \in V : Rank(V, id) \in Nat
  BY RankType
<1>3. PICK x \in V \ F : \A y \in V \ F : Rank(V, x) <= Rank(V, y)
  <2>1. S \in SUBSET Nat /\ S # {}
    BY <1>1, <1>2
  <2>2. PICK r \in S : \A q \in S : r <= q
    BY <2>1, SmallestMember
  <2>3. PICK x \in V \ F : r = Rank(V, x)
    OBVIOUS
  <2> QED  BY <2>2, <2>3
<1>4. \A y \in V : y \in F <=> Rank(V, y) <= n
  BY DEF FirstRanks
<1>5. UpTo(V, x) = F \cup {x}
  <2>1. ASSUME NEW y \in F PROVE y \in UpTo(V, x)
    <3>1. y \in V /\ y # x /\ Rank(V, y) <= n /\ ~(Rank(V, x) <= n)
      BY <1>1, <1>3, <1>4, <2>1
    <3>2. Rank(V, y) \in Nat /\ Rank(V, x) \in Nat
      BY <1>2, <3>1
    <3>3. Rank(V, y) < Rank(V, x)
      BY <3>1, <3>2
    <3>4. ~(Before(x, y))
      BY <3>1, <3>2, <3>3, RankGrows
    <3> QED  BY <3>1, <3>4, BeforeOrders DEF UpTo
  <2>2. ASSUME NEW y \in UpTo(V, x), y # x PROVE y \in F
    <3>1. y \in V /\ Rank(V, y) < Rank(V, x)
      BY <2>2, RankGrows DEF UpTo
    <3> QED  BY <1>2, <1>3, <3>1
  <2>3. x \in UpTo(V, x)
    BY BeforeOrders DEF UpTo
  <2> QED  BY <2>1, <2>2, <2>3
<1>6. Rank(V, x) = n + 1
  <2>1. Cardinality(F \cup {x}) = n + 1
    BY <1>1, <1>3, FS_AddElement
  <2> QED  BY <1>5, <2>1 DEF Rank
<1>7. FirstRanks(V, n + 1) = F \cup {x}
  <2>1. ASSUME NEW y \in V, Rank(V, y) <= n + 1, y \notin F PROVE y = x
    <3>1. Rank(V, y) = Rank(V, x)
      BY <1>2, <1>3, <1>6, <2>1
    <3> QED  BY <1>2, <1>3, <2>1, <3>1, RankGrows, BeforeOrders
  <2>2. ASSUME NEW y \in F PROVE Rank(V, y) <= n + 1
    <3>1. y \in V /\ Rank(V, y) <= n
      BY <1>1, <1>4
    <3>2. Rank(V, y) \in Nat
      BY <1>2, <3>1
    <3> QED  BY <3>1, <3>2
  <2> QED  BY <1>1, <1>3, <1>6, <2>1, <2>2 DEF FirstRanks
<1> QED  BY <1>1, <1>3, <1>7, FS_AddElement

(* A vault has one entry of each rank, so n entries of rank at most n.     *)
LEMMA RanksCount ==
  ASSUME NEW V \in SUBSET Nat, IsFiniteSet(V), NEW n \in Nat,
         n <= Cardinality(V)
  PROVE  /\ IsFiniteSet(FirstRanks(V, n))
         /\ Cardinality(FirstRanks(V, n)) = n
<1> DEFINE good(k) == Cardinality(FirstRanks(V, k)) = k
           Bad == {k \in Nat : k <= Cardinality(V) /\ ~good(k)}
<1>1. Cardinality(V) \in Nat
  BY FS_CardinalityType
<1>2. good(0)
  <2>1. ASSUME NEW id \in V PROVE ~(Rank(V, id) <= 0)
    <3>1. Rank(V, id) \in Nat /\ Rank(V, id) >= 1
      BY RankType
    <3> QED  BY <3>1
  <2>2. FirstRanks(V, 0) = {}
    BY <2>1 DEF FirstRanks
  <2> QED  BY <2>2, FS_EmptySet
<1>3. ASSUME NEW k \in Nat, k < Cardinality(V), good(k) PROVE good(k + 1)
  BY <1>3, NextRank
<1> HIDE DEF good
<1>4. Bad = {}
  <2> SUFFICES ASSUME Bad # {} PROVE FALSE
    OBVIOUS
  <2>1. PICK k \in Bad : \A j \in Bad : k <= j
    BY SmallestMember
  <2>2. k # 0
    BY <1>2
  <2>3. k - 1 \in Nat /\ k - 1 < k
    BY <2>2
  <2>4. k - 1 \notin Bad
    BY <2>1, <2>3
  <2>5. good(k - 1)
    BY <1>1, <2>3, <2>4
  <2>6. good((k - 1) + 1)
    BY <1>1, <1>3, <2>3, <2>5
  <2> QED  BY <2>3, <2>6
<1>5. good(n)
  BY <1>4
<1>6. IsFiniteSet(FirstRanks(V, n))
  BY FS_Subset DEF FirstRanks
<1> QED  BY <1>5, <1>6 DEF good

(* A page holds at most as many entries as were asked for, and no fewer    *)
(* when some entry comes after it.                                         *)
LEMMA PageCount ==
  ASSUME NEW V \in SUBSET Nat, IsFiniteSet(V), NEW off \in Nat, NEW n \in Nat,
         NEW P \in SUBSET V,
         \A id \in V :
           id \in P <=> off < Rank(V, id) /\ Rank(V, id) <= off + n
  PROVE  /\ IsFiniteSet(P) /\ Cardinality(P) \in Nat /\ Cardinality(P) <= n
         /\ \A id \in V :
              Rank(V, id) > off + n
                => Cardinality(P) = n /\ off + n < Cardinality(V)
<1> DEFINE F == FirstRanks(V, off)
           G == FirstRanks(V, off + n)
<1>1. /\ Cardinality(V) \in Nat
      /\ \A id \in V : Rank(V, id) \in Nat /\ Rank(V, id) <= Cardinality(V)
  BY RankType, FS_CardinalityType
<1>2. P = G \ F /\ F \subseteq G /\ G \subseteq V
  <2>1. \A id : /\ id \in F <=> id \in V /\ Rank(V, id) <= off
                /\ id \in G <=> id \in V /\ Rank(V, id) <= off + n
    BY DEF FirstRanks
  <2> HIDE DEF F, G
  <2>2. ASSUME NEW id \in V
        PROVE  /\ id \in F => id \in G
               /\ id \in P <=> id \in G /\ id \notin F
    <3>1. Rank(V, id) \in Nat
      BY <1>1
    <3>2. /\ ~(Rank(V, id) <= off) <=> off < Rank(V, id)
          /\ Rank(V, id) <= off => Rank(V, id) <= off + n
      BY <3>1
    <3> QED  BY <2>1, <3>2
  <2> QED  BY <2>1, <2>2
<1>3. IsFiniteSet(F) /\ IsFiniteSet(G) /\ IsFiniteSet(P)
  BY <1>2, FS_Subset
<1>4. Cardinality(P) \in Nat
  BY <1>3, FS_CardinalityType
<1>5. /\ Cardinality(P) = Cardinality(G) - Cardinality(F)
      /\ Cardinality(G) \in Nat /\ Cardinality(G) <= Cardinality(V)
  <2>1. G \cap F = F
    BY <1>2
  <2>2. Cardinality(G \ F) = Cardinality(G) - Cardinality(G \cap F)
    BY <1>3, FS_Difference
  <2>3. Cardinality(G) \in Nat /\ Cardinality(G) <= Cardinality(V)
    BY <1>2, <1>3, FS_Subset, FS_CardinalityType
  <2> QED  BY <1>2, <2>1, <2>2, <2>3
<1>6. off <= Cardinality(V) => Cardinality(F) = off
  BY RanksCount
<1>7. off + n <= Cardinality(V) => Cardinality(G) = off + n
  BY RanksCount
<1>8. off > Cardinality(V) => P = {}
  <2> SUFFICES ASSUME off > Cardinality(V), NEW id \in P PROVE FALSE
    OBVIOUS
  <2>1. id \in V /\ off < Rank(V, id)
    OBVIOUS
  <2> QED  BY <1>1, <2>1
<1>9. Cardinality(P) <= n
  <2>1. CASE off > Cardinality(V)
    <3>1. P = {}
      BY <1>8, <2>1
    <3>2. Cardinality(P) = 0
      BY <3>1, FS_EmptySet
    <3> QED  BY <3>2
  <2>2. CASE off <= Cardinality(V) /\ off + n <= Cardinality(V)
    BY <1>5, <1>6, <1>7, <2>2
  <2>3. CASE off <= Cardinality(V) /\ off + n > Cardinality(V)
    BY <1>1, <1>5, <1>6, <2>3
  <2> QED  BY <1>1, <2>1, <2>2, <2>3
<1>10. ASSUME NEW id \in V, Rank(V, id) > off + n
       PROVE  Cardinality(P) = n /\ off + n < Cardinality(V)
  <2>1. off + n < Cardinality(V)
    BY <1>1, <1>10
  <2>2. off <= Cardinality(V) /\ off + n <= Cardinality(V)
    BY <1>1, <2>1
  <2> QED  BY <1>5, <1>6, <1>7, <2>1, <2>2
<1> QED  BY <1>3, <1>4, <1>9, <1>10

-----------------------------------------------------------------------------
(* The inductive invariant of a listing, over the engrams E and the live   *)
(* ids L.  What is due and not handed out yet comes after the pages asked  *)
(* for: writes push it back (newest first) or leave it where it is.  The   *)
(* listing has not counted more entries than those pages hold, so neither  *)
(* a short page nor the count can end it while something is due.           *)

VaultIn(E, L, t) == {id \in L : E[id].vault = t}

Due(E, L, c) ==
  {id \in VaultIn(E, L, c.t) \cap c.atStart : InScope(E[id], c.u, c.s, c.tag)}

ListSound(E, L, c) ==
  c.op = "list" =>
    LET rank(id) == Rank(VaultIn(E, L, c.t), id)
    IN  /\ c.atStart \subseteq DOMAIN E
        /\ c.pc \in {"done", "page", "items"}
        /\ c.pc = "page" =>
             /\ c.count <= c.off
             /\ \A id \in Due(E, L, c) \ c.result : rank(id) > c.off
        /\ c.pc = "items" =>
             /\ c.count + Cardinality(c.items) <= c.off + PageSize
             /\ \A id \in Due(E, L, c) \ (c.result \cup c.items) :
                  /\ rank(id) > c.off + PageSize
                  /\ c.full /\ c.total > c.off + PageSize
        /\ c.pc # "done" => c.outcome # "ok"
        /\ c.outcome = "ok" => Due(E, L, c) \subseteq c.result

ListsSound == \A w \in Workers : ListSound(engrams, live, call[w])

(* A larger vault ranks no entry lower. *)
LEMMA RankInLarger ==
  ASSUME NEW W \in SUBSET Nat, IsFiniteSet(W), NEW V \in SUBSET W, NEW id \in V
  PROVE  /\ Rank(V, id) \in Nat /\ Rank(W, id) \in Nat
         /\ Rank(V, id) <= Rank(W, id)
<1>1. IsFiniteSet(V) /\ V \in SUBSET Nat
  BY FS_Subset
<1>2. Rank(V, id) \in Nat /\ Rank(W, id) \in Nat /\ IsFiniteSet(UpTo(W, id))
  BY <1>1, RankType
<1>3. UpTo(V, id) \subseteq UpTo(W, id)
  BY DEF UpTo
<1> QED  BY <1>2, <1>3, FS_Subset DEF Rank

LEMMA VaultInFinite ==
  ASSUME NEW E, NEW L, GoodServer(E, L), NEW t
  PROVE  /\ IsFiniteSet(VaultIn(E, L, t)) /\ VaultIn(E, L, t) \in SUBSET Nat
         /\ IsFiniteSet(DOMAIN E)
<1>1. DOMAIN E = 1..Len(E) /\ Len(E) \in Nat
  BY DEF GoodServer
<1>2. IsFiniteSet(1..Len(E)) /\ DOMAIN E \subseteq Nat
  BY <1>1, FS_Interval
<1>3. VaultIn(E, L, t) \subseteq DOMAIN E
  BY DEF VaultIn, GoodServer
<1> QED  BY <1>1, <1>2, <1>3, FS_Subset

(* Other calls leave a listing as sound as it was while they forget nothing *)
(* of the vault it lists: what is due does not change, and its ranks only  *)
(* grow.  A listing that has returned minds no forgetting either.          *)
LEMMA ListExtends ==
  ASSUME NEW E, NEW L, GoodServer(E, L), NEW F, NEW M, GoodServer(F, M),
         Extends(E, F), M \cap DOMAIN E \subseteq L,
         NEW c, GoodCall(E, c), ListSound(E, L, c),
         c.op = "list" /\ c.pc # "done" => VaultIn(E, L, c.t) \subseteq M
  PROVE  ListSound(F, M, c)
<1> SUFFICES ASSUME c.op = "list" PROVE ListSound(F, M, c)
  BY DEF ListSound
<1> DEFINE V == VaultIn(E, L, c.t)
           W == VaultIn(F, M, c.t)
<1>1. L \subseteq DOMAIN E /\ \A id \in DOMAIN E : F[id] = E[id]
  BY DEF GoodServer, Extends
<1>2. c.atStart \subseteq DOMAIN E
  BY DEF ListSound
<1>3. Due(F, M, c) \subseteq Due(E, L, c)
  BY <1>1, <1>2 DEF Due, VaultIn
<1>3a. CASE c.pc = "done"
  <2>1. c.outcome = "ok" => Due(F, M, c) \subseteq c.result
    BY <1>3 DEF ListSound
  <2>2. c.atStart \subseteq DOMAIN F
    BY <1>2 DEF Extends
  <2> QED  BY <1>3a, <2>1, <2>2 DEF ListSound
<1> SUFFICES ASSUME c.pc # "done" PROVE ListSound(F, M, c)
  BY <1>3a
<1>4. V \subseteq W
  BY <1>1 DEF VaultIn
<1>5. W \in SUBSET Nat /\ IsFiniteSet(W)
  BY VaultInFinite
<1>6. Due(E, L, c) \subseteq V
  BY DEF Due
<1> HIDE DEF V, W
<1>7. \A id \in Due(E, L, c) :
        /\ Rank(V, id) \in Nat /\ Rank(W, id) \in Nat
        /\ Rank(V, id) <= Rank(W, id)
  BY <1>4, <1>5, <1>6, RankInLarger
<1>8. /\ c.off \in Nat /\ PageSize \in Nat
  BY ConstantsAssumption DEF GoodCall, CallType
<1>9. \A id \in Due(E, L, c) :
        /\ Rank(V, id) > c.off => Rank(W, id) > c.off
        /\ Rank(V, id) > c.off + PageSize => Rank(W, id) > c.off + PageSize
  BY <1>7, <1>8
<1>10. /\ c.pc = "page" => \A id \in Due(E, L, c) \ c.result : Rank(V, id) > c.off
       /\ c.pc = "items" =>
            \A id \in Due(E, L, c) \ (c.result \cup c.items) :
              /\ Rank(V, id) > c.off + PageSize
              /\ c.full /\ c.total > c.off + PageSize
  BY DEF ListSound, V
<1>11. /\ c.pc = "page" => \A id \in Due(F, M, c) \ c.result : Rank(W, id) > c.off
       /\ c.pc = "items" =>
            \A id \in Due(F, M, c) \ (c.result \cup c.items) :
              /\ Rank(W, id) > c.off + PageSize
              /\ c.full /\ c.total > c.off + PageSize
  BY <1>3, <1>9, <1>10
<1>12. /\ c.atStart \subseteq DOMAIN F
       /\ c.pc \in {"done", "page", "items"}
       /\ c.pc = "page" => c.count <= c.off
       /\ c.pc = "items" => c.count + Cardinality(c.items) <= c.off + PageSize
       /\ c.pc # "done" => c.outcome # "ok"
       /\ c.outcome = "ok" => Due(F, M, c) \subseteq c.result
  BY <1>2, <1>3 DEF ListSound, Extends
<1> QED  BY <1>11, <1>12 DEF ListSound, W

-----------------------------------------------------------------------------
(* The steps of a listing. *)

LEMMA ListPageSound ==
  ASSUME IInv, NEW w \in Workers, ListSound(engrams, live, call[w]), ListPage(w)
  PROVE  ListSound(engrams, live, call'[w])
<1> DEFINE c == call[w]
           V == VaultIn(engrams, live, c.t)
           page == Page(c.t, c.off)
           items == {id \in page : InScope(engrams[id], c.u, c.s, c.tag)}
           full == (Cardinality(page) = PageSize)
           total == Cardinality(Vault(c.t))
           d == [c EXCEPT !.pc = "items", !.items = items, !.full = full,
                          !.total = total]
<1>1. c \in CallType(DOMAIN engrams) /\ c.pc = "page" /\ c.op = "list"
  BY CallAt DEF ListPage, GoodCall, SoundIn
<1>2. call'[w] = d
  BY CallGoes DEF ListPage
<1>3. V = Vault(c.t)
  BY DEF VaultIn, Vault
<1>4. V \in SUBSET Nat /\ IsFiniteSet(V)
  BY VaultInFinite DEF IInv
<1>5. c.off \in Nat /\ c.count \in Nat /\ PageSize \in Nat
  BY <1>1, ConstantsAssumption DEF CallType
<1>6. page = {id \in V : c.off < Rank(V, id) /\ Rank(V, id) <= c.off + PageSize}
  BY <1>3 DEF Page, Rank, UpTo
<1> HIDE DEF page, V
<1>7. /\ IsFiniteSet(page) /\ Cardinality(page) \in Nat /\ Cardinality(page) <= PageSize
      /\ \A id \in V :
           Rank(V, id) > c.off + PageSize
             => Cardinality(page) = PageSize /\ c.off + PageSize < Cardinality(V)
  <2>1. /\ page \in SUBSET V
        /\ \A id \in V :
             id \in page <=> c.off < Rank(V, id) /\ Rank(V, id) <= c.off + PageSize
    BY <1>6
  <2> HIDE DEF c, items, full, d
  <2> QED  BY <1>4, <1>5, <2>1, PageCount
<1>8. Cardinality(items) \in Nat /\ Cardinality(items) <= PageSize
  <2>1. items \subseteq page
    OBVIOUS
  <2>2. Cardinality(items) <= Cardinality(page) /\ Cardinality(items) \in Nat
    BY <1>7, <2>1, FS_Subset, FS_CardinalityType
  <2> QED  BY <1>5, <1>7, <2>2
<1>9. \A id \in V : Rank(V, id) \in Nat /\ Cardinality(V) \in Nat
  BY <1>4, RankType, FS_CardinalityType
<1>10. /\ c.count <= c.off
       /\ \A id \in Due(engrams, live, c) \ c.result : Rank(V, id) > c.off
       /\ c.atStart \subseteq DOMAIN engrams /\ c.outcome # "ok"
  BY <1>1 DEF ListSound, V
<1>11. ASSUME NEW id \in Due(engrams, live, c) \ (c.result \cup items)
       PROVE  /\ Rank(V, id) > c.off + PageSize
              /\ full /\ total > c.off + PageSize
  <2>1. id \in V /\ Rank(V, id) > c.off /\ InScope(engrams[id], c.u, c.s, c.tag)
    BY <1>10 DEF Due, V
  <2>2. ~(Rank(V, id) <= c.off + PageSize)
    BY <1>6, <2>1
  <2>3. Rank(V, id) > c.off + PageSize
    BY <1>5, <1>9, <2>1, <2>2
  <2>4. Cardinality(page) = PageSize /\ c.off + PageSize < Cardinality(V)
    BY <1>7, <2>1, <2>3
  <2>5. total > c.off + PageSize
    BY <1>3, <1>5, <1>9, <2>1, <2>4
  <2> QED  BY <2>3, <2>4, <2>5
<1>12. c.count + Cardinality(items) <= c.off + PageSize
  BY <1>5, <1>8, <1>10
<1> HIDE DEF items, full, total
<1>13. /\ d.op = "list" /\ d.pc = "items" /\ d.items = items /\ d.full = full
       /\ d.total = total /\ d.off = c.off /\ d.count = c.count
       /\ d.result = c.result /\ d.atStart = c.atStart /\ d.outcome = c.outcome
       /\ d.t = c.t /\ d.u = c.u /\ d.s = c.s /\ d.tag = c.tag
  BY <1>1 DEF CallType
<1> HIDE DEF d, c
<1>14. Due(engrams, live, d) = Due(engrams, live, c)
  BY <1>13 DEF Due
<1> QED  BY <1>2, <1>10, <1>11, <1>12, <1>13, <1>14 DEF ListSound, V

LEMMA CacheItemSound ==
  ASSUME IInv, NEW w \in Workers, ListSound(engrams, live, call[w]), CacheItem(w),
         call[w].op = "list"
  PROVE  ListSound(engrams, live, call'[w])
<1> DEFINE c == call[w]
           d(id) == [c EXCEPT !.items = @ \ {id}, !.count = @ + 1,
                              !.result = @ \cup {id}]
<1>1. c \in CallType(DOMAIN engrams) /\ c.pc = "items"
  BY CallAt DEF CacheItem, GoodCall
<1>2. PICK id \in c.items : Goto(w, d(id))
  BY DEF CacheItem
<1>3. call'[w] = d(id)
  BY <1>2, CallGoes
<1>4. IsFiniteSet(DOMAIN engrams)
  BY VaultInFinite DEF IInv
<1>5. IsFiniteSet(c.items)
  BY <1>1, <1>4, FS_Subset DEF CallType
<1>6. /\ Cardinality(c.items \ {id}) = Cardinality(c.items) - 1
      /\ Cardinality(c.items) \in Nat
  BY <1>2, <1>5, FS_RemoveElement, FS_CardinalityType
<1>7. c.count \in Nat
  BY <1>1 DEF CallType
<1>8. (c.count + 1) + Cardinality(c.items \ {id}) = c.count + Cardinality(c.items)
  BY <1>6, <1>7
<1>9. /\ d(id).op = "list" /\ d(id).pc = "items" /\ d(id).items = c.items \ {id}
      /\ d(id).full = c.full /\ d(id).total = c.total /\ d(id).off = c.off
      /\ d(id).count = c.count + 1 /\ d(id).result = c.result \cup {id}
      /\ d(id).atStart = c.atStart /\ d(id).outcome = c.outcome
      /\ d(id).t = c.t /\ d(id).u = c.u /\ d(id).s = c.s /\ d(id).tag = c.tag
  BY <1>1 DEF CallType
<1> DEFINE e == d(id)
<1>10. (c.result \cup c.items) = (c.result \cup {id}) \cup (c.items \ {id})
  BY <1>2
<1> HIDE DEF d, e, c
<1>11. Due(engrams, live, e) = Due(engrams, live, c)
  BY <1>9 DEF Due, e
<1>12. e.result \cup e.items = c.result \cup c.items
  BY <1>9, <1>10 DEF e
<1>13. /\ c.atStart \subseteq DOMAIN engrams /\ c.outcome # "ok"
       /\ c.count + Cardinality(c.items) <= c.off + PageSize
       /\ \A i \in Due(engrams, live, c) \ (c.result \cup c.items) :
            /\ Rank(VaultIn(engrams, live, c.t), i) > c.off + PageSize
            /\ c.full /\ c.total > c.off + PageSize
  BY <1>1 DEF ListSound, c
<1>14. \A i \in Due(engrams, live, e) \ (e.result \cup e.items) :
         /\ Rank(VaultIn(engrams, live, e.t), i) > e.off + PageSize
         /\ e.full /\ e.total > e.off + PageSize
  BY <1>9, <1>11, <1>12, <1>13 DEF e
<1>15. e.count + Cardinality(e.items) <= e.off + PageSize
  BY <1>8, <1>9, <1>13 DEF e
<1> QED  BY <1>3, <1>9, <1>13, <1>14, <1>15 DEF ListSound, e

(* A call that returns without saying that it is complete. *)
LEMMA FailedListSound ==
  ASSUME NEW E, NEW L, NEW c, GoodCall(E, c), ListSound(E, L, c)
  PROVE  ListSound(E, L, Returned(c, "failed"))
<1> DEFINE d == Returned(c, "failed")
<1>1. /\ d.op = c.op /\ d.pc = "done" /\ d.outcome = "failed"
      /\ d.atStart = c.atStart
  BY DEF GoodCall, CallType, Returned
<1> HIDE DEF d
<1>2. c.op = "list" => c.atStart \subseteq DOMAIN E
  BY DEF ListSound
<1>3. ListSound(E, L, d)
  BY <1>1, <1>2 DEF ListSound
<1> QED  BY <1>3 DEF d

LEMMA ItemsDoneSound ==
  ASSUME IInv, NEW w \in Workers, ListSound(engrams, live, call[w]), ItemsDone(w),
         call[w].op = "list"
  PROVE  ListSound(engrams, live, call'[w])
<1> DEFINE c == call[w]
           n == NextOffset(c)
           d == [c EXCEPT !.pc = "page", !.off = n]
           r == Returned(c, "ok")
<1>1. c \in CallType(DOMAIN engrams) /\ c.pc = "items" /\ c.items = {}
  BY CallAt DEF ItemsDone, GoodCall
<1>2. n = c.off + PageSize /\ c.count \in Nat /\ c.off \in Nat /\ PageSize \in Nat
      /\ c.total \in Nat
  BY <1>1, ConstantsAssumption DEF CallType, NextOffset
<1>3. /\ c.atStart \subseteq DOMAIN engrams /\ c.outcome # "ok"
      /\ c.count + Cardinality(c.items) <= c.off + PageSize
      /\ \A i \in Due(engrams, live, c) \ c.result :
           /\ Rank(VaultIn(engrams, live, c.t), i) > c.off + PageSize
           /\ c.full /\ c.total > c.off + PageSize
  BY <1>1 DEF ListSound
<1>4. c.count <= c.off + PageSize
  BY <1>1, <1>2, <1>3, FS_EmptySet
<1>5. CASE ~LastPage(c)
  <2> HIDE DEF n
  <2>1. call'[w] = d
    <3>1. Goto(w, d)
      BY <1>5 DEF ItemsDone, n
    <3> HIDE DEF d
    <3> QED  BY <3>1, CallGoes
  <2>2. /\ d.op = "list" /\ d.pc = "page" /\ d.off = n /\ d.count = c.count
        /\ d.result = c.result /\ d.atStart = c.atStart /\ d.outcome = c.outcome
        /\ d.t = c.t /\ d.u = c.u /\ d.s = c.s /\ d.tag = c.tag
    BY <1>1 DEF CallType
  <2> HIDE DEF d, c
  <2>3. Due(engrams, live, d) = Due(engrams, live, c)
    BY <2>2 DEF Due
  <2> QED  BY <1>2, <1>3, <1>4, <2>1, <2>2, <2>3 DEF ListSound
<1>6. CASE LastPage(c)
  <2>1. call'[w] = r
    <3>1. Goto(w, r)
      BY <1>6 DEF ItemsDone, Return
    <3> HIDE DEF r
    <3> QED  BY <3>1, CallGoes
  <2>2. /\ r.op = "list" /\ r.pc = "done" /\ r.outcome = "ok"
        /\ r.result = c.result /\ r.atStart = c.atStart
        /\ r.t = c.t /\ r.u = c.u /\ r.s = c.s /\ r.tag = c.tag
    BY <1>1 DEF CallType, Returned
  <2>3. ASSUME NEW i \in Due(engrams, live, c) \ c.result PROVE FALSE
    <3>1. c.full /\ c.total > c.off + PageSize
      BY <1>3
    <3>2. ~(c.count >= c.total)
      BY <1>2, <1>4, <3>1
    <3> QED  BY <1>6, <3>1, <3>2 DEF LastPage
  <2> HIDE DEF r, c
  <2>4. Due(engrams, live, r) = Due(engrams, live, c)
    BY <2>2 DEF Due
  <2> QED  BY <1>3, <2>1, <2>2, <2>3, <2>4 DEF ListSound
<1> QED  BY <1>5, <1>6

(* One step of the call itself. *)
LEMMA StepListSound ==
  ASSUME IInv, NEW w \in Workers, ListSound(engrams, live, call[w]), Step(w),
         call[w].op = "list"
  PROVE  /\ ListSound(engrams, live, call'[w])
         /\ UNCHANGED <<engrams, live>>
<1> DEFINE c == call[w]
<1>1. c.pc \in {"done", "page", "items"}
  BY DEF ListSound
<1>2. ListPage(w) \/ CacheItem(w) \/ ItemsDone(w) \/ RequestFails(w)
  BY <1>1 DEF Step, CacheOwn, Read, ActivateKey, Forget, DropCache, SendChunk,
              ServeItem, ReceiveResults, CacheResult, NextChunk
<1>3. UNCHANGED <<engrams, live>>
  BY <1>2 DEF ListPage, CacheItem, ItemsDone, RequestFails
<1>4. CASE RequestFails(w)
  <2>1. Goto(w, Returned(c, "failed"))
    BY <1>4 DEF RequestFails, Return
  <2>2. call'[w] = Returned(c, "failed")
    BY <2>1, CallGoes
  <2> QED  BY <1>3, <2>2, CallAt, FailedListSound
<1> QED  BY <1>2, <1>3, <1>4, ListPageSound, CacheItemSound, ItemsDoneSound

(* A listing that just began has asked for nothing yet. *)
LEMMA OpenedListSound ==
  ASSUME NEW E, NEW L, GoodServer(E, L), live \subseteq DOMAIN E,
         NEW d, Opened(d)
  PROVE  ListSound(E, L, d)
<1> SUFFICES ASSUME d.op = "list" PROVE ListSound(E, L, d)
  BY DEF ListSound
<1> DEFINE V == VaultIn(E, L, d.t)
<1>1. /\ d.pc = "page" /\ d.off = 0 /\ d.count = 0
      /\ d.result = {} /\ d.atStart = live /\ d.outcome = "none"
  BY DEF Opened
<1>2. V \in SUBSET Nat /\ IsFiniteSet(V)
  BY VaultInFinite
<1>3. Due(E, L, d) \subseteq V
  BY DEF Due
<1> HIDE DEF V
<1>4. ASSUME NEW id \in V PROVE Rank(V, id) > 0
  BY <1>2, RankType
<1> QED  BY <1>1, <1>3, <1>4 DEF ListSound, V

(* No step brings back what was forgotten. *)
LEMMA NothingRevives ==
  ASSUME IInv, [Next]_vars
  PROVE  live' \cap DOMAIN engrams \subseteq live
<1> DEFINE goal == live' \cap DOMAIN engrams \subseteq live
<1>1. ASSUME live' \subseteq live PROVE goal
  BY <1>1
<1>2. Len(engrams) + 1 \notin DOMAIN engrams
  BY DEF IInv, GoodServer
<1>3. ASSUME NEW t, NEW u, NEW s, NEW k, NEW tag, NEW id,
             ServerWrites(t, u, s, k, tag, id)
      PROVE  goal
  BY <1>2, <1>3 DEF ServerWrites
<1> HIDE DEF goal
<1>4. ASSUME NEW w \in Workers, Begin(w) PROVE goal
  <2>1. ASSUME NEW t, NEW u, NEW s, NEW k, NEW tag, Write(w, t, u, s, k, tag)
        PROVE  goal
    BY <1>1, <1>3, <2>1 DEF Write
  <2>2. ASSUME NEW t, NEW u, NEW s, NEW k, Get(w, t, u, s, k) \/ Delete(w, t, u, s, k)
        PROVE  goal
    BY <1>1, <2>2 DEF Get, Delete
  <2>3. ASSUME NEW op, NEW t, NEW u, NEW s, NEW tag, NEW limit,
               Activate(w, op, t, u, s, tag, limit)
        PROVE  goal
    BY <1>1, <2>3 DEF Activate
  <2>4. ASSUME NEW t, NEW u, NEW s, NEW tag, List(w, t, u, s, tag) PROVE goal
    BY <1>1, <2>4 DEF List
  <2>5. ASSUME NEW t, NEW u, NEW s, NEW K, NEW tag, WriteBatch(w, t, u, s, K, tag)
        PROVE  goal
    BY <1>1, <2>5 DEF WriteBatch
  <2> QED  BY <1>4, <2>1, <2>2, <2>3, <2>4, <2>5
           DEF Begin, Set, SaveTurn, SetBatch, SetProfile
<1>5. ASSUME NEW w \in Workers, Step(w) PROVE goal
  <2>1. ASSUME ServeItem(w) PROVE goal
    BY <1>1, <1>3, <2>1 DEF ServeItem
  <2>2. ASSUME Forget(w) PROVE goal
    BY <1>1, <2>2 DEF Forget
  <2> QED  BY <1>1, <1>5, <2>1, <2>2
           DEF Step, CacheOwn, Read, ActivateKey, DropCache, ListPage,
               CacheItem, ItemsDone, SendChunk, ReceiveResults, CacheResult,
               NextChunk, RequestFails
<1>6. ASSUME Tick \/ Restart \/ UNCHANGED vars PROVE goal
  BY <1>1, <1>6 DEF Tick, Restart, vars
<1> QED  BY <1>4, <1>5, <1>6 DEF Next, goal

(* A step that forgets nothing of a vault that is being listed. *)
ListedStays ==
  \A w \in Workers :
    call[w].op = "list" /\ call[w].pc # "done" => Vault(call[w].t) \subseteq live'

LEMMA ListsKeep ==
  ASSUME IInv, ListsSound, [Next]_vars, ListedStays
  PROVE  ListsSound'
<1> DEFINE sound(v) == ListSound(engrams', live', call'[v])
<1>1. /\ GoodServer(engrams, live) /\ GoodServer(engrams', live')
      /\ Extends(engrams, engrams')
      /\ live' \cap DOMAIN engrams \subseteq live
  BY NextKeeps, ServerExtends, NothingRevives DEF IInv
<1>2. ASSUME NEW v \in Workers, call'[v] = call[v] PROVE sound(v)
  <2>1. ListSound(engrams, live, call[v])
    BY DEF ListsSound
  <2>2. call[v].op = "list" /\ call[v].pc # "done"
          => VaultIn(engrams, live, call[v].t) \subseteq live'
    BY DEF ListedStays, VaultIn, Vault
  <2> QED  BY <1>1, <1>2, <2>1, <2>2, CallAt, ListExtends
<1>3. ASSUME NEW v \in Workers, call'[v].op # "list" PROVE sound(v)
  BY <1>3 DEF ListSound
<1> SUFFICES \A v \in Workers : sound(v)
  BY DEF ListsSound
<1>4. ASSUME NEW w \in Workers, Begin(w) PROVE \A v \in Workers : sound(v)
  <2>1. live \subseteq DOMAIN engrams'
    BY <1>1 DEF GoodServer, Extends
  <2>3. sound(w)
    BY <1>1, <1>4, <2>1, BeginOpens, OpenedListSound
  <2>2. \A v \in Workers \ {w} : call'[v] = call[v]
    BY <1>4, BeginOpens
  <2> HIDE DEF sound
  <2> QED  BY <1>2, <2>2, <2>3
<1>5. ASSUME NEW w \in Workers, Step(w) PROVE \A v \in Workers : sound(v)
  <2>1. ASSUME call[w].op = "list" PROVE sound(w)
    <3>1. ListSound(engrams, live, call[w])
      BY DEF ListsSound
    <3> QED  BY <1>5, <2>1, <3>1, StepListSound
  <2>2. ASSUME call[w].op # "list" PROVE sound(w)
    BY <1>3, <1>5, <2>2, StepKeepsRequest DEF SameRequest
  <2>3. \A v \in Workers \ {w} : call'[v] = call[v]
    BY <1>5, StepKeepsRequest
  <2>4. sound(w)
    BY <2>1, <2>2
  <2> HIDE DEF sound
  <2> QED  BY <1>2, <2>3, <2>4
<1>6. CASE Tick \/ UNCHANGED vars
  BY <1>2, <1>6 DEF Tick, vars
<1>7. CASE Restart
  BY <1>3, <1>7 DEF Restart, Idle
<1> HIDE DEF sound
<1> QED  BY <1>4, <1>5, <1>6, <1>7 DEF Next

LEMMA ListInvariance ==
  Spec /\ [][ListedStays]_vars => [](IInv /\ ListsSound)
<1>1. Init => ListsSound
  BY DEF Init, ListsSound, ListSound, Idle
<1>2. IInv /\ ListsSound /\ [Next]_vars /\ [ListedStays]_vars => ListsSound'
  <2>1. UNCHANGED vars => ListedStays
    BY DEF vars, ListedStays, Vault
  <2> QED  BY <2>1, ListsKeep
<1> QED  BY <1>1, <1>2, Invariance, PTL DEF Spec

LEMMA ListsMeaning ==
  ASSUME ListsSound
  PROVE  ListIsComplete
<1> SUFFICES ASSUME NEW w \in Workers, call[w].op = "list", call[w].outcome = "ok"
             PROVE  Scope(call[w].t, call[w].u, call[w].s, call[w].tag)
                      \cap call[w].atStart \subseteq call[w].result
  BY DEF ListIsComplete
<1>1. Due(engrams, live, call[w]) \subseteq call[w].result
  BY DEF ListsSound, ListSound
<1> QED  BY <1>1 DEF Due, VaultIn, Scope, Vault

(* "List returns all memories": as long as nothing is forgotten in a vault *)
(* while it is listed, an answer of List holds every engram that matches   *)
(* and was there when it began, for any page size and order of the         *)
(* listing, while other goroutines write to that vault and forget in       *)
(* others, requests fail and the process restarts.  Forgetting one engram  *)
(* of a page already read is enough to break it: run list_during_delete.   *)
THEOREM ListsAreComplete ==
  Spec /\ [][ListedStays]_vars => []ListIsComplete
<1>1. ListsSound => ListIsComplete
  BY ListsMeaning
<1> QED  BY <1>1, ListInvariance, PTL

(* The call that a goroutine begins is one of the process. *)
LEMMA BeginOffers ==
  ASSUME IInv, NEW w \in Workers, Begin(w)
  PROVE  call'[w].op \in Calls
<1> DEFINE goal == call'[w].op \in Calls
<1>1. ASSUME NEW op, NEW d, Ready(w, op), Goto(w, d), d.op = op PROVE goal
  BY <1>1, CallGoes DEF Ready
<1>2. ASSUME NEW op, NEW t, NEW u, NEW s PROVE NewCall(op, t, u, s).op = op
  BY DEF NewCall, Idle
<1> HIDE DEF goal
<1>3. ASSUME NEW t, NEW u, NEW s, NEW k, NEW tag, Write(w, t, u, s, k, tag)
      PROVE  goal
  <2> DEFINE c == [NewCall("set", t, u, s) EXCEPT !.k = k]
             d(id) == [c EXCEPT !.pc = "cache", !.id = id]
             f == Returned(c, "failed")
  <2>1. f.op = "set" /\ \A id : d(id).op = "set"
    BY DEF NewCall, Idle, Returned
  <2>2. Ready(w, "set") /\ (Goto(w, f) \/ \E id : Goto(w, d(id)))
    BY <1>3 DEF Write
  <2> HIDE DEF d, f
  <2> QED  BY <1>1, <2>1, <2>2
<1>4. ASSUME NEW t, NEW u, NEW s, NEW k, Get(w, t, u, s, k) PROVE goal
  <2> DEFINE id == LookupIDCache(t, u, s, k)
             pc == IF id # NoId THEN "read" ELSE "activate"
             d == [NewCall("get", t, u, s) EXCEPT !.k = k, !.id = id, !.pc = pc]
  <2> HIDE DEF id, pc
  <2>1. d.op = "get"
    BY DEF NewCall, Idle
  <2>2. Ready(w, "get") /\ Goto(w, d)
    BY <1>4 DEF Get, id, pc
  <2> HIDE DEF d
  <2> QED  BY <1>1, <2>1, <2>2
<1>5. ASSUME NEW t, NEW u, NEW s, NEW k, Delete(w, t, u, s, k) PROVE goal
  <2> DEFINE id == LookupIDCache(t, u, s, k)
             pc == IF id # NoId THEN "forget" ELSE "activate"
             d == [NewCall("delete", t, u, s) EXCEPT !.k = k, !.id = id, !.pc = pc]
  <2> HIDE DEF id, pc
  <2>1. d.op = "delete"
    BY DEF NewCall, Idle
  <2>2. Ready(w, "delete") /\ Goto(w, d)
    BY <1>5 DEF Delete, id, pc
  <2> HIDE DEF d
  <2> QED  BY <1>1, <2>1, <2>2
<1>6. ASSUME NEW op, NEW t, NEW u, NEW s, NEW tag, NEW limit,
             Activate(w, op, t, u, s, tag, limit)
      PROVE  goal
  <2> DEFINE d(A) == [NewCall(op, t, u, s) EXCEPT
                        !.tag = tag, !.limit = limit, !.pc = "items", !.items = A]
             f == Returned([NewCall(op, t, u, s) EXCEPT
                              !.tag = tag, !.limit = limit], "failed")
  <2>1. f.op = op /\ \A A : d(A).op = op
    BY DEF NewCall, Idle, Returned
  <2>2. Ready(w, op) /\ (Goto(w, f) \/ \E A : Goto(w, d(A)))
    BY <1>6 DEF Activate
  <2> HIDE DEF d, f
  <2> QED  BY <1>1, <2>1, <2>2
<1>7. ASSUME NEW t, NEW u, NEW s, NEW tag, List(w, t, u, s, tag) PROVE goal
  <2> DEFINE d == [NewCall("list", t, u, s) EXCEPT
                     !.tag = tag, !.pc = "page", !.atStart = live]
  <2>1. d.op = "list"
    BY DEF NewCall, Idle
  <2>2. Ready(w, "list") /\ Goto(w, d)
    BY <1>7 DEF List
  <2> HIDE DEF d
  <2> QED  BY <1>1, <2>1, <2>2
<1>8. ASSUME NEW t, NEW u, NEW s, NEW K, NEW tag, WriteBatch(w, t, u, s, K, tag)
      PROVE  goal
  <2> DEFINE d == [NewCall("batch", t, u, s) EXCEPT
                     !.tag = tag, !.keys = K, !.pc = "send"]
  <2>1. d.op = "batch"
    BY DEF NewCall, Idle
  <2>2. Ready(w, "batch") /\ Goto(w, d)
    BY <1>8 DEF WriteBatch
  <2> HIDE DEF d
  <2> QED  BY <1>1, <2>1, <2>2
<1>9. goal
  BY <1>3, <1>4, <1>5, <1>6, <1>7, <1>8
     DEF Begin, Set, SaveTurn, SetBatch, SetProfile
<1> QED  BY <1>9 DEF goal

OpsOffered == \A w \in Workers : call[w].op \in Calls \cup {"none"}

LEMMA OpsKeep ==
  ASSUME IInv, OpsOffered, [Next]_vars
  PROVE  OpsOffered'
<1>1. ASSUME NEW w \in Workers, Begin(w) PROVE OpsOffered'
  BY <1>1, BeginOffers, BeginOpens DEF OpsOffered
<1>2. ASSUME NEW w \in Workers, Step(w) PROVE OpsOffered'
  BY <1>2, StepKeepsRequest DEF OpsOffered, SameRequest
<1>3. CASE Tick \/ UNCHANGED vars
  BY <1>3 DEF Tick, vars, OpsOffered
<1>4. CASE Restart
  BY <1>4 DEF Restart, Idle, OpsOffered
<1> QED  BY <1>1, <1>2, <1>3, <1>4 DEF Next

(* A process in which nothing deletes lists completely, whatever else its  *)
(* goroutines do at the same time (the run recall_and_profile).            *)
THEOREM ListsWithoutDeletes ==
  ASSUME "delete" \notin Calls
  PROVE  Spec => []ListIsComplete
<1>1. Init => OpsOffered /\ ListsSound
  BY DEF Init, Idle, OpsOffered, ListsSound, ListSound
<1>2. IInv /\ OpsOffered /\ [Next]_vars => ListedStays
  <2> SUFFICES ASSUME IInv, OpsOffered, [Next]_vars, NEW id \in live, id \notin live'
               PROVE  FALSE
    BY DEF ListedStays, Vault
  <2>1. PICK w \in Workers : Forget(w)
    BY OnlyForgetRemoves
  <2>2. call[w].pc = "forget"
    BY <2>1 DEF Forget
  <2>3. call[w].op = "delete"
    BY <2>2, CallAt DEF GoodCall, SoundIn
  <2> QED  BY <2>3 DEF OpsOffered
<1>3. IInv /\ OpsOffered /\ ListsSound /\ [Next]_vars => OpsOffered' /\ ListsSound'
  BY <1>2, OpsKeep, ListsKeep
<1>4. ListsSound => ListIsComplete
  BY ListsMeaning
<1> QED  BY <1>1, <1>3, <1>4, Invariance, PTL DEF Spec

(* A goroutine that has the store to itself lists completely: it deletes   *)
(* before its listing or after it.                                         *)
THEOREM LoneListsAreComplete ==
  ASSUME \E w : Workers = {w}
  PROVE  Spec => []ListIsComplete
<1>1. Init => ListsSound
  BY DEF Init, Idle, ListsSound, ListSound
<1>2. IInv /\ [Next]_vars => ListedStays
  <2> SUFFICES ASSUME IInv, [Next]_vars, NEW w \in Workers, call[w].op = "list",
                      NEW id \in live, id \notin live'
               PROVE  FALSE
    BY DEF ListedStays, Vault
  <2>1. PICK v \in Workers : Forget(v)
    BY OnlyForgetRemoves
  <2>2. v = w
    OBVIOUS
  <2>3. call[v].op = "delete"
    BY <2>1, CallAt DEF Forget, GoodCall, SoundIn
  <2> QED  BY <2>2, <2>3
<1>3. IInv /\ ListsSound /\ [Next]_vars => ListsSound'
  BY <1>2, ListsKeep
<1>4. ListsSound => ListIsComplete
  BY ListsMeaning
<1> QED  BY <1>1, <1>3, <1>4, Invariance, PTL DEF Spec

-----------------------------------------------------------------------------
(* The inductive invariant of the cache when one goroutine calls: every    *)
(* entry carries the very user and session it is cached under, and is not  *)
(* forgotten -- but for the one entry that a Delete is about to drop.  So  *)
(* the entry of a forgotten engram is the one that is dropped, which is    *)
(* what fails for callers without a user or a session, whose entries may   *)
(* lead to engrams that are cached under other keys too.                   *)

Dropping(c, t, u, s, k) ==
  c.pc = "drop" /\ c.t = t /\ c.u = u /\ c.s = s /\ c.k = k

Current(E, L, m, c) ==
  \A t \in Tenants, u \in TagUsers, s \in TagSessions, k \in Keys :
    LET id == m[t][CacheKey(u, s, k)]
    IN  id # NoId => /\ Exact(E, id, u, s)
                     /\ id \in L \/ Dropping(c, t, u, s, k)

CallLive(E, L, c) ==
  /\ c.pc \in {"activate", "forget"} => c.u # Empty /\ c.s # Empty
  /\ c.pc = "cache" => c.id \in L /\ Exact(E, c.id, c.u, c.s)
  /\ c.pc = "items" => c.items \subseteq L
  /\ c.pc \in {"send", "serve", "results"} =>
       \A a \in c.answers :
         a.id # NoId => a.id \in L /\ Exact(E, a.id, c.u, c.s)

CurrentInv ==
  \A w \in Workers : /\ CallLive(engrams, live, call[w])
                     /\ Current(engrams, live, idCache, call[w])

(* One goroutine calls, with a user and a session, and every answer comes. *)
Sequential ==
  /\ \E w : Workers = {w}
  /\ "transport" \notin Faults
  /\ Empty \notin Users /\ Empty \notin Sessions

LEMMA CurrentAt ==
  ASSUME CurrentInv, NEW w \in Workers
  PROVE  /\ CallLive(engrams, live, call[w])
         /\ Current(engrams, live, idCache, call[w])
BY DEF CurrentInv

(* The one goroutine is all there is to look at. *)
LEMMA CurrentPut ==
  ASSUME IInv, Sequential, NEW w \in Workers, NEW d, Goto(w, d),
         CallLive(engrams', live', d), Current(engrams', live', idCache', d)
  PROVE  CurrentInv'
<1>1. call'[w] = d
  BY CallGoes
<1>2. \A v \in Workers : v = w
  BY DEF Sequential
<1> QED  BY <1>1, <1>2 DEF CurrentInv

(* Nothing is forgotten and nothing is cached: the entries stay current,   *)
(* whatever the call does next.                                            *)
LEMMA CurrentExtends ==
  ASSUME NEW E, NEW F, Extends(E, F), NEW L, NEW M, L \subseteq M,
         NEW m, GoodCache(E, m), NEW c, c.pc # "drop", Current(E, L, m, c), NEW d
  PROVE  Current(F, M, m, d)
<1> SUFFICES ASSUME NEW t \in Tenants, NEW u \in TagUsers, NEW s \in TagSessions,
                    NEW k \in Keys, m[t][CacheKey(u, s, k)] # NoId
             PROVE  /\ Exact(F, m[t][CacheKey(u, s, k)], u, s)
                    /\ m[t][CacheKey(u, s, k)] \in M
  BY DEF Current
<1> DEFINE id == m[t][CacheKey(u, s, k)]
<1>1. Exact(E, id, u, s) /\ id \in L
  BY DEF Current, Dropping
<1>2. id \in DOMAIN E
  BY DEF GoodCache, FitsIn
<1> QED  BY <1>1, <1>2 DEF Extends, Exact

(* An entry is cached, or the one that a Delete drops is cleared. *)
LEMMA CurrentCached ==
  ASSUME NEW E, NEW L, NEW m, GoodCache(E, m), NEW c, Current(E, L, m, c),
         NEW t \in Tenants, NEW u \in TagUsers, NEW s \in TagSessions,
         NEW k \in Keys, NEW id, id = NoId \/ (id \in L /\ Exact(E, id, u, s)),
         c.pc = "drop" => Dropping(c, t, u, s, k), NEW d
  PROVE  Current(E, L, [m EXCEPT ![t][CacheKey(u, s, k)] = id], d)
<1> DEFINE n == [m EXCEPT ![t][CacheKey(u, s, k)] = id]
<1> SUFFICES ASSUME NEW q \in Tenants, NEW v \in TagUsers, NEW r \in TagSessions,
                    NEW l \in Keys, n[q][CacheKey(v, r, l)] # NoId
             PROVE  /\ Exact(E, n[q][CacheKey(v, r, l)], v, r)
                    /\ n[q][CacheKey(v, r, l)] \in L
  BY DEF Current
<1>1. CacheKey(v, r, l) \in CacheKeys /\ CacheKey(u, s, k) \in CacheKeys
  BY DEF CacheKeys
<1>2. CASE q = t /\ CacheKey(v, r, l) = CacheKey(u, s, k)
  <2>1. v = u /\ r = s /\ l = k
    BY <1>2, CacheKeyInjective
  <2>2. n[q][CacheKey(v, r, l)] = id
    BY <1>1, <1>2 DEF GoodCache
  <2> QED  BY <2>1, <2>2
<1>3. CASE ~(q = t /\ CacheKey(v, r, l) = CacheKey(u, s, k))
  <2>1. n[q][CacheKey(v, r, l)] = m[q][CacheKey(v, r, l)]
    BY <1>1, <1>3 DEF GoodCache
  <2>2. ~Dropping(c, q, v, r, l)
    BY <1>3 DEF Dropping
  <2> QED  BY <2>1, <2>2 DEF Current
<1> QED  BY <1>2, <1>3

(* A step that only moves the call. *)
LEMMA CurrentLocal ==
  ASSUME IInv, CurrentInv, Sequential, NEW w \in Workers, NEW d, Goto(w, d),
         call[w].pc # "drop", CallLive(engrams, live, d),
         UNCHANGED <<engrams, live, idCache>>
  PROVE  CurrentInv'
<1>1. Current(engrams, live, idCache, d)
  BY CurrentAt, CurrentExtends DEF IInv, Extends
<1> QED  BY <1>1, CurrentPut

(* A section under s.mu that caches a live id. *)
LEMMA CurrentCaches ==
  ASSUME IInv, CurrentInv, Sequential, NEW w \in Workers, NEW d, Goto(w, d),
         CallLive(engrams, live, d), UNCHANGED <<engrams, live>>,
         NEW t \in Tenants, NEW u \in TagUsers, NEW s \in TagSessions,
         NEW k \in Keys, NEW id,
         id = NoId \/ (id \in live /\ Exact(engrams, id, u, s)),
         call[w].pc = "drop" => Dropping(call[w], t, u, s, k),
         SetIDCache(t, u, s, k, id)
  PROVE  CurrentInv'
<1>1. Current(engrams, live, idCache', d)
  BY CurrentAt, CurrentCached DEF IInv, SetIDCache
<1> QED  BY <1>1, CurrentPut

LEMMA DoneLive ==
  ASSUME NEW E, NEW L, NEW d, d.pc = "done"
  PROVE  CallLive(E, L, d)
BY DEF CallLive

LEMMA ReturnedDone ==
  ASSUME NEW E, NEW c, GoodCall(E, c), NEW outcome
  PROVE  Returned(c, outcome).pc = "done"
BY DEF GoodCall, CallType, Returned

LEMMA BeginCurrent ==
  ASSUME IInv, CurrentInv, Sequential, NEW w \in Workers, Begin(w)
  PROVE  CurrentInv'
<1> DEFINE goal == CurrentInv'
<1>1. ASSUME call[w].pc = "done", NEW d, Goto(w, d), CallLive(engrams, live, d),
             UNCHANGED <<engrams, live, idCache>>
      PROVE  goal
  BY <1>1, CurrentLocal
<1> HIDE DEF goal
<1>2. ASSUME NEW u, u \in Users PROVE u # Empty
  BY <1>2 DEF Sequential
<1>3. ASSUME NEW s, s \in Sessions PROVE s # Empty
  BY <1>3 DEF Sequential
<1>4. ASSUME NEW t \in Tenants, NEW u \in Users, NEW s \in Sessions, NEW k \in Keys,
             NEW tag \in BOOLEAN, Write(w, t, u, s, k, tag)
      PROVE  goal
  <2> DEFINE c == [NewCall("set", t, u, s) EXCEPT !.k = k]
             d(id) == [c EXCEPT !.pc = "cache", !.id = id]
             failed == Returned(c, "failed")
  <2>1. /\ failed.pc = "done"
        /\ \A id : /\ d(id).pc = "cache" /\ d(id).id = id
                   /\ d(id).u = u /\ d(id).s = s
    BY DEF Returned, NewCall, Idle
  <2>2. \/ \E id : /\ ServerWrites(t, u, s, k, tag, id)
                   /\ Goto(w, d(id)) \/ Goto(w, failed)
        \/ Goto(w, failed) /\ UNCHANGED <<engrams, live>>
    BY <1>4 DEF Write
  <2>3. call[w].pc = "done" /\ idCache' = idCache
    BY <1>4 DEF Write, Ready
  <2> HIDE DEF c, d, failed
  <2>4. ASSUME NEW e, Goto(w, e), CallLive(engrams', live', e),
               Extends(engrams, engrams'), live \subseteq live'
        PROVE  goal
    <3>1. Current(engrams', live', idCache, e)
      BY <2>3, <2>4, CurrentAt, CurrentExtends DEF IInv
    <3> QED  BY <2>3, <2>4, <3>1, CurrentPut DEF goal
  <2>5. ASSUME NEW id, ServerWrites(t, u, s, k, tag, id),
               Goto(w, d(id)) \/ Goto(w, failed)
        PROVE  goal
    <3>1. /\ id \in live' /\ Exact(engrams', id, u, s) /\ live \subseteq live'
          /\ Extends(engrams, engrams')
      <4>1. u \in TagUsers /\ s \in TagSessions
        BY DEF TagUsers, TagSessions
      <4> QED  BY <2>5, <4>1, WrittenLive, Written
    <3>2. CallLive(engrams', live', d(id)) /\ CallLive(engrams', live', failed)
      BY <2>1, <3>1 DEF CallLive
    <3> QED  BY <2>4, <2>5, <3>1, <3>2
  <2>6. CASE Goto(w, failed) /\ UNCHANGED <<engrams, live>>
    BY <1>1, <2>1, <2>3, <2>6, DoneLive
  <2> QED  BY <2>2, <2>5, <2>6
<1>5. ASSUME NEW t, NEW u \in Users, NEW s \in Sessions, NEW k,
             Get(w, t, u, s, k) \/ Delete(w, t, u, s, k)
      PROVE  goal
  <2> DEFINE d(op, id, pc) == [NewCall(op, t, u, s) EXCEPT !.k = k, !.id = id, !.pc = pc]
  <2>1. \A op, id, pc : /\ d(op, id, pc).pc = pc
                        /\ d(op, id, pc).u = u /\ d(op, id, pc).s = s
    BY DEF NewCall, Idle
  <2>2. \E pc \in {"read", "activate", "forget"} : \E op, id : Goto(w, d(op, id, pc))
    BY <1>5 DEF Get, Delete
  <2>3. call[w].pc = "done" /\ UNCHANGED <<engrams, live, idCache>>
    BY <1>5 DEF Get, Delete, Ready
  <2> HIDE DEF d
  <2>4. \A pc \in {"read", "activate", "forget"} : \A op, id :
          CallLive(engrams, live, d(op, id, pc))
    BY <1>2, <1>3, <2>1 DEF CallLive
  <2> QED  BY <1>1, <2>2, <2>3, <2>4
<1>6. ASSUME NEW op, NEW t, NEW u, NEW s, NEW tag, NEW limit,
             Activate(w, op, t, u, s, tag, limit)
      PROVE  goal
  <2> DEFINE c == [NewCall(op, t, u, s) EXCEPT !.tag = tag, !.limit = limit]
             d(A) == [c EXCEPT !.pc = "items", !.items = A]
             failed == Returned(c, "failed")
  <2>1. failed.pc = "done" /\ \A A : d(A).pc = "items" /\ d(A).items = A
    BY DEF Returned, NewCall, Idle
  <2>2. Goto(w, failed) \/ \E A \in SUBSET Scope(t, u, s, tag) : Goto(w, d(A))
    BY <1>6 DEF Activate, Activations
  <2>3. call[w].pc = "done" /\ UNCHANGED <<engrams, live, idCache>>
    BY <1>6 DEF Activate, Ready
  <2> HIDE DEF c, d, failed
  <2>4. \A A \in SUBSET Scope(t, u, s, tag) : CallLive(engrams, live, d(A))
    BY <2>1 DEF CallLive, Scope, Vault
  <2> QED  BY <1>1, <2>1, <2>2, <2>3, <2>4, DoneLive
<1>7. ASSUME NEW t, NEW u, NEW s, NEW tag, List(w, t, u, s, tag) PROVE goal
  <2> DEFINE d == [NewCall("list", t, u, s) EXCEPT !.tag = tag, !.pc = "page", !.atStart = live]
  <2>1. CallLive(engrams, live, d)
    BY DEF NewCall, Idle, CallLive
  <2>2. call[w].pc = "done" /\ Goto(w, d) /\ UNCHANGED <<engrams, live, idCache>>
    BY <1>7 DEF List, Ready
  <2> HIDE DEF d
  <2> QED  BY <1>1, <2>1, <2>2
<1>8. ASSUME NEW t, NEW u, NEW s, NEW K, NEW tag, WriteBatch(w, t, u, s, K, tag)
      PROVE  goal
  <2> DEFINE d == [NewCall("batch", t, u, s) EXCEPT !.tag = tag, !.keys = K, !.pc = "send"]
  <2>1. CallLive(engrams, live, d)
    BY DEF NewCall, Idle, CallLive
  <2>2. call[w].pc = "done" /\ Goto(w, d) /\ UNCHANGED <<engrams, live, idCache>>
    BY <1>8 DEF WriteBatch, Ready
  <2> HIDE DEF d
  <2> QED  BY <1>1, <2>1, <2>2
<1>9. \A k \in Keys : Tagged(k, FALSE) \in BOOLEAN
  BY TagIsBoolean
<1>10. goal
  <2>1. PICK t \in Tenants, u \in Users, s \in Sessions :
          \/ \E k \in Keys : \/ Write(w, t, u, s, k, Tagged(k, FALSE))
                             \/ Write(w, t, u, s, k, FALSE)
                             \/ Get(w, t, u, s, k) \/ Delete(w, t, u, s, k)
          \/ \E op, tag, limit : Activate(w, op, t, u, s, tag, limit)
          \/ \E tag : List(w, t, u, s, tag)
          \/ \E K, tag : WriteBatch(w, t, u, s, K, tag)
          \/ \E K, tag : WriteBatch(w, t, u, Empty, K, tag)
    BY DEF Begin, Set, SaveTurn, SetBatch, SetProfile
  <2>2. ASSUME NEW k \in Keys,
               \/ Write(w, t, u, s, k, Tagged(k, FALSE))
               \/ Write(w, t, u, s, k, FALSE)
               \/ Get(w, t, u, s, k) \/ Delete(w, t, u, s, k)
        PROVE  goal
    BY <1>4, <1>5, <1>9, <2>2
  <2> QED  BY <1>6, <1>7, <1>8, <2>1, <2>2
<1> QED  BY <1>10 DEF goal

(* Steps that touch neither the server nor the cache. *)
LEMMA LocalStepsCurrent ==
  ASSUME IInv, CurrentInv, Sequential, NEW w \in Workers,
         \/ Read(w) \/ ActivateKey(w) \/ ListPage(w) \/ ItemsDone(w)
         \/ SendChunk(w) \/ ReceiveResults(w) \/ NextChunk(w)
  PROVE  CurrentInv'
<1> DEFINE c == call[w]
           goal == CurrentInv'
<1>1. c \in CallType(DOMAIN engrams) /\ GoodCall(engrams, c)
  BY CallAt DEF GoodCall
<1>2. UNCHANGED <<engrams, live, idCache>> /\ c.pc # "drop"
  BY DEF Read, ActivateKey, ListPage, ItemsDone, SendChunk, ReceiveResults, NextChunk
<1>3. ASSUME NEW d, Goto(w, d), CallLive(engrams, live, d) PROVE goal
  BY <1>2, <1>3, CurrentLocal
<1>4. ASSUME NEW outcome, Return(w, outcome) PROVE goal
  BY <1>1, <1>3, <1>4, ReturnedDone, DoneLive DEF Return
<1>5. CallLive(engrams, live, c)
  BY CurrentAt
<1> HIDE DEF goal
<1>6. ASSUME Read(w) PROVE goal
  <2> DEFINE d == [Returned(c, "ok") EXCEPT !.result = {c.id}]
  <2>1. d.pc = "done"
    BY <1>1 DEF Returned, CallType
  <2>2. Goto(w, d) \/ Return(w, "missing")
    BY <1>6 DEF Read
  <2> HIDE DEF d
  <2> QED  BY <1>3, <1>4, <2>1, <2>2, DoneLive
<1>7. ASSUME ActivateKey(w) PROVE goal
  <2> DEFINE d(id, pc) == [c EXCEPT !.id = id, !.pc = pc]
             pc == IF c.op = "get" THEN "cache" ELSE "forget"
  <2>1. \/ \E id \in Scope(c.t, c.u, c.s, FALSE) : Goto(w, d(id, pc))
        \/ \E outcome : Return(w, outcome)
    BY <1>7 DEF ActivateKey, Activations
  <2>2. c.pc = "activate" /\ c.u # Empty /\ c.s # Empty
    BY <1>5, <1>7 DEF ActivateKey, CallLive
  <2>3. \A id \in Scope(c.t, c.u, c.s, FALSE) :
          id \in live /\ Exact(engrams, id, c.u, c.s)
    BY <2>2 DEF Scope, Vault, InScope, Exact
  <2>4. \A id, q : /\ d(id, q).pc = q /\ d(id, q).id = id
                   /\ d(id, q).u = c.u /\ d(id, q).s = c.s
    BY <1>1 DEF CallType
  <2>5. pc \in {"cache", "forget"}
    OBVIOUS
  <2> HIDE DEF d, pc, c
  <2>6. \A id \in Scope(c.t, c.u, c.s, FALSE) : CallLive(engrams, live, d(id, pc))
    <3> TAKE id \in Scope(c.t, c.u, c.s, FALSE)
    <3> DEFINE e == d(id, pc)
    <3>1. e.pc = pc /\ e.id = id /\ e.u = c.u /\ e.s = c.s
      BY <2>4
    <3>2. id \in live /\ Exact(engrams, id, c.u, c.s)
      BY <2>3
    <3> HIDE DEF e
    <3>3. CallLive(engrams, live, e)
      BY <2>2, <2>5, <3>1, <3>2 DEF CallLive
    <3> QED  BY <3>3 DEF e
  <2> QED  BY <1>3, <1>4, <2>1, <2>6
<1>8. ASSUME ListPage(w) PROVE goal
  <2> DEFINE d(I, full, n) == [c EXCEPT !.pc = "items", !.items = I, !.full = full, !.total = n]
  <2>1. \E I \in SUBSET live : \E full, n : Goto(w, d(I, full, n))
    <3> DEFINE page == Page(c.t, c.off)
               I == {id \in page : InScope(engrams[id], c.u, c.s, c.tag)}
               full == (Cardinality(page) = PageSize)
               n == Cardinality(Vault(c.t))
    <3>1. Goto(w, d(I, full, n))
      BY <1>8 DEF ListPage
    <3>2. I \in SUBSET live
      BY DEF Page, Vault
    <3> HIDE DEF page, I, full, n, d
    <3> QED  BY <3>1, <3>2
  <2>2. \A I, full, n : d(I, full, n).pc = "items" /\ d(I, full, n).items = I
    BY <1>1 DEF CallType
  <2> HIDE DEF d
  <2>3. \A I \in SUBSET live : \A full, n : CallLive(engrams, live, d(I, full, n))
    BY <2>2 DEF CallLive
  <2> QED  BY <1>3, <2>1, <2>3
<1>9. ASSUME ItemsDone(w) PROVE goal
  <2> DEFINE d(off) == [c EXCEPT !.pc = "page", !.off = off]
  <2>1. (\E off : Goto(w, d(off))) \/ Return(w, "ok")
    BY <1>9 DEF ItemsDone
  <2>2. \A off : d(off).pc = "page"
    BY <1>1 DEF CallType
  <2> HIDE DEF d
  <2>3. \A off : CallLive(engrams, live, d(off))
    BY <2>2 DEF CallLive
  <2> QED  BY <1>3, <1>4, <2>1, <2>3
<1>10. ASSUME NEW d, d.pc \in {"send", "serve", "results"},
              d.answers = c.answers, d.u = c.u, d.s = c.s,
              c.pc \in {"send", "serve", "results"}
       PROVE  CallLive(engrams, live, d)
  BY <1>5, <1>10 DEF CallLive
<1>11. ASSUME SendChunk(w) PROVE goal
  <2> DEFINE d(C) == [c EXCEPT !.pc = "serve", !.chunk = C, !.sent = Sent(c, C)]
  <2>1. c.pc = "send" /\ (Return(w, "ok") \/ \E C : Goto(w, d(C)))
    BY <1>11 DEF SendChunk
  <2>2. \A C : /\ d(C).pc = "serve" /\ d(C).answers = c.answers
               /\ d(C).u = c.u /\ d(C).s = c.s
    BY <1>1 DEF CallType
  <2> HIDE DEF d
  <2>3. \A C : CallLive(engrams, live, d(C))
    BY <1>10, <2>1, <2>2
  <2> QED  BY <1>3, <1>4, <2>1, <2>3
<1>12. ASSUME ReceiveResults(w) \/ NextChunk(w) PROVE goal
  <2> DEFINE d(pc) == [c EXCEPT !.pc = pc]
  <2>1. /\ c.pc \in {"serve", "results"}
        /\ \E pc \in {"results", "send"} : Goto(w, d(pc))
    BY <1>12 DEF ReceiveResults, NextChunk
  <2>2. \A pc : /\ d(pc).pc = pc /\ d(pc).answers = c.answers
                /\ d(pc).u = c.u /\ d(pc).s = c.s
    BY <1>1 DEF CallType
  <2> HIDE DEF d
  <2>3. \A pc \in {"results", "send"} : CallLive(engrams, live, d(pc))
    BY <1>10, <2>1, <2>2
  <2> QED  BY <1>3, <2>1, <2>3
<1>13. goal
  BY <1>6, <1>7, <1>8, <1>9, <1>11, <1>12
<1> QED  BY <1>13 DEF goal

(* Forgetting an engram leaves behind only the entry that the same call    *)
(* drops next: any other entry that leads to it would be under its own     *)
(* user, session and concept, which are those of the call.                 *)
LEMMA ForgetCurrent ==
  ASSUME IInv, CurrentInv, Sequential, NEW w \in Workers, Forget(w)
  PROVE  CurrentInv'
<1> DEFINE c == call[w]
           d == [c EXCEPT !.pc = "drop"]
<1>1. c \in CallType(DOMAIN engrams) /\ GoodCall(engrams, c) /\ c.pc = "forget"
  BY CallAt DEF GoodCall, Forget
<1>2. "transport" \notin Faults
  BY DEF Sequential
<1>3. CallLive(engrams, live, c) /\ Current(engrams, live, idCache, c)
  BY CurrentAt
<1>4. CASE c.id \notin live /\ Return(w, "missing")
  <2>1. live' = live /\ UNCHANGED <<engrams, idCache>>
    BY <1>4 DEF Forget
  <2> QED  BY <1>1, <1>4, <2>1, ReturnedDone, DoneLive, CurrentLocal DEF Return
<1>5. CASE Goto(w, d)
  <2>1. live' = live \ {c.id} /\ UNCHANGED <<engrams, idCache>>
    BY DEF Forget
  <2>2. /\ d.pc = "drop" /\ d.t = c.t /\ d.u = c.u /\ d.s = c.s /\ d.k = c.k
    BY <1>1 DEF CallType
  <2>3. /\ FitsIn(engrams, c.id, c.t, c.u, c.s, c.k)
        /\ c.u # Empty /\ c.s # Empty
    BY <1>1, <1>3 DEF GoodCall, SoundIn, CallLive
  <2>4. Exact(engrams, c.id, c.u, c.s)
    BY <2>3 DEF FitsIn, InScope, Exact
  <2> HIDE DEF d
  <2>5. ASSUME NEW t \in Tenants, NEW u \in TagUsers, NEW s \in TagSessions,
               NEW k \in Keys, idCache[t][CacheKey(u, s, k)] # NoId
        PROVE  /\ Exact(engrams, idCache[t][CacheKey(u, s, k)], u, s)
               /\ \/ idCache[t][CacheKey(u, s, k)] \in live \ {c.id}
                  \/ Dropping(d, t, u, s, k)
    <3> DEFINE id == idCache[t][CacheKey(u, s, k)]
    <3>1. Exact(engrams, id, u, s) /\ id \in live
      BY <1>1, <1>3, <2>5 DEF Current, Dropping
    <3>2. FitsIn(engrams, id, t, u, s, k)
      BY <2>5 DEF IInv, GoodCache
    <3>3. id = c.id => Dropping(d, t, u, s, k)
      BY <2>2, <2>3, <2>4, <3>1, <3>2 DEF FitsIn, Exact, Dropping
    <3> QED  BY <3>1, <3>3
  <2>6. Current(engrams, live \ {c.id}, idCache, d)
    BY <2>5 DEF Current
  <2>7. CallLive(engrams, live \ {c.id}, d)
    BY <2>2 DEF CallLive
  <2> QED  BY <1>5, <2>1, <2>6, <2>7, CurrentPut
<1> QED  BY <1>2, <1>4, <1>5 DEF Forget

(* Steps that change the cache or write. *)
LEMMA CacheStepsCurrent ==
  ASSUME IInv, CurrentInv, Sequential, NEW w \in Workers,
         CacheOwn(w) \/ DropCache(w) \/ CacheItem(w) \/ CacheResult(w)
  PROVE  CurrentInv'
<1> DEFINE c == call[w]
           goal == CurrentInv'
           own(t, u, s, k) == /\ t \in Tenants /\ u \in TagUsers
                              /\ s \in TagSessions /\ k \in Keys
<1>1. c \in CallType(DOMAIN engrams) /\ GoodCall(engrams, c) /\ SoundIn(engrams, c)
  BY CallAt DEF GoodCall
<1>2. UNCHANGED <<engrams, live>>
  BY DEF CacheOwn, DropCache, CacheItem, CacheResult
<1>3. c.pc \in {"cache", "drop", "items", "results"} /\ CallLive(engrams, live, c)
  BY CurrentAt DEF CacheOwn, DropCache, CacheItem, CacheResult
<1>4. /\ c.t \in Tenants /\ c.u \in TagUsers /\ c.s \in TagSessions
      /\ c.pc \in {"cache", "drop"} => c.k \in Keys
  BY <1>1, <1>3 DEF CallType, SoundIn
<1>5. ASSUME NEW t \in Tenants, NEW u \in TagUsers, NEW s \in TagSessions,
             NEW k \in Keys, NEW id \in live, Exact(engrams, id, u, s),
             c.pc # "drop", SetIDCache(t, u, s, k, id),
             NEW d, Goto(w, d), CallLive(engrams, live, d)
      PROVE  goal
  BY <1>2, <1>5, CurrentCaches
<1> HIDE DEF goal
<1>6. ASSUME CacheOwn(w) PROVE goal
  <2> DEFINE d == [Returned(c, "ok") EXCEPT
                     !.result = IF c.op = "get" THEN {c.id} ELSE {}]
  <2>1. d.pc = "done"
    BY <1>1 DEF Returned, CallType
  <2>2. c.pc = "cache" /\ SetIDCache(c.t, c.u, c.s, c.k, c.id) /\ Goto(w, d)
    BY <1>6 DEF CacheOwn
  <2> HIDE DEF d
  <2>3. c.id \in live /\ Exact(engrams, c.id, c.u, c.s)
    BY <1>3, <2>2 DEF CallLive
  <2> HIDE DEF c
  <2> QED  BY <1>4, <1>5, <2>1, <2>2, <2>3, DoneLive
<1>7. ASSUME DropCache(w) PROVE goal
  <2> DEFINE d == Returned(c, "ok")
  <2>1. /\ c.pc = "drop" /\ Goto(w, d) /\ SetIDCache(c.t, c.u, c.s, c.k, NoId)
    BY <1>7 DEF DropCache, DeleteIDCache, SetIDCache, Return
  <2>2. CallLive(engrams, live, d)
    BY <1>1, ReturnedDone, DoneLive
  <2>3. Dropping(c, c.t, c.u, c.s, c.k)
    BY <2>1 DEF Dropping
  <2> HIDE DEF d
  <2> QED  BY <1>2, <1>4, <2>1, <2>2, <2>3, CurrentCaches DEF goal
<1>8. ASSUME CacheItem(w) PROVE goal
  <2> DEFINE e(id) == engrams[id]
             d(id) == [c EXCEPT !.items = @ \ {id}, !.count = @ + 1,
                                !.result = @ \cup {id}]
  <2>1. PICK id \in c.items :
          SetIDCache(c.t, e(id).user, e(id).session, e(id).key, id) /\ Goto(w, d(id))
    BY <1>8 DEF CacheItem
  <2>2. c.pc = "items" /\ c.items \subseteq live
    BY <1>3, <1>8 DEF CacheItem, CallLive
  <2>3. e(id) \in EngramType
    BY <1>1, <2>1 DEF CallType, IInv, GoodServer
  <2>4. /\ e(id).user \in TagUsers /\ e(id).session \in TagSessions
        /\ e(id).key \in Keys /\ Exact(engrams, id, e(id).user, e(id).session)
    BY <2>3 DEF EngramType, Exact
  <2>5. CallLive(engrams, live, d(id))
    <3>1. d(id).pc = "items" /\ d(id).items = c.items \ {id}
      BY <1>1, <2>2 DEF CallType
    <3> HIDE DEF d
    <3> QED  BY <2>2, <3>1 DEF CallLive
  <2>6. id \in live
    BY <2>1, <2>2
  <2> HIDE DEF c, d, e
  <2> QED  BY <1>4, <1>5, <2>1, <2>2, <2>4, <2>5, <2>6
<1>9. ASSUME CacheResult(w) PROVE goal
  <2> DEFINE d(a) == [c EXCEPT !.answers = @ \ {a}]
  <2>1. c.pc = "results"
    BY <1>9 DEF CacheResult
  <2>2. ASSUME NEW a \in c.answers PROVE CallLive(engrams, live, d(a))
    <3>1. /\ d(a).pc = "results" /\ d(a).answers = c.answers \ {a}
          /\ d(a).u = c.u /\ d(a).s = c.s
      BY <1>1, <2>1 DEF CallType
    <3> HIDE DEF d
    <3> QED  BY <1>3, <2>1, <3>1 DEF CallLive
  <2>3. ASSUME NEW x, Goto(w, x), CallLive(engrams, live, x), UNCHANGED idCache
        PROVE  goal
    BY <1>2, <2>1, <2>3, CurrentLocal DEF goal
  <2>4. CASE Return(w, "failed") /\ UNCHANGED idCache
    BY <1>1, <2>3, <2>4, ReturnedDone, DoneLive DEF Return
  <2>5. ASSUME NEW a \in c.answers, Goto(w, d(a)), UNCHANGED idCache PROVE goal
    BY <2>2, <2>3, <2>5
  <2>6. ASSUME NEW a \in c.answers, a.id # NoId, Goto(w, d(a)),
               SetIDCache(c.t, c.u, c.s, a.key, a.id)
        PROVE  goal
    <3>1. a.id \in live /\ Exact(engrams, a.id, c.u, c.s) /\ a.key \in Keys
      BY <1>1, <1>3, <2>1, <2>6 DEF CallLive, CallType, AnswerType
    <3> HIDE DEF c, d
    <3> QED  BY <1>4, <1>5, <2>1, <2>2, <2>6, <3>1
  <2>7. \E a \in c.answers :
          \/ Return(w, "failed") /\ UNCHANGED idCache
          \/ Goto(w, d(a)) /\ UNCHANGED idCache
          \/ /\ a.id # NoId /\ Goto(w, d(a))
             /\ SetIDCache(c.t, c.u, c.s, a.key, a.id)
    BY <1>9 DEF CacheResult, KeyOf
  <2> HIDE DEF c, d
  <2> QED  BY <2>4, <2>5, <2>6, <2>7
<1>10. goal
  BY <1>6, <1>7, <1>8, <1>9
<1> QED  BY <1>10 DEF goal

LEMMA ServeItemCurrent ==
  ASSUME IInv, CurrentInv, Sequential, NEW w \in Workers, ServeItem(w)
  PROVE  CurrentInv'
<1> DEFINE c == call[w]
           d(k, id, err) ==
             [c EXCEPT !.chunk = @ \ {k}, !.answers = @ \cup {Answer(k, id, err)},
                       !.stored = IF err THEN @ ELSE @ \cup {k}]
           goal == CurrentInv'
<1>1. /\ c \in CallType(DOMAIN engrams) /\ SoundIn(engrams, c) /\ c.pc = "serve"
      /\ CallLive(engrams, live, c) /\ Current(engrams, live, idCache, c)
      /\ idCache' = idCache
  BY CallAt, CurrentAt DEF GoodCall, ServeItem
<1>2. ASSUME NEW e, Goto(w, e), CallLive(engrams', live', e),
             Extends(engrams, engrams'), live \subseteq live'
      PROVE  goal
  <2>1. Current(engrams', live', idCache, e)
    BY <1>1, <1>2, CurrentExtends DEF IInv
  <2> QED  BY <1>1, <1>2, <2>1, CurrentPut
<1>3. \A k, id, err :
        /\ d(k, id, err).pc = "serve" /\ d(k, id, err).u = c.u
        /\ d(k, id, err).s = c.s
        /\ d(k, id, err).answers = c.answers \cup {Answer(k, id, err)}
  BY <1>1 DEF CallType
<1>4. \A k, id, err : Answer(k, id, err).id = id
  BY DEF Answer
<1> HIDE DEF d, goal
<1> DEFINE silent(k) == [c EXCEPT !.chunk = @ \ {k}]
<1>10. \A k : CallLive(engrams, live, silent(k))
  BY <1>1 DEF CallType, CallLive
<1> HIDE DEF silent
<1>5. ASSUME Extends(engrams, engrams'), live \subseteq live', NEW k, NEW id, NEW err,
             id # NoId => id \in live' /\ Exact(engrams', id, c.u, c.s)
      PROVE  CallLive(engrams', live', d(k, id, err))
  <2> DEFINE x == d(k, id, err)
  <2>1. ASSUME NEW a \in c.answers, a.id # NoId
        PROVE  a.id \in live' /\ Exact(engrams', a.id, c.u, c.s)
    <3>1. a.id \in live /\ Exact(engrams, a.id, c.u, c.s)
      BY <1>1, <2>1 DEF CallLive
    <3>2. a.id \in DOMAIN engrams
      BY <3>1 DEF IInv, GoodServer
    <3> QED  BY <1>5, <3>1, <3>2 DEF Extends, Exact
  <2>2. /\ x.pc = "serve" /\ x.u = c.u /\ x.s = c.s
        /\ x.answers = c.answers \cup {Answer(k, id, err)}
    BY <1>3
  <2> HIDE DEF x, c
  <2>3. CallLive(engrams', live', x)
    BY <1>4, <1>5, <2>1, <2>2 DEF CallLive
  <2> QED  BY <2>3 DEF x
<1>6. \E k \in c.chunk :
        \/ Goto(w, d(k, NoId, TRUE)) /\ UNCHANGED <<engrams, live>>
        \/ Goto(w, silent(k)) /\ UNCHANGED <<engrams, live>>
        \/ \E id : /\ ServerWrites(c.t, c.u, c.s, k, Tagged(k, c.tag), id)
                   /\ Goto(w, d(k, id, FALSE)) \/ Goto(w, d(k, NoId, FALSE))
  BY DEF ServeItem, d, silent
<1>7. ASSUME NEW k \in c.chunk, Goto(w, d(k, NoId, TRUE)), UNCHANGED <<engrams, live>>
      PROVE  goal
  <2>1. Extends(engrams, engrams') /\ live \subseteq live'
    BY <1>7 DEF Extends
  <2> HIDE DEF c
  <2> QED  BY <1>2, <1>5, <1>7, <2>1
<1>8. ASSUME NEW k \in c.chunk, NEW id,
             ServerWrites(c.t, c.u, c.s, k, Tagged(k, c.tag), id),
             Goto(w, d(k, id, FALSE)) \/ Goto(w, d(k, NoId, FALSE))
      PROVE  goal
  <2>1. /\ c.t \in Tenants /\ c.u \in TagUsers /\ c.s \in TagSessions
        /\ k \in Keys /\ Tagged(k, c.tag) \in BOOLEAN
    BY <1>1, TagIsBoolean DEF CallType, SoundIn
  <2> HIDE DEF c
  <2>2. /\ id \in live' /\ Exact(engrams', id, c.u, c.s) /\ live \subseteq live'
        /\ Extends(engrams, engrams')
    BY <1>8, <2>1, WrittenLive, Written
  <2> QED  BY <1>2, <1>5, <1>8, <2>2
<1>11. ASSUME NEW k \in c.chunk, Goto(w, silent(k)), UNCHANGED <<engrams, live>>
      PROVE  goal
  <2>1. Extends(engrams, engrams') /\ live \subseteq live'
    BY <1>11 DEF Extends
  <2>2. CallLive(engrams', live', silent(k))
    BY <1>10, <1>11
  <2> QED  BY <1>2, <1>11, <2>1, <2>2
<1>9. goal
  BY <1>6, <1>7, <1>8, <1>11
<1> QED  BY <1>9 DEF goal

LEMMA CurrentKeeps ==
  ASSUME IInv, CurrentInv, Sequential, [Next]_vars
  PROVE  CurrentInv'
<1>1. ASSUME NEW w \in Workers, Step(w) PROVE CurrentInv'
  <2>1. ~RequestFails(w)
    BY DEF RequestFails, Sequential
  <2> QED  BY <1>1, <2>1, LocalStepsCurrent, ForgetCurrent, CacheStepsCurrent,
              ServeItemCurrent DEF Step
<1>2. CASE Tick \/ UNCHANGED vars
  BY <1>2 DEF Tick, vars, CurrentInv
<1>3. CASE Restart
  <2>1. \A w \in Workers : CallLive(engrams', live', call'[w])
    BY <1>3, DoneLive DEF Restart, Idle
  <2>2. \A t \in Tenants : \A x \in CacheKeys : idCache'[t][x] = NoId
    BY <1>3 DEF Restart
  <2>3. \A w \in Workers : Current(engrams', live', idCache', call'[w])
    BY <2>2 DEF Current, CacheKeys
  <2> QED  BY <2>1, <2>3 DEF CurrentInv
<1> QED  BY <1>1, <1>2, <1>3, BeginCurrent DEF Next

(* With one caller at a time, each with a user and a session, and no lost  *)
(* answer, no cached id is left pointing at a forgotten engram between     *)
(* calls: what Delete forgets it drops from the cache, batches, listings   *)
(* and searches cache what they were answered before anything is           *)
(* forgotten, and a restart empties the cache.                             *)
THEOREM CacheStaysLive ==
  ASSUME Sequential
  PROVE  Spec => []CacheLive
<1>1. Init => CurrentInv
  <2> SUFFICES ASSUME Init PROVE CurrentInv
    OBVIOUS
  <2>1. \A w \in Workers : CallLive(engrams, live, call[w])
    BY DoneLive DEF Init, Idle
  <2>2. \A t \in Tenants : \A x \in CacheKeys : idCache[t][x] = NoId
    BY DEF Init
  <2>3. \A w \in Workers : Current(engrams, live, idCache, call[w])
    BY <2>2 DEF Current, CacheKeys
  <2> QED  BY <2>1, <2>3 DEF CurrentInv
<1>2. IInv /\ CurrentInv /\ [Next]_vars => CurrentInv'
  BY CurrentKeeps
<1>3. IInv /\ CurrentInv => CacheLive
  <2> SUFFICES ASSUME IInv, CurrentInv, \A w \in Workers : call[w].pc = "done",
                      NEW t \in Tenants, NEW x \in CacheKeys
               PROVE  idCache[t][x] \in live \cup {NoId}
    BY DEF CacheLive
  <2>1. PICK w : w \in Workers
    BY DEF Sequential
  <2>2. Current(engrams, live, idCache, call[w]) /\ call[w].pc = "done"
    BY <2>1, CurrentAt
  <2>3. PICK u \in TagUsers, s \in TagSessions, k \in Keys : x = CacheKey(u, s, k)
    BY DEF CacheKeys
  <2> QED  BY <2>2, <2>3 DEF Current, Dropping
<1> QED  BY <1>1, <1>2, <1>3, Invariance, PTL DEF Spec

=============================================================================
