-------------------------- MODULE Editorial_proofs --------------------------
(***************************************************************************)
(* Proofs about PlacementBatches, ArticleImport and CategoryTree, for any  *)
(* values of their constants, and the types of the run that checks them    *)
(* together with ArticleReview.                                            *)
(*                                                                         *)
(* A slot holds what it may because every batch that is executed is judged *)
(* by the rows there are when it is. An import that has ended is left      *)
(* alone because only a step of its own handler or process could change    *)
(* it. A move cannot close a cycle because the rows can be ranked by their *)
(* depth: what is below the row that is moved is ranked above its new      *)
(* parent by as much as it was above the old one.                          *)
(***************************************************************************)
EXTENDS MC_Editorial, ArticleReview_proofs, FiniteSetTheorems,
        SequenceTheorems, TLAPS

-----------------------------------------------------------------------------
(* Placements: a slot holds what it may.                                   *)

\* The unique constraint: an article has one row in a slot.
UniqueRows ==
    \A r, q \in PlacementIds :
        /\ placement[r] # None /\ placement[q] # None
        /\ placement[r].slot = placement[q].slot
        /\ placement[r].article = placement[q].article
        => r = q

RowTypes == placement \in [PlacementIds -> Placements \cup {None}]

SlotInv == RowTypes /\ UniqueRows /\ SlotsHold

\* The items of a batch are what its operation works on.
ItemsOK(entry) ==
    entry.items \subseteq IF entry.operation = "create" THEN Articles
                        ELSE PlacementIds

\* Rows that are shown are finitely many.
LEMMA ActiveFinite ==
    ASSUME NEW s
    PROVE  IsFiniteSet(Active(s)) /\ Cardinality(Active(s)) \in Nat
  <1>1. Active(s) \in SUBSET PlacementIds
    BY DEF Active
  <1> QED BY <1>1, FS_Subset, FS_CardinalityType, PlacementAssumption

\* A set with no more elements than a finite one has no larger a cardinality.
LEMMA SubsetFits ==
    ASSUME NEW A, IsFiniteSet(A), NEW B \in SUBSET A, NEW n \in Nat,
           Cardinality(A) <= n
    PROVE  Cardinality(B) <= n
  BY FS_Subset, FS_CardinalityType

\* What is brought in by as many items adds at most their number.
LEMMA BroughtIn ==
    ASSUME NEW A, IsFiniteSet(A), NEW I, IsFiniteSet(I), NEW f,
           f = [x \in I |-> f[x]],
           NEW B \in SUBSET (A \cup {f[x] : x \in I}), NEW n \in Nat,
           Cardinality(A) + Cardinality(I) <= n
    PROVE  Cardinality(B) <= n
  <1> DEFINE R == {f[x] : x \in I}
  <1>1. f \in Surjection(I, R)
    BY DEF Surjection
  <1>2. IsFiniteSet(R) /\ Cardinality(R) <= Cardinality(I)
    BY <1>1, FS_Surjection
  <1> HIDE DEF R
  <1>3. /\ IsFiniteSet(A \cup R)
        /\ Cardinality(A \cup R)
             = Cardinality(A) + Cardinality(R) - Cardinality(A \cap R)
    BY <1>2, FS_Union
  <1>4. /\ Cardinality(A) \in Nat /\ Cardinality(R) \in Nat
        /\ Cardinality(I) \in Nat /\ Cardinality(A \cap R) \in Nat
    BY <1>2, FS_CardinalityType, FS_Intersection
  <1>5. Cardinality(A \cup R) <= n
    BY <1>2, <1>3, <1>4
  <1> QED BY <1>3, <1>5, SubsetFits DEF R

\* A slot that shows no new row still holds what it may.
LEMMA ShowsLess ==
    ASSUME SlotsHold, NEW s \in Slots, Active(s)' \subseteq Active(s)
    PROVE  Cardinality(Active(s)') <= MaxItems[s]
  <1>1. MaxItems[s] \in Nat
    BY PlacementAssumption
  <1> QED BY <1>1, ActiveFinite, SubsetFits DEF SlotsHold

\* Saving one placement, by a form that may be old, keeps the slots.
LEMMA SaveKeepsSlots ==
    ASSUME SlotInv, NEW r \in PlacementIds, NEW a \in Articles,
           NEW s \in Slots,
           SavePlacement(r, a, s)
    PROVE  SlotInv'
  <1> USE DEF SlotInv, RowTypes
  <1>1. PICK shown \in BOOLEAN :
            /\ shown => HasRoom(s, r)
            /\ placement' = [placement EXCEPT ![r] =
                   [article |-> a, slot |-> s, active |-> shown]]
    BY DEF SavePlacement
  <1>2. [article |-> a, slot |-> s, active |-> shown] \in Placements
    BY DEF Placements
  <1>3. RowTypes'
    BY <1>1, <1>2
  <1>4. UniqueRows'
    <2>1. RowOf(a, s) \subseteq {r}
      BY DEF SavePlacement
    <2> QED BY <1>1, <2>1 DEF UniqueRows, RowOf
  <1>5. SlotsHold'
    <2> SUFFICES ASSUME NEW u \in Slots
                 PROVE  Cardinality(Active(u)') <= MaxItems[u]
      BY DEF SlotsHold
    <2>1. MaxItems[u] \in Nat
      BY PlacementAssumption
    <2>2. CASE u = s /\ shown
      <3>1. Cardinality(Active(s) \ {r}) < MaxItems[s]
        BY <1>1, <2>2 DEF HasRoom
      <3>2. /\ IsFiniteSet(Active(s) \ {r})
            /\ Cardinality(Active(s) \ {r}) \in Nat
        BY ActiveFinite, FS_RemoveElement, FS_CardinalityType
      <3>3. /\ IsFiniteSet((Active(s) \ {r}) \cup {r})
            /\ Cardinality((Active(s) \ {r}) \cup {r})
                 = Cardinality(Active(s) \ {r}) + 1
        BY <3>2, FS_AddElement
      <3>4. Active(s)' \subseteq (Active(s) \ {r}) \cup {r}
        BY <1>1 DEF Active
      <3> QED BY <2>1, <2>2, <3>1, <3>2, <3>3, <3>4, SubsetFits
    <2>3. CASE ~(u = s /\ shown)
      <3>1. Active(u)' \subseteq Active(u)
        BY <1>1, <2>3 DEF Active
      <3> QED BY <3>1, ShowsLess
    <2> QED BY <2>2, <2>3
  <1> QED BY <1>3, <1>4, <1>5

\* So does taking one down.
LEMMA DeactivateKeepsSlots ==
    ASSUME SlotInv, NEW r \in PlacementIds, DeactivatePlacement(r)
    PROVE  SlotInv'
  <1> USE DEF SlotInv, RowTypes
  <1>1. placement[r] \in Placements
    BY DEF DeactivatePlacement
  <1>2. placement' = [placement EXCEPT ![r] =
                         [placement[r] EXCEPT !.active = FALSE]]
    BY DEF DeactivatePlacement
  <1>3. [placement[r] EXCEPT !.active = FALSE] \in Placements
    BY <1>1 DEF Placements
  <1>4. RowTypes'
    BY <1>2, <1>3
  <1>5. UniqueRows'
    BY <1>1, <1>2, PlacementAssumption DEF UniqueRows, Placements
  <1>6. \A s \in Slots : Active(s)' \subseteq Active(s)
    BY <1>1, <1>2, PlacementAssumption DEF Active, Placements
  <1> QED BY <1>4, <1>5, <1>6, ShowsLess DEF SlotsHold

\* And so does every kind of batch that still fits when it is executed.
LEMMA BatchKeepsSlots ==
    ASSUME SlotInv, NEW entry \in BatchRows, ItemsOK(entry), Fits(entry),
           placement' = Placed(entry)
    PROVE  SlotInv'
  <1> USE DEF SlotInv, RowTypes
  <1> DEFINE s == entry.slot
             items == entry.items
  <1>1. s \in Slots /\ entry.operation \in Operations
    BY DEF BatchRows
  <1>2. IsFiniteSet(items) /\ Cardinality(items) \in Nat
    BY PlacementAssumption, FS_Subset, FS_CardinalityType DEF ItemsOK
  <1>3. \A u \in Slots : MaxItems[u] \in Nat
    BY PlacementAssumption
  <1>4. entry.operation # "create" =>
           \A r \in items : r \in PlacementIds /\ placement[r] \in Placements
                              /\ placement[r] # None
    BY DEF Fits, ItemsOK, Unused
  <1>5. CASE entry.operation = "create"
    <2> DEFINE new == {a \in items \cap Articles : RowOf(a, s) = {}}
               key == Keys(new)
    <2>1. items \subseteq Articles
      BY <1>5 DEF ItemsOK
    <2>2. placement' =
             [r \in PlacementIds |->
                 IF \E a \in new : key[a] = r
                 THEN [article |-> CHOOSE a \in new : key[a] = r,
                       slot |-> s, active |-> TRUE]
                 ELSE IF \E a \in items : r \in RowOf(a, s)
                      THEN [placement[r] EXCEPT !.active = TRUE]
                      ELSE placement[r]]
      BY <1>5 DEF Placed
    <2> DEFINE Chosen(r) == CHOOSE a \in new : key[a] = r
               Fresh(r) == \E a \in new : key[a] = r
               Old(r) == \E a \in items : r \in RowOf(a, s)
    <2>3. \A r \in PlacementIds : Fresh(r) =>
             /\ Chosen(r) \in new /\ key[Chosen(r)] = r
             /\ placement'[r] \in Placements
             /\ placement'[r].article = Chosen(r)
             /\ placement'[r].slot = s
      <3> SUFFICES ASSUME NEW r \in PlacementIds, Fresh(r)
                   PROVE  /\ Chosen(r) \in new /\ key[Chosen(r)] = r
                          /\ placement'[r] \in Placements
                          /\ placement'[r].article = Chosen(r)
                          /\ placement'[r].slot = s
        OBVIOUS
      <3>1. Chosen(r) \in new /\ key[Chosen(r)] = r
        OBVIOUS
      <3>2. placement'[r] = [article |-> Chosen(r), slot |-> s,
                             active |-> TRUE]
        BY <2>2
      <3>3. Chosen(r) \in Articles
        BY <3>1
      <3> HIDE DEF Chosen, Fresh
      <3> QED BY <1>1, <3>1, <3>2, <3>3 DEF Placements
    <2>4. \A r \in PlacementIds : ~Fresh(r) /\ Old(r) =>
             /\ placement[r] \in Placements /\ placement[r] # None
             /\ placement[r].slot = s /\ placement[r].article \in items
             /\ placement'[r] = [placement[r] EXCEPT !.active = TRUE]
      BY <2>2 DEF RowOf
    <2>5. \A r \in PlacementIds : ~Fresh(r) /\ ~Old(r) =>
             placement'[r] = placement[r]
      BY <2>2
    <2>6. DOMAIN placement' = PlacementIds
             /\ placement' = [r \in PlacementIds |-> placement'[r]]
      BY <2>2
    <2>7. \A a \in new : a \in Articles /\ a \in items /\ RowOf(a, s) = {}
      OBVIOUS
    <2> DEFINE f == [a \in items |-> IF a \in new THEN key[a]
                                       ELSE CHOOSE r : r \in RowOf(a, s)]
    <2>8. \A a \in items : f[a] = IF a \in new THEN key[a]
                                  ELSE CHOOSE r : r \in RowOf(a, s)
      OBVIOUS
    <2>9. f = [a \in items |-> f[a]]
      OBVIOUS
    <2>10. Cardinality(Active(s)) + Cardinality(items) <= MaxItems[s]
      BY <1>5 DEF Fits
    <2>11. \A r \in PlacementIds : Old(r) /\ ~Fresh(r) =>
              \E a \in items : r \in RowOf(a, s) /\ a \notin new
      OBVIOUS
    <2> HIDE DEF new, key, Chosen, Fresh, Old, f
    <2>12. \A r \in PlacementIds : ~Fresh(r) /\ placement'[r] # None =>
              /\ placement[r] # None /\ placement[r] \in Placements
              /\ placement'[r].slot = placement[r].slot
              /\ placement'[r].article = placement[r].article
      BY <2>4, <2>5 DEF Placements
    <2>13. RowTypes'
      <3>1. ASSUME NEW r \in PlacementIds
            PROVE  placement'[r] \in Placements \cup {None}
        BY <1>1, <2>3, <2>4, <2>5, <2>7 DEF Placements
      <3> QED BY <2>6, <3>1
    <2>14. UniqueRows'
      <3>1. ASSUME NEW r \in PlacementIds, NEW q \in PlacementIds, Fresh(r),
                   ~Fresh(q), placement'[q] # None,
                   placement'[r].slot = placement'[q].slot,
                   placement'[r].article = placement'[q].article
            PROVE  FALSE
        <4>1. q \in RowOf(Chosen(r), s)
          BY <2>3, <2>12, <3>1 DEF RowOf
        <4> QED BY <2>3, <2>7, <3>1, <4>1
      <3>2. ASSUME NEW r \in PlacementIds, NEW q \in PlacementIds, Fresh(r),
                   Fresh(q), placement'[r].article = placement'[q].article
            PROVE  r = q
        BY <2>3, <3>2
      <3>3. ASSUME NEW r \in PlacementIds, NEW q \in PlacementIds, ~Fresh(r),
                   ~Fresh(q), placement'[r] # None, placement'[q] # None,
                   placement'[r].slot = placement'[q].slot,
                   placement'[r].article = placement'[q].article
            PROVE  r = q
        BY <2>12, <3>3 DEF UniqueRows
      <3> QED BY <3>1, <3>2, <3>3 DEF UniqueRows
    <2>15. ASSUME NEW u \in Slots, u # s PROVE Active(u)' \subseteq Active(u)
      BY <2>3, <2>4, <2>5, <2>15 DEF Active, Placements
    <2>16. Active(s)' \subseteq Active(s) \cup {f[a] : a \in items}
      <3> SUFFICES ASSUME NEW r \in PlacementIds, r \in Active(s)',
                          r \notin Active(s)
                   PROVE  \E a \in items : r = f[a]
        BY DEF Active
      <3>1. CASE Fresh(r)
        BY <2>3, <2>7, <2>8, <3>1
      <3>2. CASE ~Fresh(r)
        <4>1. Old(r)
          BY <2>5, <3>2 DEF Active
        <4>2. PICK a \in items : r \in RowOf(a, s) /\ a \notin new
          BY <2>11, <3>2, <4>1
        <4>3. \A q \in RowOf(a, s) : q = r
          BY <4>2 DEF RowOf, UniqueRows
        <4> QED BY <2>8, <4>2, <4>3
      <3> QED BY <3>1, <3>2
    <2>17. Cardinality(Active(s)') <= MaxItems[s]
      BY <1>1, <1>2, <1>3, <2>9, <2>10, <2>16, ActiveFinite, BroughtIn
    <2> QED BY <2>13, <2>14, <2>15, <2>17, ShowsLess DEF SlotsHold
  <1>6. CASE entry.operation \in {"deactivate", "reactivate"}
    <2>1. placement' =
             [r \in PlacementIds |->
                 IF r \in items
                 THEN [placement[r] EXCEPT
                          !.active = (entry.operation = "reactivate")]
                 ELSE placement[r]]
      BY <1>6 DEF Placed
    <2>2. \A r \in PlacementIds :
             /\ r \in items =>
                    placement[r] \in Placements /\ placement[r] # None
             /\ placement'[r] \in Placements \cup {None}
             /\ placement'[r] # None => placement[r] # None
             /\ placement[r] # None =>
                   /\ placement'[r] # None
                   /\ placement'[r].slot = placement[r].slot
                   /\ placement'[r].article = placement[r].article
      <3> SUFFICES ASSUME NEW r \in PlacementIds, r \in items
                   PROVE  /\ placement[r] \in Placements /\ placement[r] # None
                          /\ placement'[r] \in Placements
                          /\ placement'[r].slot = placement[r].slot
                          /\ placement'[r].article = placement[r].article
        BY <2>1, PlacementAssumption
      <3>1. placement[r] \in Placements /\ placement[r] # None
        BY <1>4, <1>6
      <3>2. PICK shown \in BOOLEAN :
                placement'[r] = [placement[r] EXCEPT !.active = shown]
        BY <2>1
      <3> QED BY <3>1, <3>2 DEF Placements
    <2>3. \A r \in PlacementIds \ items : placement'[r] = placement[r]
      BY <2>1
    <2>4. RowTypes'
      BY <2>1, <2>2
    <2>5. UniqueRows'
      BY <2>2 DEF UniqueRows
    <2>6. ASSUME NEW u \in Slots PROVE Cardinality(Active(u)') <= MaxItems[u]
      <3> DEFINE here == {r \in items : placement[r].slot = u}
      <3>1. CASE entry.operation = "deactivate"
        <4>1. \A r \in items : ~placement'[r].active
          BY <1>4, <2>1, <3>1 DEF Placements
        <4>2. Active(u)' \subseteq Active(u)
          BY <2>2, <2>3, <4>1 DEF Active
        <4> QED BY <4>2, ShowsLess
      <3>2. CASE entry.operation = "reactivate" /\ here = {}
        <4>1. Active(u)' \subseteq Active(u)
          BY <2>2, <2>3, <3>2 DEF Active
        <4> QED BY <4>1, ShowsLess
      <3>3. CASE entry.operation = "reactivate" /\ here # {}
        <4>1. Cardinality(Counted(u, here)) <= MaxItems[u]
          BY <3>3 DEF Fits
        <4>2. here \in SUBSET items
          OBVIOUS
        <4>3. Active(u)' \subseteq Counted(u, here)
          BY <2>2, <2>3 DEF Active, Counted
        <4>4. IsFiniteSet(Counted(u, here))
          BY <1>2, <4>2, ActiveFinite, FS_Subset, FS_Difference, FS_Union
             DEF Counted
        <4> QED BY <1>3, <4>1, <4>3, <4>4, SubsetFits
      <3> QED BY <1>6, <3>1, <3>2, <3>3
    <2> QED BY <2>4, <2>5, <2>6 DEF SlotsHold
  <1>7. CASE entry.operation = "move"
    <2>1. placement' = [r \in PlacementIds |->
                           IF r \in items THEN [placement[r] EXCEPT !.slot = s]
                           ELSE placement[r]]
      BY <1>7 DEF Placed
    <2>2. /\ \A r, q \in items : placement[r].slot = placement[q].slot
          /\ Cardinality(Counted(s, items)) <= MaxItems[s]
          /\ \A r \in items : RowOf(placement[r].article, s) \subseteq {r}
      BY <1>7 DEF Fits
    <2>3. \A r \in items : /\ placement[r] \in Placements
                           /\ placement[r] # None
                           /\ placement'[r] \in Placements
                           /\ placement'[r] # None
                           /\ placement'[r].slot = s
                           /\ placement'[r].article = placement[r].article
                           /\ placement'[r].active = placement[r].active
      BY <1>1, <1>4, <1>7, <2>1, PlacementAssumption DEF Placements
    <2>4. \A r \in PlacementIds \ items : placement'[r] = placement[r]
      BY <2>1
    <2>5. RowTypes'
      BY <2>1, <2>3, <2>4
    <2>6. UniqueRows'
      <3>1. ASSUME NEW r \in items, NEW q \in PlacementIds \ items,
                   placement[q] # None, placement[q].slot = s,
                   placement[q].article = placement[r].article
            PROVE  FALSE
        BY <2>2, <3>1 DEF RowOf
      <3>2. ASSUME NEW r \in items, NEW q \in items,
                   placement[q].article = placement[r].article
            PROVE  r = q
        BY <1>4, <1>7, <2>2, <3>2 DEF UniqueRows
      <3> QED BY <1>4, <1>7, <2>3, <2>4, <3>1, <3>2 DEF UniqueRows
    <2>7. Cardinality(Active(s)') <= MaxItems[s]
      <3>1. IsFiniteSet(Counted(s, items))
        BY <1>2, ActiveFinite, FS_Difference, FS_Union DEF Counted
      <3>2. Active(s)' \subseteq Counted(s, items)
        BY <2>4 DEF Active, Counted
      <3> QED BY <1>1, <1>3, <2>2, <3>1, <3>2, SubsetFits
    <2>8. ASSUME NEW u \in Slots, u # s PROVE Active(u)' \subseteq Active(u)
      BY <2>3, <2>4, <2>8 DEF Active
    <2> QED BY <2>5, <2>6, <2>7, <2>8, ShowsLess DEF SlotsHold
  <1>8. CASE entry.operation = "copy"
    <2> DEFINE key == Keys(items)
               Chosen(r) == CHOOSE q \in items : key[q] = r
               Fresh(r) == \E q \in items : key[q] = r
               f == [q \in items |-> key[q]]
    <2>1. placement' = [r \in PlacementIds |->
                           IF Fresh(r)
                           THEN [placement[Chosen(r)] EXCEPT !.slot = s]
                           ELSE placement[r]]
      BY <1>8 DEF Placed
    <2>2. /\ Cardinality(Active(s)) + Cardinality(items) <= MaxItems[s]
          /\ \A r \in items : RowOf(placement[r].article, s) = {}
          /\ \A r, q \in items :
                placement[r].article = placement[q].article => r = q
      BY <1>8 DEF Fits
    <2>3. \A r \in PlacementIds : Fresh(r) =>
             Chosen(r) \in items /\ key[Chosen(r)] = r
      OBVIOUS
    <2>4. f = [q \in items |-> f[q]] /\ \A q \in items : f[q] = key[q]
      OBVIOUS
    <2>5. \A r \in PlacementIds :
             placement'[r] = IF Fresh(r)
                             THEN [placement[Chosen(r)] EXCEPT !.slot = s]
                             ELSE placement[r]
      BY <2>1
    <2>6. placement' = [r \in PlacementIds |-> placement'[r]]
      BY <2>1
    <2>7. \A r \in PlacementIds : Fresh(r) => r \in {f[q] : q \in items}
      BY <2>3, <2>4
    <2> HIDE DEF key, Chosen, Fresh, f
    <2>8. \A r \in PlacementIds : Fresh(r) =>
             /\ placement[Chosen(r)] \in Placements
             /\ placement'[r] \in Placements
             /\ placement'[r].slot = s
             /\ placement'[r].article = placement[Chosen(r)].article
      BY <1>1, <1>4, <1>8, <2>3, <2>5 DEF Placements
    <2>9. RowTypes'
      BY <2>5, <2>6, <2>8
    <2>10. UniqueRows'
      <3>1. ASSUME NEW r \in PlacementIds, NEW q \in PlacementIds, Fresh(r),
                   ~Fresh(q), placement'[q] # None,
                   placement'[r].slot = placement'[q].slot,
                   placement'[r].article = placement'[q].article
            PROVE  FALSE
        <4>1. q \in RowOf(placement[Chosen(r)].article, s)
          BY <2>5, <2>8, <3>1 DEF RowOf
        <4> QED BY <2>2, <2>3, <3>1, <4>1
      <3>2. ASSUME NEW r \in PlacementIds, NEW q \in PlacementIds, Fresh(r),
                   Fresh(q), placement'[r].article = placement'[q].article
            PROVE  r = q
        BY <2>2, <2>3, <2>8, <3>2
      <3>3. ASSUME NEW r \in PlacementIds, NEW q \in PlacementIds, ~Fresh(r),
                   ~Fresh(q), placement'[r] # None, placement'[q] # None,
                   placement'[r].slot = placement'[q].slot,
                   placement'[r].article = placement'[q].article
            PROVE  r = q
        BY <2>5, <3>3 DEF UniqueRows
      <3> QED BY <3>1, <3>2, <3>3 DEF UniqueRows
    <2>11. Active(s)' \subseteq Active(s) \cup {f[q] : q \in items}
      BY <2>5, <2>7 DEF Active
    <2>12. Cardinality(Active(s)') <= MaxItems[s]
      BY <1>1, <1>2, <1>3, <2>2, <2>4, <2>11, ActiveFinite, BroughtIn
    <2>13. ASSUME NEW u \in Slots, u # s PROVE Active(u)' \subseteq Active(u)
      BY <2>5, <2>8, <2>13 DEF Active
    <2> QED BY <2>9, <2>10, <2>12, <2>13, ShowsLess DEF SlotsHold
  <1> QED BY <1>1, <1>5, <1>6, <1>7, <1>8 DEF Operations

-----------------------------------------------------------------------------
(* Placements: batches and the requests that work on them.                 *)

BatchesOK ==
    /\ batch \in [Batches -> BatchRows \cup {None}]
    /\ \A b \in Batches : batch[b] # None => ItemsOK(batch[b])

\* A request that is under way works on a batch that is there.
TabsOK ==
    /\ tab \in [Tabs -> TabStates]
    /\ \A t \in Tabs : tab[t].stage # "idle" =>
          /\ tab[t].batch \in Batches /\ batch[tab[t].batch] # None
          /\ tab[t].stage = "editing" => tab[t].copy # None

\* An execution dates the batch, and only a draft that is saved over the batch
\* takes the date away: then it may be executed once more.
JobsOK ==
    /\ jobs \in [Batches -> 0..2]
    /\ overwritten \subseteq Batches
    /\ errors \in 0..MaxErrors
    /\ \A b \in Batches :
          /\ jobs[b] = 1 => b \in overwritten \/ batch[b].dated
          /\ jobs[b] = 2 => b \in overwritten /\ batch[b].dated
          /\ jobs[b] # 0 => batch[b] # None

PlacementInv == SlotInv /\ BatchesOK /\ TabsOK /\ JobsOK

\* What the forms can ask for are batches.
LEMMA ContentsAreBatches ==
    ASSUME NEW operation \in Operations, NEW entry \in Contents(operation)
    PROVE  /\ entry \in BatchRows /\ ItemsOK(entry)
           /\ entry.operation = operation /\ ~entry.dated
  BY DEF Contents, BatchRows, BatchStatuses, ItemsOK

\* A batch whose status and date alone are written keeps the rest.
LEMMA MarkedBatch ==
    ASSUME BatchesOK, NEW b \in Batches, batch[b] # None,
           NEW status \in BatchStatuses, NEW dated \in BOOLEAN,
           batch' = [batch EXCEPT ![b].status = status, ![b].dated = dated]
    PROVE  /\ BatchesOK'
           /\ \A c \in Batches : batch[c] # None => batch'[c] # None
           /\ batch'[b].dated = dated
           /\ \A c \in Batches \ {b} : batch'[c] = batch[c]
  <1>1. batch[b] \in BatchRows /\ ItemsOK(batch[b])
    BY DEF BatchesOK
  <1>2. PICK entry :
            entry = [batch[b] EXCEPT !.status = status, !.dated = dated]
    OBVIOUS
  <1>3. entry \in BatchRows /\ ItemsOK(entry) /\ entry.dated = dated
    BY <1>1, <1>2 DEF BatchRows, ItemsOK
  <1>4. batch'[b] = entry /\ \A c \in Batches \ {b} : batch'[c] = batch[c]
    BY <1>2 DEF BatchesOK
  <1>5. batch' \in [Batches -> BatchRows \cup {None}]
    BY <1>3, <1>4 DEF BatchesOK
  <1>6. entry # None
    BY <1>3, PlacementAssumption
  <1> QED BY <1>3, <1>4, <1>5, <1>6 DEF BatchesOK

\* So does one whose status alone is written, and it keeps its date.
LEMMA JudgedBatch ==
    ASSUME BatchesOK, NEW b \in Batches, batch[b] # None,
           NEW status \in BatchStatuses,
           batch' = [batch EXCEPT ![b].status = status]
    PROVE  /\ BatchesOK'
           /\ \A c \in Batches : batch[c] # None => batch'[c] # None
           /\ \A c \in Batches : batch'[c].dated = batch[c].dated
  <1>1. batch[b] \in BatchRows /\ ItemsOK(batch[b])
    BY DEF BatchesOK
  <1>2. PICK entry : entry = [batch[b] EXCEPT !.status = status]
    OBVIOUS
  <1>3. entry \in BatchRows /\ ItemsOK(entry) /\ entry.dated = batch[b].dated
    BY <1>1, <1>2 DEF BatchRows, ItemsOK
  <1>4. batch'[b] = entry /\ \A c \in Batches \ {b} : batch'[c] = batch[c]
    BY <1>2 DEF BatchesOK
  <1>5. batch' \in [Batches -> BatchRows \cup {None}]
    BY <1>3, <1>4 DEF BatchesOK
  <1>6. entry # None
    BY <1>3, PlacementAssumption
  <1> QED BY <1>3, <1>4, <1>5, <1>6 DEF BatchesOK

\* A request that ends, or goes on with its batch, is a request.
LEMMA TabMoves ==
    ASSUME TabsOK, NEW t \in Tabs,
           \/ tab' = [tab EXCEPT ![t] = Idle]
           \/ /\ tab[t].stage # "idle"
              /\ \E stage \in {"confirmed", "failing"} :
                    tab' = [tab EXCEPT ![t].stage = stage],
           \A b \in Batches : batch[b] # None => batch'[b] # None
    PROVE  TabsOK'
  <1>1. Idle \in TabStates /\ Idle.stage = "idle"
    BY DEF Idle, TabStates, TabStages
  <1>2. tab[t] \in TabStates
    BY DEF TabsOK
  <1>3. CASE tab' = [tab EXCEPT ![t] = Idle]
    BY <1>1, <1>3 DEF TabsOK
  <1>4. ASSUME tab[t].stage # "idle", NEW stage \in {"confirmed", "failing"},
               tab' = [tab EXCEPT ![t].stage = stage]
        PROVE  TabsOK'
    <2>1. PICK state : state = [tab[t] EXCEPT !.stage = stage]
      OBVIOUS
    <2>2. /\ state \in TabStates /\ state.stage = stage
          /\ state.batch = tab[t].batch
      BY <1>2, <2>1 DEF TabStates, TabStages
    <2>3. tab' = [tab EXCEPT ![t] = state]
      BY <1>4, <2>1
    <2> QED BY <1>4, <2>2, <2>3 DEF TabsOK
  <1> QED BY <1>3, <1>4

\* Every step keeps the invariant.
LEMMA PlacementStep ==
    PlacementInv /\ [PlacementNext]_placementVars => PlacementInv'
  <1> SUFFICES ASSUME PlacementInv, [PlacementNext]_placementVars
               PROVE  PlacementInv'
    OBVIOUS
  <1> USE DEF PlacementInv
  <1>0. ASSUME UNCHANGED placement PROVE SlotInv'
    BY <1>0 DEF SlotInv, RowTypes, UniqueRows, SlotsHold, Active
  <1>1. ASSUME UNCHANGED <<batch, jobs, tab, overwritten, errors>>
        PROVE  BatchesOK' /\ TabsOK' /\ JobsOK'
    BY <1>1 DEF BatchesOK, TabsOK, JobsOK
  <1>2. ASSUME NEW r \in PlacementIds, NEW a \in Articles, NEW s \in Slots,
               SavePlacement(r, a, s)
        PROVE  PlacementInv'
    BY <1>1, <1>2, SaveKeepsSlots DEF SavePlacement
  <1>3. ASSUME NEW r \in PlacementIds, DeactivatePlacement(r)
        PROVE  PlacementInv'
    BY <1>1, <1>3, DeactivateKeepsSlots DEF DeactivatePlacement
  <1>4. ASSUME NEW b \in Batches, CreateBatch(b) PROVE PlacementInv'
    <2>1. PICK op \in Operations,
               entry \in UNION {Contents(o) : o \in Operations} :
              entry.operation = op /\ batch' = [batch EXCEPT ![b] = entry]
      BY <1>4 DEF CreateBatch
    <2>2. entry \in BatchRows /\ ItemsOK(entry) /\ entry # None
      BY ContentsAreBatches, PlacementAssumption
    <2>3. BatchesOK' /\ batch[b] = None
          /\ \A c \in Batches : batch[c] # None => batch'[c] = batch[c]
      BY <1>4, <2>1, <2>2 DEF BatchesOK, CreateBatch
    <2>4. TabsOK'
      BY <1>4, <2>3 DEF TabsOK, CreateBatch
    <2>5. JobsOK'
      BY <1>4, <2>3 DEF JobsOK, CreateBatch
    <2> QED BY <1>0, <1>4, <2>3, <2>4, <2>5 DEF CreateBatch
  <1>5. ASSUME NEW t \in Tabs, NEW b \in Batches, LoadDraft(t, b)
        PROVE  PlacementInv'
    <2>1. batch[b] # None /\ batch[b] \in BatchRows
      BY <1>5 DEF LoadDraft, BatchesOK
    <2> DEFINE copy == [status |-> batch[b].status, dated |-> batch[b].dated]
    <2>2. copy \in [status : BatchStatuses, dated : BOOLEAN] /\ copy # None
      BY <2>1, PlacementAssumption DEF BatchRows
    <2>3. TabsOK'
      <3> HIDE DEF copy
      <3>1. [stage |-> "editing", batch |-> b, copy |-> copy] \in TabStates
        BY <2>2 DEF TabStates, TabStages
      <3>2. tab' = [tab EXCEPT ![t] =
                       [stage |-> "editing", batch |-> b, copy |-> copy]]
        BY <1>5 DEF LoadDraft, copy
      <3> QED BY <1>5, <2>1, <2>2, <3>1, <3>2 DEF TabsOK, LoadDraft
    <2>4. SlotInv' /\ BatchesOK' /\ JobsOK'
      BY <1>0, <1>5 DEF LoadDraft, BatchesOK, JobsOK
    <2> QED BY <2>3, <2>4
  <1>6. ASSUME NEW t \in Tabs, SaveDraft(t) PROVE PlacementInv'
    <2> DEFINE b == tab[t].batch
    <2>1. b \in Batches /\ batch[b] # None /\ batch[b] \in BatchRows
          /\ tab[t].copy \in [status : BatchStatuses, dated : BOOLEAN]
      BY <1>6 DEF SaveDraft, TabsOK, TabStates, BatchesOK
    <2>2. PICK entry \in Contents("create") :
              batch' = [batch EXCEPT ![b] =
                  [entry EXCEPT !.status = tab[t].copy.status,
                              !.dated = tab[t].copy.dated]]
      BY <1>6 DEF SaveDraft
    <2>3. entry \in BatchRows /\ ItemsOK(entry)
      BY ContentsAreBatches DEF Operations
    <2>4. PICK saved : saved = [entry EXCEPT !.status = tab[t].copy.status,
                                           !.dated = tab[t].copy.dated]
      OBVIOUS
    <2>5. saved \in BatchRows /\ ItemsOK(saved) /\ saved # None
      BY <2>1, <2>3, <2>4, PlacementAssumption DEF BatchRows, ItemsOK
    <2>6. batch' = [batch EXCEPT ![b] = saved]
      BY <2>2, <2>4
    <2> HIDE DEF b
    <2>7. BatchesOK' /\ batch'[b] # None
          /\ \A c \in Batches \ {b} : batch'[c] = batch[c]
      BY <2>1, <2>5, <2>6 DEF BatchesOK
    <2>8. TabsOK'
      BY <1>6, <2>7, TabMoves DEF SaveDraft
    <2>9. JobsOK'
      <3>1. /\ Executed(b) => b \notin overwritten
            /\ overwritten' = IF Executed(b) THEN overwritten \cup {b}
                              ELSE overwritten
            /\ jobs' = jobs /\ errors' = errors
        BY <1>6 DEF SaveDraft, b
      <3>2. jobs[b] = 1 => b \in overwritten'
        BY <2>1, <3>1 DEF JobsOK, Executed
      <3>3. jobs[b] # 2
        BY <2>1, <3>1 DEF JobsOK, Executed
      <3> QED BY <2>1, <2>7, <3>1, <3>2, <3>3 DEF JobsOK
    <2> QED BY <1>0, <1>6, <2>7, <2>8, <2>9 DEF SaveDraft
  <1>7. ASSUME BatchesOK', TabsOK', UNCHANGED <<placement, jobs, overwritten>>,
               errors' \in 0..MaxErrors,
               \A b \in Batches : batch[b] # None =>
                   batch'[b] # None /\ (batch[b].dated => batch'[b].dated)
        PROVE  PlacementInv'
    BY <1>0, <1>7 DEF JobsOK
  <1>8. ASSUME NEW t \in Tabs, NEW b \in Batches, Review(t, b)
        PROVE  PlacementInv'
    <2>1. batch[b] # None /\ batch[b] \in BatchRows
      BY <1>8 DEF Review, BatchesOK
    <2>2. /\ BatchesOK'
          /\ \A c \in Batches : batch[c] # None =>
                batch'[c] # None /\ (batch[c].dated => batch'[c].dated)
      <3>1. CASE batch' = [batch EXCEPT ![b].status = "validating"]
        BY <2>1, <3>1, JudgedBatch DEF BatchStatuses
      <3>2. CASE batch' = batch
        BY <3>2 DEF BatchesOK
      <3> QED BY <1>8, <3>1, <3>2 DEF Review
    <2>3. TabsOK'
      <3>1. [stage |-> "reviewing", batch |-> b, copy |-> None] \in TabStates
        BY DEF TabStates, TabStages
      <3> QED BY <1>8, <2>1, <2>2, <3>1 DEF Review, TabsOK
    <2> QED BY <1>7, <1>8, <2>2, <2>3 DEF Review, JobsOK
  <1>9. ASSUME NEW t \in Tabs, Verdict(t) PROVE PlacementInv'
    <2> DEFINE b == tab[t].batch
    <2>1. b \in Batches /\ batch[b] # None
      BY <1>9 DEF Verdict, TabsOK
    <2>2. PICK status \in BatchStatuses :
              batch' = batch \/ batch' = [batch EXCEPT ![b].status = status]
      <3>1. PICK status : status = IF Fits(batch[b]) THEN "ready" ELSE "failed"
        OBVIOUS
      <3>2. batch' = batch \/ batch' = [batch EXCEPT ![b].status = status]
        BY <1>9, <3>1 DEF Verdict
      <3> QED BY <3>1, <3>2 DEF BatchStatuses
    <2>3. /\ BatchesOK'
          /\ \A c \in Batches : batch[c] # None =>
                batch'[c] # None /\ (batch[c].dated => batch'[c].dated)
      <3>1. CASE batch' = [batch EXCEPT ![b].status = status]
        BY <2>1, <3>1, JudgedBatch
      <3>2. CASE batch' = batch
        BY <3>2 DEF BatchesOK
      <3> QED BY <2>2, <3>1, <3>2
    <2>4. TabsOK'
      <3>1. \/ tab' = [tab EXCEPT ![t] = Idle]
            \/ /\ tab[t].stage # "idle"
               /\ tab' = [tab EXCEPT ![t].stage = "confirmed"]
        BY <1>9 DEF Verdict
      <3> QED BY <2>3, <3>1, TabMoves
    <2> QED BY <1>7, <1>9, <2>3, <2>4 DEF Verdict, JobsOK
  <1>10. ASSUME NEW t \in Tabs, Execute(t) PROVE PlacementInv'
    <2> DEFINE b == tab[t].batch
    <2>1. b \in Batches /\ batch[b] # None /\ batch[b] \in BatchRows
          /\ ItemsOK(batch[b])
      BY <1>10 DEF Execute, TabsOK, BatchesOK
    <2>2. /\ ~Executed(b) /\ Fits(batch[b]) /\ placement' = Placed(batch[b])
          /\ batch' = [batch EXCEPT ![b].status = "succeeded",
                                    ![b].dated = TRUE]
          /\ jobs' = [jobs EXCEPT ![b] = @ + 1]
          /\ tab' = [tab EXCEPT ![t] = Idle]
          /\ UNCHANGED <<overwritten, errors>>
      BY <1>10 DEF Execute, MayExecute
    <2> HIDE DEF b
    <2>3. SlotInv'
      BY <2>1, <2>2, BatchKeepsSlots
    <2>4. /\ BatchesOK'
          /\ \A c \in Batches : batch[c] # None => batch'[c] # None
          /\ batch'[b].dated = TRUE
          /\ \A c \in Batches \ {b} : batch'[c] = batch[c]
      BY <2>1, <2>2, MarkedBatch DEF BatchStatuses
    <2>5. TabsOK'
      BY <2>2, <2>4, TabMoves
    <2>6. JobsOK'
      <3>1. jobs[b] # 2 /\ (jobs[b] = 1 => b \in overwritten)
        BY <2>1, <2>2 DEF JobsOK, Executed
      <3>2. jobs'[b] = jobs[b] + 1 /\ jobs[b] \in 0..1
            /\ \A c \in Batches \ {b} : jobs'[c] = jobs[c]
        BY <2>1, <2>2, <3>1 DEF JobsOK
      <3>3. jobs' \in [Batches -> 0..2]
        <4>1. jobs'[b] \in 0..2
          BY <3>2
        <4>2. \A c \in Batches : jobs'[c] \in 0..2
          BY <3>2, <4>1 DEF JobsOK
        <4> QED BY <2>1, <2>2, <4>2 DEF JobsOK
      <3>4. /\ jobs'[b] = 1 => b \in overwritten' \/ batch'[b].dated
            /\ jobs'[b] = 2 => b \in overwritten' /\ batch'[b].dated
            /\ batch'[b] # None
        <4>1. batch'[b].dated /\ batch'[b] # None
          BY <2>1, <2>4
        <4>2. jobs'[b] = 2 => b \in overwritten'
          BY <2>2, <3>1, <3>2
        <4> QED BY <4>1, <4>2
      <3>5. \A c \in Batches \ {b} :
               /\ jobs'[c] = 1 => c \in overwritten' \/ batch'[c].dated
               /\ jobs'[c] = 2 => c \in overwritten' /\ batch'[c].dated
               /\ jobs'[c] # 0 => batch'[c] # None
        BY <2>2, <2>4, <3>2 DEF JobsOK
      <3> QED BY <2>1, <2>2, <3>3, <3>4, <3>5 DEF JobsOK
    <2> QED BY <2>3, <2>4, <2>5, <2>6
  <1>11. ASSUME NEW t \in Tabs, Refuse(t) \/ Abort(t) PROVE PlacementInv'
    <2>1. /\ UNCHANGED <<placement, batch, jobs, overwritten>>
          /\ errors' \in 0..MaxErrors
          /\ tab[t].stage # "idle"
          /\ tab' = [tab EXCEPT ![t].stage = "failing"]
      BY <1>11, PlacementAssumption DEF Refuse, Abort, JobsOK
    <2>2. TabsOK'
      BY <2>1, TabMoves
    <2> QED BY <1>7, <2>1, <2>2 DEF BatchesOK
  <1>12. ASSUME NEW t \in Tabs, NoteFailure(t) PROVE PlacementInv'
    <2> DEFINE b == tab[t].batch
    <2>1. b \in Batches /\ batch[b] # None
      BY <1>12 DEF NoteFailure, TabsOK
    <2>2. /\ batch' = [batch EXCEPT ![b].status = "failed", ![b].dated = TRUE]
          /\ tab' = [tab EXCEPT ![t] = Idle]
          /\ UNCHANGED <<placement, jobs, overwritten, errors>>
      BY <1>12 DEF NoteFailure
    <2> HIDE DEF b
    <2>3. /\ BatchesOK'
          /\ \A c \in Batches : batch[c] # None => batch'[c] # None
          /\ batch'[b].dated = TRUE
          /\ \A c \in Batches \ {b} : batch'[c] = batch[c]
      BY <2>1, <2>2, MarkedBatch DEF BatchStatuses
    <2>4. TabsOK'
      BY <2>2, <2>3, TabMoves
    <2> QED BY <1>7, <2>2, <2>3, <2>4 DEF JobsOK
  <1>13. CASE UNCHANGED placementVars
    BY <1>0, <1>1, <1>13 DEF placementVars
  <1> QED BY <1>2, <1>3, <1>4, <1>5, <1>6, <1>8, <1>9, <1>10, <1>11, <1>12,
             <1>13
          DEF PlacementNext

\* The invariant holds initially.
LEMMA PlacementStart == PlacementInit => PlacementInv
  <1> SUFFICES ASSUME PlacementInit PROVE PlacementInv
    OBVIOUS
  <1>1. RowTypes /\ UniqueRows
    BY DEF PlacementInit, RowTypes, UniqueRows
  <1>2. SlotsHold
    <2> SUFFICES ASSUME NEW s \in Slots
                 PROVE  Cardinality(Active(s)) <= MaxItems[s]
      BY DEF SlotsHold
    <2>1. Active(s) = {}
      BY DEF PlacementInit, Active
    <2>2. MaxItems[s] \in Nat
      BY PlacementAssumption
    <2> QED BY <2>1, <2>2, FS_EmptySet
  <1>3. BatchesOK
    BY DEF PlacementInit, BatchesOK
  <1>4. TabsOK
    BY DEF PlacementInit, TabsOK, Idle, TabStates, TabStages
  <1>5. JobsOK
    BY PlacementAssumption DEF PlacementInit, JobsOK
  <1> QED BY <1>1, <1>2, <1>3, <1>4, <1>5 DEF PlacementInv, SlotInv

\* The placements, the batches and the requests have their types.
THEOREM PlacementTypes == PlacementSpec => []PlacementTypeOK
  <1>1. PlacementInv => PlacementTypeOK
    BY DEF PlacementInv, SlotInv, RowTypes, BatchesOK, TabsOK, JobsOK,
           PlacementTypeOK
  <1> QED BY <1>1, PlacementStart, PlacementStep, PTL DEF PlacementSpec

\* No slot ever shows more placements than it may, whoever brings them in, one
\* by one or in batches, and however old what they looked at is.
THEOREM SlotsCorrect == PlacementSpec => []SlotsHold
  <1>1. PlacementInv => SlotsHold
    BY DEF PlacementInv, SlotInv
  <1> QED BY <1>1, PlacementStart, PlacementStep, PTL DEF PlacementSpec

\* A batch is executed and published once, however often it is confirmed,
\* unless a draft is saved over the executed batch.
THEOREM ExecutionCorrect == PlacementSpec => []ExecutesOnce
  <1>1. PlacementInv => ExecutesOnce
    BY DEF PlacementInv, JobsOK, ExecutesOnce
  <1> QED BY <1>1, PlacementStart, PlacementStep, PTL DEF PlacementSpec

-----------------------------------------------------------------------------
(* Imports of packages: what has ended stays as it ended.                  *)

\* What the process of a job is at tells the status of the job, as long as no
\* handler has marked the job as failed behind it.
InStep(j) ==
    /\ process[j] = "preview" =>
           upload[j] = [status |-> "pending", confirmed |-> FALSE]
    /\ process[j] = "previewing" =>
           upload[j].status \in {"validating", "failed"}
    /\ process[j] = "importing" => upload[j].status = "importing"
    /\ upload[j] # None /\ upload[j].status = "ready" => process[j] = "none"
    /\ confirming[j].launching =>
           /\ upload[j] = [status |-> "pending", confirmed |-> TRUE]
           /\ process[j] = "none"

Unborn(j) ==
    upload[j] = None => process[j] = "none" /\ confirming[j] = Quiet

ImportInv ==
    /\ ImportTypeOK
    /\ \A j \in Packages : Unborn(j) /\ (j \notin givenUp => InStep(j))

\* A job whose status alone is written keeps the rest.
LEMMA SetStatus ==
    ASSUME ImportTypeOK, NEW j \in Packages, upload[j] # None,
           NEW status \in ImportStatuses, Set(j, status)
    PROVE  /\ upload' \in [Packages -> Uploads \cup {None}]
           /\ upload'[j] \in Uploads /\ upload'[j] # None
           /\ upload'[j].status = status
           /\ upload'[j].confirmed = upload[j].confirmed
           /\ \A i \in Packages \ {j} : upload'[i] = upload[i]
  <1>1. upload[j] \in Uploads
    BY DEF ImportTypeOK
  <1>2. PICK entry : entry = [upload[j] EXCEPT !.status = status]
    OBVIOUS
  <1>3. entry \in Uploads /\ entry.status = status
        /\ entry.confirmed = upload[j].confirmed
    BY <1>1, <1>2 DEF Uploads
  <1>4. upload' = [upload EXCEPT ![j] = entry]
    BY <1>2 DEF Set
  <1>5. entry # None
    BY <1>3, ImportAssumption
  <1> QED BY <1>3, <1>4, <1>5 DEF ImportTypeOK

\* A job that none of its own steps is taken for stays in step.
LEMMA OthersInStep ==
    ASSUME ImportInv, NEW j \in Packages, NEW i \in Packages, i # j,
           upload'[i] = upload[i], process'[i] = process[i],
           confirming'[i] = confirming[i], givenUp \subseteq givenUp'
    PROVE  Unborn(i)' /\ (i \notin givenUp' => InStep(i)')
  BY DEF ImportInv, Unborn, InStep

\* Every step keeps the invariant.
LEMMA ImportStep == ImportInv /\ [ImportNext]_importVars => ImportInv'
  <1> SUFFICES ASSUME ImportInv, [ImportNext]_importVars PROVE ImportInv'
    OBVIOUS
  <1>0. ImportTypeOK
    BY DEF ImportInv
  <1> DEFINE Steps(j) ==
        /\ ImportTypeOK'
        /\ Unborn(j)' /\ (j \notin givenUp' => InStep(j)')
        /\ \A i \in Packages \ {j} : /\ upload'[i] = upload[i]
                                     /\ process'[i] = process[i]
                                     /\ confirming'[i] = confirming[i]
        /\ givenUp \subseteq givenUp'
  <1>1. ASSUME NEW j \in Packages, Steps(j) PROVE ImportInv'
    BY <1>1, OthersInStep DEF ImportInv
  <1> HIDE DEF Steps
  <1>2. ASSUME NEW j \in Packages
        PROVE  /\ upload[j] \in Uploads \cup {None}
               /\ process[j] \in Processes /\ confirming[j] \in Handlers
               /\ Unborn(j) /\ (j \notin givenUp => InStep(j))
    BY <1>0 DEF ImportTypeOK, ImportInv
  <1>3. ASSUME ImportFault PROVE importFaults' \in 0..MaxImportFaults
    BY <1>0, <1>3, ImportAssumption DEF ImportFault, ImportTypeOK
  <1>4. ASSUME NEW j \in Packages, Upload(j) PROVE ImportInv'
    <2>1. PICK entry \in Uploads :
              /\ upload' = [upload EXCEPT ![j] = entry]
              /\ entry.status \in {"pending", "failed"} /\ ~entry.confirmed
              /\ \/ entry.status = "failed" /\ process' = process
                 \/ /\ entry = [status |-> "pending", confirmed |-> FALSE]
                    /\ process' = [process EXCEPT ![j] = "preview"]
      <3>1. /\ [status |-> "pending", confirmed |-> FALSE] \in Uploads
            /\ [status |-> "failed", confirmed |-> FALSE] \in Uploads
        BY DEF Uploads, ImportStatuses
      <3> QED BY <1>4, <3>1 DEF Upload
    <2>2. entry # None /\ upload[j] = None
          /\ process[j] = "none" /\ confirming[j] = Quiet
      BY <1>2, <1>4, <2>1, ImportAssumption DEF Upload, Unborn
    <2>3. importFaults' \in 0..MaxImportFaults
      BY <1>0, <1>3, <1>4 DEF Upload, ImportTypeOK
    <2>4. ImportTypeOK'
      BY <1>0, <1>4, <2>1, <2>3 DEF Upload, ImportTypeOK, Processes
    <2>5. /\ confirming' = confirming /\ givenUp' = givenUp
          /\ ~confirming[j].launching /\ upload'[j] = entry
          /\ \/ entry.status = "failed" /\ process'[j] = "none"
             \/ /\ entry = [status |-> "pending", confirmed |-> FALSE]
                /\ process'[j] = "preview"
          /\ \A i \in Packages \ {j} : /\ upload'[i] = upload[i]
                                       /\ process'[i] = process[i]
      BY <1>0, <1>4, <2>1, <2>2 DEF Upload, ImportTypeOK, Quiet
    <2>6. Unborn(j)' /\ InStep(j)'
      BY <2>2, <2>5 DEF Unborn, InStep
    <2> QED BY <1>1, <2>4, <2>5, <2>6 DEF Steps
  <1>5. ASSUME NEW j \in Packages, StartPreview(j) PROVE ImportInv'
    <2>1. upload[j] # None /\ Set(j, "validating")
      BY <1>2, <1>5 DEF StartPreview, Unborn
    <2>2. ImportTypeOK'
      BY <1>0, <1>5, <2>1, SetStatus
         DEF StartPreview, ImportTypeOK, ImportStatuses, Processes
    <2> QED BY <1>0, <1>1, <1>2, <1>5, <2>1, <2>2, SetStatus
            DEF Steps, StartPreview, ImportTypeOK, ImportStatuses, Unborn,
                InStep
  <1>6. ASSUME NEW j \in Packages,
               FinishPreview(j) \/ FailPreview(j) \/ SweepPreview(j)
        PROVE  ImportInv'
    <2>1. upload[j] # None
      BY <1>2, <1>6 DEF FinishPreview, FailPreview, SweepPreview, Unborn
    <2>2. /\ UNCHANGED <<confirming, known, results, article, givenUp>>
          /\ importFaults' \in 0..MaxImportFaults
      BY <1>0, <1>3, <1>6
         DEF FinishPreview, FailPreview, SweepPreview, ImportTypeOK
    <2>3. /\ \/ upload' = upload /\ upload[j].status # "validating"
             \/ /\ upload[j].status = "validating"
                /\ Set(j, "ready") \/ Set(j, "failed")
          /\ \/ process' = [process EXCEPT ![j] = "none"]
             \/ process' = process /\ Set(j, "failed")
      <3>1. CASE FinishPreview(j)
        BY <3>1 DEF FinishPreview, MayFinishPreview
      <3>2. CASE FailPreview(j)
        BY <3>2 DEF FailPreview
      <3>3. CASE SweepPreview(j)
        BY <3>3 DEF SweepPreview
      <3> QED BY <1>6, <3>1, <3>2, <3>3
    <2>4. /\ upload' \in [Packages -> Uploads \cup {None}]
          /\ upload'[j] # None
          /\ \A i \in Packages \ {j} : upload'[i] = upload[i]
          /\ \/ upload' = upload /\ upload[j].status # "validating"
             \/ /\ upload[j].status = "validating"
                /\ upload'[j].status \in {"ready", "failed"}
      BY <1>0, <2>1, <2>3, SetStatus DEF ImportTypeOK, ImportStatuses
    <2>5. ImportTypeOK'
      BY <1>0, <2>2, <2>3, <2>4 DEF ImportTypeOK, Processes
    <2>6. j \notin givenUp => InStep(j)'
      <3>1. CASE upload' = upload
        BY <1>0, <1>2, <2>1, <2>2, <2>3, <3>1 DEF ImportTypeOK, InStep
      <3>2. CASE /\ upload[j].status = "validating"
                 /\ upload'[j].status \in {"ready", "failed"}
                 /\ process' = [process EXCEPT ![j] = "none"]
        BY <1>0, <1>2, <2>2, <3>2 DEF ImportTypeOK, InStep
      <3>3. CASE /\ upload[j].status = "validating"
                 /\ process' = process /\ Set(j, "failed")
        <4>1. upload'[j].status = "failed"
          BY <1>0, <2>1, <3>3, SetStatus DEF ImportStatuses
        <4> QED BY <1>0, <1>2, <2>2, <3>3, <4>1 DEF ImportTypeOK, InStep
      <3> QED BY <2>3, <2>4, <3>1, <3>2, <3>3
    <2> QED BY <1>0, <1>1, <2>2, <2>3, <2>4, <2>5, <2>6
            DEF Steps, ImportTypeOK, Unborn
  <1>7. ASSUME NEW j \in Packages, Confirm(j) PROVE ImportInv'
    <2>1. PICK entry : entry = [status |-> "pending", confirmed |-> TRUE]
      OBVIOUS
    <2>2. entry \in Uploads /\ entry # None /\ entry.status = "pending"
      <3>1. entry \in Uploads /\ entry.status = "pending"
        BY <2>1 DEF Uploads, ImportStatuses
      <3> QED BY <3>1, ImportAssumption
    <2>3. PICK handler : handler = [confirming[j] EXCEPT !.launching = TRUE]
      OBVIOUS
    <2>4. handler \in Handlers
      BY <1>2, <2>3 DEF Handlers
    <2>5. upload' = [upload EXCEPT ![j] = entry]
          /\ confirming' = [confirming EXCEPT ![j] = handler]
      BY <1>7, <2>1, <2>3 DEF Confirm
    <2>6. ImportTypeOK'
      BY <1>0, <1>7, <2>2, <2>4, <2>5 DEF Confirm, ImportTypeOK
    <2>7. j \notin givenUp => process[j] = "none"
      BY <1>2, <1>7 DEF Confirm, InStep
    <2> QED BY <1>0, <1>1, <1>7, <2>1, <2>2, <2>5, <2>6, <2>7
            DEF Steps, Confirm, ImportTypeOK, Unborn, InStep
  <1>8. ASSUME NEW j \in Packages,
               UNCHANGED <<upload, process, known, results, article, givenUp,
                           importFaults>>,
               upload[j] # None,
               confirming' = [confirming EXCEPT ![j].refused = TRUE]
        PROVE  ImportInv'
    <2>1. PICK handler : handler = [confirming[j] EXCEPT !.refused = TRUE]
      OBVIOUS
    <2>2. handler \in Handlers /\ handler.launching = confirming[j].launching
      BY <1>2, <2>1 DEF Handlers
    <2>3. confirming' = [confirming EXCEPT ![j] = handler]
      BY <1>8, <2>1
    <2>4. ImportTypeOK'
      BY <1>0, <1>8, <2>2, <2>3 DEF ImportTypeOK
    <2> QED BY <1>0, <1>1, <1>2, <1>8, <2>2, <2>3, <2>4
            DEF Steps, ImportTypeOK, Unborn, InStep
  <1>9. ASSUME NEW j \in Packages, Launch(j) \/ LaunchFails(j)
        PROVE  ImportInv'
    <2>1. PICK handler : handler = [confirming[j] EXCEPT !.launching = FALSE]
      OBVIOUS
    <2>2. handler \in Handlers /\ ~handler.launching
      BY <1>2, <2>1 DEF Handlers
    <2>3. confirming' = [confirming EXCEPT ![j] = handler]
          /\ confirming[j].launching
          /\ UNCHANGED <<known, results, article, givenUp>>
      BY <1>9, <2>1 DEF Launch, LaunchFails
    <2>4. upload[j] # None /\ upload[j] \in Uploads
      BY <1>2, <2>3 DEF Unborn, Quiet
    <2>5. j \notin givenUp => process[j] = "none"
                              /\ upload[j].status = "pending"
      BY <1>2, <2>3 DEF InStep
    <2>6. CASE Launch(j)
      <3>1. upload' = upload /\ process' = [process EXCEPT ![j] = "import"]
            /\ importFaults' = importFaults
        BY <2>6 DEF Launch
      <3>2. ImportTypeOK'
        BY <1>0, <2>2, <2>3, <3>1 DEF ImportTypeOK, Processes
      <3> QED BY <1>0, <1>1, <2>2, <2>3, <2>4, <2>5, <3>1, <3>2
              DEF Steps, ImportTypeOK, Unborn, InStep
    <2>7. CASE LaunchFails(j)
      <3>1. Set(j, "failed") /\ process' = process
            /\ importFaults' \in 0..MaxImportFaults
        BY <1>3, <2>7 DEF LaunchFails
      <3>2. /\ upload' \in [Packages -> Uploads \cup {None}]
            /\ upload'[j] # None /\ upload'[j].status = "failed"
            /\ \A i \in Packages \ {j} : upload'[i] = upload[i]
        BY <1>0, <2>4, <3>1, SetStatus DEF ImportStatuses
      <3>3. ImportTypeOK'
        BY <1>0, <2>2, <2>3, <3>1, <3>2 DEF ImportTypeOK
      <3> QED BY <1>0, <1>1, <2>2, <2>3, <2>5, <3>1, <3>2, <3>3
              DEF Steps, ImportTypeOK, Unborn, InStep
    <2> QED BY <1>9, <2>6, <2>7
  <1>10. ASSUME NEW j \in Packages, MarkStartFailed(j) PROVE ImportInv'
    <2>1. PICK handler : handler = [confirming[j] EXCEPT !.refused = FALSE]
      OBVIOUS
    <2>2. handler \in Handlers
      BY <1>2, <2>1 DEF Handlers
    <2>3. /\ confirming' = [confirming EXCEPT ![j] = handler]
          /\ confirming[j].refused /\ Set(j, "failed")
          /\ givenUp' = givenUp \cup {j}
          /\ UNCHANGED <<process, known, results, article, importFaults>>
      BY <1>10, <2>1 DEF MarkStartFailed
    <2>4. upload[j] # None
      BY <1>2, <2>3 DEF Unborn, Quiet
    <2>5. /\ upload' \in [Packages -> Uploads \cup {None}]
          /\ upload'[j] # None
          /\ \A i \in Packages \ {j} : upload'[i] = upload[i]
      BY <1>0, <2>3, <2>4, SetStatus DEF ImportStatuses
    <2>6. ImportTypeOK'
      BY <1>0, <2>2, <2>3, <2>5 DEF ImportTypeOK
    <2> QED BY <1>0, <1>1, <2>3, <2>5, <2>6 DEF Steps, ImportTypeOK, Unborn
  <1>11. ASSUME NEW j \in Packages,
                \/ StartImport(j) \/ RejectImport(j) \/ FinishImport(j)
                \/ FailImport(j) \/ KillProcess(j)
         PROVE  ImportInv'
    <2>1. process[j] # "none" /\ upload[j] # None
      BY <1>2, <1>11 DEF StartImport, RejectImport, FinishImport, FailImport,
                         KillProcess, Unborn
    <2>2. /\ UNCHANGED <<confirming, article, givenUp>>
          /\ importFaults' \in 0..MaxImportFaults
          /\ known' \in [Packages -> SUBSET ImportedKeys]
          /\ results' \in [Packages -> SUBSET ImportedKeys]
      <3>1. importFaults' \in 0..MaxImportFaults
        BY <1>0, <1>3, <1>11
           DEF StartImport, RejectImport, FinishImport, FailImport,
               KillProcess, ImportTypeOK
      <3>2. CASE StartImport(j)
        BY <1>0, <3>1, <3>2 DEF StartImport, ImportTypeOK
      <3> QED BY <1>0, <1>11, <3>1, <3>2
              DEF RejectImport, FinishImport, FailImport, KillProcess,
                  ImportTypeOK
    <2>3. \/ /\ process' = [process EXCEPT ![j] = "none"]
             /\ (upload' = upload \/ Set(j, "failed") \/ Set(j, "completed"))
          \/ /\ process' = [process EXCEPT ![j] = "importing"]
             /\ Set(j, "importing") /\ process[j] = "import"
      BY <1>11 DEF StartImport, RejectImport, FinishImport, FailImport,
                   KillProcess
    <2>4. /\ upload' \in [Packages -> Uploads \cup {None}]
          /\ upload'[j] # None
          /\ \A i \in Packages \ {j} : upload'[i] = upload[i]
          /\ \/ /\ process'[j] = "none"
                /\ (upload'[j] = upload[j]
                    \/ upload'[j].status \in {"failed", "completed"})
             \/ process'[j] = "importing" /\ upload'[j].status = "importing"
      BY <1>0, <2>1, <2>3, SetStatus DEF ImportTypeOK, ImportStatuses
    <2>5. ImportTypeOK'
      BY <1>0, <2>2, <2>3, <2>4 DEF ImportTypeOK, Processes
    <2>6. j \notin givenUp => ~confirming[j].launching
      BY <1>2, <2>1 DEF InStep
    <2>7. j \notin givenUp' => InStep(j)'
      BY <2>2, <2>4, <2>6 DEF InStep
    <2> QED BY <1>0, <1>1, <2>2, <2>3, <2>4, <2>5, <2>7
            DEF Steps, ImportTypeOK, Unborn
  <1>12. ASSUME NEW j \in Packages, NEW k \in ImportedKeys, ImportRow(j, k)
         PROVE  ImportInv'
    BY <1>0, <1>12 DEF ImportRow, ImportInv, ImportTypeOK, Unborn, InStep
  <1>13. CASE UNCHANGED importVars
    BY <1>13 DEF importVars, ImportInv, ImportTypeOK, Unborn, InStep
  <1>14. ASSUME NEW j \in Packages, ConfirmAgain(j) PROVE ImportInv'
    BY <1>8, <1>14 DEF ConfirmAgain
  <1> QED BY <1>4, <1>5, <1>6, <1>7, <1>9, <1>10, <1>11, <1>12, <1>13, <1>14
          DEF ImportNext

\* The invariant holds initially.
LEMMA ImportStart == ImportInit => ImportInv
  BY ImportAssumption
     DEF ImportInit, ImportInv, ImportTypeOK, Unborn, InStep, Quiet, Processes,
         Handlers

\* A step from the invariant leaves what has ended as it is.
LEMMA EndedStays ==
    ASSUME ImportInv, ImportNext, NEW j \in Packages, Ended(j),
           j \notin givenUp'
    PROVE  upload'[j] = upload[j] /\ process[j] # "importing"
  <1>1. /\ upload[j] # None /\ upload[j] \in Uploads
        /\ upload[j].status \in {"completed", "failed"}
    BY DEF Ended, ImportInv, ImportTypeOK
  <1>2. PICK i \in Packages :
            \/ Upload(i) \/ StartPreview(i) \/ FinishPreview(i)
            \/ FailPreview(i) \/ SweepPreview(i)
            \/ Confirm(i) \/ ConfirmAgain(i) \/ Launch(i) \/ LaunchFails(i)
            \/ MarkStartFailed(i)
            \/ StartImport(i) \/ RejectImport(i)
            \/ \E k \in ImportedKeys : ImportRow(i, k)
            \/ FinishImport(i) \/ FailImport(i) \/ KillProcess(i)
    BY DEF ImportNext
  <1>3. givenUp \subseteq givenUp'
    BY <1>2 DEF Upload, StartPreview, FinishPreview, FailPreview, SweepPreview,
                Confirm, ConfirmAgain, Launch, LaunchFails, MarkStartFailed,
                StartImport, RejectImport, ImportRow, FinishImport, FailImport,
                KillProcess
  <1>4. InStep(j) /\ j \notin givenUp
    BY <1>3 DEF ImportInv
  <1>5. process[j] # "importing" /\ ~confirming[j].launching
    BY <1>1, <1>4 DEF InStep
  <1>6. upload \in [Packages -> Uploads \cup {None}]
    BY DEF ImportInv, ImportTypeOK
  <1>7. CASE i # j
    <2>1. \/ upload' = upload
          \/ \E entry : upload' = [upload EXCEPT ![i] = entry]
      BY <1>2 DEF Upload, StartPreview, FinishPreview, FailPreview,
                  SweepPreview, Confirm, ConfirmAgain, Launch, LaunchFails,
                  MarkStartFailed, StartImport, RejectImport, ImportRow,
                  FinishImport, FailImport, KillProcess, Set
    <2> QED BY <1>5, <1>6, <1>7, <2>1
  <1>8. CASE i = j
    <2>1. upload' = upload
      BY <1>1, <1>2, <1>5, <1>8
         DEF Upload, StartPreview, FinishPreview, FailPreview, SweepPreview,
             Confirm, ConfirmAgain, Launch, LaunchFails, MarkStartFailed,
             StartImport, RejectImport, ImportRow, FinishImport, FailImport,
             KillProcess, MayFinishPreview, MayImport
    <2> QED BY <1>5, <2>1
  <1> QED BY <1>7, <1>8

\* The jobs, their processes and what they have done have their types.
THEOREM ImportTypes == ImportSpec => []ImportTypeOK
  <1>1. ImportInv => ImportTypeOK
    BY DEF ImportInv
  <1> QED BY <1>1, ImportStart, ImportStep, PTL DEF ImportSpec

\* A job that has ended stays as it ended and writes no article any more,
\* whatever previews answer late and however often it is started, unless a
\* second confirmation has marked it as failed.
THEOREM EndsCorrect == ImportSpec => EndStands
  <1>1. ImportInv /\ [ImportNext]_importVars =>
          [/\ \A j \in Packages : Ended(j) =>
                 j \in givenUp'
                 \/ (upload'[j] = upload[j] /\ process[j] # "importing")
           /\ \A k \in ImportedKeys : article'[k] # article[k] =>
                 article'[k] \in givenUp
                 \/ upload[article'[k]].status = "importing"]_importVars
    <2> SUFFICES ASSUME ImportInv, ImportNext
                 PROVE  /\ \A j \in Packages : Ended(j) =>
                              j \in givenUp'
                              \/ (upload'[j] = upload[j]
                                  /\ process[j] # "importing")
                        /\ \A k \in ImportedKeys : article'[k] # article[k] =>
                              article'[k] \in givenUp
                              \/ upload[article'[k]].status = "importing"
      OBVIOUS
    <2>1. ASSUME NEW k \in ImportedKeys, article'[k] # article[k]
          PROVE  \/ article'[k] \in givenUp
                 \/ upload[article'[k]].status = "importing"
      <3>1. PICK j \in Packages, m \in ImportedKeys : ImportRow(j, m)
        BY <2>1 DEF ImportNext, Upload, StartPreview, FinishPreview,
                    FailPreview, SweepPreview, Confirm, ConfirmAgain, Launch,
                    LaunchFails, MarkStartFailed, StartImport, RejectImport,
                    FinishImport, FailImport, KillProcess
      <3>2. article' = [article EXCEPT ![m] = j] /\ process[j] = "importing"
        BY <2>1, <3>1 DEF ImportRow
      <3>3. article'[k] = j
        BY <2>1, <3>2 DEF ImportInv, ImportTypeOK
      <3> QED BY <3>2, <3>3 DEF ImportInv, InStep
    <2> QED BY <2>1, EndedStays
  <1> QED BY <1>1, ImportStart, ImportStep, PTL DEF ImportSpec, EndStands

-----------------------------------------------------------------------------
(* Categories: what a descent through the tree finds.                      *)

\* A set of numbers with zero, and with one more than each of its numbers up
\* to a bound, has all numbers up to the bound: those it lacked would be
\* finitely many, and could be mapped one down among themselves.
LEMMA CountUp ==
    ASSUME NEW N \in Nat, NEW S, 0 \in S,
           \A n \in 0..(N - 1) : n \in S => n + 1 \in S
    PROVE  \A n \in 0..N : n \in S
  <1> SUFFICES ASSUME NEW t \in 0..N, t \notin S
               PROVE  FALSE
    OBVIOUS
  <1> DEFINE A == {k \in 0..t : k \notin S}
             down == [k \in A |-> k - 1]
  <1>1. IsFiniteSet(A)
    <2>1. A \in SUBSET (0..t) /\ IsFiniteSet(0..t)
      BY FS_Interval
    <2> QED BY <2>1, FS_Subset
  <1>2. \A k \in A : k - 1 \in A
    <2> SUFFICES ASSUME NEW k \in A
                 PROVE  k - 1 \in A
      OBVIOUS
    <2>1. k \in 0..t /\ k # 0
      OBVIOUS
    <2>2. k - 1 \in 0..(N - 1) /\ k - 1 \in 0..t /\ (k - 1) + 1 = k
      BY <2>1
    <2> QED BY <2>2
  <1>3. down \in Injection(A, A)
    <2>1. down \in [A -> A]
      BY <1>2
    <2>2. \A j, k \in A : down[j] = down[k] => j = k
      OBVIOUS
    <2> QED BY <2>1, <2>2 DEF Injection, IsInjective
  <1>4. down \in Surjection(A, A)
    BY <1>1, <1>3, FS_Injection
  <1>5. PICK k \in A : down[k] = t
    <2>1. t \in A
      OBVIOUS
    <2> QED BY <1>4, <2>1 DEF Surjection
  <1> QED BY <1>5

Children(s) == {d \in Present : category[d].parent \in s}

\* The sets that a descent from c goes through.
DescendsFrom(c, w, n) ==
    /\ w[0] = {c}
    /\ \A k \in 1..n : w[k] = w[k - 1] \cup Children(w[k - 1])

\* There are such sets for any number of steps.
LEMMA DescentExists ==
    ASSUME NEW c \in Categories, NEW N \in Nat
    PROVE  \E w : /\ w = [n \in 0..N |-> w[n]]
                 /\ DescendsFrom(c, w, N)
  <1> DEFINE S == {n \in 0..N : \E w : /\ w = [k \in 0..n |-> w[k]]
                                      /\ DescendsFrom(c, w, n)}
  <1>1. 0 \in S
    <2> DEFINE w == [k \in 0..0 |-> {c}]
    <2>1. w = [k \in 0..0 |-> w[k]] /\ DescendsFrom(c, w, 0)
      BY DEF DescendsFrom
    <2> QED BY <2>1
  <1>2. ASSUME NEW n \in 0..(N - 1), n \in S
        PROVE  n + 1 \in S
    <2>1. PICK w : DescendsFrom(c, w, n)
      BY <1>2
    <2> DEFINE v == [k \in 0..(n + 1) |->
                       IF k = n + 1 THEN w[n] \cup Children(w[n]) ELSE w[k]]
    <2>2. \A k \in 0..n : v[k] = w[k]
      OBVIOUS
    <2>3. v[n + 1] = v[n] \cup Children(v[n])
      BY <2>2
    <2>4. v[0] = {c}
      BY <2>1, <2>2 DEF DescendsFrom
    <2>5. v = [k \in 0..(n + 1) |-> v[k]]
      OBVIOUS
    <2> HIDE DEF v
    <2>6. DescendsFrom(c, v, n + 1)
      <3> SUFFICES ASSUME NEW k \in 1..(n + 1)
                   PROVE  v[k] = v[k - 1] \cup Children(v[k - 1])
        BY <2>4 DEF DescendsFrom
      <3>1. CASE k = n + 1
        BY <3>1, <2>3
      <3>2. CASE k # n + 1
        <4>1. k \in 0..n /\ k - 1 \in 0..n /\ k \in 1..n
          BY <3>2
        <4>2. v[k] = w[k] /\ v[k - 1] = w[k - 1]
          BY <4>1, <2>2
        <4> QED BY <4>1, <4>2, <2>1 DEF DescendsFrom
      <3> QED BY <3>1, <3>2
    <2> QED BY <2>5, <2>6
  <1>3. N \in S
    <2> HIDE DEF S
    <2> QED BY <1>1, <1>2, CountUp
  <1> QED BY <1>3

\* The recursive function of Subtree is such a descent.
LEMMA SubtreeDescends ==
    ASSUME NEW c \in Categories, Cardinality(Categories) \in Nat
    PROVE  \E w : /\ DescendsFrom(c, w, Cardinality(Categories))
                 /\ Subtree(c) = w[Cardinality(Categories)]
  <1> DEFINE N == Cardinality(Categories)
             Step(w) == [n \in 0..N |->
                           IF n = 0 THEN {c}
                           ELSE w[n - 1] \cup Children(w[n - 1])]
             W == CHOOSE w : w = Step(w)
  <1>1. Subtree(c) = W[N]
    BY DEF Subtree, Children
  <1>2. \E w : w = Step(w)
    <2>1. PICK w : w = [n \in 0..N |-> w[n]] /\ DescendsFrom(c, w, N)
      BY DescentExists
    <2>2. \A n \in 0..N : w[n] = Step(w)[n]
      BY <2>1 DEF DescendsFrom
    <2>3. w = Step(w)
      BY <2>1, <2>2
    <2> QED BY <2>3
  <1>3. PICK w : w = Step(w) /\ Subtree(c) = w[N]
    <2>1. W = Step(W)
      <3> HIDE DEF Step
      <3> QED BY <1>2
    <2> HIDE DEF W
    <2> QED BY <1>1, <2>1
  <1>4. N \in Nat
    OBVIOUS
  <1> HIDE DEF W, N
  <1>5. \A n \in 0..N : w[n] = Step(w)[n]
    <2> HIDE DEF Step
    <2> QED BY <1>3
  <1>6. Step(w)[0] = {c}
    BY <1>4
  <1>7. \A n \in 1..N : Step(w)[n] = w[n - 1] \cup Children(w[n - 1])
    BY <1>4
  <1>8. DescendsFrom(c, w, N)
    <2> HIDE DEF Step
    <2>1. 0 \in 0..N /\ \A n \in 1..N : n \in 0..N
      BY <1>4
    <2> QED BY <1>5, <1>6, <1>7, <2>1 DEF DescendsFrom
  <1> QED BY <1>3, <1>8 DEF N

\* A tree of rows: they are rows, and each has its parent among them.
RowsOK ==
    /\ category \in [Categories -> Nodes \cup {None}]
    /\ \A c \in Present : category[c].parent \in Present \cup {None}

\* Subtree(c) is the least set with c that has the children of its elements.
LEMMA SubtreeIsLeast ==
    ASSUME RowsOK, NEW c \in Present
    PROVE  /\ c \in Subtree(c) /\ Subtree(c) \subseteq Present
           /\ Children(Subtree(c)) \subseteq Subtree(c)
           /\ \A L : c \in L /\ Children(L) \subseteq L =>
                  Subtree(c) \subseteq L
  <1> DEFINE N == Cardinality(Categories)
  <1>1. IsFiniteSet(Categories) /\ N \in Nat /\ c \in Categories
    BY TreeAssumption, FS_CardinalityType DEF Present
  <1>2. PICK w : DescendsFrom(c, w, N) /\ Subtree(c) = w[N]
    BY <1>1, SubtreeDescends
  <1> HIDE DEF N
  <1>3. \A k \in 0..(N - 1) : w[k + 1] = w[k] \cup Children(w[k])
    <2> TAKE k \in 0..(N - 1)
    <2>1. k + 1 \in 1..N /\ (k + 1) - 1 = k
      BY <1>1
    <2> QED BY <2>1, <1>2 DEF DescendsFrom
  <1>4. \A k \in 0..N : c \in w[k] /\ w[k] \subseteq Present
    <2> DEFINE S == {k \in 0..N : c \in w[k] /\ w[k] \subseteq Present}
    <2>1. 0 \in S
      BY <1>1, <1>2 DEF DescendsFrom
    <2>2. \A n \in 0..(N - 1) : n \in S => n + 1 \in S
      BY <1>1, <1>3 DEF Children
    <2> HIDE DEF S
    <2>3. \A k \in 0..N : k \in S
      BY <1>1, <2>1, <2>2, CountUp
    <2> QED BY <2>3 DEF S
  <1>5. ASSUME NEW L, c \in L, Children(L) \subseteq L
        PROVE  Subtree(c) \subseteq L
    <2> DEFINE S == {k \in 0..N : w[k] \subseteq L}
    <2>1. 0 \in S
      BY <1>1, <1>2, <1>5 DEF DescendsFrom
    <2>2. \A n \in 0..(N - 1) : n \in S => n + 1 \in S
      BY <1>1, <1>3, <1>5 DEF Children
    <2> HIDE DEF S
    <2>3. \A k \in 0..N : k \in S
      BY <1>1, <2>1, <2>2, CountUp
    <2> QED BY <1>1, <1>2, <2>3 DEF S
  \* Each step adds a row until a step adds none, which comes before there
  \* are more rows than categories.
  <1>6. Children(w[N]) \subseteq w[N]
    <2> DEFINE Grown(k) == IsFiniteSet(w[k]) /\ Cardinality(w[k]) >= k + 1
               S == {k \in 0..N : Children(w[k]) \subseteq w[k] \/ Grown(k)}
    <2>1. \A k \in 0..N : IsFiniteSet(w[k]) /\ Cardinality(w[k]) \in Nat
      <3> TAKE k \in 0..N
      <3>1. w[k] \in SUBSET Categories
        BY <1>4 DEF Present
      <3> QED BY <1>1, <3>1, FS_Subset, FS_CardinalityType
    <2>2. 0 \in S
      <3>1. w[0] = {c}
        BY <1>2 DEF DescendsFrom
      <3>2. IsFiniteSet(w[0]) /\ Cardinality(w[0]) = 1
        BY <3>1, FS_Singleton
      <3> QED BY <1>1, <3>2
    <2>3. ASSUME NEW n \in 0..(N - 1), n \in S
          PROVE  n + 1 \in S
      <3>1. n \in 0..N /\ n + 1 \in 0..N /\ w[n + 1] = w[n] \cup Children(w[n])
        BY <1>1, <1>3
      <3>2. CASE Children(w[n]) \subseteq w[n]
        <4>1. w[n + 1] = w[n]
          BY <3>1, <3>2
        <4> QED BY <3>1, <3>2, <4>1
      <3>3. CASE ~(Children(w[n]) \subseteq w[n])
        <4>1. PICK d : d \in Children(w[n]) /\ d \notin w[n]
          BY <3>3
        <4>2. Cardinality(w[n]) >= n + 1
          BY <2>3, <3>3
        <4>3. /\ IsFiniteSet(w[n] \cup {d})
              /\ Cardinality(w[n] \cup {d}) = Cardinality(w[n]) + 1
          BY <2>1, <3>1, <4>1, FS_AddElement
        <4>4. w[n] \cup {d} \in SUBSET w[n + 1]
          BY <3>1, <4>1
        <4>5. Cardinality(w[n] \cup {d}) <= Cardinality(w[n + 1])
          <5>1. IsFiniteSet(w[n + 1])
            BY <2>1, <3>1
          <5> HIDE DEF S, Grown
          <5> QED BY <4>4, <5>1, FS_Subset
        <4>6. Cardinality(w[n + 1]) >= (n + 1) + 1
          <5>1. Cardinality(w[n]) \in Nat /\ Cardinality(w[n + 1]) \in Nat
            BY <2>1, <3>1
          <5> HIDE DEF S, Grown
          <5> QED BY <4>2, <4>3, <4>5, <5>1
        <4> QED BY <2>1, <3>1, <4>6
      <3> QED BY <3>2, <3>3
    <2>4. N \in S
      <3> HIDE DEF S
      <3> QED BY <1>1, <2>2, <2>3, CountUp
    <2>5. Cardinality(w[N]) <= N
      <3>1. w[N] \in SUBSET Categories
        BY <1>1, <1>4 DEF Present
      <3> QED BY <1>1, <3>1, FS_Subset DEF N
    <2> QED BY <1>1, <2>1, <2>4, <2>5
  <1> QED BY <1>1, <1>2, <1>4, <1>5, <1>6

-----------------------------------------------------------------------------
(* Categories: what a rewrite of paths does to the rows.                   *)

\* Paths are sequences of slugs.
LEMMA PathsAreSequences ==
    \A p \in Paths : p \in Seq(Slugs) /\ Len(p) \in Nat /\ p # <<>>
  <1> SUFFICES ASSUME NEW n \in 1..MaxDepth, NEW p \in [1..n -> Slugs]
               PROVE  p \in Seq(Slugs) /\ Len(p) \in Nat /\ p # <<>>
    BY DEF Paths
  <1>1. n \in Nat /\ n # 0
    BY TreeAssumption
  <1>2. p \in Seq(Slugs) /\ Len(p) = n
    BY <1>1
  <1> QED BY <1>1, <1>2

\* The path that is written for the category itself is its own.
LEMMA RepathedItself ==
    ASSUME NEW before, NEW c, before[c] \in Seq(Slugs), NEW x \in Seq(Slugs)
    PROVE  Repathed(before, c, x, c) = x
  <1>1. SubSeq(before[c], Len(before[c]) + 1, Len(before[c])) = << >>
    OBVIOUS
  <1> QED BY <1>1 DEF Repathed

\* What follows the first slugs of a path with one slug more is what follows
\* them in the path, and the slug.
LEMMA RestOfChild ==
    ASSUME NEW x \in Seq(Slugs), NEW y \in Seq(Slugs), NEW s \in Slugs,
           NEW k \in Nat, k <= Len(y)
    PROVE  x \o SubSeq(Append(y, s), k + 1, Len(Append(y, s)))
             = Append(x \o SubSeq(y, k + 1, Len(y)), s)
  <1> DEFINE a == Append(y, s)
             z == SubSeq(y, k + 1, Len(y))
  <1>1. Len(y) \in Nat
    OBVIOUS
  <1>2. /\ a \in Seq(Slugs) /\ Len(a) = Len(y) + 1 /\ a[Len(y) + 1] = s
        /\ a = y \o <<s>> /\ <<s>> \in Seq(Slugs)
    BY <1>1, AppendProperties, AppendIsConcat
  <1>3. z \in Seq(Slugs)
    BY <1>1
  <1> HIDE DEF a, z
  <1>4. /\ k + 1 \in 1..Len(a) /\ Len(a) \in (k + 1)..Len(a)
        /\ Len(a) - 1 = Len(y)
    BY <1>1, <1>2
  <1>5. SubSeq(a, k + 1, Len(a)) = SubSeq(a, k + 1, Len(y)) \o <<s>>
    BY <1>2, <1>4, SubSeqRecursiveSecond
  <1>6. SubSeq(a, k + 1, Len(y)) = z
    <2>1. CASE k = Len(y)
      <3>1. Len(y) < k + 1
        BY <1>1, <2>1
      <3> QED BY <1>1, <3>1, SubSeqEmpty DEF z
    <2>2. CASE k # Len(y)
      <3>1. k + 1 \in 1..Len(y) /\ Len(y) \in 1..Len(y)
        BY <1>1, <2>2
      <3> QED BY <1>1, <1>2, <3>1, SubSeqOfConcat1 DEF z
    <2> QED BY <2>1, <2>2
  <1>7. x \o (z \o <<s>>) = (x \o z) \o <<s>>
    BY <1>2, <1>3, ConcatAssociative
  <1>8. x \o z \in Seq(Slugs)
    BY <1>3, ConcatProperties
  <1>9. (x \o z) \o <<s>> = Append(x \o z, s)
    BY <1>8, AppendIsConcat
  <1> QED BY <1>5, <1>6, <1>7, <1>9 DEF a, z

-----------------------------------------------------------------------------
(* Categories: the rows that a revision rewrites.                          *)

OldPaths == [Categories -> Paths \cup {None}]

\* What is read of rows are their paths, and nothing of the others.
LEMMA PathsOfRows ==
    ASSUME RowsOK, NEW rows \in SUBSET Present
    PROVE  /\ PathsOf(rows) \in OldPaths
           /\ \A d \in Categories :
                 PathsOf(rows)[d] = IF d \in rows THEN category[d].path
                                    ELSE None
           /\ \A d \in rows : PathsOf(rows)[d] # None
           /\ \A c : Below(PathsOf(rows), c) = rows
  <1>1. \A d \in Present : category[d].path \in Paths /\ d \in Categories
    BY DEF RowsOK, Present, Nodes
  <1>2. PathsOf(rows) = [d \in Categories |-> IF d \in rows
                                             THEN category[d].path ELSE None]
    BY DEF PathsOf
  <1>3. PathsOf(rows) \in OldPaths
    BY <1>1, <1>2 DEF OldPaths
  <1>4. \A d \in rows : PathsOf(rows)[d] # None
    BY <1>1, <1>2, PathAssumption
  <1>5. \A d \in Categories : PathsOf(rows)[d] # None <=> d \in rows
    BY <1>2, <1>4
  <1>6. \A c : Below(PathsOf(rows), c) = rows
    BY <1>1, <1>5 DEF Below
  <1> QED BY <1>2, <1>3, <1>4, <1>6

\* A snapshot has the paths of the rows of the subtree and of no others.
LEMMA SnapshotOf ==
    ASSUME RowsOK, NEW c \in Present
    PROVE  /\ Snapshot(c) \in OldPaths
           /\ \A d \in Categories :
                 Snapshot(c)[d] = IF d \in Subtree(c) THEN category[d].path
                                  ELSE None
           /\ Below(Snapshot(c), c) = Subtree(c)
           /\ Snapshot(c)[c] # None
  <1>1. Subtree(c) \in SUBSET Present /\ c \in Subtree(c)
    BY SubtreeIsLeast
  <1> QED BY <1>1, PathsOfRows DEF Snapshot

\* The rows and redirects that a rewrite leaves.
Rewritten(before, c, node, new) ==
    /\ new \in OldPaths /\ new[c] = node.path
    /\ \A d \in Categories :
          new[d] = IF before[d] # None THEN Repathed(before, c, node.path, d)
                   ELSE None
    /\ redirect' = Rerouted(before, new)
    /\ Present' = Present /\ category' \in [Categories -> Nodes \cup {None}]
    /\ category'[c] = node /\ node \in Nodes
    /\ \A d \in Present :
          /\ category'[d].path = IF before[d] # None THEN new[d]
                                 ELSE category[d].path
          /\ d # c => /\ category'[d].parent = category[d].parent
                      /\ category'[d].slug = category[d].slug

LEMMA RepathRewrites ==
    ASSUME RowsOK, NEW c \in Present, NEW before \in OldPaths,
           before[c] # None, Below(before, c) \subseteq Present,
           NEW p \in Categories \cup {None}, NEW s \in Slugs,
           NEW x \in Seq(Slugs), NEW node,
           node = [parent |-> p, slug |-> s, path |-> x],
           Repath(before, c, node)
    PROVE  \E new : Rewritten(before, c, node, new)
  <1> DEFINE rows == Below(before, c)
             new == [d \in Categories |->
                       IF d \in rows THEN Repathed(before, c, node.path, d)
                       ELSE None]
  <1>1. /\ \A d \in rows : new[d] \in Paths
        /\ category' = [d \in Categories |->
               IF d = c THEN node
               ELSE IF d \in rows THEN [category[d] EXCEPT !.path = new[d]]
               ELSE category[d]]
        /\ redirect' = Rerouted(before, new)
    BY DEF Repath
  <1>2. c \in rows /\ c \in Categories /\ rows \subseteq Present
    BY DEF Below, Present
  <1>3. \A d \in Categories : d \in rows <=> before[d] # None
    BY DEF Below
  <1>4. new \in OldPaths
    BY <1>1 DEF OldPaths
  <1>5. new[c] = node.path
    <2>1. before[c] \in Paths
      BY <1>2 DEF OldPaths
    <2>2. new[c] = Repathed(before, c, x, c)
      BY <1>2
    <2> QED BY <2>1, <2>2, PathsAreSequences, RepathedItself
  <1>6. \A d \in Categories :
           new[d] = IF before[d] # None THEN Repathed(before, c, node.path, d)
                    ELSE None
    BY <1>3
  <1> HIDE DEF new
  <1>7. node \in Nodes
    BY <1>1, <1>2, <1>5 DEF Nodes
  <1>8. \A d \in rows : /\ [category[d] EXCEPT !.path = new[d]] \in Nodes
                        /\ [category[d] EXCEPT !.path = new[d]].path = new[d]
                        /\ [category[d] EXCEPT !.path = new[d]].parent
                             = category[d].parent
                        /\ [category[d] EXCEPT !.path = new[d]].slug
                             = category[d].slug
    <2> TAKE d \in rows
    <2>1. category[d] \in Nodes /\ new[d] \in Paths
      BY <1>1, <1>2 DEF RowsOK, Present
    <2> QED BY <2>1 DEF Nodes
  <1>9. category' \in [Categories -> Nodes \cup {None}]
    BY <1>1, <1>7, <1>8 DEF RowsOK
  <1>10. Present' = Present
    BY <1>1, <1>2, <1>7, <1>8, PathAssumption DEF Present
  <1>11. \A d \in Present :
            /\ category'[d].path = IF before[d] # None THEN new[d]
                                   ELSE category[d].path
            /\ d # c => /\ category'[d].parent = category[d].parent
                        /\ category'[d].slug = category[d].slug
    <2> TAKE d \in Present
    <2>1. d \in Categories
      BY DEF Present
    <2>2. CASE d = c
      BY <1>1, <1>2, <1>5, <2>1, <2>2
    <2>3. CASE d # c /\ d \in rows
      BY <1>1, <1>3, <1>8, <2>1, <2>3
    <2>4. CASE d # c /\ d \notin rows
      BY <1>1, <1>3, <2>1, <2>4
    <2> QED BY <2>2, <2>3, <2>4
  <1>12. category'[c] = node
    BY <1>1, <1>2
  <1> QED BY <1>1, <1>4, <1>5, <1>6, <1>7, <1>9, <1>10, <1>11, <1>12
          DEF Rewritten

\* Redirects lead to paths.
LEMMA RedirectsTyped ==
    ASSUME redirect \in [Paths -> Paths \cup {None}],
           NEW before, NEW new \in OldPaths
    PROVE  Rerouted(before, new) \in [Paths -> Paths \cup {None}]
  <1>1. \A p : (\E d \in Categories : before[d] = p /\ new[d] # p) =>
           new[CHOOSE d \in Categories : before[d] = p /\ new[d] # p]
               \in Paths \cup {None}
    BY DEF OldPaths
  <1> QED BY <1>1 DEF Rerouted

\* Every address that led to a page leads to one after its row and those
\* below are rewritten, if what was read is what they were.
LEMMA RewriteKeepsAddresses ==
    ASSUME RowsOK, NEW c \in Present, NEW node, NEW new,
           Rewritten(Snapshot(c), c, node, new)
    PROVE  Reached \subseteq Reached'
  <1> DEFINE old == Snapshot(c)
             Left(p) == \E d \in Categories : old[d] = p /\ new[d] # p
             To(p) == new[CHOOSE d \in Categories : old[d] = p /\ new[d] # p]
  <1>1. old \in OldPaths
    BY SnapshotOf
  <1>2. \A d \in Present : /\ d \in Categories /\ category[d].path \in Paths
                           /\ old[d] # None => old[d] = category[d].path
    BY SnapshotOf DEF Present, RowsOK, Nodes
  <1>3. \A d \in Categories : old[d] # None => d \in Present
    BY SnapshotOf, SubtreeIsLeast
  <1> HIDE DEF old
  <1>4. \A d \in Present : category'[d].path = IF old[d] # None THEN new[d]
                                               ELSE category[d].path
    BY DEF Rewritten, old
  <1>5. Live' = {category'[d].path : d \in Present}
    BY DEF Rewritten, Live
  <1>6. redirect' = [p \in Paths |->
            IF Left(p) THEN To(p)
            ELSE IF redirect[p] # None /\ Left(redirect[p])
            THEN To(redirect[p])
            ELSE redirect[p]]
    <2>1. redirect' = Rerouted(old, new)
      BY DEF Rewritten, old
    <2> QED BY <2>1 DEF Rerouted
  \* Where a path leads that was left there is a page.
  <1>7. \A p \in Paths : Left(p) => To(p) \in Live'
    <2> TAKE p \in Paths
    <2> HAVE Left(p)
    <2>1. PICK d \in Categories : /\ d = CHOOSE e \in Categories :
                                                old[e] = p /\ new[e] # p
                                  /\ old[d] = p /\ new[d] # p
      OBVIOUS
    <2>2. old[d] # None /\ To(p) = new[d]
      BY <2>1, PathAssumption
    <2> HIDE DEF Left, To
    <2> QED BY <1>3, <1>4, <1>5, <2>2
  \* A path of a page that was not left is still one.
  <1>8. \A p \in Live : ~Left(p) => p \in Live'
    BY <1>2, <1>4, <1>5 DEF Live
  <1>9. Live \subseteq Paths
    BY <1>2 DEF Live
  <1> SUFFICES ASSUME NEW p \in Paths, p \in Live \/ redirect[p] \in Live
               PROVE  p \in Live' \/ redirect'[p] \in Live'
    BY DEF Reached
  <1> HIDE DEF Left, To
  <1>10. CASE Left(p)
    BY <1>6, <1>7, <1>10
  <1>11. CASE ~Left(p) /\ p \in Live
    BY <1>8, <1>11
  <1>12. CASE ~Left(p) /\ redirect[p] \in Live
    <2>1. redirect[p] # None /\ redirect[p] \in Paths
      BY <1>9, <1>12, PathAssumption
    <2>2. CASE Left(redirect[p])
      BY <1>6, <1>7, <1>12, <2>1, <2>2
    <2>3. CASE ~Left(redirect[p])
      BY <1>6, <1>8, <1>12, <2>1, <2>3
    <2> QED BY <2>2, <2>3
  <1> QED BY <1>10, <1>11, <1>12

-----------------------------------------------------------------------------
(* Categories: the inductive invariant.                                    *)

\* The rows are a forest: each is ranked above its parent.
Ranks(rank) ==
    \A c \in Present : category[c].parent # None =>
        rank[category[c].parent] < rank[c]

Forest == \E rank \in [Categories -> Nat] : Ranks(rank)

PathsRight ==
    \A c \in Present :
        category[c].path = Append(PathOf(category[c].parent), category[c].slug)

\* A revision is of a row, and of rows below it, that are still there.
RevisionOK(w) ==
    /\ w \in Revisions /\ w.of \in Present
    /\ "slug" \in DOMAIN w =>
           w.before[w.of] # None /\ Below(w.before, w.of) \subseteq Present
    /\ "to" \in DOMAIN w => w.to \in Present \cup {None}
    /\ "listed" \in DOMAIN w =>
           /\ w.of \in w.listed /\ w.listed \subseteq Present
           /\ w.to \in Present \cup {None}

RevisionsOK ==
    /\ \A t \in Curators : revising[t] # None => RevisionOK(revising[t])
    /\ revising \in [Curators -> Revisions \cup {None}]

TreeInv ==
    /\ RowsOK /\ RevisionsOK
    /\ redirect \in [Paths -> Paths \cup {None}]
    /\ drifted \in BOOLEAN /\ moves \in 0..MaxMoves
    /\ ~drifted => Forest /\ PathsRight

\* In a forest no row is above its parent.
LEMMA ParentIsNotBelow ==
    ASSUME RowsOK, Forest, NEW c \in Present
    PROVE  category[c].parent \notin Subtree(c)
  <1>1. PICK rank \in [Categories -> Nat] : Ranks(rank)
    BY DEF Forest
  <1>2. \A d \in Present : d \in Categories /\ rank[d] \in Nat
    BY DEF Present
  <1> DEFINE L == {d \in Present : rank[d] >= rank[c]}
  <1>3. c \in L
    BY <1>2
  <1>4. Children(L) \subseteq L
    <2> SUFFICES ASSUME NEW d \in Present, category[d].parent \in L
                 PROVE  rank[d] >= rank[c]
      BY DEF Children
    <2>1. category[d].parent # None
      BY TreeAssumption, <1>2
    <2>2. rank[category[d].parent] < rank[d]
      BY <1>1, <2>1 DEF Ranks
    <2> QED BY <1>2, <2>2
  <1>5. Subtree(c) \subseteq L
    <2> HIDE DEF L
    <2> QED BY <1>3, <1>4, SubtreeIsLeast
  <1>6. ASSUME category[c].parent \in L
        PROVE  FALSE
    <2>1. category[c].parent # None
      BY TreeAssumption, <1>2, <1>6
    <2>2. rank[category[c].parent] < rank[c]
      BY <1>1, <2>1 DEF Ranks
    <2> QED BY <1>2, <1>6, <2>2
  <1> QED BY <1>5, <1>6

\* What is below a row has its parent there, but for the row itself.
LEMMA ParentIsBelow ==
    ASSUME RowsOK, NEW c \in Present, NEW d \in Subtree(c), d # c
    PROVE  category[d].parent \in Subtree(c)
  <1> SUFFICES ASSUME category[d].parent \notin Subtree(c)
               PROVE  FALSE
    OBVIOUS
  <1> DEFINE L == Subtree(c) \ {d}
  <1>1. c \in L /\ Children(L) \subseteq L
    BY SubtreeIsLeast DEF Children
  <1> HIDE DEF L
  <1>2. Subtree(c) \subseteq L
    BY <1>1, SubtreeIsLeast
  <1> QED BY <1>2 DEF L

\* Where paths follow the tree, what is below a row has no shorter a path.
LEMMA PathsGrow ==
    ASSUME RowsOK, PathsRight, NEW c \in Present
    PROVE  \A d \in Subtree(c) : Len(category[d].path) >= Len(category[c].path)
  <1>1. \A d \in Present : /\ d \in Categories /\ category[d].path \in Paths
                           /\ category[d].slug \in Slugs /\ d # None
    BY TreeAssumption DEF RowsOK, Present, Nodes
  <1> DEFINE L == {d \in Present :
                     Len(category[d].path) >= Len(category[c].path)}
  <1>2. c \in L
    BY <1>1, PathsAreSequences
  <1>3. Children(L) \subseteq L
    <2> SUFFICES ASSUME NEW d \in Present, category[d].parent \in L
                 PROVE  Len(category[d].path) >= Len(category[c].path)
      BY DEF Children
    <2> DEFINE e == category[d].parent
    <2>1. /\ e # None /\ e \in Present
          /\ Len(category[e].path) >= Len(category[c].path)
      BY <1>1
    <2>2. category[d].path = Append(category[e].path, category[d].slug)
      BY <2>1 DEF PathsRight, PathOf
    <2>3. /\ category[e].path \in Seq(Slugs) /\ Len(category[e].path) \in Nat
          /\ Len(category[c].path) \in Nat
      BY <1>1, <2>1, PathsAreSequences
    <2>4. Len(category[d].path) = Len(category[e].path) + 1
      BY <1>1, <2>2, <2>3, AppendProperties
    <2> QED BY <2>1, <2>3, <2>4
  <1> HIDE DEF L
  <1>4. Subtree(c) \subseteq L
    BY <1>2, <1>3, SubtreeIsLeast
  <1> QED BY <1>4 DEF L

\* A row put below another that is not below it leaves a forest.
LEMMA MovedForest ==
    ASSUME RowsOK, Forest, NEW c \in Present, NEW p \in Present \cup {None},
           p \notin Subtree(c), Present' = Present,
           category'[c].parent = p,
           \A d \in Present : d # c => category'[d].parent = category[d].parent
    PROVE  Forest'
  <1>1. PICK rank \in [Categories -> Nat] : Ranks(rank)
    BY DEF Forest
  <1>2. \A d \in Present : d \in Categories /\ rank[d] \in Nat /\ d # None
    BY TreeAssumption DEF Present
  <1> DEFINE up == IF p = None THEN 0 ELSE rank[p] + 1
             new == [d \in Categories |-> IF d \in Subtree(c) THEN rank[d] + up
                                          ELSE rank[d]]
  <1>3. up \in Nat
    BY <1>2
  <1>4. new \in [Categories -> Nat]
    BY <1>3
  <1>5. ASSUME NEW d \in Present, category'[d].parent # None
        PROVE  new[category'[d].parent] < new[d]
    <2> DEFINE e == category'[d].parent
    <2>1. CASE d = c
      <3>1. e = p /\ p # None /\ new[p] = rank[p] /\ p \in Categories
        BY <1>2, <1>5, <2>1
      <3>2. new[c] = rank[c] + (rank[p] + 1)
        BY <1>2, <3>1, SubtreeIsLeast
      <3>3. rank[p] \in Nat /\ rank[c] \in Nat
        BY <1>2, <3>1
      <3> HIDE DEF new, up
      <3> QED BY <2>1, <3>1, <3>2, <3>3
    <2>2. CASE d # c
      <3>1. e = category[d].parent /\ e \in Present /\ rank[e] < rank[d]
        BY <1>1, <1>5, <2>2 DEF Ranks, RowsOK
      <3>2. /\ rank[e] \in Nat /\ rank[d] \in Nat
            /\ e \in Categories /\ d \in Categories
        BY <1>2, <3>1
      <3>3. e \in Subtree(c) <=> d \in Subtree(c)
        BY <2>2, <3>1, ParentIsBelow, SubtreeIsLeast DEF Children
      <3>4. new[e] = rank[e] + (IF d \in Subtree(c) THEN up ELSE 0)
        BY <3>2, <3>3
      <3>5. new[d] = rank[d] + (IF d \in Subtree(c) THEN up ELSE 0)
        BY <3>2
      <3> HIDE DEF new, up
      <3> QED BY <1>3, <3>1, <3>2, <3>4, <3>5
    <2> QED BY <2>1, <2>2
  <1> HIDE DEF new
  <1>6. PICK r \in [Categories -> Nat] : r = new
    BY <1>4
  <1>7. Ranks(r)'
    BY <1>5, <1>6 DEF Ranks
  <1> QED BY <1>7 DEF Forest

\* Rewritten from what they are, the paths follow the tree.
LEMMA RewrittenPaths ==
    ASSUME RowsOK, Forest, PathsRight, NEW c \in Present, NEW node, NEW new,
           Rewritten(Snapshot(c), c, node, new),
           node.parent \in Present \cup {None}, node.parent \notin Subtree(c),
           node.path = Append(PathOf(node.parent), node.slug)
    PROVE  PathsRight'
  <1> DEFINE old == Snapshot(c)
             After(d) == IF d = None THEN <<>> ELSE category'[d].path
  <1>1. \A d \in Present :
           /\ d \in Categories /\ d # None
           /\ category[d].path \in Paths /\ category[d].slug \in Slugs
           /\ category[d].path \in Seq(Slugs)
    BY TreeAssumption, PathsAreSequences DEF RowsOK, Present, Nodes
  <1>2. \A d \in Categories : /\ d \in Subtree(c) => old[d] = category[d].path
                              /\ d \in Subtree(c) <=> old[d] # None
    BY SnapshotOf, SubtreeIsLeast, <1>1, PathAssumption
  <1>3. \A d \in Present :
           category'[d].path = IF d \in Subtree(c) THEN new[d]
                               ELSE category[d].path
    BY <1>1, <1>2 DEF Rewritten
  <1>4. \A d \in Present \cup {None} :
           d \notin Subtree(c) => After(d) = PathOf(d)
    BY <1>3 DEF PathOf
  <1>5. node.path \in Seq(Slugs) /\ category'[c] = node
    BY PathsAreSequences DEF Rewritten, Nodes
  <1> HIDE DEF old
  <1> SUFFICES ASSUME NEW d \in Present
               PROVE  category'[d].path
                        = Append(After(category'[d].parent), category'[d].slug)
    BY DEF PathsRight, PathOf, Rewritten
  <1>6. CASE d = c
    BY <1>4, <1>5, <1>6
  <1>7. CASE d # c
    <2> DEFINE e == category[d].parent
    <2>1. /\ category'[d].parent = e /\ category'[d].slug = category[d].slug
          /\ e \in Present \cup {None}
          /\ category[d].path = Append(PathOf(e), category[d].slug)
      BY <1>7 DEF Rewritten, RowsOK, PathsRight
    <2>2. CASE d \in Subtree(c)
      <3>1. e \in Subtree(c) /\ e \in Present /\ e # None
        BY <1>7, <2>2, ParentIsBelow, SubtreeIsLeast, <1>1
      <3>2. /\ old[c] = category[c].path /\ old[d] = category[d].path
            /\ old[e] = category[e].path
        BY <1>1, <1>2, <2>2, <3>1, SubtreeIsLeast
      <3>3. Len(old[e]) >= Len(old[c])
        BY <3>1, <3>2, PathsGrow
      <3>4. old[d] = Append(old[e], category[d].slug)
        BY <2>1, <3>1, <3>2 DEF PathOf
      <3>5. Repathed(old, c, node.path, d)
              = Append(Repathed(old, c, node.path, e), category[d].slug)
        <4>1. /\ old[c] \in Seq(Slugs) /\ old[e] \in Seq(Slugs)
              /\ category[d].slug \in Slugs
          BY <1>1, <3>1, <3>2
        <4>2. node.path \in Seq(Slugs)
          BY <1>5
        <4>3. Len(old[c]) \in Nat /\ Len(old[c]) <= Len(old[e])
          BY <3>3, <4>1
        <4> HIDE DEF e
        <4>4. node.path \o SubSeq(Append(old[e], category[d].slug),
                                 Len(old[c]) + 1,
                                 Len(Append(old[e], category[d].slug)))
                = Append(node.path
                             \o SubSeq(old[e], Len(old[c]) + 1, Len(old[e])),
                         category[d].slug)
          BY <4>1, <4>2, <4>3, RestOfChild
        <4> QED BY <3>4, <4>4, Zenon DEF Repathed
      <3>6. \A x \in Subtree(c) : new[x] = Repathed(old, c, node.path, x)
        BY <1>1, <1>2, SubtreeIsLeast DEF Rewritten, old
      <3>7. After(e) = new[e]
        BY <1>3, <3>1
      <3> QED BY <1>3, <2>1, <2>2, <3>1, <3>5, <3>6, <3>7
    <2>3. CASE d \notin Subtree(c)
      <3>1. e \notin Subtree(c)
        BY <2>3, SubtreeIsLeast DEF Children
      <3>2. After(e) = PathOf(e)
        BY <1>4, <2>1, <3>1
      <3> QED BY <1>3, <2>1, <2>3, <3>2
    <2> QED BY <2>2, <2>3
  <1> QED BY <1>6, <1>7

-----------------------------------------------------------------------------
(* Categories: every step keeps the invariant.                             *)

\* Revisions are none the worse for more rows.
LEMMA RevisionsStay ==
    ASSUME RevisionsOK, Present \subseteq Present',
           \A t \in Curators : revising'[t] \in {None, revising[t]},
           revising' \in [Curators -> Revisions \cup {None}]
    PROVE  RevisionsOK'
  <1> SUFFICES ASSUME NEW t \in Curators, NEW w, w = revising'[t], w # None
               PROVE  RevisionOK(w)'
    BY DEF RevisionsOK, RevisionOK, Below
  <1>1. RevisionOK(w)
    BY DEF RevisionsOK
  <1> QED BY <1>1 DEF RevisionOK, Below

\* A rewrite leaves rows that have their parents, if the row has.
LEMMA RewrittenRows ==
    ASSUME RowsOK, NEW c \in Present, NEW before, NEW node, NEW new,
           Rewritten(before, c, node, new), node.parent \in Present \cup {None}
    PROVE  RowsOK'
  <1>1. \A d \in Present' : category'[d].parent \in Present' \cup {None}
    BY DEF Rewritten, RowsOK
  <1> QED BY <1>1 DEF Rewritten, RowsOK

LEMMA Creates ==
    ASSUME TreeInv, NEW c \in Categories, NEW p \in Categories \cup {None},
           NEW s \in Slugs, CreateCategory(c, p, s)
    PROVE  TreeInv'
  <1> USE DEF TreeInv
  <1>1. PICK node :
            node = [parent |-> p, slug |-> s, path |-> Append(PathOf(p), s)]
    OBVIOUS
  <1>2. /\ category' = [category EXCEPT ![c] = node] /\ node \in Nodes
        /\ node.parent = p /\ node.slug = s /\ node.path = Append(PathOf(p), s)
        /\ p \in Present \cup {None} /\ c \notin Present /\ p # c
        /\ UNCHANGED <<redirect, revising, drifted, moves>>
    BY <1>1, TreeAssumption DEF CreateCategory, Nodes, Present
  <1>3. node # None /\ category \in [Categories -> Nodes \cup {None}]
    BY <1>2, PathAssumption DEF RowsOK
  <1>4. Present' = Present \cup {c}
    BY <1>2, <1>3 DEF Present
  <1>5. \A d \in Present : /\ category'[d] = category[d] /\ d # c
                           /\ category[d].parent \in Present \cup {None}
                           /\ d # None /\ d \in Categories
    BY <1>2, TreeAssumption DEF RowsOK, Present
  <1>6. category'[c] = node
    BY <1>2, <1>3
  <1>7. RowsOK'
    BY <1>2, <1>3, <1>4, <1>5, <1>6 DEF RowsOK
  <1>8. ASSUME Forest
        PROVE  Forest'
    <2>1. PICK rank \in [Categories -> Nat] : Ranks(rank)
      BY <1>8 DEF Forest
    <2>2. PICK r : r = [rank EXCEPT ![c] = IF p = None THEN 0 ELSE rank[p] + 1]
      OBVIOUS
    <2>3. r \in [Categories -> Nat]
      BY <2>2
    <2>4. \A d \in Present : r[d] = rank[d]
      BY <1>5, <2>2
    <2>5. p # None => rank[p] < r[c] /\ rank[p] = r[p]
      BY <1>2, <2>2
    <2>6. Ranks(r)'
      BY <1>2, <1>4, <1>5, <1>6, <2>1, <2>4, <2>5 DEF Ranks
    <2> QED BY <2>3, <2>6 DEF Forest
  <1>9. RevisionsOK'
    BY <1>2, <1>4, RevisionsStay DEF RevisionsOK
  <1>10. ASSUME PathsRight
         PROVE  PathsRight'
    <2> DEFINE After(d) == IF d = None THEN <<>> ELSE category'[d].path
    <2>1. \A d \in Present \cup {None} : After(d) = PathOf(d)
      BY <1>5 DEF PathOf
    <2>2. \A d \in Present' :
             category'[d].path
               = Append(After(category'[d].parent), category'[d].slug)
      <3> TAKE d \in Present'
      <3>1. CASE d = c
        BY <1>2, <1>6, <2>1, <3>1
      <3>2. CASE d # c
        BY <1>4, <1>5, <1>10, <2>1, <3>2 DEF PathsRight
      <3> QED BY <3>1, <3>2
    <2> QED BY <2>2 DEF PathsRight, PathOf
  <1> QED BY <1>2, <1>7, <1>8, <1>9, <1>10

LEMMA BeginsRename ==
    ASSUME TreeInv, NEW t \in Curators, NEW c \in Categories, NEW s \in Slugs,
           BeginRename(t, c, s)
    PROVE  TreeInv'
  <1> USE DEF TreeInv
  <1>1. PICK w : w = [of |-> c, slug |-> s,
                      under |-> PathOf(category[c].parent),
                      before |-> Snapshot(c)]
    OBVIOUS
  <1>2. /\ c \in Present /\ moves' = moves + 1 /\ moves < MaxMoves
        /\ revising' = [revising EXCEPT ![t] = w]
        /\ UNCHANGED <<category, redirect, drifted>>
    BY <1>1 DEF BeginRename
  <1>3. PathOf(category[c].parent) \in Paths \cup {<<>>}
    BY <1>2 DEF PathOf, RowsOK, Present, Nodes
  <1>4. w \in Revisions
    BY <1>1, <1>2, <1>3, SnapshotOf DEF Revisions, OldPaths
  <1>5. RevisionOK(w)
    <2>1. /\ w.of = c /\ w.before = Snapshot(c)
          /\ ~("to" \in DOMAIN w) /\ ~("listed" \in DOMAIN w)
      BY <1>1
    <2> QED BY <1>2, <1>4, <2>1, SnapshotOf, SubtreeIsLeast DEF RevisionOK
  <1>6. RevisionsOK'
    BY <1>2, <1>4, <1>5 DEF RevisionsOK, RevisionOK, Below, Present
  <1>7. RowsOK' /\ (Forest => Forest') /\ (PathsRight => PathsRight')
    BY <1>2 DEF RowsOK, Forest, Ranks, PathsRight, PathOf, Present
  <1>8. moves' \in 0..MaxMoves
    BY <1>2, TreeAssumption
  <1> QED BY <1>2, <1>6, <1>7, <1>8

LEMMA BeginsMove ==
    ASSUME TreeInv, NEW t \in Curators, NEW c \in Categories,
           NEW p \in Categories \cup {None}, BeginMove(t, c, p)
    PROVE  TreeInv'
  <1> USE DEF TreeInv
  <1>1. PICK w : w = [of |-> c, to |-> p]
    OBVIOUS
  <1>2. /\ c \in Present /\ moves' = moves + 1 /\ moves < MaxMoves
        /\ p \in Present \cup {None}
        /\ revising' = [revising EXCEPT ![t] = w]
        /\ UNCHANGED <<category, redirect, drifted>>
    BY <1>1 DEF BeginMove
  <1>3. w \in Revisions
    BY <1>1 DEF Revisions
  <1>4. RevisionOK(w)
    <2>1. /\ w.of = c /\ w.to = p
          /\ ~("slug" \in DOMAIN w) /\ ~("listed" \in DOMAIN w)
      BY <1>1
    <2> QED BY <1>2, <1>3, <2>1 DEF RevisionOK
  <1>5. RevisionsOK'
    BY <1>2, <1>3, <1>4 DEF RevisionsOK, RevisionOK, Below, Present
  <1>6. RowsOK' /\ (Forest => Forest') /\ (PathsRight => PathsRight')
    BY <1>2 DEF RowsOK, Forest, Ranks, PathsRight, PathOf, Present
  <1>7. moves' \in 0..MaxMoves
    BY <1>2, TreeAssumption
  <1> QED BY <1>2, <1>5, <1>6, <1>7

LEMMA ListsMove ==
    ASSUME TreeInv, NEW t \in Curators, ListMove(t)
    PROVE  TreeInv'
  <1> USE DEF TreeInv
  <1>1. PICK v : v = revising[t]
    OBVIOUS
  <1>2. v # None /\ "to" \in DOMAIN v /\ RevisionOK(v)
    BY <1>1 DEF ListMove, RevisionsOK
  <1>3. v.of \in Present /\ v.to \in Present \cup {None}
    BY <1>2 DEF RevisionOK
  <1>4. PICK c, p : c = v.of /\ p = v.to
    OBVIOUS
  <1>5. PICK w : w = [of |-> c, to |-> p, listed |-> Subtree(c)]
    OBVIOUS
  <1>6. /\ revising' = [revising EXCEPT ![t] = w]
        /\ UNCHANGED <<category, redirect, drifted, moves>>
    BY <1>1, <1>4, <1>5 DEF ListMove
  <1>7. c \in Subtree(c) /\ Subtree(c) \subseteq Present
    BY <1>3, <1>4, SubtreeIsLeast
  <1>8. w \in Revisions
    BY <1>3, <1>4, <1>5, <1>7 DEF Revisions, Present
  <1>9. RevisionOK(w)
    <2>1. /\ w.of = c /\ w.to = p /\ w.listed = Subtree(c)
          /\ ~("slug" \in DOMAIN w)
      BY <1>5
    <2> QED BY <1>3, <1>4, <1>7, <1>8, <2>1 DEF RevisionOK
  <1>10. RevisionsOK'
    BY <1>6, <1>8, <1>9 DEF RevisionsOK, RevisionOK, Below, Present
  <1>11. RowsOK' /\ (Forest => Forest') /\ (PathsRight => PathsRight')
    BY <1>6 DEF RowsOK, Forest, Ranks, PathsRight, PathOf, Present
  <1> QED BY <1>6, <1>10, <1>11

\* What the rest of a rename does.
LEMMA RenameRewrites ==
    ASSUME TreeInv, NEW t \in Curators, FinishRename(t)
    PROVE  \E c \in Present, before \in OldPaths, node \in Nodes,
              new \in OldPaths :
              /\ Rewritten(before, c, node, new)
              /\ node.parent = category[c].parent
              /\ ~drifted' => /\ ~drifted /\ before = Snapshot(c)
                              /\ node.path
                                   = Append(PathOf(node.parent), node.slug)
              /\ drifted' \in BOOLEAN /\ moves' = moves
              /\ revising' = [revising EXCEPT ![t] = None]
  <1> USE DEF TreeInv
  <1>1. PICK w : w = revising[t]
    OBVIOUS
  <1>2. w # None /\ "slug" \in DOMAIN w /\ RevisionOK(w)
    BY <1>1 DEF FinishRename, RevisionsOK
  <1>3. /\ w.of \in Present /\ w.slug \in Slugs
        /\ w.under \in Paths \cup {<<>>}
        /\ w.before \in OldPaths /\ w.before[w.of] # None
        /\ Below(w.before, w.of) \subseteq Present
    <2>1. w \in [of : Categories, slug : Slugs, under : Paths \cup {<<>>},
                 before : [Categories -> Paths \cup {None}]]
      BY <1>2 DEF RevisionOK, Revisions
    <2> QED BY <1>2, <2>1 DEF RevisionOK, OldPaths
  <1>4. PICK c : c = w.of
    OBVIOUS
  <1>5. PICK x : x = Append(w.under, w.slug)
    OBVIOUS
  <1>6. x \in Seq(Slugs)
    <2>1. w.under \in Seq(Slugs)
      BY <1>3, PathsAreSequences, EmptySeq
    <2> QED BY <1>3, <1>5, <2>1, AppendProperties
  <1>7. category[c] \in Nodes
    BY <1>3, <1>4 DEF RowsOK, Present
  <1>8. PICK node : node = [category[c] EXCEPT !.slug = w.slug, !.path = x]
    OBVIOUS
  <1>9. /\ node = [parent |-> category[c].parent, slug |-> w.slug, path |-> x]
        /\ node.parent = category[c].parent
        /\ node.slug = w.slug /\ node.path = x
        /\ category[c].parent \in Categories \cup {None}
    BY <1>7, <1>8 DEF Nodes
  <1>10. /\ Repath(w.before, c, node)
         /\ drifted' = \/ drifted
                       \/ w.before # Snapshot(c)
                       \/ w.under # PathOf(category[c].parent)
         /\ revising' = [revising EXCEPT ![t] = None]
         /\ moves' = moves
    BY <1>1, <1>4, <1>5, <1>8 DEF FinishRename
  <1>11. PICK new : Rewritten(w.before, c, node, new)
    BY <1>3, <1>4, <1>6, <1>9, <1>10, RepathRewrites
  <1>12. drifted' \in BOOLEAN
    BY <1>10
  <1>13. ~drifted' => /\ ~drifted /\ w.before = Snapshot(c)
                      /\ node.path = Append(PathOf(node.parent), node.slug)
    BY <1>5, <1>9, <1>10
  <1> QED BY <1>3, <1>4, <1>9, <1>10, <1>11, <1>12, <1>13 DEF Rewritten

\* What the rest of a move does.
LEMMA MoveRewrites ==
    ASSUME TreeInv, NEW t \in Curators, FinishMove(t)
    PROVE  \E c \in Present, before \in OldPaths, node \in Nodes,
              new \in OldPaths :
              /\ Rewritten(before, c, node, new)
              /\ node.parent \in Present \cup {None}
              /\ ~drifted' => /\ ~drifted /\ before = Snapshot(c)
                              /\ node.parent \notin Subtree(c)
                              /\ node.path
                                   = Append(PathOf(node.parent), node.slug)
              /\ drifted' \in BOOLEAN /\ moves' = moves
              /\ revising' = [revising EXCEPT ![t] = None]
  <1> USE DEF TreeInv
  <1>1. PICK w : w = revising[t]
    OBVIOUS
  <1>2. w # None /\ "listed" \in DOMAIN w /\ RevisionOK(w)
    BY <1>1 DEF FinishMove, RevisionsOK
  <1>3. /\ w.of \in Present /\ w.to \in Present \cup {None}
        /\ w.of \in w.listed /\ w.listed \in SUBSET Present
    BY <1>2 DEF RevisionOK
  <1>4. PICK c, p, listed : c = w.of /\ p = w.to /\ listed = w.listed
    OBVIOUS
  <1>5. p \in Categories \cup {None} /\ category[c] \in Nodes
    BY <1>3, <1>4 DEF RowsOK, Present
  <1>6. PICK x : x = Append(PathOf(p), category[c].slug)
    OBVIOUS
  <1>7. x \in Seq(Slugs)
    <2>1. PathOf(p) \in Paths \cup {<<>>}
      BY <1>3, <1>4 DEF PathOf, RowsOK, Present, Nodes
    <2>2. category[c].slug \in Slugs
      BY <1>5 DEF Nodes
    <2>3. PathOf(p) \in Seq(Slugs)
      BY <2>1, PathsAreSequences, EmptySeq
    <2> QED BY <1>6, <2>2, <2>3, AppendProperties
  <1>8. PICK node : node = [category[c] EXCEPT !.parent = p, !.path = x]
    OBVIOUS
  <1>9. /\ node = [parent |-> p, slug |-> category[c].slug, path |-> x]
        /\ node.parent = p /\ node.slug = category[c].slug /\ node.path = x
        /\ category[c].slug \in Slugs
    BY <1>5, <1>8 DEF Nodes
  <1>10. /\ Repath(PathsOf(listed), c, node) /\ p \notin listed
         /\ drifted' = (drifted \/ listed # Subtree(c))
         /\ revising' = [revising EXCEPT ![t] = None]
         /\ moves' = moves
    BY <1>1, <1>4, <1>6, <1>8 DEF FinishMove, MayMove
  <1>11. PICK before : before = PathsOf(listed)
    OBVIOUS
  <1>12. /\ before \in OldPaths /\ before[c] # None
         /\ Below(before, c) \subseteq Present
    BY <1>3, <1>4, <1>11, PathsOfRows
  <1>13. PICK new : Rewritten(before, c, node, new)
    BY <1>3, <1>4, <1>5, <1>7, <1>9, <1>10, <1>11, <1>12, RepathRewrites
  <1>14. node \in Nodes /\ new \in OldPaths
    BY <1>13 DEF Rewritten
  <1>15. c \in Present /\ p \in Present \cup {None}
    BY <1>3, <1>4
  <1>16. drifted' \in BOOLEAN
    BY <1>10
  <1>17. ~drifted' => ~drifted /\ before = Snapshot(c) /\ p \notin Subtree(c)
    BY <1>10, <1>11 DEF Snapshot
  <1> QED BY <1>6, <1>9, <1>10, <1>12, <1>13, <1>14, <1>15, <1>16, <1>17

-----------------------------------------------------------------------------
(* Categories: the theorems.                                               *)

LEMMA TreeStart == TreeInit => TreeInv
  <1> SUFFICES ASSUME TreeInit
               PROVE  TreeInv
    OBVIOUS
  <1>1. Present = {}
    BY DEF TreeInit, Present
  <1>2. [c \in Categories |-> 0] \in [Categories -> Nat]
    OBVIOUS
  <1>3. Forest /\ PathsRight
    BY <1>1, <1>2 DEF Forest, Ranks, PathsRight
  <1>4. RowsOK /\ RevisionsOK
    BY <1>1 DEF TreeInit, RowsOK, RevisionsOK
  <1>5. redirect \in [Paths -> Paths \cup {None}]
    BY DEF TreeInit
  <1>6. drifted \in BOOLEAN
    BY DEF TreeInit
  <1>7. moves \in 0..MaxMoves
    <2>1. moves = 0 /\ MaxMoves \in Nat
      BY TreeAssumption DEF TreeInit
    <2> QED BY <2>1
  <1> QED BY <1>3, <1>4, <1>5, <1>6, <1>7 DEF TreeInv

LEMMA FinishesRename ==
    ASSUME TreeInv, NEW t \in Curators, FinishRename(t)
    PROVE  TreeInv'
  <1> USE DEF TreeInv
  <1>1. PICK c \in Present, before \in OldPaths, node \in Nodes,
             new \in OldPaths :
              /\ Rewritten(before, c, node, new)
              /\ node.parent = category[c].parent
              /\ ~drifted' => /\ ~drifted /\ before = Snapshot(c)
                              /\ node.path
                                   = Append(PathOf(node.parent), node.slug)
              /\ drifted' \in BOOLEAN /\ moves' = moves
              /\ revising' = [revising EXCEPT ![t] = None]
    BY RenameRewrites
  <1>2. node.parent \in Present \cup {None}
    BY <1>1 DEF RowsOK
  <1>3. RowsOK'
    BY <1>1, <1>2, RewrittenRows
  <1>4. RevisionsOK'
    BY <1>1, RevisionsStay DEF RevisionsOK, Rewritten
  <1>5. redirect' \in [Paths -> Paths \cup {None}]
    BY <1>1, RedirectsTyped DEF Rewritten
  <1>6. ASSUME ~drifted'
        PROVE  Forest' /\ PathsRight'
    <2>1. Forest /\ PathsRight
      BY <1>1, <1>6
    <2>2. node.parent \notin Subtree(c)
      BY <1>1, <2>1, ParentIsNotBelow
    <2>3. Forest'
      BY <1>1, <1>2, <2>1, <2>2, MovedForest DEF Rewritten
    <2>4. PathsRight'
      BY <1>1, <1>2, <1>6, <2>1, <2>2, RewrittenPaths
    <2> QED BY <2>3, <2>4
  <1> QED BY <1>1, <1>3, <1>4, <1>5, <1>6

LEMMA FinishesMove ==
    ASSUME TreeInv, NEW t \in Curators, FinishMove(t)
    PROVE  TreeInv'
  <1> USE DEF TreeInv
  <1>1. PICK c \in Present, before \in OldPaths, node \in Nodes,
             new \in OldPaths :
              /\ Rewritten(before, c, node, new)
              /\ node.parent \in Present \cup {None}
              /\ ~drifted' => /\ ~drifted /\ before = Snapshot(c)
                              /\ node.parent \notin Subtree(c)
                              /\ node.path
                                   = Append(PathOf(node.parent), node.slug)
              /\ drifted' \in BOOLEAN /\ moves' = moves
              /\ revising' = [revising EXCEPT ![t] = None]
    BY MoveRewrites
  <1>2. RowsOK'
    BY <1>1, RewrittenRows
  <1>3. RevisionsOK'
    BY <1>1, RevisionsStay DEF RevisionsOK, Rewritten
  <1>4. redirect' \in [Paths -> Paths \cup {None}]
    BY <1>1, RedirectsTyped DEF Rewritten
  <1>5. ASSUME ~drifted'
        PROVE  Forest' /\ PathsRight'
    <2>1. Forest /\ PathsRight
      BY <1>1, <1>5
    <2>2. Forest'
      BY <1>1, <1>5, <2>1, MovedForest DEF Rewritten
    <2>3. PathsRight'
      BY <1>1, <1>5, <2>1, RewrittenPaths
    <2> QED BY <2>2, <2>3
  <1> QED BY <1>1, <1>2, <1>3, <1>4, <1>5

LEMMA TreeStep == TreeInv /\ [TreeNext]_treeVars => TreeInv'
  <1> SUFFICES ASSUME TreeInv, [TreeNext]_treeVars
               PROVE  TreeInv'
    OBVIOUS
  <1>1. CASE UNCHANGED treeVars
    BY <1>1 DEF treeVars, TreeInv, RowsOK, Forest, Ranks, RevisionsOK,
                RevisionOK, Below, PathsRight, PathOf, Present
  <1>2. CASE \E t \in Curators : AbortRevision(t)
    <2>1. PICK t \in Curators :
              /\ revising' = [revising EXCEPT ![t] = None]
              /\ UNCHANGED <<category, redirect, drifted, moves>>
      BY <1>2 DEF AbortRevision
    <2>2. RevisionsOK'
      BY <2>1, RevisionsStay DEF TreeInv, RevisionsOK, Present
    <2> QED BY <2>1, <2>2 DEF TreeInv, RowsOK, Forest, Ranks, PathsRight,
                              PathOf, Present
  <1> QED BY <1>1, <1>2, Creates, BeginsRename, BeginsMove, ListsMove,
             FinishesRename, FinishesMove DEF TreeNext

\* The invariant implies what the runs check.
LEMMA TreeInvariantImplies == TreeInv => TreeTypeOK /\ PathsFollowTree
  BY ParentIsNotBelow DEF TreeInv, TreeTypeOK, RowsOK, RevisionsOK,
     PathsFollowTree, PathsRight

\* The variables keep their types.
THEOREM TreeTypes == TreeSpec => []TreeTypeOK
  <1>1. TreeInit => TreeInv
    BY TreeStart
  <1>2. TreeInv /\ [TreeNext]_treeVars => TreeInv'
    BY TreeStep
  <1>3. TreeInv => TreeTypeOK
    BY TreeInvariantImplies
  <1> QED BY <1>1, <1>2, <1>3, PTL DEF TreeSpec

\* However many renames and moves are under way at once, the categories stay
\* a tree and the paths follow it, until a rename or a move rewrites rows
\* that are no longer those below its category as it read them.
THEOREM TreeCorrect == TreeSpec => []PathsFollowTree
  <1>1. TreeInit => TreeInv
    BY TreeStart
  <1>2. TreeInv /\ [TreeNext]_treeVars => TreeInv'
    BY TreeStep
  <1>3. TreeInv => PathsFollowTree
    BY TreeInvariantImplies
  <1> QED BY <1>1, <1>2, <1>3, PTL DEF TreeSpec

\* A step leaves every address that led to a page leading to one.
LEMMA AddressesStep ==
    ASSUME TreeInv, [TreeNext]_treeVars
    PROVE  Reached \subseteq Reached' \/ drifted'
  <1> USE DEF TreeInv
  <1>1. CASE UNCHANGED <<category, redirect>>
    BY <1>1 DEF Reached, Live, Present
  <1>2. ASSUME NEW c \in Categories, NEW p \in Categories \cup {None},
               NEW s \in Slugs, CreateCategory(c, p, s)
        PROVE  Reached \subseteq Reached'
    <2>1. /\ category[c] = None /\ redirect' = redirect
          /\ \A d \in Categories \ {c} : category'[d] = category[d]
      BY <1>2 DEF CreateCategory, RowsOK
    <2>2. Live \subseteq Live'
      BY <2>1 DEF Live, Present
    <2> QED BY <2>1, <2>2 DEF Reached
  <1>3. ASSUME NEW t \in Curators, FinishRename(t)
        PROVE  Reached \subseteq Reached' \/ drifted'
    <2>1. PICK c \in Present, before \in OldPaths, node \in Nodes,
               new \in OldPaths :
              /\ Rewritten(before, c, node, new)
              /\ ~drifted' => before = Snapshot(c)
      BY <1>3, RenameRewrites
    <2> QED BY <2>1, RewriteKeepsAddresses
  <1>4. ASSUME NEW t \in Curators, FinishMove(t)
        PROVE  Reached \subseteq Reached' \/ drifted'
    <2>1. PICK c \in Present, before \in OldPaths, node \in Nodes,
               new \in OldPaths :
              /\ Rewritten(before, c, node, new)
              /\ ~drifted' => before = Snapshot(c)
      BY <1>4, MoveRewrites
    <2> QED BY <2>1, RewriteKeepsAddresses
  <1>5. ASSUME NEW t \in Curators,
               \/ AbortRevision(t) \/ ListMove(t)
               \/ \E c \in Categories, s \in Slugs : BeginRename(t, c, s)
               \/ \E c \in Categories, p \in Categories \cup {None} :
                     BeginMove(t, c, p)
        PROVE  UNCHANGED <<category, redirect>>
    BY <1>5 DEF AbortRevision, ListMove, BeginRename, BeginMove
  <1>6. CASE UNCHANGED treeVars
    BY <1>1, <1>6 DEF treeVars
  <1> QED BY <1>1, <1>2, <1>3, <1>4, <1>5, <1>6 DEF TreeNext

\* An address that has led to a category goes on leading to one, through any
\* renames and moves of it and of what is above it.
THEOREM AddressesCorrect == TreeSpec => AddressesEndure
  <1>1. TreeInit => TreeInv
    BY TreeStart
  <1>2. TreeInv /\ [TreeNext]_treeVars => TreeInv'
    BY TreeStep
  <1>3. TreeInv /\ [TreeNext]_treeVars
          => [Reached \subseteq Reached' \/ drifted']_treeVars
    BY AddressesStep
  <1> QED BY <1>1, <1>2, <1>3, PTL DEF TreeSpec, AddressesEndure

-----------------------------------------------------------------------------
(* The parts together.                                                     *)

\* A behaviour of the four parts, as the run has them, is a behaviour of each
\* of them: what is proved of a part holds in the run.
THEOREM EditorialParts ==
    EditorialSpec => Spec /\ PlacementSpec /\ TreeSpec /\ ImportSpec
  <1>1. EditorialInit => Init /\ PlacementInit /\ TreeInit /\ ImportInit
    BY DEF EditorialInit
  <1>2. ASSUME [EditorialNext]_editorialVars
        PROVE  /\ [Next]_vars
               /\ [PlacementNext]_placementVars
               /\ [TreeNext]_treeVars
               /\ [ImportNext]_importVars
    <2>1. CASE EditorialNext
      BY <2>1 DEF EditorialNext
    <2>2. CASE UNCHANGED editorialVars
      BY <2>2 DEF editorialVars
    <2> QED BY <1>2, <2>1, <2>2
  <1> QED
    BY <1>1, <1>2, PTL DEF EditorialSpec, Spec, PlacementSpec, TreeSpec,
       ImportSpec

\* The variables of each part keep their types in the run.
THEOREM EditorialTypes == EditorialSpec => []EditorialTypeOK
  <1>1. TypeOK /\ PlacementTypeOK /\ TreeTypeOK /\ ImportTypeOK =>
            EditorialTypeOK
    BY DEF EditorialTypeOK
  <1> QED
    BY <1>1, EditorialParts, TypeCorrect, PlacementTypes, TreeTypes,
       ImportTypes, PTL

=============================================================================
