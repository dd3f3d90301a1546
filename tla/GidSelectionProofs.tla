------------------------- MODULE GidSelectionProofs -------------------------
(***************************************************************************)
(* The GID openRdmaDevice() chooses is the best of the table, for a table  *)
(* of any size.                                                            *)
(***************************************************************************)
EXTENDS GidSelection, TLAPS

\* The loops' invariants.  PickBestGid()'s: the best so far is the best of
\* the candidates before j.
Configured == \A k \in 1 .. Len(candidates) : IsConfiguredGid(candidates[k].gid)

Untouched ==
    /\ pc = "port" => candidates = <<>> /\ i = 0
    /\ pc \in {"port", "table"} => j = 1 /\ best_idx = NoIndex

BestOf(n, k) ==
    /\ best_idx = candidates[k].index
    /\ best_prio = Priority(k)
    /\ Qualified(k)
    /\ \A m \in 1 .. n : m = k \/ Better(k, m)

BestSoFar ==
    \/ best_idx = NoIndex /\ \A k \in 1 .. j - 1 : ~Qualified(k)
    \/ best_idx # NoIndex /\ \E k \in 1 .. j - 1 : BestOf(j - 1, k)

IInv == TypeOK /\ Configured /\ Untouched /\ BestSoFar /\ ChosenIsBest

\* A priority is one of GidPriority's (ClassifyGid()).
LEMMA PriorityType == \A gid \in Gid : ClassifyGid(gid) \in -1 .. 5
  BY DEF ClassifyGid, Gid, Kinds, Versions, Unknown

\* What the type of AutoSelectGidIndex()'s candidates says of each.
LEMMA CandidateFacts ==
    TypeOK => /\ Len(candidates) \in Nat /\ j \in Nat /\ i \in Nat /\ len \in Nat
              /\ \A k \in 1 .. Len(candidates) :
                    /\ candidates[k] \in Candidate /\ candidates[k].gid \in Gid
                    /\ candidates[k].index \in 0 .. MaxTableLen - 1
                    /\ Priority(k) \in -1 .. 5
  <1> SUFFICES ASSUME TypeOK
               PROVE  /\ Len(candidates) \in Nat /\ j \in Nat /\ i \in Nat /\ len \in Nat
                      /\ \A k \in 1 .. Len(candidates) :
                            /\ candidates[k] \in Candidate /\ candidates[k].gid \in Gid
                            /\ candidates[k].index \in 0 .. MaxTableLen - 1
                            /\ Priority(k) \in -1 .. 5
    OBVIOUS
  <1>1. Len(candidates) \in Nat /\ j \in Nat /\ i \in Nat /\ len \in Nat
    BY MaxTableLenAssumption DEF TypeOK
  <1>2. \A k \in 1 .. Len(candidates) : candidates[k] \in Candidate
    BY <1>1 DEF TypeOK
  <1>3. \A c \in Candidate : c.gid \in Gid /\ c.index \in 0 .. MaxTableLen - 1
    BY DEF Candidate
  <1> QED
    BY <1>1, <1>2, <1>3, PriorityType DEF Priority

\* Which candidate is better depends on the candidates alone (ClassifyGid()).
LEMMA SamePriorities ==
    ASSUME candidates' = candidates
    PROVE  \A k, m : (Qualified(k)' <=> Qualified(k)) /\ (Better(k, m)' <=> Better(k, m))
  <1>1. \A k : Priority(k)' = Priority(k)
    BY DEF Priority, ClassifyGid
  <1> QED
    BY <1>1 DEF Qualified, Better

\* What PickBestGid() has found so far stays so while the candidates, its
\* place among them and what it found stay the same.
LEMMA SameBest ==
    ASSUME BestSoFar, candidates' = candidates, j' = j, best_idx' = best_idx, best_prio' = best_prio
    PROVE  BestSoFar'
  <1>1. \A k : Priority(k)' = Priority(k)
    BY DEF Priority, ClassifyGid
  <1> QED
    BY <1>1, SamePriorities DEF BestSoFar, BestOf

\* The index chosen stays the best while it and the candidates stay the same.
LEMMA SameChoice ==
    ASSUME ChosenIsBest, candidates' = candidates, gidIndex' = gidIndex,
           pc' \in {"local", "opened"} => pc \in {"local", "opened"}
    PROVE  ChosenIsBest'
  BY SamePriorities DEF ChosenIsBest

\* openRdmaDevice() has chosen nothing yet.
THEOREM InitIInv == Init => IInv
  BY MaxTableLenAssumption
  DEF Init, IInv, TypeOK, Configured, Untouched, BestSoFar, ChosenIsBest, Candidate, NoIndex, Unknown

\* Reading the table's size keeps the invariant.
LEMMA PortIInv == IInv /\ query_port => IInv'
  BY MaxTableLenAssumption
  DEF query_port, IInv, TypeOK, Configured, Untouched, BestSoFar, ChosenIsBest, NoIndex

\* AutoSelectGidIndex() keeps the configured entries in the table's order.
LEMMA TableIInv == IInv /\ query_gid => IInv'
  <1> SUFFICES ASSUME IInv, query_gid PROVE IInv'
    OBVIOUS
  <1> USE MaxTableLenAssumption DEF IInv
  <1>1. CASE UNCHANGED candidates
    <2>1. TypeOK'
      BY <1>1, CandidateFacts DEF query_gid, TypeOK
    <2>2. (Configured /\ Untouched /\ BestSoFar /\ ChosenIsBest)'
      BY <1>1 DEF query_gid, Configured, IsConfiguredGid, Untouched, BestSoFar, ChosenIsBest, NoIndex
    <2> QED
      BY <2>1, <2>2
  <1>2. CASE \E gid \in Gid : IsConfiguredGid(gid) /\ candidates' = Append(candidates, [index |-> i, gid |-> gid])
    <2>1. PICK gid \in Gid : IsConfiguredGid(gid) /\ candidates' = Append(candidates, [index |-> i, gid |-> gid])
      BY <1>2
    <2> DEFINE c == [index |-> i, gid |-> gid]
    <2>2. c \in Candidate /\ c.index = i /\ c.gid = gid
      BY DEF query_gid, TypeOK, Candidate
    <2> HIDE DEF c
    <2>3. candidates' = Append(candidates, c)
      BY <2>1 DEF c
    <2>4. /\ candidates' \in Seq(Candidate) /\ Len(candidates') = Len(candidates) + 1
          /\ Len(candidates) \in Nat
          /\ \A k \in 1 .. Len(candidates) : candidates'[k] = candidates[k]
          /\ candidates'[Len(candidates) + 1] = c
      BY <2>2, <2>3 DEF TypeOK
    <2>5. TypeOK'
      <3> DEFINE n == Len(candidates)
      <3>0. /\ i \in Nat /\ i' = i + 1 /\ n \in Nat
            /\ \A k \in 1 .. n : candidates'[k].index \in Nat /\ candidates'[k].index < i
            /\ candidates'[n + 1].index = i /\ Len(candidates') = n + 1
        BY <2>2, <2>4, CandidateFacts DEF query_gid, TypeOK
      <3>1. \A k \in 1 .. Len(candidates') : candidates'[k].index < i'
        BY <3>0
      <3>2. \A k, m \in 1 .. Len(candidates') : k < m => candidates'[k].index < candidates'[m].index
        <4>1. \A k, m \in 1 .. n : k < m => candidates'[k].index < candidates'[m].index
          BY <2>4 DEF TypeOK
        <4> HIDE DEF n
        <4> QED
          BY <3>0, <4>1
      <3> QED
        BY <2>4, <3>1, <3>2, CandidateFacts DEF query_gid, TypeOK
    <2>6. Configured'
      BY <2>1, <2>2, <2>4 DEF Configured
    <2>7. (Untouched /\ BestSoFar /\ ChosenIsBest)'
      BY DEF query_gid, Untouched, BestSoFar, ChosenIsBest, NoIndex
    <2> QED
      BY <2>5, <2>6, <2>7
  <1> QED
    BY <1>1, <1>2 DEF query_gid

\* A round of PickBestGid() leaves the best of one candidate more.
LEMMA PickIInv == IInv /\ PickBestGid => IInv'
  <1> SUFFICES ASSUME IInv, PickBestGid PROVE IInv'
    OBVIOUS
  <1>1. /\ pc = "pick" /\ pc' = pc /\ j \in 1 .. Len(candidates) /\ j' = j + 1
        /\ candidates' = candidates /\ len' = len /\ i' = i /\ gidIndex' = gidIndex
    BY DEF PickBestGid, IInv, TypeOK
  <1>2. /\ Len(candidates) \in Nat /\ j \in Nat
        /\ \A k \in 1 .. Len(candidates) :
                candidates[k].index \in 0 .. MaxTableLen - 1 /\ Priority(k) \in -1 .. 5
        /\ \A k, m \in 1 .. Len(candidates) : k < m => candidates[k].index < candidates[m].index
    BY CandidateFacts DEF IInv, TypeOK
  <1>3. IsConfiguredGid(candidates[j].gid)
    BY <1>1 DEF IInv, Configured
  <1>4. Configured' /\ Untouched' /\ ChosenIsBest'
    BY <1>1 DEF IInv, Configured, Untouched, ChosenIsBest
  <1>5. \A k : Priority(k)' = Priority(k)
    BY <1>1 DEF Priority, ClassifyGid
  <1>6. CASE Priority(j) # Unknown /\ (best_idx = NoIndex \/ Priority(j) > best_prio)
    <2>1. best_idx' = candidates[j].index /\ best_prio' = Priority(j)
      BY <1>3, <1>6 DEF PickBestGid, Priority
    <2>2. TypeOK'
      BY <1>1, <1>2, <2>1, MaxTableLenAssumption DEF IInv, TypeOK
    <2>3. \A m \in 1 .. j - 1 : Priority(m) < Priority(j)
      <3>1. CASE best_idx = NoIndex
        <4>1. \A m \in 1 .. j - 1 : Priority(m) = -1
          BY <3>1 DEF IInv, BestSoFar, Qualified, Unknown
        <4> QED
          BY <4>1, <1>1, <1>2, <1>6 DEF Unknown
      <3>2. CASE best_idx # NoIndex
        <4>1. PICK k \in 1 .. j - 1 : BestOf(j - 1, k)
          BY <3>2 DEF IInv, BestSoFar
        <4>2. Priority(k) < Priority(j)
          BY <1>6, <3>2, <4>1, <1>1, <1>2 DEF BestOf
        <4>3. \A m \in 1 .. j - 1 : Priority(m) <= Priority(k)
          BY <4>1, <1>1, <1>2 DEF BestOf, Better
        <4> QED
          BY <4>2, <4>3, <1>1, <1>2
      <3> QED
        BY <3>1, <3>2
    <2>4. \A m \in 1 .. j : m = j \/ Better(j, m)
      BY <1>1, <1>2, <2>3 DEF Better, IInv, TypeOK
    <2>5. BestSoFar'
      <3>1. PICK n \in 1 .. Len(candidates) : n = j
        BY <1>1
      <3>2. BestOf(n, n)'
        BY <1>1, <1>6, <1>5, <2>1, <2>4, <3>1, SamePriorities DEF BestOf, Qualified
      <3>3. best_idx' # NoIndex /\ j' - 1 = n /\ n \in 1 .. n
        BY <1>1, <1>2, <2>1, <3>1, MaxTableLenAssumption DEF NoIndex
      <3> QED
        BY <3>2, <3>3 DEF BestSoFar
    <2> QED
      BY <1>4, <2>2, <2>5 DEF IInv
  <1>7. CASE ~(Priority(j) # Unknown /\ (best_idx = NoIndex \/ Priority(j) > best_prio))
    <2>1. best_idx' = best_idx /\ best_prio' = best_prio
      BY <1>7 DEF PickBestGid, Priority
    <2>2. TypeOK'
      BY <1>1, <2>1 DEF IInv, TypeOK
    <2>3. ASSUME best_idx = NoIndex PROVE BestSoFar'
      <3>1. \A k \in 1 .. j - 1 : ~Qualified(k)
        BY <2>3 DEF IInv, BestSoFar
      <3>2. ~Qualified(j)
        BY <1>7, <2>3 DEF Qualified
      <3>3. \A k \in 1 .. j' - 1 : ~Qualified(k)
        BY <1>1, <1>2, <3>1, <3>2
      <3> QED
        BY <1>1, <2>1, <2>3, <3>3, SamePriorities DEF BestSoFar
    <2>4. ASSUME best_idx # NoIndex PROVE BestSoFar'
      <3>1. PICK k \in 1 .. j - 1 : BestOf(j - 1, k)
        BY <2>4 DEF IInv, BestSoFar
      <3>2. k \in 1 .. Len(candidates) /\ k \in 1 .. j' - 1 /\ k < j
        BY <1>1, <1>2, <3>1
      <3>3. Priority(j) <= Priority(k)
        <4>1. Priority(k) = best_prio /\ Priority(k) # Unknown
          BY <3>1 DEF BestOf, Qualified
        <4> QED
          BY <4>1, <3>2, <1>1, <1>2, <1>7, <2>4 DEF Unknown
      <3>4. candidates[k].index < candidates[j].index
        BY <1>1, <1>2, <3>2
      <3>5. Better(k, j)
        BY <1>1, <1>2, <3>2, <3>3, <3>4 DEF Better
      <3>6. \A m \in 1 .. j' - 1 : m = k \/ Better(k, m)
        BY <1>1, <1>2, <3>1, <3>5 DEF BestOf
      <3>7. /\ best_idx = candidates[k].index /\ best_prio = Priority(k) /\ Qualified(k)
        BY <3>1 DEF BestOf
      <3>8. PICK n \in Nat : n = j' - 1
        BY <1>1, <1>2
      <3>9. BestOf(n, k)'
        BY <1>1, <1>5, <2>1, <3>6, <3>7, <3>8, SamePriorities DEF BestOf
      <3> QED
        BY <2>1, <2>4, <3>2, <3>8, <3>9 DEF BestSoFar
    <2>5. BestSoFar'
      BY <2>3, <2>4
    <2> QED
      BY <1>4, <2>2, <2>5 DEF IInv
  <1> QED
    BY <1>6, <1>7

\* The candidate chosen is the best of all.
LEMMA ChooseIInv == IInv /\ SelectBestGid => IInv'
  <1> SUFFICES ASSUME IInv, SelectBestGid PROVE IInv'
    OBVIOUS
  <1>1. j - 1 = Len(candidates) /\ Len(candidates) \in Nat
    BY DEF IInv, TypeOK, SelectBestGid
  <1>2. TypeOK' /\ Configured' /\ Untouched' /\ BestSoFar'
    <2>1. TypeOK' /\ Configured' /\ Untouched'
      BY MaxTableLenAssumption DEF IInv, TypeOK, Configured, IsConfiguredGid, Untouched, SelectBestGid, NoIndex
    <2> QED
      BY <2>1, SameBest DEF IInv, SelectBestGid
  <1>3. ChosenIsBest'
    <2>1. candidates' = candidates /\ gidIndex' = IF best_idx = NoIndex THEN 0 ELSE best_idx
      BY DEF SelectBestGid
    <2>2. CASE best_idx = NoIndex
      <3>1. \A k \in 1 .. Len(candidates) : ~Qualified(k)
        BY <1>1, <2>2 DEF IInv, BestSoFar
      <3> QED
        BY <2>1, <2>2, <3>1, SamePriorities DEF ChosenIsBest
    <2>3. CASE best_idx # NoIndex
      <3>1. PICK k \in 1 .. Len(candidates) : BestOf(Len(candidates), k)
        BY <1>1, <2>3 DEF IInv, BestSoFar
      <3> QED
        BY <2>1, <2>3, <3>1, SamePriorities DEF ChosenIsBest, BestOf
    <2> QED
      BY <2>2, <2>3
  <1> QED
    BY <1>2, <1>3 DEF IInv

\* Every step of the selection keeps the invariant.
THEOREM NextIInv == IInv /\ [Next]_vars => IInv'
  <1> SUFFICES ASSUME IInv, [Next]_vars PROVE IInv'
    OBVIOUS
  <1>1. CASE TableRead
    BY <1>1, SameBest, SameChoice DEF TableRead, IInv, TypeOK, Configured, IsConfiguredGid, Untouched
  <1>2. CASE LocalGid
    BY <1>2, SameBest, SameChoice DEF LocalGid, IInv, TypeOK, Configured, IsConfiguredGid, Untouched
  <1>3. CASE UNCHANGED vars
    BY <1>3, SameBest, SameChoice DEF vars, IInv, TypeOK, Configured, IsConfiguredGid, Untouched
  <1> QED
    BY <1>1, <1>2, <1>3, PortIInv, TableIInv, PickIInv, ChooseIInv DEF Next, Step

\* For a table of any size and whatever its reads return, openRdmaDevice()
\* chooses the best entry that qualifies, the first of equals, or else index 0.
THEOREM ChoosesTheBest == Spec => [](TypeOK /\ ChosenIsBest)
  <1>1. IInv => TypeOK /\ ChosenIsBest
    BY DEF IInv
  <1> QED
    BY <1>1, InitIInv, NextIInv, PTL DEF Spec
=============================================================================
