------------------------ MODULE ConnectionPoolProofs ------------------------
(***************************************************************************)
(* Proofs about ConnectionPool, for any threads, any number of             *)
(* connections, any nesting of transfers and any depth of the CQs.         *)
(***************************************************************************)
EXTENDS ConnectionPool, FiniteSetTheorems, TLAPS

-----------------------------------------------------------------------------
(* The sequences that free_ and held[t] are, as sets *)

\* push_back() of a slot that isn't there keeps the slots distinct.
LEMMA AppendDistinct ==
  ASSUME NEW S, NEW s \in Seq(S), NEW e \in S
  PROVE  /\ Append(s, e) \in Seq(S)
         /\ Len(Append(s, e)) = Len(s) + 1
         /\ ToSet(Append(s, e)) = ToSet(s) \cup {e}
         /\ IsInjective(s) /\ e \notin ToSet(s) => IsInjective(Append(s, e))
<1>1. /\ Append(s, e) \in Seq(S)
      /\ Len(Append(s, e)) = Len(s) + 1
      /\ DOMAIN Append(s, e) = 1..(Len(s) + 1)
      /\ DOMAIN s = 1..Len(s)
      /\ Len(s) \in Nat
      /\ Append(s, e)[Len(s) + 1] = e
      /\ \A i \in 1..Len(s) : Append(s, e)[i] = s[i]
  OBVIOUS
<1>2. ToSet(Append(s, e)) = ToSet(s) \cup {e}
  BY <1>1 DEF ToSet
<1>3. IsInjective(s) /\ e \notin ToSet(s) => IsInjective(Append(s, e))
  BY <1>1 DEF ToSet, IsInjective
<1> QED BY <1>1, <1>2, <1>3

\* pop_back() removes back(), and only it when the slots are distinct.
LEMMA FrontDistinct ==
  ASSUME NEW S, NEW s \in Seq(S), s # <<>>
  PROVE  /\ Front(s) \in Seq(S)
         /\ Len(Front(s)) = Len(s) - 1
         /\ Last(s) \in S /\ Last(s) \in ToSet(s)
         /\ ToSet(s) = ToSet(Front(s)) \cup {Last(s)}
         /\ IsInjective(s) => /\ ToSet(Front(s)) = ToSet(s) \ {Last(s)}
                              /\ IsInjective(Front(s))
<1>a. /\ Len(s) \in Nat \ {0}
      /\ DOMAIN s = 1..Len(s)
      /\ \A i \in 1..Len(s) : s[i] \in S
  OBVIOUS
<1>b. Front(s) \in Seq(S)
  BY <1>a DEF Front
<1>c. Len(Front(s)) = Len(s) - 1
  BY <1>a DEF Front
<1>d. DOMAIN Front(s) = 1..(Len(s) - 1)
  BY <1>a, <1>b, <1>c
<1>e. \A i \in 1..(Len(s) - 1) : Front(s)[i] = s[i]
  BY <1>a DEF Front
<1>1. /\ Len(s) \in Nat \ {0}
      /\ DOMAIN s = 1..Len(s)
      /\ \A i \in 1..Len(s) : s[i] \in S
      /\ Front(s) \in Seq(S)
      /\ Len(Front(s)) = Len(s) - 1
      /\ DOMAIN Front(s) = 1..(Len(s) - 1)
      /\ \A i \in 1..(Len(s) - 1) : Front(s)[i] = s[i]
  BY <1>a, <1>b, <1>c, <1>d, <1>e
<1>2. Last(s) \in S /\ Last(s) \in ToSet(s)
  BY <1>1 DEF Last, ToSet
<1>3. ToSet(s) = ToSet(Front(s)) \cup {Last(s)}
  BY <1>1 DEF Last, ToSet
<1>4. ASSUME IsInjective(s)
      PROVE  /\ ToSet(Front(s)) = ToSet(s) \ {Last(s)}
             /\ IsInjective(Front(s))
  BY <1>1, <1>3, <1>4 DEF Last, ToSet, IsInjective
<1> QED BY <1>1, <1>2, <1>3, <1>4


\* What a vector of slots holds is slots.
LEMMA ToSetOfSlots ==
  ASSUME NEW S, NEW s \in Seq(S)
  PROVE  ToSet(s) \subseteq S
BY DEF ToSet

-----------------------------------------------------------------------------
(* The slots that are free or leased *)

Usable == ToSet(free_) \cup AllLeased

\* There are finitely many, so live_ can count them.
LEMMA UsableFinite ==
  ASSUME TypeOK
  PROVE  Usable \subseteq Slots /\ IsFiniteSet(Usable)
<1>1. IsFiniteSet(Slots)
  BY FS_Interval, NAssumption DEF Slots
<1>2. ToSet(free_) \subseteq Slots
  BY ToSetOfSlots DEF TypeOK
<1>3. \A t \in Threads : LeasedBy(t) \subseteq Slots
  BY ToSetOfSlots DEF TypeOK, LeasedBy
<1>4. Usable \subseteq Slots
  BY <1>2, <1>3 DEF Usable, AllLeased
<1> QED BY <1>1, <1>4, FS_Subset

\* A step that moves no slot, and changes no count, keeps both.
LEMMA NoSlotMoves ==
  ASSUME UNCHANGED <<held, free_, live_>>
  PROVE  LeasesAreExclusive /\ LiveCountsUsable => LeasesAreExclusive' /\ LiveCountsUsable'
BY DEF LeasesAreExclusive, LiveCountsUsable, LeasedBy, AllLeased

\* acquire() moves a slot from free_ to a lease.
LEMMA GrantKeepsSlots ==
  ASSUME TypeOK, LeasesAreExclusive, LiveCountsUsable, NEW t \in Threads, Grant(t)
  PROVE  LeasesAreExclusive' /\ LiveCountsUsable'
<1> DEFINE i == Last(free_)
<1>1. /\ i \in Slots /\ i \in ToSet(free_)
      /\ ToSet(free_)' = ToSet(free_) \ {i}
      /\ IsInjective(free_)'
  BY FrontDistinct DEF TypeOK, Grant, LeasesAreExclusive
<1>2. \A u \in Threads : i \notin LeasedBy(u)
  BY <1>1 DEF LeasesAreExclusive
<1>3. /\ LeasedBy(t)' = LeasedBy(t) \cup {i}
      /\ IsInjective(held[t])'
  <2>1. held[t] \in Seq(Slots) /\ held'[t] = Append(held[t], i)
    BY DEF TypeOK, Grant
  <2> QED BY <1>1, <1>2, <2>1, AppendDistinct DEF LeasesAreExclusive, LeasedBy
<1>4. \A u \in Threads \ {t} : held'[u] = held[u] /\ LeasedBy(u)' = LeasedBy(u)
  BY DEF TypeOK, Grant, LeasedBy
<1>5. LeasesAreExclusive'
  BY <1>1, <1>2, <1>3, <1>4 DEF LeasesAreExclusive
<1>6. Usable' = Usable
  BY <1>1, <1>2, <1>3, <1>4 DEF Usable, AllLeased
<1>7. live_' = live_
  BY DEF Grant
<1> QED BY <1>5, <1>6, <1>7 DEF LiveCountsUsable, Usable

\* release() ends the innermost lease of its thread, and leaves the others alone.
LEMMA LeaseEnds ==
  ASSUME TypeOK, LeasesAreExclusive, NEW t \in Threads, held[t] # <<>>,
         held' = [held EXCEPT ![t] = Front(@)]
  PROVE  /\ Leased(t) \in Slots /\ Leased(t) \in LeasedBy(t)
         /\ LeasedBy(t)' = LeasedBy(t) \ {Leased(t)}
         /\ IsInjective(held[t])'
         /\ \A u \in Threads \ {t} : /\ held'[u] = held[u] /\ LeasedBy(u)' = LeasedBy(u)
                                     /\ Leased(t) \notin LeasedBy(u)
         /\ Leased(t) \notin ToSet(free_)
         /\ held'[t] \in Seq(Slots) /\ Len(held'[t]) = Len(held[t]) - 1
<1>1. held[t] \in Seq(Slots) /\ held'[t] = Front(held[t]) /\ IsInjective(held[t])
  BY DEF TypeOK, LeasesAreExclusive
<1>2. \A u \in Threads \ {t} : held'[u] = held[u]
  BY DEF TypeOK
<1>3. /\ Leased(t) \in Slots /\ Leased(t) \in LeasedBy(t)
      /\ LeasedBy(t)' = LeasedBy(t) \ {Leased(t)}
      /\ IsInjective(held[t])'
      /\ held'[t] \in Seq(Slots) /\ Len(held'[t]) = Len(held[t]) - 1
  BY <1>1, FrontDistinct DEF Leased, LeasedBy
<1>4. /\ Leased(t) \notin ToSet(free_)
      /\ \A u \in Threads \ {t} : Leased(t) \notin LeasedBy(u)
  BY <1>3 DEF LeasesAreExclusive
<1> QED BY <1>2, <1>3, <1>4 DEF LeasedBy

\* release() moves the slot of a usable connection from the lease to free_.
LEMMA ReturnKeepsSlots ==
  ASSUME TypeOK, LeasesAreExclusive, LiveCountsUsable, NEW t \in Threads,
         held[t] # <<>>, Return(t)
  PROVE  LeasesAreExclusive' /\ LiveCountsUsable'
<1> DEFINE i == Leased(t)
<1>1. /\ i \in Slots /\ i \in LeasedBy(t) /\ i \notin ToSet(free_)
      /\ LeasedBy(t)' = LeasedBy(t) \ {i} /\ IsInjective(held[t])'
      /\ \A u \in Threads \ {t} : /\ held'[u] = held[u] /\ LeasedBy(u)' = LeasedBy(u)
                                  /\ i \notin LeasedBy(u)
  BY LeaseEnds DEF Return
<1>2. ToSet(free_)' = ToSet(free_) \cup {i} /\ IsInjective(free_)'
  <2>1. free_ \in Seq(Slots) /\ free_' = Append(free_, i)
    BY DEF TypeOK, Return
  <2> QED BY <1>1, <2>1, AppendDistinct DEF LeasesAreExclusive
<1>3. LeasesAreExclusive'
  BY <1>1, <1>2 DEF LeasesAreExclusive
<1>4. Usable' = Usable
  BY <1>1, <1>2 DEF Usable, AllLeased
<1>5. live_' = live_
  BY DEF Return
<1> QED BY <1>3, <1>4, <1>5 DEF LiveCountsUsable, Usable

\* A slot that's dropped was counted, and is counted no more.
LEMMA DropKeepsSlots ==
  ASSUME TypeOK, LeasesAreExclusive, LiveCountsUsable, NEW t \in Threads,
         held[t] # <<>>, Drop(t)
  PROVE  LeasesAreExclusive' /\ LiveCountsUsable' /\ live_' \in Nat
<1> DEFINE i == Leased(t)
<1>1. /\ i \in Slots /\ i \in LeasedBy(t) /\ i \notin ToSet(free_)
      /\ LeasedBy(t)' = LeasedBy(t) \ {i} /\ IsInjective(held[t])'
      /\ \A u \in Threads \ {t} : /\ held'[u] = held[u] /\ LeasedBy(u)' = LeasedBy(u)
                                  /\ i \notin LeasedBy(u)
  BY LeaseEnds DEF Drop
<1>2. free_' = free_ /\ live_' = live_ - 1
  BY DEF Drop
<1>3. LeasesAreExclusive'
  BY <1>1, <1>2 DEF LeasesAreExclusive
<1>4. Usable' = Usable \ {i} /\ i \in Usable
  BY <1>1, <1>2 DEF Usable, AllLeased
<1>5. Cardinality(Usable \ {i}) = Cardinality(Usable) - 1 /\ Cardinality(Usable \ {i}) \in Nat
  BY <1>4, UsableFinite, FS_RemoveElement, FS_CardinalityType
<1>6. live_ = Cardinality(Usable)
  BY DEF LiveCountsUsable, Usable
<1>7. live_' = Cardinality(Usable')
  BY <1>2, <1>4, <1>5, <1>6
<1> QED BY <1>2, <1>3, <1>5, <1>6, <1>7 DEF LiveCountsUsable, Usable


-----------------------------------------------------------------------------
(* The inductive invariant. Each part needs the others: the type of live_ needs *)
(* it to count the slots, which needs no slot to be leased twice, which needs a *)
(* thread that releases a lease to hold one.                                    *)

PoolInv ==
  /\ TypeOK
  /\ LeasesAreExclusive
  /\ LiveCountsUsable
  /\ LeasesAreCounted
  /\ HoldersNeverWait
  /\ RefusalsAreHonest

Holding == {"poll", "return", "drop"} \cup Restoring
ConnTypeOK ==
  /\ connected_ \in [Slots -> BOOLEAN]
  /\ qp \in [Slots -> QpState \cup {"none"}]
  /\ cq \in [Slots -> 0..CqDepth]

\* The pool as the constructor leaves it
LEMMA PoolInvInit == Init => PoolInv
<1> SUFFICES ASSUME Init PROVE PoolInv
  OBVIOUS
<1>1. /\ free_ \in Seq(Slots) /\ Len(free_) = N /\ DOMAIN free_ = 1..N
      /\ \A i \in 1..N : free_[i] = i
  BY NAssumption DEF Init, Slots
<1>2. \A t \in Threads : held[t] = <<>> /\ LeasedBy(t) = {}
  BY DEF Init, LeasedBy, ToSet
<1>3. ToSet(free_) = Slots /\ AllLeased = {}
  BY <1>1, <1>2 DEF ToSet, AllLeased, Slots
<1>4. TypeOK
  <2>1. pc \in [Threads -> PC] /\ qp \in [Slots -> QpState \cup {"none"}]
    BY DEF Init, PC, QpState
  <2>2. held \in [Threads -> Seq(Slots)] /\ t_leasesHeld \in [Threads -> Nat]
    BY DEF Init
  <2>3. cq \in [Slots -> 0..CqDepth] /\ live_ \in Nat
    BY NAssumption, CqDepthAssumption DEF Init
  <2>4. connected_ \in [Slots -> BOOLEAN] /\ closed_ \in BOOLEAN /\ closing \in {"no", "notify", "done"}
    BY DEF Init
  <2> QED BY <1>1, <2>1, <2>2, <2>3, <2>4 DEF TypeOK
<1>5. LeasesAreExclusive
  BY <1>1, <1>2 DEF LeasesAreExclusive, IsInjective
<1>6. LiveCountsUsable
  BY <1>3, NAssumption, FS_Interval DEF Init, LiveCountsUsable, Slots
<1>7. LeasesAreCounted /\ HoldersNeverWait /\ RefusalsAreHonest
  BY DEF Init, LeasesAreCounted, HoldersNeverWait, RefusalsAreHonest, Restoring
<1> QED BY <1>4, <1>5, <1>6, <1>7 DEF PoolInv

\* A step of thread t that moves no lease, to a place its leases allow.
LEMMA QuietStep ==
  ASSUME PoolInv, NEW t \in Threads, NEW label \in PC,
         Goto(t, label), UNCHANGED <<held, t_leasesHeld, poolVars>>, ConnTypeOK',
         label \in {"waiting", "woken"} => t_leasesHeld[t] = 0 /\ held[t] = <<>>,
         label \notin {"notify_one", "notify_all"},
         label \in Holding => held[t] # <<>>,
         label = "Busy" => t_leasesHeld[t] > 0,
         label = "NoConnections" => live_ = 0,
         label = "Closed" => closed_
  PROVE  PoolInv'
<1>1. /\ pc' \in [Threads -> PC] /\ pc'[t] = label
      /\ \A u \in Threads \ {t} : pc'[u] = pc[u]
  BY DEF PoolInv, TypeOK, Goto
<1>2. TypeOK'
  BY <1>1 DEF PoolInv, TypeOK, ConnTypeOK, poolVars
<1>3. LeasesAreExclusive' /\ LiveCountsUsable'
  BY NoSlotMoves DEF PoolInv, poolVars
<1>4. LeasesAreCounted'
  BY <1>1 DEF PoolInv, LeasesAreCounted, Holding
<1>5. HoldersNeverWait'
  BY <1>1 DEF PoolInv, HoldersNeverWait
<1>6. RefusalsAreHonest'
  BY <1>1 DEF PoolInv, RefusalsAreHonest, poolVars
<1> QED BY <1>2, <1>3, <1>4, <1>5, <1>6 DEF PoolInv

\* A step of acquire(), on a thread that isn't in a transfer's last part
LEMMA AcquireKeeps ==
  ASSUME PoolInv, NEW t \in Threads, acquire(t), pc[t] \in {"app", "woken"}
  PROVE  PoolInv'
<1> USE DEF PoolInv
<1>0. ConnTypeOK
  BY DEF TypeOK, ConnTypeOK
<1>1. CASE Wait(t)
  <2>1. t_leasesHeld[t] = 0 /\ held[t] = <<>>
    BY <1>1 DEF Wait, MustWait, LeasesAreCounted, TypeOK
  <2>2. ConnTypeOK'
    BY <1>0, <1>1 DEF Wait, ConnTypeOK, connVars
  <2> QED BY <1>1, <2>1, <2>2, QuietStep DEF Wait, PC, Holding, Restoring
<1>2. CASE Refuse(t)
  <2> DEFINE err == IF closed_ THEN "Closed" ELSE IF live_ = 0 THEN "NoConnections" ELSE "Busy"
  <2>1. err = "Busy" => t_leasesHeld[t] > 0
    BY <1>2 DEF Refuse, MustWait, TypeOK
  <2>2. ConnTypeOK'
    BY <1>0, <1>2 DEF Refuse, ConnTypeOK, connVars
  <2>3. Goto(t, err) /\ UNCHANGED <<held, t_leasesHeld, poolVars>>
    BY <1>2 DEF Refuse
  <2>4. err \in PC /\ err \notin {"waiting", "woken", "notify_one", "notify_all"} \cup Holding
    BY DEF PC, AcquireError, Holding, Restoring
  <2>5. (err = "NoConnections" => live_ = 0) /\ (err = "Closed" => closed_)
    OBVIOUS
  <2> HIDE DEF err
  <2> QED BY <2>1, <2>2, <2>3, <2>4, <2>5, QuietStep
<1>3. CASE Grant(t)
  <2>1. LeasesAreExclusive' /\ LiveCountsUsable'
    BY <1>3, GrantKeepsSlots
  <2>2. Last(free_) \in Slots /\ free_' \in Seq(Slots)
    BY <1>3, FrontDistinct DEF TypeOK, Grant
  <2>3. /\ held'[t] \in Seq(Slots) /\ Len(held'[t]) = Len(held[t]) + 1
        /\ held' \in [Threads -> Seq(Slots)]
    BY <1>3, <2>2, AppendDistinct DEF TypeOK, Grant
  <2>4. /\ pc' \in [Threads -> PC] /\ pc'[t] = "app"
        /\ t_leasesHeld' \in [Threads -> Nat] /\ t_leasesHeld'[t] = t_leasesHeld[t] + 1
        /\ \A u \in Threads \ {t} : /\ pc'[u] = pc[u] /\ held'[u] = held[u]
                                    /\ t_leasesHeld'[u] = t_leasesHeld[u]
    BY <1>3 DEF TypeOK, Grant, Goto, PC
  <2>5. TypeOK'
    BY <1>3, <2>2, <2>3, <2>4 DEF TypeOK, Grant
  <2>6. LeasesAreCounted'
    <3>1. Len(held[t]) \in Nat /\ t_leasesHeld[t] \in Nat /\ t_leasesHeld[t] >= Len(held[t])
      BY DEF TypeOK, LeasesAreCounted
    <3>2. t_leasesHeld'[t] >= Len(held'[t]) /\ held'[t] # <<>>
      BY <2>3, <2>4, <3>1
    <3> QED BY <2>4, <3>2 DEF LeasesAreCounted
  <2>7. HoldersNeverWait' /\ RefusalsAreHonest'
    BY <1>3, <2>4 DEF Grant, HoldersNeverWait, RefusalsAreHonest
  <2> QED BY <2>1, <2>5, <2>6, <2>7
<1> QED BY <1>1, <1>2, <1>3 DEF acquire


\* The steps of a transfer, and of restore() after it, move no lease.
LEMMA TransferKeeps ==
  ASSUME PoolInv, NEW t \in Threads,
         \/ WakeSpuriously(t) \/ ReportError(t) \/ FailTransfer(t) \/ PollUnconnected(t)
         \/ Connect(t) \/ Poll(t) \/ ResetQp(t) \/ drainCompletions(t) \/ InitQp(t)
         \/ Replace(t) \/ Create(t) \/ RestoreThrows(t)
  PROVE  PoolInv'
<1>0. /\ ConnTypeOK
      /\ pc[t] \in Holding => held[t] # <<>>
      /\ pc[t] = "waiting" => t_leasesHeld[t] = 0 /\ held[t] = <<>>
  BY DEF PoolInv, TypeOK, ConnTypeOK, LeasesAreCounted, HoldersNeverWait, Holding
<1>s. held[t] # <<>> => Leased(t) \in Slots
  BY FrontDistinct DEF PoolInv, TypeOK, Leased
<1>p. Holding \subseteq PC /\ {"app", "woken"} \subseteq PC
      /\ \A l \in Holding \cup {"app"} :
           l \notin {"waiting", "woken", "notify_one", "notify_all", "Busy", "NoConnections", "Closed"}
  BY DEF PC, Holding, Restoring
<1>r. /\ \A b : ReleaseOf(b) \in Holding
      /\ {"poll", "return", "drop"} \subseteq Holding /\ Restoring \subseteq Holding
      /\ {"reset", "drain", "init", "replace", "create"} \subseteq Holding
  BY DEF ReleaseOf, Holding, Restoring
<1>q. ASSUME NEW label \in Holding, held[t] # <<>>, Goto(t, label), ConnTypeOK',
             UNCHANGED <<held, t_leasesHeld, poolVars>>
      PROVE  PoolInv'
  BY <1>q, <1>p, QuietStep
<1>1. CASE WakeSpuriously(t)
  <2>1. ConnTypeOK'
    BY <1>0, <1>1 DEF WakeSpuriously, ConnTypeOK, connVars
  <2>2. "woken" \in PC /\ "woken" \notin Holding
    BY <1>p
  <2> QED BY <1>0, <1>1, <2>1, <2>2, QuietStep DEF WakeSpuriously
<1>2. CASE ReportError(t)
  <2>1. ConnTypeOK'
    BY <1>0, <1>2 DEF ReportError, ConnTypeOK, connVars
  <2>2. "app" \in PC /\ "app" \notin Holding
    BY <1>p DEF Holding, Restoring
  <2> QED BY <1>2, <2>1, <2>2, QuietStep DEF ReportError
<1>3. CASE FailTransfer(t)
  BY <1>0, <1>3, <1>q, <1>r DEF FailTransfer, ConnTypeOK, connVars
<1>4. CASE PollUnconnected(t)
  BY <1>0, <1>4, <1>q, <1>r DEF PollUnconnected, ConnTypeOK, connVars
<1>5. CASE Connect(t)
  <2>1. ConnTypeOK'
    BY <1>0, <1>5 DEF Connect, ConnTypeOK, QpState
  <2>2. UNCHANGED <<held, t_leasesHeld, poolVars>> /\ held[t] # <<>>
    BY <1>5 DEF Connect
  <2>3. Goto(t, "poll") \/ Goto(t, ReleaseOf(TRUE))
    BY <1>5 DEF Connect
  <2> QED BY <2>1, <2>2, <2>3, <1>q, <1>r
<1>6. CASE Poll(t)
  <2>1. held[t] # <<>> /\ Leased(t) \in Slots
    BY <1>0, <1>6, <1>r, <1>s DEF Poll
  <2>2. ConnTypeOK'
    BY <1>0, <1>6, <2>1, CqDepthAssumption DEF Poll, ConnTypeOK
  <2>3. UNCHANGED <<held, t_leasesHeld, poolVars>> /\ Goto(t, ReleaseOf(connected_[Leased(t)]))
    BY <1>6 DEF Poll
  <2> QED BY <2>1, <2>2, <2>3, <1>q, <1>r
<1>7. CASE ResetQp(t) \/ InitQp(t) \/ Create(t)
  <2>1. held[t] # <<>>
    BY <1>0, <1>7, <1>r DEF ResetQp, InitQp, Create
  <2>2. ConnTypeOK'
    BY <1>0, <1>7 DEF ResetQp, InitQp, Create, ConnTypeOK, QpState
  <2>3. /\ UNCHANGED <<held, t_leasesHeld, poolVars>>
        /\ \E l \in {"drain", "replace", "return", "drop"} : Goto(t, l)
    BY <1>7 DEF ResetQp, InitQp, Create
  <2> QED BY <2>1, <2>2, <2>3, <1>q, <1>r
<1>8. CASE drainCompletions(t)
  <2>1. held[t] # <<>> /\ Leased(t) \in Slots
    BY <1>0, <1>8, <1>r, <1>s DEF drainCompletions
  <2>2. ConnTypeOK'
    <3>1. cq[Leased(t)] \in 0..CqDepth
      BY <1>0, <2>1 DEF ConnTypeOK
    <3>2. cq' \in [Slots -> 0..CqDepth]
      BY <1>0, <1>8, <2>1, <3>1, CqDepthAssumption DEF drainCompletions, ConnTypeOK
    <3> QED BY <1>0, <1>8, <3>2 DEF drainCompletions, ConnTypeOK
  <2>3. /\ UNCHANGED <<held, t_leasesHeld, poolVars>>
        /\ \E l \in {"init", "replace"} : Goto(t, l)
    BY <1>8 DEF drainCompletions
  <2> QED BY <2>1, <2>2, <2>3, <1>q, <1>r
<1>9. CASE Replace(t) \/ RestoreThrows(t)
  <2>1. held[t] # <<>>
    BY <1>0, <1>9, <1>r DEF Replace, RestoreThrows
  <2>2. ConnTypeOK'
    <3>1. /\ qp' = [qp EXCEPT ![Leased(t)] = "none"] /\ UNCHANGED connected_
          /\ cq' = [cq EXCEPT ![Leased(t)] = 0]
      BY <1>9 DEF Replace, RestoreThrows
    <3>2. 0 \in 0..CqDepth
      BY CqDepthAssumption
    <3>3. cq' \in [Slots -> 0..CqDepth]
      BY <1>0, <3>1, <3>2 DEF ConnTypeOK
    <3>4. qp' \in [Slots -> QpState \cup {"none"}] /\ connected_' \in [Slots -> BOOLEAN]
      BY <1>0, <3>1 DEF ConnTypeOK
    <3> QED BY <3>3, <3>4 DEF ConnTypeOK
  <2>3. /\ UNCHANGED <<held, t_leasesHeld, poolVars>>
        /\ \E l \in {"create", "drop"} : Goto(t, l)
    BY <1>9 DEF Replace, RestoreThrows
  <2> QED BY <2>1, <2>2, <2>3, <1>q, <1>r
<1> QED BY <1>1, <1>2, <1>3, <1>4, <1>5, <1>6, <1>7, <1>8, <1>9

\* release()'s critical section ends a lease; t_leasesHeld still counts it.
LEMMA EndOfLeaseKeeps ==
  ASSUME PoolInv, NEW t \in Threads, Return(t) \/ Drop(t)
  PROVE  PoolInv'
<1> USE DEF PoolInv
<1>1. held[t] # <<>> /\ held' = [held EXCEPT ![t] = Front(@)]
  BY DEF Return, Drop, LeasesAreCounted
<1>2. /\ held'[t] \in Seq(Slots) /\ Len(held'[t]) = Len(held[t]) - 1 /\ Leased(t) \in Slots
      /\ \A u \in Threads \ {t} : held'[u] = held[u]
  BY <1>1, LeaseEnds
<1>3. held' \in [Threads -> Seq(Slots)]
  BY <1>1, <1>2 DEF TypeOK
<1>4. t_leasesHeld[t] \in Nat /\ Len(held[t]) \in Nat /\ Len(held[t]) > 0 /\ t_leasesHeld[t] >= Len(held[t])
  BY <1>1 DEF TypeOK, LeasesAreCounted
<1>5. CASE Return(t)
  <2>1. LeasesAreExclusive' /\ LiveCountsUsable'
    BY <1>1, <1>5, ReturnKeepsSlots
  <2>2. /\ pc' \in [Threads -> PC] /\ pc'[t] = "notify_one" /\ t_leasesHeld' = t_leasesHeld
        /\ \A u \in Threads \ {t} : pc'[u] = pc[u]
    BY <1>5 DEF TypeOK, Return, Goto, PC
  <2>3. free_' \in Seq(Slots)
    BY <1>2, <1>5, AppendDistinct DEF TypeOK, Return
  <2>4. TypeOK'
    BY <1>3, <1>5, <2>2, <2>3 DEF TypeOK, Return, connVars
  <2>5. LeasesAreCounted'
    BY <1>2, <1>4, <2>2 DEF LeasesAreCounted, Restoring
  <2>6. HoldersNeverWait' /\ RefusalsAreHonest'
    BY <1>2, <1>5, <2>2 DEF Return, HoldersNeverWait, RefusalsAreHonest
  <2> QED BY <2>1, <2>4, <2>5, <2>6
<1>6. CASE Drop(t)
  <2>1. LeasesAreExclusive' /\ LiveCountsUsable' /\ live_' \in Nat
    BY <1>1, <1>6, DropKeepsSlots
  <2>2. /\ pc' \in [Threads -> PC]
        /\ \/ pc'[t] = "notify_all" /\ t_leasesHeld' = t_leasesHeld
           \/ pc'[t] = "app" /\ t_leasesHeld' = [t_leasesHeld EXCEPT ![t] = @ - 1]
        /\ \A u \in Threads \ {t} : pc'[u] = pc[u]
    BY <1>6 DEF TypeOK, Drop, Goto, PC
  <2>3. /\ t_leasesHeld' \in [Threads -> Nat]
        /\ t_leasesHeld'[t] >= Len(held'[t])
        /\ pc'[t] = "notify_all" => t_leasesHeld'[t] > Len(held'[t])
        /\ \A u \in Threads \ {t} : t_leasesHeld'[u] = t_leasesHeld[u]
    <3>1. t_leasesHeld \in [Threads -> Nat]
      BY DEF TypeOK
    <3>2. CASE pc'[t] = "notify_all" /\ t_leasesHeld' = t_leasesHeld
      BY <1>2, <1>4, <3>1, <3>2
    <3>3. CASE pc'[t] = "app" /\ t_leasesHeld' = [t_leasesHeld EXCEPT ![t] = @ - 1]
      <4>1. t_leasesHeld[t] - 1 \in Nat /\ t_leasesHeld[t] - 1 >= Len(held'[t])
        BY <1>2, <1>4
      <4> QED BY <3>1, <3>3, <4>1
    <3> QED BY <2>2, <3>2, <3>3
  <2>4. TypeOK'
    BY <1>3, <1>6, <2>1, <2>2, <2>3 DEF TypeOK, Drop, connVars
  <2>5. LeasesAreCounted'
    BY <1>2, <2>2, <2>3 DEF LeasesAreCounted, Restoring
  <2>6. HoldersNeverWait'
    BY <1>2, <2>2, <2>3 DEF HoldersNeverWait
  <2>7. RefusalsAreHonest'
    <3>1. live_ # 0 /\ closed_' = closed_
      BY <1>6, <2>1 DEF Drop, TypeOK
    <3> QED BY <2>2, <2>3, <3>1 DEF RefusalsAreHonest
  <2> QED BY <2>1, <2>4, <2>5, <2>6, <2>7
<1> QED BY <1>5, <1>6

\* A notification moves threads from wait() to its return, and nothing else.
LEMMA WakeKeeps ==
  ASSUME PoolInv, NEW W \in SUBSET Waiting,
         pc' = [u \in Threads |-> IF u \in W THEN "woken" ELSE pc[u]],
         UNCHANGED <<held, t_leasesHeld, connVars, free_, live_, closed_>>,
         closing' \in {"no", "notify", "done"}
  PROVE  PoolInv'
<1> USE DEF PoolInv
<1>1. /\ pc' \in [Threads -> PC]
      /\ \A u \in Threads : pc'[u] = pc[u] \/ (pc[u] = "waiting" /\ pc'[u] = "woken")
  BY DEF TypeOK, Waiting, PC
<1>2. TypeOK'
  BY <1>1 DEF TypeOK, connVars
<1>3. LeasesAreExclusive' /\ LiveCountsUsable'
  BY NoSlotMoves
<1>4. LeasesAreCounted'
  BY <1>1 DEF LeasesAreCounted, Restoring
<1>5. HoldersNeverWait'
  BY <1>1 DEF HoldersNeverWait
<1>6. RefusalsAreHonest'
  BY <1>1 DEF RefusalsAreHonest
<1> QED BY <1>2, <1>3, <1>4, <1>5, <1>6

\* The end of ~Lease: one waiter, or all, are notified, and the lease is
\* uncounted.
LEMMA NotifyKeeps ==
  ASSUME PoolInv, NEW t \in Threads, NotifyOne(t) \/ NotifyAll(t)
  PROVE  PoolInv'
<1> USE DEF PoolInv
<1>1. pc[t] \in {"notify_one", "notify_all"}
      /\ UNCHANGED <<held, connVars, poolVars>>
      /\ t_leasesHeld' = [t_leasesHeld EXCEPT ![t] = @ - 1]
  BY DEF NotifyOne, NotifyAll
<1>2. /\ pc' \in [Threads -> PC] /\ pc'[t] = "app"
      /\ \A u \in Threads \ {t} :
           pc'[u] = pc[u] \/ (pc[u] = "waiting" /\ pc'[u] = "woken")
  <2>1. CASE NotifyOne(t)
    BY <1>1, <2>1 DEF NotifyOne, Waiting, Goto, TypeOK, PC
  <2>2. CASE NotifyAll(t)
    BY <1>1, <2>2 DEF NotifyAll, Awakened, TypeOK, PC
  <2> QED BY <2>1, <2>2
<1>3. /\ t_leasesHeld[t] \in Nat /\ Len(held[t]) \in Nat /\ t_leasesHeld[t] > Len(held[t])
  BY <1>1 DEF TypeOK, LeasesAreCounted
<1>4. /\ t_leasesHeld' \in [Threads -> Nat]
      /\ t_leasesHeld'[t] >= Len(held[t])
      /\ \A u \in Threads \ {t} : t_leasesHeld'[u] = t_leasesHeld[u]
  BY <1>1, <1>3 DEF TypeOK
<1>5. TypeOK'
  BY <1>1, <1>2, <1>4 DEF TypeOK, connVars, poolVars
<1>6. LeasesAreExclusive' /\ LiveCountsUsable'
  BY <1>1, NoSlotMoves DEF poolVars
<1>7. LeasesAreCounted'
  BY <1>1, <1>2, <1>4 DEF LeasesAreCounted, Restoring
<1>8. HoldersNeverWait'
  BY <1>1, <1>2, <1>4 DEF HoldersNeverWait
<1>9. RefusalsAreHonest'
  BY <1>1, <1>2, <1>4 DEF RefusalsAreHonest, poolVars
<1> QED BY <1>5, <1>6, <1>7, <1>8, <1>9

\* A transfer of another pool changes the count of a thread that waits for none.
LEMMA ElsewhereKeeps ==
  ASSUME PoolInv, NEW t \in Threads, StartElsewhere(t) \/ EndElsewhere(t)
  PROVE  PoolInv'
<1> USE DEF PoolInv
<1>1. /\ pc[t] = "app" /\ UNCHANGED <<pc, held, connVars, poolVars>>
      /\ t_leasesHeld' \in [Threads -> Nat]
      /\ t_leasesHeld'[t] >= Len(held[t])
      /\ \A u \in Threads \ {t} : t_leasesHeld'[u] = t_leasesHeld[u]
  <2>1. CASE StartElsewhere(t)
    BY <2>1 DEF StartElsewhere, TypeOK, LeasesAreCounted
  <2>2. CASE EndElsewhere(t)
    BY <2>2 DEF EndElsewhere, TypeOK
  <2> QED BY <2>1, <2>2
<1>2. TypeOK'
  BY <1>1 DEF TypeOK, connVars, poolVars
<1>3. LeasesAreExclusive' /\ LiveCountsUsable'
  BY <1>1, NoSlotMoves DEF poolVars
<1>4. LeasesAreCounted' /\ HoldersNeverWait' /\ RefusalsAreHonest'
  BY <1>1 DEF LeasesAreCounted, HoldersNeverWait, RefusalsAreHonest, Restoring, poolVars
<1> QED BY <1>2, <1>3, <1>4

\* Every step keeps the invariant.
LEMMA PoolInvStep == PoolInv /\ [Next]_vars => PoolInv'
<1> SUFFICES ASSUME PoolInv, [Next]_vars PROVE PoolInv'
  OBVIOUS
<1> USE DEF PoolInv
<1>1. ASSUME NEW t \in Threads, StartTransfer(t) \/ Recheck(t) PROVE PoolInv'
  BY <1>1, AcquireKeeps DEF StartTransfer, Recheck
<1>2. ASSUME NEW t \in Threads,
             \/ WakeSpuriously(t) \/ ReportError(t) \/ FailTransfer(t) \/ PollUnconnected(t)
             \/ Connect(t) \/ Poll(t) \/ ResetQp(t) \/ drainCompletions(t) \/ InitQp(t)
             \/ Replace(t) \/ Create(t) \/ RestoreThrows(t)
      PROVE  PoolInv'
  BY <1>2, TransferKeeps
<1>3. ASSUME NEW t \in Threads, Return(t) \/ Drop(t) PROVE PoolInv'
  BY <1>3, EndOfLeaseKeeps
<1>4. ASSUME NEW t \in Threads, NotifyOne(t) \/ NotifyAll(t) PROVE PoolInv'
  BY <1>4, NotifyKeeps
<1>5. ASSUME NEW t \in Threads, StartElsewhere(t) \/ EndElsewhere(t) PROVE PoolInv'
  BY <1>5, ElsewhereKeeps
<1>6. ASSUME NEW i \in Slots, Complete(i) PROVE PoolInv'
  <2>1. cq' \in [Slots -> 0..CqDepth] /\ UNCHANGED <<pc, held, t_leasesHeld, connected_, qp, poolVars>>
    BY <1>6, CqDepthAssumption DEF Complete, TypeOK
  <2>2. TypeOK'
    BY <2>1 DEF TypeOK, poolVars
  <2>3. LeasesAreExclusive' /\ LiveCountsUsable'
    BY <2>1, NoSlotMoves DEF poolVars
  <2>4. LeasesAreCounted' /\ HoldersNeverWait' /\ RefusalsAreHonest'
    BY <2>1 DEF LeasesAreCounted, HoldersNeverWait, RefusalsAreHonest, poolVars
  <2> QED BY <2>2, <2>3, <2>4
<1>7. CASE Close
  <2>1. TypeOK'
    BY <1>7 DEF Close, TypeOK, connVars
  <2>2. LeasesAreExclusive' /\ LiveCountsUsable'
    BY <1>7, NoSlotMoves DEF Close
  <2>3. LeasesAreCounted' /\ HoldersNeverWait' /\ RefusalsAreHonest'
    BY <1>7 DEF Close, LeasesAreCounted, HoldersNeverWait, RefusalsAreHonest
  <2> QED BY <2>1, <2>2, <2>3
<1>8. CASE CloseNotify
  <2>1. pc' = [u \in Threads |-> IF u \in Waiting THEN "woken" ELSE pc[u]]
    BY <1>8 DEF CloseNotify, Awakened, Waiting
  <2> QED BY <1>8, <2>1, WakeKeeps DEF CloseNotify
<1>9. CASE UNCHANGED vars
  <2>1. UNCHANGED <<pc, held, t_leasesHeld, connected_, qp, cq, free_, live_, closed_, closing>>
    BY <1>9 DEF vars, connVars, poolVars
  <2>2. TypeOK' /\ LeasesAreExclusive' /\ LiveCountsUsable'
    BY <2>1, NoSlotMoves DEF TypeOK
  <2>3. LeasesAreCounted' /\ HoldersNeverWait' /\ RefusalsAreHonest'
    BY <2>1 DEF LeasesAreCounted, HoldersNeverWait, RefusalsAreHonest
  <2> QED BY <2>2, <2>3
<1> QED BY <1>1, <1>2, <1>3, <1>4, <1>5, <1>6, <1>7, <1>8, <1>9 DEF Next, ThreadStep, release

\* The pool's invariant holds in every behaviour.
THEOREM PoolInvariant == Spec => []PoolInv
BY PoolInvInit, PoolInvStep, PTL DEF Spec

\* Every variable keeps its type: in particular live_ and t_leasesHeld, which are
\* size_t in the code, never go below zero.
THEOREM TypeCorrect == Spec => []TypeOK
BY PoolInvariant, PTL DEF PoolInv

\* acquire() and release() never let two leases share a connection, however many
\* threads, connections and nested transfers there are.
THEOREM Exclusive == Spec => []LeasesAreExclusive
BY PoolInvariant, PTL DEF PoolInv

\* live_ is exactly the number of connections that are free or leased.
THEOREM LiveIsExact == Spec => []LiveCountsUsable
BY PoolInvariant, PTL DEF PoolInv

\* The assertion in ~Lease, that t_leasesHeld is positive, never fails.
THEOREM AssertionHolds == Spec => []LeasesAreCounted
BY PoolInvariant, PTL DEF PoolInv

\* acquire() never makes a thread wait while it holds a lease.
THEOREM NoSelfDeadlock == Spec => []HoldersNeverWait
BY PoolInvariant, PTL DEF PoolInv

\* The error acquire() returns is true of the pool, and stays true until it's
\* reported.
THEOREM HonestRefusals == Spec => []RefusalsAreHonest
BY PoolInvariant, PTL DEF PoolInv

\* Once close() has run, no step of any thread adds a lease.
THEOREM ClosedForGood == Spec => NoLeaseOnceClosed
<1>1. ASSUME PoolInv, [Next]_vars, closed_, NEW t \in Threads
      PROVE  LeasedBy(t)' \subseteq LeasedBy(t)
  <2>1. \/ held' = held
        \/ \E u \in Threads : held[u] # <<>> /\ held' = [held EXCEPT ![u] = Front(@)]
    <3>1. ASSUME NEW u \in Threads, ThreadStep(u)
          PROVE  held' = held \/ (held[u] # <<>> /\ held' = [held EXCEPT ![u] = Front(@)])
      <4>1. StartTransfer(u) \/ Recheck(u) => held' = held
        BY <1>1 DEF StartTransfer, Recheck, acquire, Wait, Refuse, Grant
      <4>2. Return(u) \/ Drop(u) => held[u] # <<>> /\ held' = [held EXCEPT ![u] = Front(@)]
        BY <1>1 DEF Return, Drop, PoolInv, LeasesAreCounted
      <4>3. \/ WakeSpuriously(u) \/ ReportError(u) \/ StartElsewhere(u) \/ EndElsewhere(u)
            \/ FailTransfer(u) \/ PollUnconnected(u) \/ Connect(u) \/ Poll(u)
            => held' = held
        BY DEF WakeSpuriously, ReportError, StartElsewhere, EndElsewhere, FailTransfer,
               PollUnconnected, Connect, Poll
      <4>4. \/ ResetQp(u) \/ drainCompletions(u) \/ InitQp(u) \/ Replace(u) \/ Create(u)
            \/ RestoreThrows(u) \/ NotifyOne(u) \/ NotifyAll(u)
            => held' = held
        BY DEF ResetQp, drainCompletions, InitQp, Replace, Create, RestoreThrows, NotifyOne, NotifyAll
      <4> QED BY <3>1, <4>1, <4>2, <4>3, <4>4 DEF ThreadStep, release
    <3>2. (\E i \in Slots : Complete(i)) \/ Close \/ CloseNotify \/ UNCHANGED vars => held' = held
      BY DEF Complete, Close, CloseNotify, vars
    <3> QED BY <1>1, <3>1, <3>2 DEF Next
  <2>2. CASE held' = held
    BY <2>2 DEF LeasedBy
  <2>3. ASSUME NEW u \in Threads, held[u] # <<>>, held' = [held EXCEPT ![u] = Front(@)]
        PROVE  LeasedBy(t)' \subseteq LeasedBy(t)
    BY <1>1, <2>3, LeaseEnds DEF PoolInv
  <2> QED BY <2>1, <2>2, <2>3
<1>2. PoolInv /\ [Next]_vars
      => [closed_ => \A t \in Threads : LeasedBy(t)' \subseteq LeasedBy(t)]_vars
  BY <1>1
<1> QED BY <1>2, PoolInvariant, PTL DEF Spec, NoLeaseOnceClosed

=============================================================================
