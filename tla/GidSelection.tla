---------------------------- MODULE GidSelection ----------------------------
(***************************************************************************)
(* The choice of a port's GID when openRdmaDevice() opens a NIC:           *)
(* SelectBestGid(), that is AutoSelectGidIndex(), which reads the port's   *)
(* GID table, and PickBestGid(), which prefers one of the entries read;    *)
(* then the read of the GID at the index chosen.                           *)
(*                                                                         *)
(* Both loops are modelled one round at a time.  The table belongs to the  *)
(* kernel, which changes it as addresses come and go, so each read returns *)
(* any entry, or fails.                                                    *)
(***************************************************************************)
EXTENDS Integers, Sequences

CONSTANT MaxTableLen  \* The most entries of a GID table (gid_tbl_len)

ASSUME MaxTableLenAssumption == MaxTableLen \in Nat

VARIABLES pc,         \* The next step
          len,        \* gid_tbl_len
          i,          \* AutoSelectGidIndex()'s loop
          candidates, \* The entries it kept
          j,          \* PickBestGid()'s loop: the next candidate
          best_idx,   \* The index of the best so far, or NoIndex
          best_prio,  \* Its priority
          gidIndex    \* The index openRdmaDevice() uses, once it is chosen

vars == <<pc, len, i, candidates, j, best_idx, best_prio, gidIndex>>

NoIndex == -1

\* What ClassifyGid() and IsConfiguredGid() tell apart in a GID: "none" is
\* all zero
Kinds == {"none", "ipv4", "linkLocal", "global"}
Versions == {"V1", "V2", "Unknown"}

Gid == [kind : Kinds, version : Versions]
Candidate == [index : 0 .. MaxTableLen - 1, gid : Gid]

IsConfiguredGid(gid) == gid.kind # "none"

Unknown == -1

\* GidPriority
ClassifyGid(gid) ==
    IF gid.version = "V2"
    THEN IF gid.kind = "ipv4" THEN 5 ELSE IF gid.kind = "linkLocal" THEN 2 ELSE 3
    ELSE IF gid.version = "V1"
    THEN IF gid.kind = "linkLocal" THEN 0 ELSE 1
    ELSE Unknown

Init ==
    /\ pc = "port"
    /\ len = 0 /\ i = 0 /\ candidates = <<>>
    /\ j = 1 /\ best_idx = NoIndex /\ best_prio = Unknown
    /\ gidIndex = NoIndex

\* AutoSelectGidIndex() asks for the size of the table; without it there is
\* no selection
query_port ==
    /\ pc = "port"
    /\ \/ pc' = "table" /\ len' \in 0 .. MaxTableLen /\ UNCHANGED gidIndex
       \/ pc' = "local" /\ gidIndex' = 0 /\ UNCHANGED len
    /\ UNCHANGED <<i, candidates, j, best_idx, best_prio>>

\* A round of its loop: an entry that cannot be read or is not configured is
\* skipped
query_gid ==
    /\ pc = "table" /\ i < len
    /\ i' = i + 1
    /\ \/ UNCHANGED candidates
       \/ \E gid \in Gid :
            candidates' = IF IsConfiguredGid(gid)
                          THEN Append(candidates, [index |-> i, gid |-> gid])
                          ELSE candidates
    /\ UNCHANGED <<pc, len, j, best_idx, best_prio, gidIndex>>

TableRead ==
    /\ pc = "table" /\ i = len
    /\ pc' = "pick"
    /\ UNCHANGED <<len, i, candidates, j, best_idx, best_prio, gidIndex>>

\* Mutant of PickBestGid: a tie goes to the last candidate
PickBestGidLast ==
    LET c == candidates[j]
        prio == ClassifyGid(c.gid)
    IN  /\ pc = "pick" /\ j <= Len(candidates)
        /\ j' = j + 1
        /\ IF /\ IsConfiguredGid(c.gid)
              /\ prio # Unknown /\ (best_idx = NoIndex \/ prio >= best_prio)
           THEN best_idx' = c.index /\ best_prio' = prio
           ELSE UNCHANGED <<best_idx, best_prio>>
        /\ UNCHANGED <<pc, len, i, candidates, gidIndex>>

\* A round of PickBestGid()'s loop
PickBestGid ==
    LET c == candidates[j]
        prio == ClassifyGid(c.gid)
    IN  /\ pc = "pick" /\ j <= Len(candidates)
        /\ j' = j + 1
        /\ IF /\ IsConfiguredGid(c.gid)
              /\ prio # Unknown /\ (best_idx = NoIndex \/ prio > best_prio)
           THEN best_idx' = c.index /\ best_prio' = prio
           ELSE UNCHANGED <<best_idx, best_prio>>
        /\ UNCHANGED <<pc, len, i, candidates, gidIndex>>

\* Back in openRdmaDevice(): the first entry when none is preferred
SelectBestGid ==
    /\ pc = "pick" /\ j > Len(candidates)
    /\ pc' = "local"
    /\ gidIndex' = IF best_idx = NoIndex THEN 0 ELSE best_idx
    /\ UNCHANGED <<len, i, candidates, j, best_idx, best_prio>>

\* Reads the GID at that index, or fails to open the device
LocalGid ==
    /\ pc = "local"
    /\ pc' \in {"opened", "failed"}
    /\ UNCHANGED <<len, i, candidates, j, best_idx, best_prio, gidIndex>>

Step == query_port \/ query_gid \/ TableRead \/ PickBestGid \/ SelectBestGid \/ LocalGid

Next == Step \/ (pc \in {"opened", "failed"} /\ UNCHANGED vars)

Spec == Init /\ [][Next]_vars

(***************************************************************************)
(* Properties                                                              *)
(***************************************************************************)
\* Each variable has its type, and the candidates are entries of the table,
\* in its order.
TypeOK ==
    /\ pc \in {"port", "table", "pick", "local", "opened", "failed"}
    /\ len \in 0 .. MaxTableLen /\ i \in 0 .. len
    /\ candidates \in Seq(Candidate)
    /\ \A k \in 1 .. Len(candidates) : candidates[k].index < i
    /\ \A k, m \in 1 .. Len(candidates) : k < m => candidates[k].index < candidates[m].index
    /\ j \in 1 .. Len(candidates) + 1
    /\ best_idx \in -1 .. MaxTableLen - 1 /\ best_prio \in -1 .. 5
    /\ gidIndex \in -1 .. MaxTableLen

Priority(k) == ClassifyGid(candidates[k].gid)
Qualified(k) == Priority(k) # Unknown

\* Candidate k is better than m: of a higher priority, or of the same and at
\* a lower index
Better(k, m) ==
    \/ Priority(k) > Priority(m)
    \/ Priority(k) = Priority(m) /\ candidates[k].index < candidates[m].index

\* The index chosen is that of the best entry read that qualifies, whatever
\* was read and in whatever order the loops met it, and 0 when none does
\* (PickBestGid() and openRdmaDevice()).
ChosenIsBest ==
    pc \in {"local", "opened"} =>
        \/ /\ gidIndex = 0
           /\ \A k \in 1 .. Len(candidates) : ~Qualified(k)
        \/ \E k \in 1 .. Len(candidates) :
            /\ gidIndex = candidates[k].index /\ Qualified(k)
            /\ \A m \in 1 .. Len(candidates) : m = k \/ Better(k, m)

=============================================================================
