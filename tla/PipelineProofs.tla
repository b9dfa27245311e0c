--------------------------- MODULE PipelineProofs ---------------------------
(***************************************************************************)
(* What runs behind the riders' calls promises for any number of cycles,    *)
(* jobs, processes, readings and requests.                                  *)
(***************************************************************************)
EXTENDS MCPipeline, Integers, FiniteSetTheorems, SequenceTheorems, WellFoundedInduction, TLAPS

LEMMA Bounds ==
    /\ MaxCycleRows \in Nat /\ MaxCycleRows >= 1 /\ RegionWindow \in Nat
    /\ MaxFeedVersions \in Nat /\ MaxFeedVersions >= 1
    /\ MaxFeedReadings \in Nat /\ TrackedFrom \in Nat /\ MaxFeedSamples \in Nat
    /\ NightWindow \in Nat /\ NightLookback \in Nat /\ LongestRental \in Nat
    /\ MaxCompleteCycles \in Nat /\ MaxCompleteCycles >= 1 /\ MaxReportMoves \in Nat
    /\ RowsServed \in Nat /\ RowsShort \in Nat /\ MaxCityEdits \in Nat
    /\ MaxStopCounts \in Nat /\ MaxBuilds \in Nat /\ MaxFileVersions \in Nat
    /\ BufferRows \in Nat /\ BufferRows >= 1 /\ RepliesPerPoll \in Nat /\ MaxTextsBack \in Nat
BY PipelineAssumption

-----------------------------------------------------------------------------
(* The geocoder's index.  x1 is published, x2 disk, x3 tarball, x4 marker,  *)
-----------------------------------------------------------------------------
(* Sequences whose entries differ.                                          *)

Distinct(s) == \A i, k \in DOMAIN s : s[i] = s[k] => i = k
Holds(s) == {s[i] : i \in DOMAIN s}

LEMMA TailHolds ==
    ASSUME NEW S, NEW s \in Seq(S), s # <<>>, Distinct(s)
    PROVE  /\ Tail(s) \in Seq(S) /\ Len(Tail(s)) = Len(s) - 1
           /\ Distinct(Tail(s)) /\ Holds(Tail(s)) = Holds(s) \ {Head(s)}
           /\ Head(s) \in Holds(s)
<1>1. /\ Tail(s) \in Seq(S) /\ Len(Tail(s)) = Len(s) - 1 /\ Len(s) \in Nat /\ Len(s) > 0
      /\ \A i \in 1 .. Len(s) - 1 : Tail(s)[i] = s[i + 1]
      /\ Head(s) = s[1] /\ DOMAIN s = 1 .. Len(s) /\ DOMAIN Tail(s) = 1 .. Len(s) - 1
    OBVIOUS
<1>2. Distinct(Tail(s))
    BY <1>1 DEF Distinct
<1>3. ASSUME NEW e \in Holds(Tail(s)) PROVE e \in Holds(s) \ {s[1]}
  <2>1. PICK i \in 1 .. Len(s) - 1 : s[i + 1] = e
      BY <1>1, <1>3 DEF Holds
  <2>2. i + 1 \in DOMAIN s /\ 1 \in DOMAIN s /\ i + 1 # 1
      BY <1>1
  <2> QED
      BY <2>1, <2>2 DEF Holds, Distinct
<1>4. ASSUME NEW e \in Holds(s) \ {s[1]} PROVE e \in Holds(Tail(s))
  <2>1. PICK i \in DOMAIN s : s[i] = e
      BY DEF Holds
  <2>2. i - 1 \in 1 .. Len(s) - 1 /\ Tail(s)[i - 1] = e
    <3>1. i # 1
        BY <2>1, <1>4
    <3> QED
        BY <2>1, <3>1, <1>1
  <2> QED
      BY <2>2, <1>1 DEF Holds
<1>5. s[1] \in Holds(s)
    BY <1>1 DEF Holds
<1> QED
    BY <1>1, <1>2, <1>3, <1>4, <1>5

LEMMA AppendHolds ==
    ASSUME NEW S, NEW s \in Seq(S), NEW e \in S, Distinct(s), e \notin Holds(s)
    PROVE  /\ Append(s, e) \in Seq(S) /\ Len(Append(s, e)) = Len(s) + 1
           /\ Distinct(Append(s, e)) /\ Holds(Append(s, e)) = Holds(s) \cup {e}
<1>1. /\ Append(s, e) \in Seq(S) /\ Len(Append(s, e)) = Len(s) + 1 /\ Len(s) \in Nat
      /\ \A i \in 1 .. Len(s) : Append(s, e)[i] = s[i]
      /\ Append(s, e)[Len(s) + 1] = e
      /\ DOMAIN s = 1 .. Len(s) /\ DOMAIN Append(s, e) = 1 .. Len(s) + 1
    OBVIOUS
<1>2. \A i \in 1 .. Len(s) : s[i] # e
    BY <1>1 DEF Holds
<1>3. Distinct(Append(s, e))
    BY <1>1, <1>2 DEF Distinct
<1>4. ASSUME NEW d \in Holds(Append(s, e)) PROVE d \in Holds(s) \cup {e}
    BY <1>1 DEF Holds
<1>5. ASSUME NEW d \in Holds(s) PROVE d \in Holds(Append(s, e))
  <2>1. PICK i \in 1 .. Len(s) : s[i] = d
      BY <1>1 DEF Holds
  <2>2. i \in DOMAIN Append(s, e) /\ Append(s, e)[i] = d
      BY <2>1, <1>1
  <2> QED
      BY <2>2 DEF Holds
<1>6. e \in Holds(Append(s, e))
    BY <1>1 DEF Holds
<1> QED
    BY <1>1, <1>3, <1>4, <1>5, <1>6

\* Of numbers there is a least.
LEMMA LeastNumber ==
    ASSUME NEW numbers \in SUBSET Nat, numbers # {}
    PROVE  \E least \in numbers : \A n \in numbers : least <= n
<1>1. PICK least \in numbers : \A n \in numbers : ~(<<n, least>> \in OpToRel(<, Nat))
    BY NatLessThanWellFounded, WFMin
<1>2. ASSUME NEW n \in numbers PROVE least <= n
    <2>1. ~(n < least)
        BY <1>1, <1>2 DEF OpToRel
    <2> QED
        BY <2>1
<1> QED
    BY <1>2

-----------------------------------------------------------------------------
(* The cycles, their archive and their rollup.  x1 is feed, x2 cycle, x3    *)
(* snapshots, x4 raw, x5 lake, x6 archive, x7 overtaken, x8 watermark and   *)
(* x9 folded.                                                               *)

CyclesTyped ==
    /\ x1 \in 1 .. MaxFeedVersions
    /\ x2 \in [Rollup!Cycles -> Rollup!CycleRow]
    /\ x3 \in SUBSET Rollup!Cycles /\ x4 \in SUBSET Rollup!Cycles /\ x5 \in SUBSET Rollup!Cycles
    /\ x6 \in [at : {"idle", "exported", "uploaded"}, exported : SUBSET Rollup!Cycles]
    /\ x7 \in SUBSET x3
    /\ x8 \in 0 .. MaxCycleRows
    /\ x9 \in [Rollup!Cycles -> Nat]

\* The rows of a cycle that wrote since the export are known; an uploaded export is in R2.
RawInv ==
    /\ x3 \subseteq x4 \cup x5 \cup x7
    /\ x6.at # "idle" => x4 \subseteq x6.exported \cup x7
    /\ x6.at = "uploaded" => x6.exported \subseteq x5

InFlight(c) == x2[c].stage # "ended"

\* Cycles are numbered as they start, and while one is under way only other lines start one.
CyclesInOrder ==
    /\ \E n \in 0 .. MaxCycleRows : Rollup!Started = 1 .. n
    /\ \A c \in Rollup!Cycles \ Rollup!Started : ~InFlight(c)
    /\ \A c, d \in Rollup!Started : InFlight(c) /\ c < d => x2[d].line # x2[c].line
    /\ x3 \subseteq Rollup!Started
    /\ \A c \in x3 : x2[c].stage \notin {"fetch", "compute", "write"}

\* The newest snapshot exists, and the watermark does not pass it.
HasNewest == x3 # {} => \E c \in x3 : \A d \in x3 : d <= c

FoldedInv ==
    /\ HasNewest
    /\ x8 > 0 => \E c \in x3 : x8 <= c
    /\ Rollup!FoldedUnlessPassedOver

RollupInv == CyclesTyped /\ RawInv /\ CyclesInOrder /\ FoldedInv

\* What was passed over stays so.
LEMMA PassedOverStays ==
    ASSUME CyclesTyped, x3 \subseteq x3',
           \A d \in Rollup!Cycles : d \in Rollup!Started => x2'[d].line = x2[d].line,
           \E n \in 0 .. MaxCycleRows : Rollup!Started = 1 .. n,
           x3 \subseteq Rollup!Started,
           NEW c \in x3, Rollup!PassedOver(c)
    PROVE  Rollup!PassedOver(c)'
<1>1. PICK d \in x3 : d > c /\ \A e \in c + 1 .. d : x2[e].line # x2[c].line
    BY DEF Rollup!PassedOver
<1>2. PICK n \in 0 .. MaxCycleRows : Rollup!Started = 1 .. n
    OBVIOUS
<1>3. c \in 1 .. n /\ d \in 1 .. n /\ n \in Nat /\ Rollup!Started \subseteq Rollup!Cycles
    BY <1>1, <1>2, Bounds DEF Rollup!Started
<1>4. \A e \in c + 1 .. d : e \in Rollup!Started
    BY <1>2, <1>3
<1>5. \A e \in c + 1 .. d : x2'[e].line # x2'[c].line
    BY <1>1, <1>2, <1>3, <1>4
<1> QED
    BY <1>1, <1>5 DEF Rollup!PassedOver

\* So does what is folded, while no snapshot is added.
LEMMA FoldedStays ==
    ASSUME CyclesTyped, CyclesInOrder, FoldedInv, UNCHANGED <<x3, x8, x9>>,
           \A d \in Rollup!Cycles : d \in Rollup!Started => x2'[d].line = x2[d].line
    PROVE  FoldedInv'
<1>1. HasNewest' /\ (x8' > 0 => \E c \in x3' : x8' <= c)
    BY DEF FoldedInv, HasNewest
<1>2. \A c \in x3 : Rollup!PassedOver(c) => Rollup!PassedOver(c)'
    BY PassedOverStays DEF CyclesInOrder
<1>3. Rollup!FoldedUnlessPassedOver'
    BY <1>2 DEF FoldedInv, Rollup!FoldedUnlessPassedOver
<1> QED
    BY <1>1, <1>3 DEF FoldedInv

LEMMA InitRollup == Rollup!RollupsInit => RollupInv
<1> SUFFICES ASSUME Rollup!RollupsInit PROVE RollupInv
    OBVIOUS
<1> USE DEF Rollup!RollupsInit, Rollup!CycleInit
<1>1. /\ Rollup!NotStarted \in Rollup!CycleRow
      /\ Rollup!NotStarted.stage = "ended" /\ Rollup!NotStarted.status = "none"
    BY Bounds DEF Rollup!NotStarted, Rollup!CycleRow, Rollup!Stages
<1>2. [at |-> "idle", exported |-> {}] \in
          [at : {"idle", "exported", "uploaded"}, exported : SUBSET Rollup!Cycles]
    OBVIOUS
<1>3. CyclesTyped
    BY <1>1, <1>2, Bounds DEF CyclesTyped
<1>4. \A c \in Rollup!Cycles : x2[c] = Rollup!NotStarted
    OBVIOUS
<1>5. Rollup!Started = 1 .. 0
    BY <1>1, <1>4 DEF Rollup!Started
<1>6. CyclesInOrder
  <2>1. Rollup!Started = {} /\ 0 \in 0 .. MaxCycleRows
      BY <1>5, Bounds
  <2> QED
      BY <1>1, <1>4, <1>5, <2>1 DEF CyclesInOrder, InFlight
<1>7. RawInv
    BY DEF RawInv
<1>8. FoldedInv
    BY DEF FoldedInv, HasNewest, Rollup!FoldedUnlessPassedOver
<1> QED
    BY <1>3, <1>6, <1>7, <1>8 DEF RollupInv

LEMMA RollupHolds ==
    RollupInv => /\ Rollup!RollupsTypeOK /\ Rollup!RawRowsKeptUnlessOvertaken
                 /\ Rollup!FoldedUnlessPassedOver
BY DEF RollupInv, CyclesTyped, RawInv, FoldedInv, Rollup!RollupsTypeOK, Rollup!CycleTypeOK,
       Rollup!RawRowsKeptUnlessOvertaken

\* A cycle that is under way goes on to another stage, and writes nothing of the archive.
Goes(c, stage, status) ==
    /\ c \in Rollup!Started
    /\ x2' \in [Rollup!Cycles -> Rollup!CycleRow]
    /\ \A d \in Rollup!Cycles \ {c} : x2'[d] = x2[d]
    /\ x2'[c].stage = stage /\ x2'[c].status = status /\ x2'[c].line = x2[c].line
    /\ status # "none"
    /\ x1' = x1 /\ x5' = x5 /\ x6' = x6

LEMMA GoesInOrder ==
    ASSUME RollupInv, NEW c, NEW stage, NEW status, Goes(c, stage, status),
           InFlight(c), x3' \in SUBSET (x3 \cup {c}),
           c \in x3' => stage \notin {"fetch", "compute", "write"}
    PROVE  Rollup!Started' = Rollup!Started /\ CyclesInOrder'
<1>1. Rollup!Started' = Rollup!Started
    BY DEF Goes, Rollup!Started
<1> QED
    BY <1>1 DEF RollupInv, CyclesInOrder, Goes, InFlight, Rollup!Started

\* ... unless it is the one that commits a snapshot.
LEMMA GoesOn ==
    ASSUME RollupInv, NEW c, NEW stage, NEW status, Goes(c, stage, status), InFlight(c),
           x2[c].stage \in {"fetch", "compute", "write"} \/ stage \notin {"fetch", "compute", "write"},
           UNCHANGED <<x3, x4, x7, x8, x9>>
    PROVE  RollupInv'
<1>1. CyclesInOrder'
    BY GoesInOrder DEF RollupInv, CyclesInOrder
<1>2. CyclesTyped' /\ RawInv'
    BY DEF RollupInv, CyclesTyped, RawInv, Goes
<1>3. \A d \in Rollup!Cycles : x2'[d].line = x2[d].line
    BY DEF Goes
<1>4. FoldedInv'
    BY <1>3, FoldedStays DEF RollupInv
<1> QED
    BY <1>1, <1>2, <1>4 DEF RollupInv

LEMMA WritesOnce ==
    ASSUME RollupInv, NEW c \in Rollup!Cycles, Rollup!WriteSnapshot(c), UNCHANGED <<x8, x9>>
    PROVE  RollupInv'
<1> USE DEF RollupInv
<1>1. Goes(c, "derive", x2[c].status) /\ InFlight(c) /\ x2[c].stage = "write"
    BY DEF Rollup!WriteSnapshot, Rollup!AtStage, Rollup!Started, Goes, InFlight, CyclesTyped,
           Rollup!CycleRow, Rollup!Stages
<1>2. /\ x3' = x3 \cup {c} /\ x4' = x4 \cup {c} /\ x5' = x5 /\ x6' = x6 /\ x8' = x8 /\ x9' = x9
      /\ x7' = IF x6.at = "idle" THEN x7 ELSE x7 \cup {c}
    BY DEF Rollup!WriteSnapshot
<1>3. CyclesInOrder' /\ Rollup!Started' = Rollup!Started
    BY <1>1, <1>2, GoesInOrder
<1>4. c \notin x3 /\ c \in Nat /\ x3 \subseteq Nat /\ x8 \in Nat
    BY <1>1, Bounds DEF CyclesInOrder, CyclesTyped, Rollup!Cycles
<1>5. CyclesTyped'
    BY <1>1, <1>2 DEF CyclesTyped, Goes
<1>6. RawInv'
    BY <1>2 DEF RawInv
<1>7. HasNewest'
  <2>1. CASE x3 = {}
      BY <1>2, <1>4, <2>1 DEF HasNewest
  <2>2. CASE x3 # {}
    <3>1. PICK top \in x3 : \A d \in x3 : d <= top
        BY <2>2 DEF FoldedInv, HasNewest
    <3>2. CASE c <= top
        BY <1>2, <3>1, <3>2 DEF HasNewest
    <3>3. CASE ~(c <= top)
      <4>1. \A d \in x3 : d <= c
          BY <1>4, <3>1, <3>3
      <4> QED
          BY <1>2, <1>4, <4>1 DEF HasNewest
    <3> QED
        BY <3>2, <3>3
  <2> QED
      BY <2>1, <2>2
<1>8. \A d \in x3 : Rollup!PassedOver(d) => Rollup!PassedOver(d)'
  <2>1. x3 \subseteq x3'
      BY <1>2
  <2>2. \A d \in Rollup!Cycles : d \in Rollup!Started => x2'[d].line = x2[d].line
      BY <1>1 DEF Goes
  <2> QED
      BY <2>1, <2>2, PassedOverStays DEF CyclesInOrder
<1>9. ASSUME c <= x8 PROVE Rollup!PassedOver(c)'
  <2>1. c > 0
      BY Bounds DEF Rollup!Cycles
  <2>2. PICK d \in x3 : x8 <= d
      BY <1>4, <1>9, <2>1 DEF FoldedInv
  <2>3. d \in Nat /\ d > c /\ d \in Rollup!Started
      BY <1>4, <1>9, <2>2 DEF CyclesInOrder
  <2>4. \A e \in c + 1 .. d : e \in Rollup!Started /\ c < e
    <3>1. PICK n \in 0 .. MaxCycleRows : Rollup!Started = 1 .. n
        BY DEF CyclesInOrder
    <3> QED
        BY <1>4, <2>3, <3>1, Bounds
  <2>5. c \in Rollup!Started
      BY <1>1 DEF Goes
  <2>6. \A e \in c + 1 .. d : x2[e].line # x2[c].line
      BY <1>1, <2>4, <2>5 DEF CyclesInOrder
  <2>7. \A e \in Rollup!Started : x2'[e].line = x2[e].line
      BY <1>1 DEF Goes, Rollup!Started
  <2>8. \A e \in c + 1 .. d : x2'[e].line # x2'[c].line
      BY <2>4, <2>5, <2>6, <2>7
  <2> QED
      BY <1>2, <2>2, <2>3, <2>8 DEF Rollup!PassedOver
<1>10. FoldedInv'
  <2>1. Rollup!FoldedUnlessPassedOver'
      BY <1>2, <1>4, <1>8, <1>9 DEF FoldedInv, Rollup!FoldedUnlessPassedOver
  <2> QED
      BY <1>2, <1>7, <2>1 DEF FoldedInv
<1> QED
    BY <1>3, <1>5, <1>6, <1>10

\* A pass of the rollup folds what lies between its watermark and the newest snapshot.
LEMMA FoldsOnce ==
    ASSUME RollupInv, NEW step \in Nat, Rollup!FoldRegions(step), x3' = x3,
           \A d \in Rollup!Cycles : x2'[d].line = x2[d].line
    PROVE  /\ x8' \in 0 .. MaxCycleRows /\ x9' \in [Rollup!Cycles -> Nat]
           /\ FoldedInv'
<1> USE DEF RollupInv
<1>1. CASE Rollup!UpTo(step) <= x8
    BY <1>1, FoldedStays DEF Rollup!FoldRegions, CyclesTyped
<1>2. CASE ~(Rollup!UpTo(step) <= x8)
  <2> DEFINE to == Rollup!UpTo(step)
  <2>1. x8 \in Nat /\ x3 \subseteq Nat
      BY Bounds DEF CyclesTyped, Rollup!Cycles
  <2>2. x3 # {}
      BY <1>2, <2>1 DEF Rollup!UpTo, Rollup!Newest
  <2>3. Rollup!Newest \in x3 /\ \A d \in x3 : d <= Rollup!Newest
    <3>1. \E c \in x3 : \A d \in x3 : d <= c
        BY <2>2 DEF FoldedInv, HasNewest
    <3> QED
        BY <2>2, <3>1 DEF Rollup!Newest
  <2>4. Rollup!Newest \in 1 .. MaxCycleRows
      BY <2>3 DEF CyclesTyped, Rollup!Cycles
  <2>5. to \in Nat /\ to <= Rollup!Newest /\ x8 < to /\ to \in 0 .. MaxCycleRows
      BY <1>2, <2>1, <2>4, Bounds DEF Rollup!UpTo
  <2>6. /\ x8' = to
        /\ x9' = [c \in Rollup!Cycles |-> x9[c] + IF c \in x3 /\ x8 < c /\ c <= to THEN 1 ELSE 0]
      BY <1>2 DEF Rollup!FoldRegions
  <2>7. ASSUME NEW c \in Rollup!Cycles
        PROVE  x9'[c] = IF c \in x3 /\ x8 < c /\ c <= to THEN 1 ELSE x9[c]
    <3>1. c \in Nat /\ x9[c] \in Nat /\ (x8 < c => x9[c] = 0)
        BY <2>1, Bounds DEF FoldedInv, Rollup!FoldedUnlessPassedOver, Rollup!Cycles, CyclesTyped
    <3> HIDE DEF to
    <3> QED
        BY <2>1, <2>5, <2>6, <3>1
  <2>8. FoldedInv'
    <3>1. \A c \in x3 : Rollup!PassedOver(c) => Rollup!PassedOver(c)'
        BY PassedOverStays DEF CyclesInOrder
    <3>2. ASSUME NEW c \in Rollup!Cycles
          PROVE  IF c \in x3 /\ c <= to
                 THEN x9'[c] = 1 \/ (x9'[c] = 0 /\ Rollup!PassedOver(c)')
                 ELSE x9'[c] = 0
      <4>1. c \in Nat /\ IF c \in x3 /\ c <= x8
                         THEN x9[c] = 1 \/ (x9[c] = 0 /\ Rollup!PassedOver(c))
                         ELSE x9[c] = 0
          BY Bounds DEF FoldedInv, Rollup!FoldedUnlessPassedOver, Rollup!Cycles
      <4> HIDE DEF to
      <4> QED
          BY <2>1, <2>5, <2>7, <3>1, <4>1
    <3>3. Rollup!FoldedUnlessPassedOver'
      <4> HIDE DEF to
      <4> QED
          BY <2>6, <3>2 DEF Rollup!FoldedUnlessPassedOver
    <3>4. HasNewest' /\ \E c \in x3' : x8' <= c
      <4> HIDE DEF to
      <4> QED
          BY <2>3, <2>5, <2>6 DEF FoldedInv, HasNewest
    <3> QED
        BY <3>3, <3>4 DEF FoldedInv
  <2>9. x9' \in [Rollup!Cycles -> Nat]
    <3> HIDE DEF to
    <3> QED
        BY <2>6 DEF CyclesTyped
  <2> QED
      BY <2>5, <2>6, <2>8, <2>9
<1> QED
    BY <1>1, <1>2

LEMMA CycleSteps ==
    ASSUME RollupInv, Rollup!CycleNext, UNCHANGED <<x8, x9>>
    PROVE  RollupInv'
<1> USE DEF RollupInv
<1>1. CASE Rollup!FeedAdvances
  <2>1. CyclesTyped'
      BY <1>1, Bounds DEF Rollup!FeedAdvances, CyclesTyped
  <2>2. FoldedInv'
      BY <1>1, FoldedStays DEF Rollup!FeedAdvances
  <2> QED
      BY <1>1, <2>1, <2>2 DEF Rollup!FeedAdvances, RawInv, CyclesInOrder, InFlight, Rollup!Started
<1>2. ASSUME NEW line \in IngestLines, Rollup!StartCycle(line) PROVE RollupInv'
  <2>1. PICK n \in 0 .. MaxCycleRows : Rollup!Started = 1 .. n
      BY DEF CyclesInOrder
  <2>2. Cardinality(Rollup!Started) = n
      BY <2>1, FS_Interval
  <2> DEFINE c == n + 1
             row == [Rollup!NotStarted EXCEPT !.status = "in_progress", !.stage = "fetch",
                                              !.line = line]
  <2>3. /\ c \in Rollup!Cycles
        /\ \A d \in Rollup!Started : ~(x2[d].line = line /\ x2[d].stage # "ended")
        /\ x2' = [x2 EXCEPT ![c] = row]
        /\ UNCHANGED <<x1, x3, x4, x5, x6, x7>>
    <3>1. Rollup!Cardinality(Rollup!Started) = n
        BY <2>2, Zenon DEF Rollup!Cardinality, Cardinality
    <3> QED
        BY <1>2, <3>1 DEF Rollup!StartCycle
  <2>4. row \in Rollup!CycleRow /\ row.status # "none" /\ row.stage = "fetch" /\ row.line = line
    <3>1. Rollup!NotStarted \in Rollup!CycleRow
        BY Bounds DEF Rollup!NotStarted, Rollup!CycleRow, Rollup!Stages
    <3> QED
        BY <3>1 DEF Rollup!CycleRow, Rollup!Stages, Rollup!Statuses
  <2>5. CyclesTyped'
      BY <2>3, <2>4 DEF CyclesTyped
  <2> HIDE DEF row
  <2>6. /\ \A d \in Rollup!Cycles : x2'[d] = IF d = c THEN row ELSE x2[d]
        /\ Rollup!Started' = Rollup!Started \cup {c}
      BY <2>3, <2>4 DEF CyclesTyped, Rollup!Started
  <2>7. Rollup!Started' = 1 .. c /\ c \in 0 .. MaxCycleRows
      BY <2>1, <2>3, <2>6, Bounds DEF Rollup!Cycles
  <2>8. CyclesInOrder'
    <3>1. \A d \in Rollup!Started : /\ d \in Rollup!Cycles /\ d < c /\ x2'[d] = x2[d]
                                    /\ InFlight(d) => x2[d].line # line
      <4>1. \A d \in Rollup!Started : d \in Rollup!Cycles
          BY DEF Rollup!Started
      <4>2. \A d \in Rollup!Started : d < c
          BY <2>1
      <4> QED
          BY <2>3, <2>6, <4>1, <4>2 DEF InFlight
    <3>2. \A d \in Rollup!Cycles \ Rollup!Started' : ~InFlight(d)'
        BY <2>6 DEF CyclesInOrder, InFlight
    <3>3. ASSUME NEW d \in Rollup!Started', NEW e \in Rollup!Started', InFlight(d)', d < e
          PROVE  x2'[e].line # x2'[d].line
      <4>1. d \in Rollup!Started /\ e \in Rollup!Started \cup {c}
        <5>1. d # c
            BY <2>1, <2>7, <3>3
        <5> QED
            BY <2>6, <5>1
      <4>2. InFlight(d) /\ x2'[d] = x2[d]
          BY <3>1, <3>3, <4>1 DEF InFlight
      <4>3. CASE e = c
        <5>1. x2'[c].line = line
            BY <2>3, <2>4, <2>6
        <5> QED
            BY <3>1, <4>1, <4>2, <4>3, <5>1
      <4>4. CASE e # c
        <5>1. e \in Rollup!Started /\ x2'[e] = x2[e]
            BY <3>1, <4>1, <4>4
        <5>2. x2[e].line # x2[d].line
            BY <3>3, <4>1, <4>2, <5>1 DEF CyclesInOrder
        <5> QED
            BY <4>2, <5>1, <5>2
      <4> QED
          BY <4>3, <4>4
    <3>4. x3' \subseteq Rollup!Started' /\ \A d \in x3' : x2'[d].stage \notin {"fetch", "compute", "write"}
        BY <2>3, <2>6, <3>1 DEF CyclesInOrder
    <3> QED
        BY <2>7, <3>2, <3>3, <3>4 DEF CyclesInOrder
  <2>9. RawInv'
      BY <2>3 DEF RawInv
  <2>10. FoldedInv'
    <3>1. \A d \in Rollup!Cycles : d \in Rollup!Started => x2'[d].line = x2[d].line
        BY <2>1, <2>6
    <3> QED
        BY <2>3, <3>1, FoldedStays
  <2> QED
      BY <2>5, <2>8, <2>9, <2>10
<1> USE DEF Rollup!AtStage, Rollup!Started, Rollup!End, Goes, InFlight, CyclesTyped, Rollup!CycleRow,
            Rollup!Stages, Rollup!Statuses
<1>3. ASSUME NEW c \in Rollup!Cycles, Rollup!UpstreamFails(c) PROVE RollupInv'
  <2>1. Goes(c, "ended", "upstream_failure") /\ InFlight(c) /\ UNCHANGED <<x3, x4, x7>>
      BY <1>3 DEF Rollup!UpstreamFails
  <2> QED
      BY <2>1, GoesOn
<1>4. ASSUME NEW c \in Rollup!Cycles, Rollup!CycleRaises(c) PROVE RollupInv'
  <2>1. Goes(c, "ended", "internal_failure") /\ InFlight(c) /\ UNCHANGED <<x3, x4, x7>>
    <3>1. /\ c \in Rollup!Started /\ x2[c].stage \notin {"refresh", "ended"}
          /\ x2' = [x2 EXCEPT ![c].stage = "ended", ![c].status = "internal_failure"]
          /\ UNCHANGED <<x1, x3, x4, x5, x6, x7>>
        BY <1>4 DEF Rollup!CycleRaises
    <3> QED
        BY <3>1, ZenonT(30)
  <2> QED
      BY <2>1, GoesOn
<1>5. ASSUME NEW c \in Rollup!Cycles, Rollup!CycleKilled(c) PROVE RollupInv'
  <2>1. Goes(c, "ended", x2[c].status) /\ InFlight(c) /\ UNCHANGED <<x3, x4, x7>>
      BY <1>5 DEF Rollup!CycleKilled
  <2> QED
      BY <2>1, GoesOn
<1>6. ASSUME NEW c \in Rollup!Cycles, Rollup!FetchFeed(c) PROVE RollupInv'
  <2>1. /\ Goes(c, "ended", "stale_aborted") \/ Goes(c, "compute", x2[c].status)
        /\ InFlight(c) /\ x2[c].stage = "fetch" /\ UNCHANGED <<x3, x4, x7>>
      BY <1>6 DEF Rollup!FetchFeed
  <2> QED
      BY <2>1, GoesOn
<1>7. ASSUME NEW c \in Rollup!Cycles, Rollup!Compute(c) PROVE RollupInv'
  <2>1. /\ Goes(c, "write", x2[c].status) /\ InFlight(c) /\ x2[c].stage = "compute"
        /\ UNCHANGED <<x3, x4, x7>>
      BY <1>7 DEF Rollup!Compute
  <2> QED
      BY <2>1, GoesOn
<1>8. ASSUME NEW c \in Rollup!Cycles, Rollup!RunDerived(c) PROVE RollupInv'
  <2>1. Goes(c, "transmit", x2[c].status) /\ InFlight(c) /\ UNCHANGED <<x3, x4, x7>>
      BY <1>8 DEF Rollup!RunDerived
  <2> QED
      BY <2>1, GoesOn
<1>9. ASSUME NEW c \in Rollup!Cycles, Rollup!Transmit(c) PROVE RollupInv'
  <2>1. Goes(c, "refresh", "complete") /\ InFlight(c) /\ UNCHANGED <<x3, x4, x7>>
      BY <1>9 DEF Rollup!Transmit
  <2> QED
      BY <2>1, GoesOn
<1> QED
    BY <1>1, <1>2, <1>3, <1>4, <1>5, <1>6, <1>7, <1>8, <1>9, WritesOnce DEF Rollup!CycleNext

LEMMA ArchiveSteps ==
    ASSUME RollupInv, Rollup!ArchiveNext, UNCHANGED <<x8, x9>>
    PROVE  RollupInv'
<1> USE DEF RollupInv
<1>1. UNCHANGED <<x1, x2, x3, x7>>
    BY DEF Rollup!ArchiveNext, Rollup!ExportRaw, Rollup!UploadRaw, Rollup!ArchiveStops,
           Rollup!TruncateRaw
<1>2. CyclesInOrder' /\ FoldedInv'
    BY <1>1, FoldedStays DEF CyclesInOrder, InFlight, Rollup!Started
<1>3. CyclesTyped' /\ RawInv'
  <2>1. CASE Rollup!ExportRaw
      BY <1>1, <2>1 DEF Rollup!ExportRaw, CyclesTyped, RawInv
  <2>2. CASE Rollup!UploadRaw
      BY <1>1, <2>2 DEF Rollup!UploadRaw, CyclesTyped, RawInv
  <2>3. CASE Rollup!ArchiveStops
      BY <1>1, <2>3 DEF Rollup!ArchiveStops, CyclesTyped, RawInv
  <2>4. CASE Rollup!TruncateRaw
      BY <1>1, <2>4 DEF Rollup!TruncateRaw, Rollup!Archived, CyclesTyped, RawInv
  <2> QED
      BY <2>1, <2>2, <2>3, <2>4 DEF Rollup!ArchiveNext
<1> QED
    BY <1>2, <1>3

LEMMA RollupStep ==
    ASSUME RollupInv, Rollup!RollupsNext
    PROVE  RollupInv'
<1> USE DEF RollupInv
<1>1. ASSUME NEW c \in Rollup!Cycles, Rollup!CycleRefresh(c) \/ Rollup!CycleSkipsRefresh(c)
      PROVE  RollupInv'
  <2>1. Goes(c, "ended", x2[c].status) /\ InFlight(c)
      BY <1>1 DEF Rollup!CycleRefresh, Rollup!CycleSkipsRefresh, Rollup!FinishCycle, Rollup!AtStage,
                  Rollup!Started, Goes, InFlight, CyclesTyped, Rollup!CycleRow, Rollup!Stages
  <2>2. UNCHANGED <<x3, x4, x7>>
      BY <1>1 DEF Rollup!CycleRefresh, Rollup!CycleSkipsRefresh, Rollup!FinishCycle
  <2>3. CyclesInOrder'
      BY <2>1, <2>2, GoesInOrder
  <2>4. x8' \in 0 .. MaxCycleRows /\ x9' \in [Rollup!Cycles -> Nat] /\ FoldedInv'
    <3>0. \A d \in Rollup!Cycles : x2'[d].line = x2[d].line
        BY <2>1 DEF Goes
    <3>1. CASE Rollup!CycleRefresh(c)
        BY <2>2, <3>0, <3>1, FoldsOnce, Bounds DEF Rollup!CycleRefresh
    <3>2. CASE Rollup!CycleSkipsRefresh(c)
        BY <2>2, <3>0, <3>2, FoldedStays DEF Rollup!CycleSkipsRefresh, CyclesTyped, Rollup!rollupVars
    <3> QED
        BY <1>1, <3>1, <3>2
  <2>5. CyclesTyped' /\ RawInv'
      BY <2>1, <2>2, <2>4 DEF CyclesTyped, RawInv, Goes
  <2> QED
      BY <2>3, <2>4, <2>5
<1>2. CASE Rollup!BackfillPass
  <2>1. UNCHANGED <<x1, x2, x3, x4, x5, x6, x7>>
      BY <1>2 DEF Rollup!BackfillPass, Rollup!cycleVars
  <2>2. x8' \in 0 .. MaxCycleRows /\ x9' \in [Rollup!Cycles -> Nat] /\ FoldedInv'
      BY <1>2, <2>1, FoldsOnce, Bounds DEF Rollup!BackfillPass
  <2> QED
      BY <2>1, <2>2 DEF CyclesTyped, RawInv, CyclesInOrder, InFlight, Rollup!Started
<1> QED
    BY <1>1, <1>2, CycleSteps, ArchiveSteps DEF Rollup!RollupsNext, Rollup!rollupVars

-----------------------------------------------------------------------------
(* The stops' rollup.  x1 is stop, x2 closes, x3 swept, x4 counted and x5   *)
(* lateReopen.                                                              *)

StopTyped ==
    /\ x1 \in [Rows -> StopClose!StopRow]
    /\ x2 \in [Rows -> {"none", "queued", "settled"}]
    /\ x3 \in BOOLEAN
    /\ x4 \in [Rows -> 0 .. MaxStopCounts + 2]
    /\ x5 \in SUBSET Rows

\* A stop in the queue is closed; one that was closed at the migration is in the queue only
\* after it was reopened, too late.
StopFine(s) ==
    /\ x2[s] # "none" => ~x1[s].open
    /\ x1[s].open \/ x2[s] # "none" => x4[s] <= MaxStopCounts
    /\ ~x3 => x4[s] = 0
    /\ s \in x5 => MaxStopCounts >= 1
    /\ s \notin x5 =>
        /\ x1[s].old => ~x1[s].open /\ x1[s].backdated /\ x2[s] = "none"
        /\ x4[s] = IF x1[s].open \/ x2[s] # "none" \/ (x1[s].old /\ ~x3) THEN 0 ELSE 1

StopInv == StopTyped /\ \A s \in Rows : StopFine(s)

LEMMA InitStop == StopClose!StopsInit => StopInv
<1> SUFFICES ASSUME StopClose!StopsInit PROVE StopInv
    OBVIOUS
<1>1. {[open |-> TRUE, old |-> FALSE, backdated |-> FALSE],
       [open |-> FALSE, old |-> TRUE, backdated |-> TRUE]} \subseteq StopClose!StopRow
    BY DEF StopClose!StopRow
<1>2. StopTyped
  <2>1. x1 \in [Rows -> StopClose!StopRow]
      BY <1>1 DEF StopClose!StopsInit
  <2>2. x4 \in [Rows -> 0 .. MaxStopCounts + 2]
      BY Bounds DEF StopClose!StopsInit
  <2>3. x2 \in [Rows -> {"none", "queued", "settled"}] /\ x3 \in BOOLEAN /\ x5 \in SUBSET Rows
      BY DEF StopClose!StopsInit
  <2> QED
      BY <2>1, <2>2, <2>3 DEF StopTyped
<1>3. \A s \in Rows : StopFine(s)
    BY Bounds DEF StopClose!StopsInit, StopFine
<1> QED
    BY <1>2, <1>3 DEF StopInv

LEMMA StopHolds == StopInv => StopClose!StopsTypeOK /\ StopClose!EachStopCountedOnce
BY DEF StopInv, StopTyped, StopFine, StopClose!StopsTypeOK, StopClose!EachStopCountedOnce

LEMMA StopStep ==
    ASSUME StopInv, StopClose!StopsNext
    PROVE  StopInv'
<1> USE DEF StopInv
<1>1. CASE StopClose!FoldStops
  <2>1. ASSUME NEW s \in Rows
        PROVE  /\ x4'[s] = x4[s] + (IF x2[s] = "settled" /\ ~x1[s].open THEN 1 ELSE 0)
                              + (IF ~x3 /\ x1[s].old /\ ~x1[s].open /\ x1[s].backdated THEN 1 ELSE 0)
               /\ x2'[s] = IF x2[s] = "settled" THEN "none" ELSE x2[s]
      BY <1>1 DEF StopClose!FoldStops, StopClose!Due, StopClose!OldCloses
  <2>2. x1' = x1 /\ x5' = x5 /\ x3' = TRUE
      BY <1>1 DEF StopClose!FoldStops
  <2>3. ASSUME NEW s \in Rows PROVE StopFine(s)' /\ x4'[s] \in 0 .. MaxStopCounts + 2
    <3>1. x4[s] \in 0 .. MaxStopCounts + 2 /\ x2[s] \in {"none", "queued", "settled"} /\ StopFine(s)
        BY DEF StopTyped
    <3>2. x4'[s] \in 0 .. MaxStopCounts + 2
        BY <2>1, <3>1, Bounds DEF StopFine
    <3>3. StopFine(s)'
        BY <2>1, <2>2, <3>1, Bounds DEF StopFine
    <3> QED
        BY <3>2, <3>3
  <2>4. StopTyped'
      BY <1>1, <2>1, <2>2, <2>3 DEF StopTyped, StopClose!FoldStops
  <2> QED
      BY <2>3, <2>4
<1>2. ASSUME NEW s \in Rows, StopClose!ReopenStop(s) PROVE StopInv'
  <2>1. StopTyped'
      BY <1>2 DEF StopClose!ReopenStop, StopClose!Unqueued, StopTyped, StopClose!StopRow
  <2>2. ASSUME NEW i \in Rows PROVE StopFine(i)'
      BY <1>2, Bounds DEF StopClose!ReopenStop, StopClose!Unqueued, StopFine, StopTyped, StopClose!StopRow
  <2> QED
      BY <2>1, <2>2
<1>3. ASSUME NEW s \in Rows, StopClose!CloseSettles(s) PROVE StopInv'
  <2>1. StopTyped'
      BY <1>3 DEF StopClose!CloseSettles, StopTyped
  <2>2. ASSUME NEW i \in Rows PROVE StopFine(i)'
      BY <1>3 DEF StopClose!CloseSettles, StopFine, StopTyped
  <2> QED
      BY <2>1, <2>2
<1>4. ASSUME NEW s \in Rows, NEW backdated \in BOOLEAN, StopClose!CloseStop(s, backdated) PROVE StopInv'
  <2>1. StopTyped'
      BY <1>4 DEF StopClose!CloseStop, StopTyped, StopClose!StopRow
  <2>2. ASSUME NEW i \in Rows PROVE StopFine(i)'
      BY <1>4 DEF StopClose!CloseStop, StopFine, StopTyped, StopClose!StopRow
  <2> QED
      BY <2>1, <2>2
<1> QED
    BY <1>1, <1>2, <1>3, <1>4 DEF StopClose!StopsNext

-----------------------------------------------------------------------------
(* The compliance row.  x1 is figure, x2 sla, x3 slaJob and x4 windowOver.  *)

SlaInv ==
    /\ Sla!SlaTypeOK
    /\ Sla!FigureOrVerdict
    /\ \A j \in SlaProcesses : x3[j].verdict # "none" => x4

LEMMA InitSla == Sla!SlaInit => SlaInv
<1> SUFFICES ASSUME Sla!SlaInit PROVE SlaInv
    OBVIOUS
<1>1. Sla!NoJob \in Sla!JobRow /\ Sla!NoJob.verdict = "none"
    BY DEF Sla!NoJob, Sla!JobRow, Sla!NoAverage
<1>2. x2 \in Sla!SlaRow /\ x2.verdict = "none"
    BY DEF Sla!SlaInit, Sla!NoAverage, Sla!SlaRow
<1> QED
    BY <1>1, <1>2 DEF Sla!SlaInit, SlaInv, Sla!SlaTypeOK, Sla!FigureOrVerdict

\* A process goes on to a row that claims nothing of an open window.
LEMMA SlaGoes ==
    ASSUME SlaInv, NEW j \in SlaProcesses, NEW row \in Sla!JobRow, Sla!Goto(j, row),
           row.verdict # "none" => x4, x4' = x4
    PROVE  /\ x3' \in [SlaProcesses -> Sla!JobRow]
           /\ \A i \in SlaProcesses : x3'[i].verdict # "none" => x4'
BY DEF SlaInv, Sla!SlaTypeOK, Sla!Goto

LEMMA SlaStep ==
    ASSUME SlaInv, Sla!SlaNext
    PROVE  SlaInv'
<1> USE DEF SlaInv, Sla!FigureOrVerdict
<1>no. Sla!NoJob \in Sla!JobRow /\ Sla!NoJob.verdict = "none"
    BY DEF Sla!NoJob, Sla!JobRow, Sla!NoAverage
<1>1. ASSUME NEW s \in Rows, NEW measured \in BOOLEAN, Sla!CommitSnapshot(s, measured) PROVE SlaInv'
    BY <1>1 DEF Sla!CommitSnapshot, Sla!SlaTypeOK
<1>2. CASE Sla!WindowEnds
    BY <1>2 DEF Sla!WindowEnds, Sla!SlaTypeOK
<1>3. ASSUME NEW j \in SlaProcesses, Sla!ListBacklog(j) PROVE SlaInv'
    BY <1>3, SlaGoes, <1>no DEF Sla!ListBacklog, Sla!SlaTypeOK, Sla!NoJob, Sla!JobRow
<1>4. ASSUME NEW j \in SlaProcesses, Sla!StartDailySla(j) PROVE SlaInv'
    BY <1>4, SlaGoes, <1>no DEF Sla!StartDailySla, Sla!SlaTypeOK, Sla!NoJob, Sla!JobRow
<1>5. ASSUME NEW j \in SlaProcesses, Sla!RewriteFigures(j) PROVE SlaInv'
    BY <1>5, SlaGoes, <1>no DEF Sla!RewriteFigures, Sla!SlaTypeOK, Sla!NoJob, Sla!JobRow
<1>6. ASSUME NEW j \in SlaProcesses, Sla!ReadAverage(j) PROVE SlaInv'
    BY <1>6, SlaGoes, <1>no DEF Sla!ReadAverage, Sla!SlaTypeOK, Sla!NoJob, Sla!JobRow, Sla!WithFigure
<1>7. ASSUME NEW j \in SlaProcesses, Sla!UpsertAverage(j) PROVE SlaInv'
    BY <1>7, SlaGoes, <1>no DEF Sla!UpsertAverage, Sla!SlaTypeOK, Sla!JobRow, Sla!SlaRow, Sla!VerdictWith
<1>8. ASSUME NEW j \in SlaProcesses, Sla!ConcludeUnmeasurable(j) PROVE SlaInv'
    BY <1>8, SlaGoes, <1>no
       DEF Sla!ConcludeUnmeasurable, Sla!SlaTypeOK, Sla!JobRow, Sla!SlaRow, Sla!MayRecord
<1>9. ASSUME NEW j \in SlaProcesses, Sla!JobDies(j) PROVE SlaInv'
    BY <1>9, SlaGoes, <1>no DEF Sla!JobDies, Sla!SlaTypeOK
<1>10. ASSUME NEW j \in SlaProcesses, NEW passing \in SUBSET Rows, NEW checked \in BOOLEAN,
              Sla!StartReprocess(j, passing, checked)
       PROVE  SlaInv'
    BY <1>10, SlaGoes DEF Sla!StartReprocess, Sla!SlaTypeOK, Sla!JobRow, Sla!SlaVerdict
<1> QED
    BY <1>1, <1>2, <1>3, <1>4, <1>5, <1>6, <1>7, <1>8, <1>9, <1>10 DEF Sla!SlaNext

-----------------------------------------------------------------------------
(* Servicing and depot visits.  x1 is readings, x2 tracker, x3 serviceLog,  *)
(* x4 keptUpTo, x5 replay, x6 disturbed, x7 visits and x8 rebuild.          *)

\* What the readings rs say of the time t.
ParkedAt(rs, t) == ~rs[t].reserved /\ (t > 1 => ~rs[t - 1].reserved)
FullAt(rs, t) == ParkedAt(rs, t) /\ rs[t].charge = "full"
LowAt(rs, t)  == ParkedAt(rs, t) /\ rs[t].charge = "low"

\* By n it was low, and not full since.
LowSince(rs, n) == \E u \in 1 .. n : LowAt(rs, u) /\ \A w \in 1 .. n : u < w => ~FullAt(rs, w)
ServicedAt(rs, t) == t \in 1 .. Len(rs) /\ FullAt(rs, t) /\ LowSince(rs, t - 1)

\* A charge state that has seen the readings as far as n.
Knows(s, rs, n) ==
    /\ s.low = "low" => LowSince(rs, n)
    /\ n = 0 => ~s.rental
    /\ n > 0 => (s.rental <=> rs[n].reserved)

ReplayState == [on : BOOLEAN, listed : Nat, done : Nat, state : Service!Tracked]

ServiceTyped ==
    /\ x1 \in Seq(FeedReadings) /\ Len(x1) <= MaxFeedReadings
    /\ x2 \in Service!Tracked
    /\ x3 \subseteq Service!Event
    /\ x4 \in Nat /\ x4 <= Len(x1)
    /\ x5 \in ReplayState /\ x5.done <= x5.listed /\ x5.listed <= x4
    /\ x6 \in BOOLEAN

ServiceInv ==
    /\ ServiceTyped
    /\ Len(x1) < TrackedFrom => x2.low = "unknown"
    /\ ~x6 => /\ \A e \in x3 : ServicedAt(x1, e.at)
              /\ Knows(x2, x1, Len(x1))
              /\ x5.on => Knows(x5.state, x1, x5.done) /\ x4 = x5.listed

LEMMA ReadingsAre ==
    /\ FeedReadings \subseteq Service!Reading
    /\ \A rs \in Seq(FeedReadings) : \A t \in 1 .. Len(rs) :
            rs[t] \in FeedReadings /\ rs[t] \in Service!Reading /\ rs[t].reserved \in BOOLEAN
                /\ rs[t].depot \in BOOLEAN /\ rs[t].charge \in Service!Charges
<1>1. FeedReadings \subseteq Service!Reading
    BY PipelineAssumption
<1>2. ASSUME NEW rs \in Seq(FeedReadings), NEW t \in 1 .. Len(rs) PROVE rs[t] \in FeedReadings
    OBVIOUS
<1> QED
    BY <1>1, <1>2 DEF Service!Reading

\* A reading goes through the charge rule.
LEMMA ChargeKnows ==
    ASSUME NEW rs \in Seq(FeedReadings), NEW n \in Nat, n + 1 <= Len(rs),
           NEW s \in Service!Tracked, Knows(s, rs, n)
    PROVE  /\ Service!Serviced(s, rs[n + 1]) => ServicedAt(rs, n + 1)
           /\ Knows(Service!ChargeStep(s, rs[n + 1]), rs, n + 1)
<1> DEFINE r == rs[n + 1]
<1>1. r \in Service!Reading /\ r.reserved \in BOOLEAN /\ s.rental \in BOOLEAN
    BY ReadingsAre DEF Service!Tracked
<1>2. Service!ParkedReading(s, r) <=> ParkedAt(rs, n + 1)
  <2>1. n > 0 => (s.rental <=> rs[n].reserved) /\ n + 1 > 1 /\ (n + 1) - 1 = n
      BY DEF Knows
  <2>2. n = 0 => ~s.rental /\ ~(n + 1 > 1)
      BY DEF Knows
  <2> QED
      BY <2>1, <2>2 DEF Service!ParkedReading, ParkedAt
<1>3. Service!Serviced(s, r) => ServicedAt(rs, n + 1)
    BY <1>2 DEF Service!Serviced, ServicedAt, FullAt, Knows
<1>4. ASSUME Service!ChargeStep(s, r).low = "low" PROVE LowSince(rs, n + 1)
  <2>1. CASE LowAt(rs, n + 1)
      BY <2>1 DEF LowSince
  <2>2. CASE s.low = "low" /\ ~FullAt(rs, n + 1)
    <3>1. PICK u \in 1 .. n : LowAt(rs, u) /\ \A w \in 1 .. n : u < w => ~FullAt(rs, w)
        BY <2>2 DEF Knows, LowSince
    <3>2. \A w \in 1 .. n + 1 : w \in 1 .. n \/ w = n + 1
        OBVIOUS
    <3> QED
        BY <2>2, <3>1, <3>2 DEF LowSince
  <2>3. LowAt(rs, n + 1) \/ (s.low = "low" /\ ~FullAt(rs, n + 1))
      BY <1>2, <1>4 DEF Service!ChargeStep, Service!LowAfter, LowAt, FullAt
  <2> QED
      BY <2>1, <2>2, <2>3
<1>5. Service!ChargeStep(s, r).rental = rs[n + 1].reserved
    BY DEF Service!ChargeStep
<1> QED
    BY <1>3, <1>4, <1>5 DEF Knows

LEMMA ChargeTracked ==
    ASSUME NEW s \in Service!Tracked, NEW r \in Service!Reading
    PROVE  Service!ChargeStep(s, r) \in Service!Tracked
BY DEF Service!ChargeStep, Service!LowAfter, Service!Tracked, Service!Reading

\* What was so stays so when a reading is added.
LEMMA ReadingAdded ==
    ASSUME NEW rs \in Seq(FeedReadings), NEW r \in FeedReadings, NEW more, more = Append(rs, r)
    PROVE  /\ more \in Seq(FeedReadings) /\ Len(more) = Len(rs) + 1 /\ more[Len(rs) + 1] = r
           /\ \A t \in 1 .. Len(rs) : more[t] = rs[t]
           /\ \A n \in 0 .. Len(rs) : LowSince(rs, n) => LowSince(more, n)
           /\ \A t \in Nat : ServicedAt(rs, t) => ServicedAt(more, t)
           /\ \A s, n : n \in Nat /\ n <= Len(rs) /\ Knows(s, rs, n) => Knows(s, more, n)
<1>1. /\ more \in Seq(FeedReadings) /\ Len(more) = Len(rs) + 1 /\ more[Len(rs) + 1] = r
      /\ \A t \in 1 .. Len(rs) : more[t] = rs[t]
    OBVIOUS
<1>2. \A t \in 1 .. Len(rs) : FullAt(more, t) <=> FullAt(rs, t)
    BY <1>1 DEF FullAt, ParkedAt
<1>3. \A t \in 1 .. Len(rs) : LowAt(more, t) <=> LowAt(rs, t)
    BY <1>1 DEF LowAt, ParkedAt
<1>4. \A n \in 0 .. Len(rs) : LowSince(rs, n) => LowSince(more, n)
    BY <1>2, <1>3 DEF LowSince
<1>5. \A t \in Nat : ServicedAt(rs, t) => ServicedAt(more, t)
    BY <1>1, <1>2, <1>4 DEF ServicedAt
<1>6. \A s, n : n \in Nat /\ n <= Len(rs) /\ Knows(s, rs, n) => Knows(s, more, n)
    BY <1>1, <1>4 DEF Knows
<1> QED
    BY <1>1, <1>4, <1>5, <1>6

LEMMA InitService == Service!ServicingInit => ServiceInv
<1> SUFFICES ASSUME Service!ServicingInit PROVE ServiceInv
    OBVIOUS
<1>1. /\ Service!Fresh \in Service!Tracked /\ Service!Fresh.low = "unknown" /\ ~Service!Fresh.rental
    BY DEF Service!Fresh, Service!Tracked
<1>2. Service!NotReplaying \in ReplayState /\ ~Service!NotReplaying.on
        /\ Service!NotReplaying.done = 0 /\ Service!NotReplaying.listed = 0
    BY <1>1 DEF Service!NotReplaying, ReplayState
<1>3. x1 = <<>> /\ x2 = Service!Fresh /\ x3 = {} /\ x4 = 0 /\ x5 = Service!NotReplaying
    BY DEF Service!ServicingInit
<1>4. x6 \in BOOLEAN
    BY Zenon DEF Service!ServicingInit
<1>5. Knows(x2, x1, Len(x1))
    BY <1>1, <1>3 DEF Knows
<1> QED
    BY <1>1, <1>2, <1>3, <1>4, <1>5, Bounds DEF ServiceInv, ServiceTyped

\* Of two servicings of one log, the vehicle was seen low, parked, in between.
LEMMA ServiceHolds == ServiceInv => Service!EachServicingLoggedOnce
<1> SUFFICES ASSUME ServiceInv, ~x6, NEW e \in x3, NEW f \in x3, e.at < f.at
             PROVE  \E t \in (e.at + 1) .. (f.at - 1) :
                        /\ x1[t].charge = "low" /\ ~x1[t].reserved
                        /\ t > 1 => ~x1[t - 1].reserved
    BY DEF Service!EachServicingLoggedOnce
<1>1. ServicedAt(x1, e.at) /\ ServicedAt(x1, f.at)
    BY DEF ServiceInv
<1>2. PICK u \in 1 .. f.at - 1 : LowAt(x1, u) /\ \A w \in 1 .. f.at - 1 : u < w => ~FullAt(x1, w)
    BY <1>1 DEF ServicedAt, LowSince
<1>3. e.at \in 1 .. Len(x1) /\ f.at \in 1 .. Len(x1) /\ FullAt(x1, e.at)
    BY <1>1 DEF ServicedAt
<1>4. e.at # u
    BY <1>2, <1>3 DEF LowAt, FullAt
<1>5. e.at < u
    BY <1>2, <1>3, <1>4
<1> QED
    BY <1>2, <1>3, <1>5 DEF LowAt, ParkedAt

\* Reading by reading, the replay of the buffer knows what it has seen.
LEMMA BufferReplayed ==
    ASSUME ServiceInv, ~x6, x5.on, x5.done = x5.listed,
           NEW t \in Service!Replayed(x5.done, x5.state)
    PROVE  ServicedAt(x1, t)
<1> DEFINE from == x5.done
           s == x5.state
           held == {u \in (from + 1) .. Len(x1) : u > x4 /\ u < Service!Until}
           State == CHOOSE f : f = [u \in from .. Len(x1) |->
                        IF u = from THEN s
                        ELSE IF u \in held THEN Service!ChargeStep(f[u - 1], x1[u]) ELSE f[u - 1]]
<1>typed. /\ x1 \in Seq(FeedReadings) /\ from \in Nat /\ from = x4 /\ from <= Len(x1)
          /\ s \in Service!Tracked /\ Knows(s, x1, from)
    BY DEF ServiceInv, ServiceTyped, ReplayState
<1>until. Service!Until \in Nat
  <2> DEFINE live == {e.at : e \in {f \in x3 : f.source = "ingest"}}
  <2>1. live \in SUBSET Nat
      BY DEF ServiceInv, ServiceTyped, Service!Event
  <2>2. CASE live = {}
      BY <2>2, <1>typed DEF Service!Until
  <2>3. CASE live # {}
    <3>1. \E least \in live : \A n \in live : least <= n
        BY <2>1, <2>3, LeastNumber
    <3> QED
        BY <2>1, <2>3, <3>1 DEF Service!Until
  <2> QED
      BY <2>2, <2>3
<1>1. Service!Replayed(from, s) = {u \in held : Service!Serviced(State[u - 1], x1[u])}
    BY DEF Service!Replayed
<1>2. \A u \in held : u \in Nat /\ from < u /\ u <= Len(x1) /\ (u - 1 = from \/ u - 1 \in held)
    BY <1>typed, <1>until
<1>3. State = [u \in from .. Len(x1) |->
                IF u = from THEN s
                ELSE IF u \in held THEN Service!ChargeStep(State[u - 1], x1[u]) ELSE State[u - 1]]
  <2> DEFINE Takes(v, u) == IF u \in held THEN Service!ChargeStep(v, x1[u]) ELSE v
             Reaches(k, f) == f = [u \in from .. k |-> IF u = from THEN s ELSE Takes(f[u - 1], u)]
             short == {k \in from .. Len(x1) : ~\E f : Reaches(k, f)}
  <2> HIDE DEF held, Takes, s
  <2>1. ASSUME short # {} PROVE FALSE
    <3>1. short \in SUBSET Nat
        BY <1>typed
    <3> HIDE DEF short
    <3>2. PICK k \in short : \A n \in short : k <= n
        BY <2>1, <3>1, LeastNumber
    <3> USE DEF short
    <3>3. k \in from .. Len(x1) /\ ~\E f : Reaches(k, f)
        BY <3>2
    <3>4. k # from
      <4>1. Reaches(from, [u \in from .. from |-> s])
          BY <1>typed
      <4> QED
          BY <3>3, <4>1
    <3>5. k - 1 \in from .. Len(x1) /\ k - 1 \notin short
        BY <1>typed, <3>2, <3>3, <3>4
    <3>6. PICK f : Reaches(k - 1, f)
        BY <3>5
    <3> DEFINE g == [u \in from .. k |-> IF u < k THEN f[u] ELSE Takes(f[k - 1], k)]
    <3>7. \A u \in from .. k : g[u] = IF u = from THEN s ELSE Takes(g[u - 1], u)
      <4>1. CASE k - 1 < from
          BY <4>1, <1>typed, <3>5
      <4>2. ASSUME NEW u \in from .. k, u < k PROVE g[u] = IF u = from THEN s ELSE Takes(g[u - 1], u)
        <5>1. u \in from .. k - 1
            BY <4>2, <1>typed, <3>3
        <5>2. f[u] = IF u = from THEN s ELSE Takes(f[u - 1], u)
            BY <3>6, <5>1
        <5>3. u # from => u - 1 \in from .. k /\ u - 1 < k
            BY <4>2, <1>typed, <3>3
        <5> QED
            BY <4>2, <5>2, <5>3
      <4>3. g[k] = Takes(g[k - 1], k)
          BY <1>typed, <3>3, <3>4
      <4> QED
          BY <4>2, <4>3, <3>4, <1>typed, <3>3
    <3>8. Reaches(k, g)
        BY <3>7
    <3> QED
        BY <3>3, <3>8
  <2>2. \E f : Reaches(Len(x1), f)
      BY <2>1, <1>typed
  <2>3. State = CHOOSE f : Reaches(Len(x1), f)
      BY DEF Takes
  <2> HIDE DEF State, Reaches
  <2>4. Reaches(Len(x1), State)
      BY <2>2, <2>3
  <2> QED
      BY <2>4 DEF Reaches, Takes
<1> HIDE DEF State
<1>4. \A u \in from .. Len(x1) : u = from \/ u \in held =>
          State[u] \in Service!Tracked /\ Knows(State[u], x1, u)
  <2> DEFINE wrong == {u \in from .. Len(x1) :
                        (u = from \/ u \in held) /\ ~(State[u] \in Service!Tracked /\ Knows(State[u], x1, u))}
  <2>1. ASSUME wrong # {} PROVE FALSE
    <3>1. wrong \in SUBSET Nat
        BY <1>typed
    <3> HIDE DEF wrong
    <3>2. PICK k \in wrong : \A n \in wrong : k <= n
        BY <2>1, <3>1, LeastNumber
    <3> USE DEF wrong
    <3>3. k # from
      <4>1. State[from] = s
          BY <1>typed, <1>3
      <4> QED
          BY <3>2, <4>1, <1>typed
    <3>4. k \in held /\ k \in from .. Len(x1)
        BY <3>2, <3>3
    <3> HIDE DEF held
    <3>5. k - 1 \in Nat /\ (k - 1) + 1 = k /\ k <= Len(x1) /\ k - 1 \in from .. Len(x1)
            /\ (k - 1 = from \/ k - 1 \in held)
        BY <1>2, <1>typed, <3>4
    <3>6. State[k - 1] \in Service!Tracked /\ Knows(State[k - 1], x1, k - 1)
        BY <3>2, <3>5
    <3>7. State[k] = Service!ChargeStep(State[k - 1], x1[k])
        BY <1>3, <3>3, <3>4
    <3>8. x1[k] \in Service!Reading
        BY <1>typed, <3>4, <3>5, ReadingsAre
    <3>9. State[k] \in Service!Tracked /\ Knows(State[k], x1, k)
        BY <1>typed, <3>5, <3>6, <3>7, <3>8, ChargeTracked, ChargeKnows
    <3> QED
        BY <3>2, <3>9
  <2> QED
      BY <2>1
<1>5. t \in held /\ Service!Serviced(State[t - 1], x1[t])
    BY <1>1
<1> HIDE DEF held
<1>6. t - 1 \in Nat /\ (t - 1) + 1 = t /\ t <= Len(x1) /\ t - 1 \in from .. Len(x1)
        /\ (t - 1 = from \/ t - 1 \in held)
    BY <1>2, <1>typed, <1>5
<1>7. State[t - 1] \in Service!Tracked /\ Knows(State[t - 1], x1, t - 1)
    BY <1>4, <1>6
<1> QED
    BY <1>typed, <1>5, <1>6, <1>7, ChargeKnows

LEMMA ServiceStep ==
    ASSUME ServiceInv, Service!ServicingNext
    PROVE  ServiceInv'
<1>typed. /\ x1 \in Seq(FeedReadings) /\ Len(x1) \in Nat /\ x2 \in Service!Tracked /\ x4 \in Nat
          /\ x5 \in ReplayState /\ x5.done \in Nat /\ x5.listed \in Nat /\ x5.state \in Service!Tracked
    BY DEF ServiceInv, ServiceTyped, ReplayState
<1>fresh. /\ Service!Fresh \in Service!Tracked /\ ~Service!Fresh.rental /\ Service!Fresh.low = "unknown"
          /\ Service!NotReplaying \in ReplayState /\ ~Service!NotReplaying.on
          /\ Service!NotReplaying.done = 0 /\ Service!NotReplaying.listed = 0
          /\ Service!NotReplaying.state = Service!Fresh
    BY DEF Service!Fresh, Service!Tracked, Service!NotReplaying, ReplayState
<1>logged. \A at \in Nat, from \in {"ingest", "backfill"} :
                /\ Service!Logged(at, from) \subseteq x3 \cup {[at |-> at, source |-> from]}
                /\ [at |-> at, source |-> from] \in Service!Event
    BY DEF Service!Logged, Service!Event
<1>1. ASSUME NEW r \in FeedReadings, NEW applied \in BOOLEAN, NEW visited \in BOOLEAN,
             Service!FeedCycle(r, applied, visited)
      PROVE  ServiceInv'
  <2> DEFINE at == Len(x1) + 1
             tracks == applied /\ at >= TrackedFrom
  <2>1. /\ at <= MaxFeedReadings /\ x1' = Append(x1, r) /\ UNCHANGED <<x4, x5>>
        /\ x2' = IF tracks THEN Service!ChargeStep(x2, r)
                 ELSE IF applied THEN [x2 EXCEPT !.rental = r.reserved] ELSE x2
        /\ x3' = IF tracks /\ Service!Serviced(x2, r) THEN Service!Logged(at, "ingest") ELSE x3
      BY <1>1 DEF Service!FeedCycle
  <2>2. x6' \in BOOLEAN /\ (~x6' => ~x6 /\ applied)
      BY <1>1 DEF Service!FeedCycle
  <2>3. /\ x1' \in Seq(FeedReadings) /\ Len(x1') = at /\ x1'[at] = r
        /\ \A e \in Nat : ServicedAt(x1, e) => ServicedAt(x1', e)
        /\ \A s, n : n \in Nat /\ n <= Len(x1) /\ Knows(s, x1, n) => Knows(s, x1', n)
      BY <2>1, <1>typed, ReadingAdded
  <2>4. r \in Service!Reading /\ r.reserved \in BOOLEAN
      BY ReadingsAre DEF Service!Reading
  <2>5. Service!ChargeStep(x2, r) \in Service!Tracked
      BY <1>typed, <2>4, ChargeTracked
  <2>6. /\ [x2 EXCEPT !.rental = r.reserved] \in Service!Tracked
        /\ [x2 EXCEPT !.rental = r.reserved].low = x2.low
            /\ [x2 EXCEPT !.rental = r.reserved].rental = r.reserved
      BY <1>typed, <2>4 DEF Service!Tracked
  <2>7. at \in Nat /\ x3' \subseteq x3 \cup {[at |-> at, source |-> "ingest"]}
            /\ [at |-> at, source |-> "ingest"] \in Service!Event
    <3>1. at \in Nat
        BY <1>typed
    <3> HIDE DEF at
    <3>2. Service!Logged(at, "ingest") \subseteq x3 \cup {[at |-> at, source |-> "ingest"]}
            /\ [at |-> at, source |-> "ingest"] \in Service!Event
        BY <3>1, <1>logged
    <3> QED
        BY <2>1, <3>1, <3>2
  <2>8. ServiceTyped'
      BY <1>typed, <2>1, <2>2, <2>3, <2>5, <2>6, <2>7 DEF ServiceInv, ServiceTyped
  <2>9. at < TrackedFrom => x2'.low = "unknown"
    <3>1. ASSUME at < TrackedFrom PROVE Len(x1) < TrackedFrom /\ ~tracks
        BY <3>1, <1>typed, Bounds
    <3> QED
        BY <2>1, <2>6, <3>1 DEF ServiceInv
  <2>10. ASSUME ~x6' PROVE (\A e \in x3 : ServicedAt(x1, e.at))' /\ Knows(x2', x1', at)
    <3>1. applied /\ Knows(x2, x1', Len(x1)) /\ \A e \in x3 : ServicedAt(x1', e.at)
      <4>1. \A e \in x3 : e.at \in Nat
          BY DEF ServiceInv, ServiceTyped, Service!Event
      <4> QED
          BY <2>2, <2>3, <2>10, <1>typed, <4>1 DEF ServiceInv
    <3>2. CASE at >= TrackedFrom
      <4>1. /\ Service!Serviced(x2, r) => ServicedAt(x1', at)
            /\ Knows(Service!ChargeStep(x2, r), x1', at)
          BY <1>typed, <2>3, <3>1, ChargeKnows
      <4> QED
          BY <2>1, <2>7, <3>1, <3>2, <4>1
    <3>3. CASE at < TrackedFrom
      <4>1. x2' = [x2 EXCEPT !.rental = r.reserved] /\ x3' = x3 /\ x2'.low = "unknown"
        <5>1. ~tracks
            BY <3>3, Bounds, <1>typed
        <5> QED
            BY <2>1, <2>9, <3>1, <3>3, <5>1
      <4>2. Knows(x2', x1', at)
          BY <2>3, <2>6, <1>typed, <4>1 DEF Knows
      <4> QED
          BY <3>1, <4>1, <4>2
    <3> QED
        BY <3>2, <3>3, <1>typed, Bounds
  <2>11. ASSUME ~x6', x5.on PROVE Knows(x5.state, x1', x5.done) /\ x4 = x5.listed
      BY <2>2, <2>3, <2>11, <1>typed DEF ServiceInv, ServiceTyped
  <2> QED
      BY <2>1, <2>3, <2>8, <2>9, <2>10, <2>11 DEF ServiceInv
<1>2. CASE Service!ArchiveReadings
  <2>1. x4' = Len(x1) /\ x4 < Len(x1) /\ UNCHANGED <<x1, x2, x3, x5>>
      BY <1>2 DEF Service!ArchiveReadings
  <2>2. x6' \in BOOLEAN /\ (~x6' => ~x6 /\ ~x5.on)
      BY <1>2, <1>typed DEF Service!ArchiveReadings, ReplayState
  <2> QED
      BY <2>1, <2>2, <1>typed DEF ServiceInv, ServiceTyped
<1>3. CASE Service!StartReplay
  <2>1. UNCHANGED <<x1, x2, x3, x4, x6>> /\ x5' = [Service!NotReplaying EXCEPT !.on = TRUE, !.listed = x4]
      BY <1>3 DEF Service!StartReplay
  <2>2. x5' \in ReplayState /\ x5'.done = 0 /\ x5'.listed = x4 /\ x5'.state = Service!Fresh
      BY <2>1, <1>fresh, <1>typed DEF ReplayState
  <2>3. Knows(Service!Fresh, x1, 0)
      BY <1>fresh DEF Knows
  <2> QED
      BY <2>1, <2>2, <2>3, <1>typed DEF ServiceInv, ServiceTyped
<1>4. CASE Service!ReplayDay
  <2> DEFINE at == x5.done + 1
             r == x1[at]
             s == x5.state
  <2>1. /\ x5.on /\ x5.done < x5.listed /\ UNCHANGED <<x1, x2, x4, x6>>
        /\ x5' = [x5 EXCEPT !.done = at, !.state = Service!ChargeStep(s, r)]
        /\ x3' = IF Service!Serviced(s, r) THEN Service!Logged(at, "backfill") ELSE x3
      BY <1>4 DEF Service!ReplayDay
  <2>2. at \in 1 .. Len(x1) /\ at <= x5.listed /\ r \in Service!Reading
      BY <2>1, <1>typed, ReadingsAre DEF ServiceInv, ServiceTyped
  <2>3. Service!ChargeStep(s, r) \in Service!Tracked
      BY <2>2, <1>typed, ChargeTracked
  <2>4. /\ x5' \in ReplayState /\ x5'.done = at /\ x5'.listed = x5.listed /\ x5'.on = x5.on
        /\ x5'.state = Service!ChargeStep(s, r)
    <3>1. at \in Nat /\ Service!ChargeStep(s, r) \in Service!Tracked
        BY <2>3, <1>typed
    <3> HIDE DEF at, s, r
    <3> QED
        BY <2>1, <3>1, <1>typed DEF ReplayState
  <2>5. x3' \subseteq x3 \cup {[at |-> at, source |-> "backfill"]}
            /\ [at |-> at, source |-> "backfill"] \in Service!Event
    <3>1. at \in Nat
        BY <1>typed
    <3> HIDE DEF at
    <3>2. Service!Logged(at, "backfill") \subseteq x3 \cup {[at |-> at, source |-> "backfill"]}
            /\ [at |-> at, source |-> "backfill"] \in Service!Event
        BY <3>1, <1>logged
    <3> QED
        BY <2>1, <3>1, <3>2
  <2>6. ServiceTyped'
      BY <2>1, <2>2, <2>4, <2>5 DEF ServiceInv, ServiceTyped
  <2>7. ASSUME ~x6 PROVE (\A e \in x3 : ServicedAt(x1, e.at))' /\ Knows(x5'.state, x1, at)
    <3>1. /\ Service!Serviced(s, r) => ServicedAt(x1, at)
          /\ Knows(Service!ChargeStep(s, r), x1, at)
        BY <1>typed, <2>1, <2>2, <2>7, ChargeKnows DEF ServiceInv
    <3> QED
        BY <2>1, <2>4, <2>5, <2>7, <3>1 DEF ServiceInv
  <2> QED
      BY <2>1, <2>4, <2>6, <2>7 DEF ServiceInv
<1>5. CASE Service!StopReplay
  <2>1. UNCHANGED <<x1, x2, x3, x4, x6>> /\ x5' = Service!NotReplaying
      BY <1>5 DEF Service!StopReplay
  <2>2. x5' \in ReplayState /\ ~x5'.on /\ x5'.done = 0 /\ x5'.listed = 0
      BY <2>1, <1>fresh
  <2> QED
      BY <2>1, <2>2, <1>typed DEF ServiceInv, ServiceTyped
<1>6. CASE Service!ReplayBuffer
  <2>1. /\ x5.on /\ x5.done = x5.listed /\ UNCHANGED <<x1, x2, x4, x6>> /\ x5' = Service!NotReplaying
        /\ x3' = x3 \cup {[at |-> t, source |-> "backfill"] : t \in
                            {u \in Service!Replayed(x5.done, x5.state) : \A e \in x3 : e.at # u}}
      BY <1>6 DEF Service!ReplayBuffer
  <2>2. x5' \in ReplayState /\ ~x5'.on /\ x5'.done = 0 /\ x5'.listed = 0
      BY <2>1, <1>fresh
  <2>3. Service!Replayed(x5.done, x5.state) \subseteq Nat
      BY <1>typed DEF Service!Replayed
  <2>4. ServiceTyped'
      BY <2>1, <2>2, <2>3, <1>typed DEF ServiceInv, ServiceTyped, Service!Event
  <2>5. ASSUME ~x6 PROVE (\A e \in x3 : ServicedAt(x1, e.at))'
    <3>1. \A t \in Service!Replayed(x5.done, x5.state) : ServicedAt(x1, t)
        BY <2>1, <2>5, BufferReplayed
    <3>2. \A e \in x3' : e \in x3 \/ \E t \in Service!Replayed(x5.done, x5.state) : e.at = t
        BY <2>1
    <3> QED
        BY <2>1, <2>5, <3>1, <3>2 DEF ServiceInv
  <2> QED
      BY <2>1, <2>2, <2>4, <2>5 DEF ServiceInv
<1>7. CASE Service!StartRebuild \/ Service!FinishRebuild
  <2>1. UNCHANGED <<x1, x2, x3, x4, x5, x6>>
      BY <1>7 DEF Service!StartRebuild, Service!FinishRebuild
  <2> QED
      BY <2>1 DEF ServiceInv, ServiceTyped
<1> QED
    BY <1>1, <1>2, <1>3, <1>4, <1>5, <1>6, <1>7 DEF Service!ServicingNext

\* A stop in a depot, and one outside.
InsideAt(rs, t)  == rs[t].depot /\ ~rs[t].reserved
OutsideAt(rs, t) == ~rs[t].depot /\ ~rs[t].reserved
Left(rs, t, u) == \E w \in 1 .. Len(rs) : t < w /\ w < u /\ OutsideAt(rs, w)

\* The first stop of a stay.
FirstInside(rs, t) ==
    /\ t \in 1 .. Len(rs) /\ InsideAt(rs, t)
    /\ \A u \in 1 .. Len(rs) : u < t /\ InsideAt(rs, u) => Left(rs, u, t)

\* A visit begins with a stop inside and is over by the first stop outside.
VisitFine(rs, v) ==
    /\ v.entered \in 1 .. Len(rs) /\ InsideAt(rs, v.entered)
    /\ v.exited # 0 => v.exited \in 1 .. Len(rs) /\ v.entered < v.exited
    /\ \A t \in 1 .. Len(rs) : v.entered < t /\ (v.exited = 0 \/ t < v.exited) => ~OutsideAt(rs, t)
    /\ v.source = "backfill" => FirstInside(rs, v.entered)

\* A stay, as the stop history shows it.
IsStay(rs, s) ==
    /\ s.source = "backfill" /\ VisitFine(rs, s)
    /\ s.exited # 0 => OutsideAt(rs, s.exited)

Before(v, w) == v.exited # 0 /\ v.exited <= w.entered

\* What OneVisitAtATime leaves out: a rental inside a depot.
Tidy(rs) == \A t \in 1 .. Len(rs) : ~(rs[t].depot /\ rs[t].reserved)

VisitInv ==
    /\ x1 \in Seq(FeedReadings) /\ x6 \in BOOLEAN
    /\ x7 \subseteq Service!Visit
    /\ x8 \in [on : BOOLEAN, found : SUBSET Service!Visit]
    /\ Len(x1) < TrackedFrom => x7 = {} /\ ~x8.on
    /\ ~x6 /\ Tidy(x1) =>
          /\ \A v \in x7 : VisitFine(x1, v)
          /\ \A v, w \in x7 : v # w => Before(v, w) \/ Before(w, v)
          /\ x8.on => \A s \in x8.found : IsStay(x1, s)

LEMMA InitVisit == Service!ServicingInit => VisitInv
<1> SUFFICES ASSUME Service!ServicingInit PROVE VisitInv
    OBVIOUS
<1>1. x1 = <<>> /\ x7 = {} /\ x8 = Service!NotRebuilding
    BY DEF Service!ServicingInit
<1>2. x6 \in BOOLEAN
    BY Zenon DEF Service!ServicingInit
<1>3. Service!NotRebuilding \in [on : BOOLEAN, found : SUBSET Service!Visit] /\ ~Service!NotRebuilding.on
    BY DEF Service!NotRebuilding
<1> QED
    BY <1>1, <1>2, <1>3 DEF VisitInv

LEMMA VisitHolds == VisitInv => Service!OneVisitAtATime
<1> SUFFICES ASSUME VisitInv, ~x6, Tidy(x1), NEW v \in x7, NEW w \in x7, v # w
             PROVE  \/ v.exited # Service!StillInside /\ v.exited <= w.entered
                    \/ w.exited # Service!StillInside /\ w.exited <= v.entered
    BY DEF Service!OneVisitAtATime, Tidy
<1> QED
    BY DEF VisitInv, Before, Service!StillInside

\* A visit that begins before a stay does is over when the vehicle has left in between.
LEMMA OverByThen ==
    ASSUME NEW rs \in Seq(FeedReadings), NEW v \in Service!Visit, NEW s \in Service!Visit, VisitFine(rs, v),
           FirstInside(rs, s.entered), v.entered < s.entered
    PROVE  Before(v, s)
<1>1. PICK w \in 1 .. Len(rs) : v.entered < w /\ w < s.entered /\ OutsideAt(rs, w)
    BY DEF VisitFine, FirstInside, Left
<1> QED
    BY <1>1 DEF VisitFine, Before, Service!Visit

\* The stays are visits that a backfill would add.
LEMMA StaysFine ==
    ASSUME x1 \in Seq(FeedReadings), NEW s \in Service!Stays
    PROVE  s \in Service!Visit /\ IsStay(x1, s)
<1> DEFINE stops == {t \in 1 .. Len(x1) : ~x1[t].reserved}
           Out(t) == {u \in stops : u > t /\ ~x1[u].depot}
<1>1. PICK t \in stops :
            /\ x1[t].depot
            /\ \A u \in stops : u < t => \/ ~x1[u].depot
                                         \/ \E w \in stops : u < w /\ w < t /\ ~x1[w].depot
            /\ s = [entered |-> t, source |-> "backfill",
                    exited |-> IF Out(t) = {} THEN 0
                               ELSE CHOOSE u \in Out(t) : \A w \in Out(t) : u <= w]
    BY DEF Service!Stays, Service!StillInside
<1>2. FirstInside(x1, t)
    BY <1>1 DEF FirstInside, InsideAt, OutsideAt, Left
<1>3. CASE Out(t) = {}
  <2>1. s.exited = 0 /\ s.entered = t /\ s.source = "backfill" /\ s \in Service!Visit
      BY <1>1, <1>3 DEF Service!Visit
  <2> QED
      BY <1>1, <1>2, <1>3, <2>1 DEF IsStay, VisitFine, FirstInside, OutsideAt
<1>4. CASE Out(t) # {}
  <2>1. Out(t) \in SUBSET Nat
      OBVIOUS
  <2>2. \E u \in Out(t) : \A w \in Out(t) : u <= w
    <3> HIDE DEF Out
    <3> QED
        BY <1>4, <2>1, LeastNumber
  <2>3. PICK u \in Out(t) : /\ u = CHOOSE k \in Out(t) : \A w \in Out(t) : k <= w
                            /\ \A w \in Out(t) : u <= w
      BY <2>2
  <2>4. s.exited = u /\ s.entered = t /\ s.source = "backfill" /\ s \in Service!Visit
      BY <1>1, <1>4, <2>3, SMTT(30) DEF Service!Visit
  <2>5. \A k \in 1 .. Len(x1) : t < k /\ k < u => ~OutsideAt(x1, k)
    <3>1. \A k \in 1 .. Len(x1) : t < k /\ OutsideAt(x1, k) => k \in Out(t)
        BY DEF OutsideAt
    <3> HIDE DEF Out
    <3> QED
        BY <2>3, <2>1, <3>1
  <2>6. u \in 1 .. Len(x1) /\ t < u /\ OutsideAt(x1, u)
      BY <2>3 DEF OutsideAt
  <2> QED
      BY <1>2, <2>4, <2>5, <2>6 DEF IsStay, VisitFine, FirstInside
<1> QED
    BY <1>3, <1>4

\* A visit goes on, or is over, as a reading is added.
LEMMA VisitGoesOn ==
    ASSUME NEW rs \in Seq(FeedReadings), NEW r \in FeedReadings, NEW more, more = Append(rs, r)
    PROVE  /\ more \in Seq(FeedReadings) /\ Len(more) = Len(rs) + 1 /\ more[Len(rs) + 1] = r
           /\ Tidy(more) => Tidy(rs) /\ (r.depot => ~r.reserved)
           /\ \A v \in Service!Visit : VisitFine(rs, v) /\ (v.exited # 0 \/ r.depot) => VisitFine(more, v)
           /\ \A v \in Service!Visit : VisitFine(rs, v) /\ v.exited = 0
                => VisitFine(more, [v EXCEPT !.exited = Len(rs) + 1])
<1>1. /\ more \in Seq(FeedReadings) /\ Len(more) = Len(rs) + 1 /\ more[Len(rs) + 1] = r
      /\ \A t \in 1 .. Len(rs) : more[t] = rs[t]
    OBVIOUS
<1>2. \A t \in 1 .. Len(rs) : /\ InsideAt(more, t) <=> InsideAt(rs, t)
                             /\ (OutsideAt(more, t) <=> OutsideAt(rs, t))
    BY <1>1 DEF InsideAt, OutsideAt
<1>3. \A t \in 1 .. Len(rs) : FirstInside(rs, t) => FirstInside(more, t)
    BY <1>1, <1>2 DEF FirstInside, Left
<1>4. Tidy(more) => Tidy(rs) /\ (r.depot => ~r.reserved)
    BY <1>1 DEF Tidy
<1>5. ASSUME NEW v \in Service!Visit, VisitFine(rs, v), v.exited # 0 \/ r.depot PROVE VisitFine(more, v)
  <2>1. v.entered \in Nat /\ v.exited \in Nat
      BY DEF Service!Visit
  <2>2. ~OutsideAt(more, Len(rs) + 1) \/ (v.exited # 0 /\ v.exited <= Len(rs))
      BY <1>1, <1>5 DEF OutsideAt, VisitFine
  <2> QED
      BY <1>1, <1>2, <1>3, <1>5, <2>1, <2>2 DEF VisitFine
<1>6. ASSUME NEW v \in Service!Visit, VisitFine(rs, v), v.exited = 0
      PROVE  VisitFine(more, [v EXCEPT !.exited = Len(rs) + 1])
  <2> DEFINE closed == [v EXCEPT !.exited = Len(rs) + 1]
  <2>1. /\ closed.entered = v.entered /\ closed.exited = Len(rs) + 1 /\ closed.source = v.source
        /\ v.entered \in Nat
      BY DEF Service!Visit
  <2> HIDE DEF closed
  <2> QED
      BY <1>1, <1>2, <1>3, <1>6, <2>1 DEF VisitFine
<1> QED
    BY <1>1, <1>4, <1>5, <1>6

LEMMA VisitStep ==
    ASSUME VisitInv, Service!ServicingNext
    PROVE  VisitInv'
<1>typed. /\ x1 \in Seq(FeedReadings) /\ Len(x1) \in Nat /\ x7 \subseteq Service!Visit
          /\ x8 \in [on : BOOLEAN, found : SUBSET Service!Visit]
    BY DEF VisitInv
<1>none. Service!NotRebuilding \in [on : BOOLEAN, found : SUBSET Service!Visit] /\ ~Service!NotRebuilding.on
    BY DEF Service!NotRebuilding
<1>1. ASSUME NEW r \in FeedReadings, NEW applied \in BOOLEAN, NEW visited \in BOOLEAN,
             Service!FeedCycle(r, applied, visited)
      PROVE  VisitInv'
  <2> DEFINE now == Len(x1) + 1
  <2>1. /\ x1' = Append(x1, r) /\ x8' = x8
        /\ \/ visited /\ now >= TrackedFrom /\ x7' \in Service!VisitsAfter(now, r)
           \/ (~visited \/ now < TrackedFrom) /\ x7' = x7
      BY <1>1 DEF Service!FeedCycle
  <2>2. x6' \in BOOLEAN /\ (~x6' => ~x6 /\ ~x8.on /\ (now >= TrackedFrom => visited))
      BY <1>1, <1>typed DEF Service!FeedCycle
  <2>3. /\ x1' \in Seq(FeedReadings) /\ Len(x1') = now /\ x1'[now] = r
        /\ Tidy(x1') => Tidy(x1) /\ (r.depot => ~r.reserved)
        /\ \A v \in Service!Visit : VisitFine(x1, v) /\ (v.exited # 0 \/ r.depot) => VisitFine(x1', v)
        /\ \A v \in Service!Visit : VisitFine(x1, v) /\ v.exited = 0
                => VisitFine(x1', [v EXCEPT !.exited = now])
      BY <2>1, <1>typed, VisitGoesOn
  <2>4. now \in Nat /\ now > Len(x1) /\ TrackedFrom \in Nat
      BY <1>typed, Bounds
  <2> DEFINE open == {v \in x7 : v.exited = 0}
             begun == [entered |-> now, exited |-> 0, source |-> "ingest"]
             closed(v) == [v EXCEPT !.exited = now]
  <2>5. begun \in Service!Visit /\ \A v \in x7 : /\ closed(v) \in Service!Visit /\ closed(v).exited = now
                                                 /\ closed(v).entered = v.entered
      BY <1>typed, <2>4 DEF Service!Visit
  <2>6. ASSUME now >= TrackedFrom, visited
        PROVE  \/ r.depot /\ open = {} /\ x7' = x7 \cup {begun}
               \/ r.depot /\ (open # {} \/ \E v \in x7 : v.entered = now) /\ x7' = x7
               \/ ~r.depot /\ open = {} /\ x7' = x7
               \/ ~r.depot /\ \E v \in open : x7' = (x7 \ {v}) \cup {closed(v)}
      BY <2>1, <2>4, <2>6 DEF Service!VisitsAfter, Service!StillInside
  <2> HIDE DEF now
  <2>7. x7' \subseteq Service!Visit
    <3>1. CASE now >= TrackedFrom /\ visited
      <4> HIDE DEF begun, closed
      <4> QED
          BY <1>typed, <2>5, <2>6, <3>1
    <3> QED
        BY <1>typed, <2>1, <3>1
  <2>8. now < TrackedFrom => x7' = {} /\ ~x8.on
      BY <2>1, <2>4 DEF VisitInv, now
  <2>9. ASSUME ~x6', Tidy(x1')
        PROVE  /\ \A v \in x7' : VisitFine(x1', v)
               /\ \A v, w \in x7' : v # w => Before(v, w) \/ Before(w, v)
    <3>1. /\ \A v \in x7 : VisitFine(x1, v)
          /\ \A v, w \in x7 : v # w => Before(v, w) \/ Before(w, v)
        BY <2>2, <2>3, <2>9 DEF VisitInv
    <3>2. \A v \in x7 : /\ v.entered \in Nat /\ v.entered <= Len(x1)
                        /\ v.exited \in Nat /\ v.exited <= Len(x1)
        BY <3>1, <1>typed DEF VisitFine, Service!Visit
    <3>3. CASE now < TrackedFrom
        BY <2>8, <3>3
    <3>4. CASE r.depot /\ open = {} /\ x7' = x7 \cup {begun}
      <4>1. InsideAt(x1', now)
          BY <2>3, <2>9, <3>4 DEF InsideAt
      <4>2. VisitFine(x1', begun)
          BY <2>3, <2>4, <4>1 DEF VisitFine
      <4>3. \A v \in x7 : VisitFine(x1', v)
          BY <1>typed, <2>3, <3>1, <3>4
      <4>4. \A v \in x7 : Before(v, begun)
          BY <2>4, <3>2, <3>4 DEF Before
      <4> HIDE DEF begun
      <4> QED
          BY <3>1, <3>4, <4>2, <4>3, <4>4
    <3>5. CASE r.depot /\ x7' = x7
        BY <1>typed, <2>3, <3>1, <3>5
    <3>6. CASE open = {} /\ x7' = x7
        BY <1>typed, <2>3, <3>1, <3>6
    <3>7. ASSUME NEW v \in open, x7' = (x7 \ {v}) \cup {closed(v)}
          PROVE  /\ \A u \in x7' : VisitFine(x1', u)
                 /\ \A u, w \in x7' : u # w => Before(u, w) \/ Before(w, u)
      <4>1. \A w \in x7 \ {v} : Before(w, v)
          BY <3>1, <3>7 DEF Before
      <4>2. \A w \in x7 \ {v} : Before(w, closed(v)) /\ w.exited # 0
          BY <2>5, <4>1 DEF Before
      <4>3. \A w \in x7 \ {v} : VisitFine(x1', w)
          BY <1>typed, <2>3, <3>1, <4>2
      <4>4. VisitFine(x1', closed(v))
          BY <1>typed, <2>3, <3>1
      <4> HIDE DEF closed
      <4> QED
          BY <3>1, <3>7, <4>2, <4>3, <4>4
    <3> QED
        BY <2>2, <2>4, <2>6, <2>9, <3>3, <3>4, <3>5, <3>6, <3>7
  <2> QED
      BY <1>typed, <2>1, <2>2, <2>3, <2>7, <2>8, <2>9 DEF VisitInv
<1>2. CASE Service!ArchiveReadings
  <2>1. UNCHANGED <<x1, x7, x8>>
      BY <1>2 DEF Service!ArchiveReadings
  <2>2. x6' \in BOOLEAN /\ (~x6' => ~x6)
      BY <1>2 DEF Service!ArchiveReadings, VisitInv
  <2> QED
      BY <2>1, <2>2 DEF VisitInv
<1>3. CASE Service!StartReplay \/ Service!ReplayDay \/ Service!StopReplay \/ Service!ReplayBuffer
  <2>1. UNCHANGED <<x1, x6, x7, x8>>
      BY <1>3 DEF Service!StartReplay, Service!ReplayDay, Service!StopReplay, Service!ReplayBuffer
  <2> QED
      BY <2>1 DEF VisitInv
<1>4. CASE Service!StartRebuild
  <2>1. UNCHANGED <<x1, x6, x7>> /\ x8' = [on |-> TRUE, found |-> Service!Stays] /\ Len(x1) >= TrackedFrom
      BY <1>4 DEF Service!StartRebuild
  <2>2. \A s \in Service!Stays : s \in Service!Visit /\ IsStay(x1, s)
      BY <1>typed, StaysFine
  <2>3. x8' \in [on : BOOLEAN, found : SUBSET Service!Visit] /\ x8'.found = Service!Stays
      BY <2>1, <2>2
  <2> QED
      BY <1>typed, <2>1, <2>2, <2>3, Bounds DEF VisitInv
<1>5. CASE Service!FinishRebuild
  <2> DEFINE kept == {v \in x7 : ~\E s \in x8.found : Service!Superseded(v, s)}
             added == {s \in x8.found : \A v \in kept : v.entered # s.entered}
  <2>1. UNCHANGED <<x1, x6>> /\ x7' = kept \cup added /\ x8.on /\ x8' = Service!NotRebuilding
      BY <1>5 DEF Service!FinishRebuild
  <2>2. kept \subseteq x7 /\ added \subseteq x8.found /\ x8.found \subseteq Service!Visit
      BY <1>typed
  <2>3. ASSUME ~x6, Tidy(x1)
        PROVE  /\ \A v \in x7' : VisitFine(x1, v)
               /\ \A v, w \in x7' : v # w => Before(v, w) \/ Before(w, v)
    <3>1. /\ \A v \in x7 : VisitFine(x1, v)
          /\ \A v, w \in x7 : v # w => Before(v, w) \/ Before(w, v)
          /\ \A s \in x8.found : IsStay(x1, s) /\ VisitFine(x1, s) /\ FirstInside(x1, s.entered)
        BY <2>1, <2>3 DEF VisitInv, IsStay, VisitFine
    <3>2. ASSUME NEW v \in kept, NEW s \in added PROVE Before(v, s) \/ Before(s, v)
      <4>1. /\ v \in Service!Visit /\ s \in Service!Visit
            /\ v.entered \in Nat /\ s.entered \in Nat /\ s.exited \in Nat
          BY <1>typed, <2>2 DEF Service!Visit
      <4>2. CASE v.entered < s.entered
          BY <1>typed, <2>2, <3>1, <4>1, <4>2, OverByThen
      <4>3. CASE s.entered < v.entered /\ v.source = "backfill"
        <5>1. FirstInside(x1, v.entered)
            BY <2>2, <3>1, <4>3 DEF VisitFine
        <5> QED
            BY <1>typed, <2>2, <3>1, <4>1, <4>3, <5>1, OverByThen
      <4>4. CASE s.entered < v.entered /\ v.source = "ingest"
          BY <2>2, <4>1, <4>4 DEF Service!Superseded, Service!StillInside, Before
      <4>5. v.entered # s.entered
          OBVIOUS
      <4>6. v.source \in {"ingest", "backfill"}
          BY <4>1 DEF Service!Visit
      <4> QED
          BY <4>1, <4>2, <4>3, <4>4, <4>5, <4>6
    <3>3. ASSUME NEW s \in added, NEW t \in added, s # t PROVE Before(s, t) \/ Before(t, s)
      <4>1. s \in Service!Visit /\ t \in Service!Visit /\ s.entered \in Nat /\ t.entered \in Nat
          BY <1>typed, <2>2 DEF Service!Visit
      <4>2. CASE s.entered < t.entered
          BY <1>typed, <2>2, <3>1, <4>1, <4>2, OverByThen
      <4>3. CASE t.entered < s.entered
          BY <1>typed, <2>2, <3>1, <4>1, <4>3, OverByThen
      <4>4. CASE s.entered = t.entered
        <5>1. s.exited = t.exited /\ s.source = t.source
            BY <2>2, <3>1, <4>1, <4>4 DEF IsStay, VisitFine
        <5> QED
            BY <3>3, <4>1, <4>4, <5>1 DEF Service!Visit
      <4> QED
          BY <4>1, <4>2, <4>3, <4>4
    <3> HIDE DEF kept, added
    <3> QED
        BY <2>1, <2>2, <3>1, <3>2, <3>3
  <2>4. x7' \subseteq Service!Visit
      BY <1>typed, <2>1, <2>2
  <2>5. ~(Len(x1) < TrackedFrom)
      BY <2>1 DEF VisitInv
  <2> QED
      BY <1>none, <2>1, <2>3, <2>4, <2>5 DEF VisitInv
<1> QED
    BY <1>1, <1>2, <1>3, <1>4, <1>5 DEF Service!ServicingNext

-----------------------------------------------------------------------------
(* The battery model's observations.  x1 is reserved, x2 rawFrom, x3 files, *)
(* x4 observed, x5 donation, x6 mining and x7 fit.                          *)

\* A rental that the feed shows: it ends at the first cycle the vehicle is free again.
Shown(o) ==
    \E a, b \in 1 .. Len(x1) :
        /\ o.from = 2 * a /\ o.to = 2 * b /\ a < b
        /\ ~x1[a] /\ ~x1[b]
        /\ \A t \in 1 .. Len(x1) : a < t /\ t < b => x1[t]

Mined(rows) ==
    rows \subseteq Battery!Observation /\ \A o \in rows : o.source = "gbfs_rental" => Shown(o)

BatteryInv ==
    /\ x1 \in Seq(BOOLEAN) /\ Len(x1) <= MaxFeedSamples
    /\ x2 \in 1 .. Len(x1) + 1
    /\ x3 \in Seq(SUBSET Nat)
    /\ \A f \in 1 .. Len(x3) : x3[f] \subseteq 1 .. Len(x1)
    /\ x5 \in [state : {"none", "riding", "ended", "settled"}, from : Nat, to : Nat]
    /\ x6 \in [on : BOOLEAN, rows : SUBSET Battery!Observation]
    /\ Mined(x4) /\ Mined(x6.rows)
    /\ Mined(x7) /\ \A o \in x7 : o.source = "gbfs_rental"

LEMMA InitBattery == Battery!BatteryInit => BatteryInv
BY Bounds DEF Battery!BatteryInit, Battery!NotMining, BatteryInv, Mined

\* Two rentals that the feed shows are one, or apart.
LEMMA ShownApart ==
    ASSUME x1 \in Seq(BOOLEAN),
           NEW o \in Battery!Observation, NEW p \in Battery!Observation,
           Shown(o), Shown(p), o.source = p.source, Battery!Overlaps(o, p)
    PROVE  o = p
<1>1. PICK a, b \in 1 .. Len(x1) :
            /\ o.from = 2 * a /\ o.to = 2 * b /\ a < b /\ ~x1[a] /\ ~x1[b]
            /\ \A t \in 1 .. Len(x1) : a < t /\ t < b => x1[t]
    BY DEF Shown
<1>2. PICK c, d \in 1 .. Len(x1) :
            /\ p.from = 2 * c /\ p.to = 2 * d /\ c < d /\ ~x1[c] /\ ~x1[d]
            /\ \A t \in 1 .. Len(x1) : c < t /\ t < d => x1[t]
    BY DEF Shown
<1>3. a < d /\ c < b
    BY <1>1, <1>2 DEF Battery!Overlaps
<1>4. a = c
    BY <1>1, <1>2, <1>3
<1>5. b = d
    BY <1>1, <1>2, <1>3, <1>4
<1> QED
    BY <1>1, <1>2, <1>4, <1>5 DEF Battery!Observation

LEMMA BatteryHolds == BatteryInv => Battery!BatteryTypeOK /\ Battery!FitCountsEachRentalOnce
<1> SUFFICES ASSUME BatteryInv PROVE Battery!BatteryTypeOK /\ Battery!FitCountsEachRentalOnce
    OBVIOUS
<1>1. Battery!BatteryTypeOK
    BY Bounds DEF BatteryInv, Mined, Battery!BatteryTypeOK
<1>2. Battery!FitCountsEachRentalOnce
    BY ShownApart DEF BatteryInv, Mined, Battery!FitCountsEachRentalOnce
<1> QED
    BY <1>1, <1>2

\* What a scan of cycles that were sampled finds, the feed shows.
LEMMA EpisodesShown ==
    ASSUME BatteryInv, NEW S \in SUBSET (1 .. Len(x1))
    PROVE  Mined(Battery!Episodes(S))
<1> SUFFICES ASSUME NEW o \in Battery!Episodes(S)
             PROVE  o \in Battery!Observation /\ Shown(o)
    BY DEF Mined
<1>1. PICK a, b \in S :
            /\ o = [from |-> 2 * a, to |-> 2 * b, source |-> "gbfs_rental"]
            /\ ~x1[a] /\ ~x1[b] /\ b - a \in 2 .. LongestRental
            /\ \A t \in (a + 1) .. (b - 1) : x1[t]
    BY DEF Battery!Episodes, Battery!DepartsAt
<1>2. a \in 1 .. Len(x1) /\ b \in 1 .. Len(x1) /\ a < b
    BY <1>1, Bounds DEF BatteryInv
<1>3. \A t \in 1 .. Len(x1) : a < t /\ t < b => x1[t]
    BY <1>1, <1>2 DEF BatteryInv
<1>4. o.from = 2 * a /\ o.to = 2 * b /\ o \in Battery!Observation
    BY <1>1, <1>2 DEF Battery!Observation, BatteryInv
<1> QED
    BY <1>1, <1>2, <1>3, <1>4 DEF Shown

\* A sample more takes nothing from what the feed showed.
LEMMA StillShown ==
    ASSUME BatteryInv, NEW r \in BOOLEAN, x1' = Append(x1, r), NEW o, Shown(o)
    PROVE  Shown(o)'
<1>1. Len(x1') = Len(x1) + 1 /\ \A t \in 1 .. Len(x1) : x1'[t] = x1[t]
    BY DEF BatteryInv
<1>2. PICK a, b \in 1 .. Len(x1) :
            /\ o.from = 2 * a /\ o.to = 2 * b /\ a < b /\ ~x1[a] /\ ~x1[b]
            /\ \A t \in 1 .. Len(x1) : a < t /\ t < b => x1[t]
    BY DEF Shown
<1>3. a \in 1 .. Len(x1') /\ b \in 1 .. Len(x1') /\ ~x1'[a] /\ ~x1'[b]
    BY <1>1, <1>2 DEF BatteryInv
<1>4. \A t \in 1 .. Len(x1') : a < t /\ t < b => x1'[t]
    BY <1>1, <1>2 DEF BatteryInv
<1> QED
    BY <1>2, <1>3, <1>4 DEF Shown

LEMMA BatteryStep ==
    ASSUME BatteryInv, Battery!BatteryNext
    PROVE  BatteryInv'
<1> USE DEF BatteryInv
<1> DEFINE Same == x1' = x1 /\ x2' = x2 /\ x3' = x3
<1>same. ASSUME x1' = x1, NEW rows, Mined(rows) PROVE Mined(rows)'
    BY <1>same DEF Mined, Shown
<1>stored. ASSUME NEW rows, Mined(rows) PROVE Mined(Battery!StoredWith(rows))
    BY <1>stored DEF Mined, Battery!StoredWith
<1>not. /\ Battery!NotMining \in [on : BOOLEAN, rows : SUBSET Battery!Observation]
        /\ Mined(Battery!NotMining.rows)
    BY DEF Battery!NotMining, Mined
<1>1. ASSUME NEW r \in BOOLEAN, Battery!SampleFeed(r) PROVE BatteryInv'
  <2>1. x1' = Append(x1, r) /\ Len(x1) < MaxFeedSamples
        /\ x2' = x2 /\ x3' = x3 /\ x4' = x4 /\ x5' = x5 /\ x6' = x6 /\ x7' = x7
      BY <1>1 DEF Battery!SampleFeed
  <2>2. x1' \in Seq(BOOLEAN) /\ Len(x1') = Len(x1) + 1
      BY <2>1
  <2>3. Mined(x4)' /\ Mined(x6.rows)' /\ Mined(x7)'
      BY <2>1, StillShown DEF Mined
  <2> QED
      BY <2>1, <2>2, <2>3, Bounds
<1>2. CASE Battery!ArchiveBuffer
  <2>1. x1' = x1 /\ x3' = Append(x3, x2 .. Len(x1)) /\ x2' = Len(x1) + 1
        /\ x4' = x4 /\ x5' = x5 /\ x6' = x6 /\ x7' = x7
      BY <1>2 DEF Battery!ArchiveBuffer
  <2>2. x2 .. Len(x1) \in SUBSET Nat /\ x2 .. Len(x1) \subseteq 1 .. Len(x1)
      OBVIOUS
  <2>3. x3' \in Seq(SUBSET Nat) /\ \A f \in 1 .. Len(x3') : x3'[f] \subseteq 1 .. Len(x1')
      BY <2>1, <2>2
  <2>4. Mined(x4)' /\ Mined(x6.rows)' /\ Mined(x7)'
      BY <2>1, <1>same
  <2> QED
      BY <2>1, <2>3, <2>4
<1>3. CASE Battery!BeginDonatedRide \/ Battery!FinishDonatedRide
  <2>1. x5' \in [state : {"none", "riding", "ended", "settled"}, from : Nat, to : Nat]
    <3>1. Battery!BatteryNow \in Nat
        BY DEF Battery!BatteryNow
    <3> QED
        BY <1>3, <3>1 DEF Battery!BeginDonatedRide, Battery!FinishDonatedRide
  <2>2. Same /\ x4' = x4 /\ x6' = x6 /\ x7' = x7
      BY <1>3 DEF Battery!BeginDonatedRide, Battery!FinishDonatedRide
  <2> QED
      BY <2>1, <2>2, <1>same
<1>4. ASSUME NEW usable \in BOOLEAN, Battery!IngestDonation(usable) PROVE BatteryInv'
  <2>1. x5' \in [state : {"none", "riding", "ended", "settled"}, from : Nat, to : Nat]
      BY <1>4 DEF Battery!IngestDonation
  <2>2. [from |-> x5.from, to |-> x5.to, source |-> "donated_ride"] \in Battery!Observation
      BY DEF Battery!Observation
  <2>3. Same /\ x6' = x6 /\ x7' = x7
        /\ x4' \subseteq x4 \cup {[from |-> x5.from, to |-> x5.to, source |-> "donated_ride"]}
      BY <1>4 DEF Battery!IngestDonation
  <2>4. Mined(x4')
      BY <2>2, <2>3 DEF Mined
  <2> QED
      BY <2>1, <2>3, <2>4, <1>same
<1>5. ASSUME NEW rows \in SUBSET Battery!Minable, Battery!StartMining(rows) PROVE BatteryInv'
  <2>1. {t \in x2 .. Len(x1) : t > Len(x1) - NightWindow - NightLookback} \in SUBSET (1 .. Len(x1))
      OBVIOUS
  <2>2. Mined(rows)
      BY <2>1, EpisodesShown DEF Mined, Battery!Minable
  <2>3. Same /\ x4' = x4 /\ x5' = x5 /\ x7' = x7 /\ x6' = [on |-> TRUE, rows |-> rows]
      BY <1>5 DEF Battery!StartMining
  <2> QED
      BY <2>2, <2>3, <1>same DEF Mined
<1>6. CASE Battery!CommitMining
    BY <1>6, <1>same, <1>stored, <1>not DEF Battery!CommitMining
<1>7. CASE Battery!FailMining
    BY <1>7, <1>same, <1>not DEF Battery!FailMining
<1>8. ASSUME NEW f \in 1 .. Len(x3), NEW rows \in SUBSET Battery!ArchivedEpisodes(f),
             Battery!BackfillFile(f, rows)
      PROVE  BatteryInv'
  <2>1. Mined(rows)
      BY EpisodesShown DEF Mined, Battery!ArchivedEpisodes
  <2> QED
      BY <1>8, <2>1, <1>same, <1>stored DEF Battery!BackfillFile
<1>9. CASE Battery!TrainModel
  <2>1. Same /\ x4' = x4 /\ x5' = x5 /\ x6' = x6 /\ x7' = {o \in x4 : o.source = "gbfs_rental"}
      BY <1>9 DEF Battery!TrainModel, Battery!Trainable
  <2>2. Mined(x7')
      BY <2>1 DEF Mined
  <2> QED
      BY <2>1, <2>2, <1>same
<1> QED
    BY <1>1, <1>2, <1>3, <1>4, <1>5, <1>6, <1>7, <1>8, <1>9 DEF Battery!BatteryNext

-----------------------------------------------------------------------------
(* The payload cache.  x1 is newest, x2 vehicleState, x3 reportStamp, x4    *)
(* memo, x5 stored and x6 caller.                                           *)

PayloadCaller == [at : {"away", "waits", "building", "built"}, worker : Procs \cup {Payload!Nobody},
                  cycle : Nat, stamp : Nat, body : Payload!Body]

PayloadTyped ==
    /\ x1 \in 1 .. MaxCompleteCycles /\ x2 \in x1 .. MaxCompleteCycles /\ x3 \in 0 .. MaxReportMoves
    /\ x4 \in [Procs -> Payload!Entry] /\ x5 \in Payload!Entry
    /\ x6 \in [Rows -> PayloadCaller]
    /\ \A c \in Rows : x6[c].at # "away" => x6[c].worker \in Procs

TagIsTrue(e) == e.body.cycle = e.cycle /\ e.body.reports >= e.stamp

\* The stamp a caller read is in the past, so that what it reads later is no older.
CallerIsTrue(k) ==
    /\ k.stamp <= x3
    /\ k.at = "built" => k.body.cycle = k.cycle /\ k.body.reports >= k.stamp

PayloadInv ==
    /\ PayloadTyped
    /\ \A w \in Procs : TagIsTrue(x4[w])
    /\ TagIsTrue(x5)
    /\ \A c \in Rows : CallerIsTrue(x6[c])

LEMMA PayloadNothing ==
    /\ Payload!NoBody \in Payload!Body /\ Payload!NoEntry \in Payload!Entry /\ TagIsTrue(Payload!NoEntry)
    /\ Payload!Gone \in PayloadCaller /\ Payload!Gone.at = "away" /\ Payload!Gone.stamp = 0
<1>1. Payload!NoBody \in Payload!Body
    BY DEF Payload!NoBody, Payload!Body
<1>2. Payload!NoEntry \in Payload!Entry /\ TagIsTrue(Payload!NoEntry)
    BY <1>1 DEF Payload!NoEntry, Payload!Entry, Payload!NoBody, TagIsTrue
<1>3. Payload!Gone \in PayloadCaller /\ Payload!Gone.at = "away" /\ Payload!Gone.stamp = 0
    BY <1>1 DEF Payload!Gone, PayloadCaller
<1> QED
    BY <1>1, <1>2, <1>3

LEMMA InitPayload == Payload!PayloadInit => PayloadInv
<1> SUFFICES ASSUME Payload!PayloadInit PROVE PayloadInv
    OBVIOUS
<1> USE PayloadNothing, Bounds
<1>1. PayloadTyped
    BY DEF Payload!PayloadInit, PayloadTyped
<1>2. \A c \in Rows : CallerIsTrue(x6[c])
    BY DEF Payload!PayloadInit, CallerIsTrue
<1> QED
    BY <1>1, <1>2 DEF Payload!PayloadInit, PayloadInv

LEMMA PayloadHolds == PayloadInv => Payload!PayloadTypeOK /\ Payload!TagIsTrueOfBody
BY DEF PayloadInv, PayloadTyped, PayloadCaller, TagIsTrue, Payload!PayloadTypeOK, Payload!TagIsTrueOfBody

\* What is left to show of a caller's step.
LEMMA CallerMoves ==
    ASSUME PayloadInv, NEW c \in Rows, NEW k \in PayloadCaller, x6' = [x6 EXCEPT ![c] = k],
           k.at # "away" => k.worker \in Procs, CallerIsTrue(k),
           UNCHANGED <<x1, x2, x3>>,
           x4' \in [Procs -> Payload!Entry], \A w \in Procs : TagIsTrue(x4'[w]),
           x5' \in Payload!Entry, TagIsTrue(x5')
    PROVE  PayloadInv'
<1>1. PayloadTyped'
    BY DEF PayloadInv, PayloadTyped
<1>2. \A b \in Rows : CallerIsTrue(x6[b])'
    BY DEF PayloadInv, PayloadTyped, CallerIsTrue
<1> QED
    BY <1>1, <1>2 DEF PayloadInv, TagIsTrue

LEMMA PayloadStep ==
    ASSUME PayloadInv, Payload!PayloadNext
    PROVE  PayloadInv'
<1>0. /\ PayloadTyped /\ \A w \in Procs : TagIsTrue(x4[w]) /\ TagIsTrue(x5)
      /\ \A c \in Rows : CallerIsTrue(x6[c])
    BY DEF PayloadInv
<1>1. CASE Payload!ApplyVehicleState \/ Payload!CompleteCycle \/ Payload!ChangeReports
  <2>1. x4' = x4 /\ x5' = x5 /\ x6' = x6 /\ x3' \in 0 .. MaxReportMoves /\ x3' >= x3
      BY <1>0, <1>1, Bounds
         DEF Payload!ApplyVehicleState, Payload!CompleteCycle, Payload!ChangeReports, PayloadTyped
  <2>2. PayloadTyped'
      BY <1>0, <1>1, <2>1, Bounds
         DEF Payload!ApplyVehicleState, Payload!CompleteCycle, Payload!ChangeReports, PayloadTyped
  <2>3. \A c \in Rows : x6[c].stamp \in Nat /\ x3 \in Nat
      BY <1>0 DEF PayloadTyped, PayloadCaller
  <2>4. \A c \in Rows : CallerIsTrue(x6[c])'
      BY <1>0, <2>1, <2>3, Bounds DEF CallerIsTrue
  <2> QED
      BY <1>0, <2>1, <2>2, <2>4 DEF PayloadInv, TagIsTrue
<1>2. CASE Payload!LoseTable
  <2>1. x5' = Payload!NoEntry /\ UNCHANGED <<x1, x2, x3, x4, x6>>
      BY <1>2 DEF Payload!LoseTable
  <2> QED
      BY <1>0, <2>1, PayloadNothing DEF PayloadInv, PayloadTyped, TagIsTrue, CallerIsTrue
<1>3. ASSUME NEW c \in Rows, NEW w \in Procs, Payload!AskPayload(c, w) PROVE PayloadInv'
  <2>1. PICK at \in {"building", "waits"} : x6' = [x6 EXCEPT ![c] = [Payload!Asked(w) EXCEPT !.at = at]]
      BY <1>3 DEF Payload!AskPayload
  <2> DEFINE k == [Payload!Asked(w) EXCEPT !.at = at]
  <2>2. Payload!Asked(w) \in PayloadCaller /\ Payload!Asked(w).worker = w /\ Payload!Asked(w).stamp = x3
    <3>1. x1 \in Nat /\ x3 \in Nat
        BY <1>0, Bounds DEF PayloadTyped
    <3> QED
        BY <3>1, PayloadNothing DEF Payload!Asked, PayloadCaller
  <2>3. k \in PayloadCaller /\ k.worker = w /\ k.at = at /\ k.stamp = x3
      BY <2>2 DEF PayloadCaller
  <2> HIDE DEF k
  <2>4. CallerIsTrue(k) /\ x6' = [x6 EXCEPT ![c] = k] /\ UNCHANGED <<x1, x2, x3, x4, x5>>
    <3>1. x6' = [x6 EXCEPT ![c] = k]
        BY <2>1 DEF k
    <3>2. UNCHANGED <<x1, x2, x3, x4, x5>>
        BY <1>3 DEF Payload!AskPayload
    <3>3. CallerIsTrue(k)
        BY <1>0, <2>3, Bounds DEF CallerIsTrue, PayloadTyped
    <3> QED
        BY <3>1, <3>2, <3>3
  <2> QED
      BY <1>0, <2>3, <2>4, CallerMoves DEF PayloadTyped
<1>4. ASSUME NEW c \in Rows, Payload!TakeLock(c) PROVE PayloadInv'
  <2> DEFINE k == [x6[c] EXCEPT !.at = "building"]
  <2>1. x6[c].at = "waits" /\ x6' = [x6 EXCEPT ![c] = k] /\ UNCHANGED <<x1, x2, x3, x4, x5>>
      BY <1>4 DEF Payload!TakeLock
  <2>2. k \in PayloadCaller /\ k.worker \in Procs /\ k.at = "building" /\ k.stamp = x6[c].stamp
      BY <1>0, <2>1 DEF PayloadTyped, PayloadCaller
  <2> HIDE DEF k
  <2>3. CallerIsTrue(k)
      BY <1>0, <2>2 DEF CallerIsTrue
  <2> QED
      BY <1>0, <2>1, <2>2, <2>3, CallerMoves DEF PayloadTyped
<1>gone. CallerIsTrue(Payload!Gone)
    BY <1>0, PayloadNothing, Bounds DEF CallerIsTrue, PayloadTyped
<1>5. ASSUME NEW c \in Rows, Payload!FindBuilt(c) PROVE PayloadInv'
  <2>1. /\ x6[c].at = "building" /\ x6' = [x6 EXCEPT ![c] = Payload!Gone] /\ UNCHANGED <<x1, x2, x3, x5>>
        /\ x4' = x4 \/ x4' = [x4 EXCEPT ![x6[c].worker] = x5]
      BY <1>5 DEF Payload!FindBuilt
  <2>2. x4' \in [Procs -> Payload!Entry] /\ \A w \in Procs : TagIsTrue(x4'[w])
      BY <1>0, <2>1 DEF PayloadTyped
  <2> QED
      BY <1>0, <2>1, <2>2, <1>gone, PayloadNothing, CallerMoves DEF PayloadTyped
<1>6. ASSUME NEW c \in Rows, Payload!ReadData(c) PROVE PayloadInv'
  <2> DEFINE body == [cycle |-> x6[c].cycle, state |-> x2, reports |-> x3]
             k == [x6[c] EXCEPT !.at = "built", !.body = body]
  <2>1. x6[c].at = "building" /\ x6' = [x6 EXCEPT ![c] = k] /\ UNCHANGED <<x1, x2, x3, x4, x5>>
      BY <1>6 DEF Payload!ReadData
  <2>2. x6[c] \in PayloadCaller /\ x6[c].cycle \in Nat /\ x2 \in Nat /\ x3 \in Nat /\ x6[c].worker \in Procs
      BY <1>0, <2>1, Bounds DEF PayloadTyped, PayloadCaller
  <2>3. body \in Payload!Body /\ body.cycle = x6[c].cycle /\ body.reports = x3
      BY <2>2 DEF Payload!Body
  <2> HIDE DEF body
  <2>4. /\ k \in PayloadCaller /\ k.worker \in Procs /\ k.at = "built" /\ k.body = body
        /\ k.cycle = x6[c].cycle /\ k.stamp = x6[c].stamp
      BY <2>2, <2>3 DEF PayloadCaller
  <2> HIDE DEF k
  <2>5. CallerIsTrue(k)
      BY <1>0, <2>2, <2>3, <2>4 DEF CallerIsTrue, PayloadCaller
  <2> QED
      BY <1>0, <2>1, <2>4, <2>5, CallerMoves DEF PayloadTyped
<1>7. ASSUME NEW c \in Rows, NEW written \in BOOLEAN, Payload!FinishBuild(c, written) PROVE PayloadInv'
  <2> DEFINE e == Payload!EntryOf(c)
  <2>1. /\ x6[c].at = "built" /\ x6' = [x6 EXCEPT ![c] = Payload!Gone] /\ UNCHANGED <<x1, x2, x3>>
        /\ x4' = [x4 EXCEPT ![x6[c].worker] = e] /\ x5' \in {x5, e}
      BY <1>7 DEF Payload!FinishBuild, Payload!Store
  <2>2. e \in Payload!Entry /\ TagIsTrue(e)
      BY <1>0, <2>1 DEF PayloadTyped, PayloadCaller, CallerIsTrue, Payload!EntryOf, Payload!Entry, TagIsTrue
  <2>3. x4' \in [Procs -> Payload!Entry] /\ \A w \in Procs : TagIsTrue(x4'[w])
    <3> HIDE DEF e
    <3> QED
        BY <1>0, <2>1, <2>2 DEF PayloadTyped
  <2> QED
      BY <1>0, <2>1, <2>2, <2>3, <1>gone, PayloadNothing, CallerMoves DEF PayloadTyped
<1>8. ASSUME NEW c \in Rows, Payload!FailBuild(c) PROVE PayloadInv'
    BY <1>0, <1>8, <1>gone, PayloadNothing, CallerMoves DEF Payload!FailBuild, PayloadTyped
<1>9. ASSUME NEW w \in Procs, Payload!AgeEntry(w) PROVE PayloadInv'
  <2> DEFINE e == [x4[w] EXCEPT !.old = TRUE]
  <2>1. x4' = [x4 EXCEPT ![w] = e] /\ UNCHANGED <<x1, x2, x3, x5, x6>>
      BY <1>9 DEF Payload!AgeEntry
  <2>2. e \in Payload!Entry /\ e.cycle = x4[w].cycle /\ e.stamp = x4[w].stamp /\ e.body = x4[w].body
      BY <1>0 DEF PayloadTyped, Payload!Entry
  <2> HIDE DEF e
  <2>3. TagIsTrue(e)
      BY <1>0, <2>2 DEF TagIsTrue
  <2>4. x4' \in [Procs -> Payload!Entry] /\ \A v \in Procs : TagIsTrue(x4[v])'
      BY <1>0, <2>1, <2>2, <2>3 DEF PayloadTyped, TagIsTrue
  <2> QED
      BY <1>0, <2>1, <2>4 DEF PayloadInv, PayloadTyped, TagIsTrue, CallerIsTrue
<1>10. ASSUME NEW w \in Procs, Payload!RestartWorker(w) PROVE PayloadInv'
  <2>1. /\ x4' = [x4 EXCEPT ![w] = Payload!NoEntry] /\ UNCHANGED <<x1, x2, x3, x5>>
        /\ x6' = [c \in Rows |-> IF x6[c].worker = w THEN Payload!Gone ELSE x6[c]]
      BY <1>10 DEF Payload!RestartWorker
  <2>2. PayloadTyped'
      BY <1>0, <2>1, PayloadNothing DEF PayloadTyped
  <2>3. \A c \in Rows : CallerIsTrue(x6[c])'
      BY <1>0, <2>1, <1>gone DEF CallerIsTrue
  <2>4. \A v \in Procs : TagIsTrue(x4[v])'
      BY <1>0, <2>1, PayloadNothing DEF TagIsTrue, PayloadTyped
  <2> QED
      BY <1>0, <2>1, <2>2, <2>3, <2>4 DEF PayloadInv, TagIsTrue
<1> QED
    BY <1>1, <1>2, <1>3, <1>4, <1>5, <1>6, <1>7, <1>8, <1>9, <1>10 DEF Payload!PayloadNext

-----------------------------------------------------------------------------
(* The address index.  x1 is layer, x2 edits, x3 loading, x4 streetTable,   *)
(* x5 streetIndex, x6 looking and x7 answered.                              *)

Load == [stage : {"idle", "paging", "fetched"}, rows : Seq(CityStreets), expected : Nat, since : Nat]
ProcessIndex == [built : BOOLEAN, due : BOOLEAN, rows : Seq(CityStreets)]

AddressInv ==
    /\ x1 \in Seq(CityStreets) /\ Distinct(x1)
    /\ x2 \in 0 .. MaxCityEdits
    /\ x3 \in Load /\ x3.since <= x2
    /\ x4 \in Seq(CityStreets)
    /\ x5 \in [ApiProcesses -> ProcessIndex]
    /\ \A p \in ApiProcesses : x5[p].rows # <<>> => x5[p].built
    \* what was read is the layer's beginning, if it stood still
    /\ x3.stage # "idle" /\ x3.since = x2 =>
          /\ Len(x3.rows) <= Len(x1) /\ \A i \in 1 .. Len(x3.rows) : x3.rows[i] = x1[i]
          /\ x3.stage = "fetched" => Len(x3.rows) = Len(x1)

\* The table of streets is made of the rows that were read, and is these rows when no
\* street is among them twice.
LEMMA StreetsMet ==
    ASSUME NEW rows \in Seq(CityStreets)
    PROVE  /\ Address!InOrderMet(rows) \in Seq(CityStreets)
           /\ Distinct(rows) => Address!InOrderMet(rows) = rows
<1> DEFINE Meets(met, s) == IF Address!Contains(met, s) THEN met ELSE Append(met, s)
           Reaches(k, f) == f = [n \in 0 .. k |-> IF n = 0 THEN <<>> ELSE Meets(f[n - 1], rows[n])]
           Met == CHOOSE f : Reaches(Len(rows), f)
           short == {k \in Nat : ~\E f : Reaches(k, f)}
<1> HIDE DEF Meets
<1>1. ASSUME short # {} PROVE FALSE
  <2>1. short \in SUBSET Nat
      OBVIOUS
  <2> HIDE DEF short
  <2>2. PICK k \in short : \A n \in short : k <= n
      BY <1>1, <2>1, LeastNumber
  <2> USE DEF short
  <2>3. k \in Nat /\ ~\E f : Reaches(k, f)
      BY <2>2
  <2>4. k # 0
    <3>1. Reaches(0, [n \in 0 .. 0 |-> <<>>])
        OBVIOUS
    <3> QED
        BY <2>3, <3>1
  <2>5. k - 1 \in Nat /\ k - 1 \notin short
    <3> HIDE DEF short
    <3> QED
        BY <2>2, <2>3, <2>4
  <2>6. PICK f : Reaches(k - 1, f)
      BY <2>5
  <2> DEFINE g == [n \in 0 .. k |-> IF n < k THEN f[n] ELSE Meets(f[k - 1], rows[k])]
  <2>7. \A n \in 0 .. k : g[n] = IF n = 0 THEN <<>> ELSE Meets(g[n - 1], rows[n])
    <3>1. ASSUME NEW n \in 0 .. k, n < k PROVE g[n] = IF n = 0 THEN <<>> ELSE Meets(g[n - 1], rows[n])
      <4>1. n \in 0 .. k - 1 /\ (n # 0 => n - 1 \in 0 .. k /\ n - 1 < k)
          BY <3>1, <2>3
      <4>2. f[n] = IF n = 0 THEN <<>> ELSE Meets(f[n - 1], rows[n])
          BY <2>6, <4>1
      <4> QED
          BY <3>1, <4>1, <4>2
    <3>2. g[k] = Meets(g[k - 1], rows[k])
        BY <2>3, <2>4
    <3> QED
        BY <3>1, <3>2, <2>3, <2>4
  <2>8. Reaches(k, g)
      BY <2>7
  <2> QED
      BY <2>3, <2>8
<1>2. Len(rows) \in Nat /\ \E f : Reaches(Len(rows), f)
    BY <1>1
<1>3. Met = [n \in 0 .. Len(rows) |-> IF n = 0 THEN <<>> ELSE Meets(Met[n - 1], rows[n])]
  <2> HIDE DEF Reaches
  <2>1. Reaches(Len(rows), Met)
      BY <1>2
  <2> HIDE DEF Met
  <2> QED
      BY <2>1 DEF Reaches
<1>4. Address!InOrderMet(rows) = Met[Len(rows)]
    BY DEF Address!InOrderMet, Meets
<1> HIDE DEF Met
<1> DEFINE Fine(n) == /\ Met[n] \in Seq(CityStreets)
                      /\ Distinct(rows) => /\ Len(Met[n]) = n
                                           /\ \A i \in 1 .. n : Met[n][i] = rows[i]
           wrong == {n \in 0 .. Len(rows) : ~Fine(n)}
<1>5. ASSUME wrong # {} PROVE FALSE
  <2>1. wrong \in SUBSET Nat
      BY <1>2
  <2> HIDE DEF wrong
  <2>2. PICK n \in wrong : \A k \in wrong : n <= k
      BY <1>5, <2>1, LeastNumber
  <2> USE DEF wrong
  <2>3. n # 0
    <3>1. Met[0] = <<>>
        BY <1>2, <1>3
    <3>2. Fine(0)
        BY <3>1
    <3> HIDE DEF Fine
    <3> QED
        BY <2>2, <3>2
  <2>4. /\ n \in 1 .. Len(rows) /\ n - 1 \in 0 .. Len(rows) /\ n - 1 \in Nat /\ n \in Nat
        /\ n - 1 \notin wrong
      BY <1>2, <2>2, <2>3
  <2>5. Met[n] = Meets(Met[n - 1], rows[n]) /\ rows[n] \in CityStreets
      BY <1>3, <2>3, <2>4
  <2> DEFINE before == Met[n - 1]
  <2>6. Fine(n - 1)
      BY <2>4
  <2> HIDE DEF before
  <2>7. Fine(n)
    <3>1. Met[n] = IF Address!Contains(before, rows[n]) THEN before ELSE Append(before, rows[n])
        BY <2>5 DEF Meets, before
    <3>2. before \in Seq(CityStreets)
        BY <2>6 DEF before
    <3>3. ASSUME Distinct(rows) PROVE Len(Met[n]) = n /\ \A i \in 1 .. n : Met[n][i] = rows[i]
      <4>1. Len(before) = n - 1 /\ \A i \in 1 .. n - 1 : before[i] = rows[i]
          BY <2>6, <3>3 DEF before
      <4>2. \A i \in 1 .. n - 1 : rows[i] # rows[n]
          BY <2>4, <3>3 DEF Distinct
      <4>3. Met[n] = Append(before, rows[n])
          BY <3>1, <4>1, <4>2 DEF Address!Contains
      <4>4. /\ Len(Append(before, rows[n])) = n /\ Append(before, rows[n])[n] = rows[n]
            /\ \A i \in 1 .. n - 1 : Append(before, rows[n])[i] = before[i]
          BY <2>4, <2>5, <3>2, <4>1
      <4>5. \A i \in 1 .. n : i \in 1 .. n - 1 \/ i = n
          BY <2>4
      <4> QED
          BY <4>1, <4>3, <4>4, <4>5
    <3>4. Met[n] \in Seq(CityStreets)
        BY <2>5, <3>1, <3>2
    <3> QED
        BY <3>3, <3>4
  <2> QED
      BY <2>2, <2>7
<1>6. Fine(Len(rows))
    BY <1>2, <1>5
<1>7. ASSUME Distinct(rows) PROVE Met[Len(rows)] = rows
  <2> DEFINE all == Met[Len(rows)]
  <2>1. all \in Seq(CityStreets) /\ Len(all) = Len(rows) /\ \A i \in 1 .. Len(rows) : all[i] = rows[i]
      BY <1>6, <1>7
  <2> HIDE DEF all
  <2> QED
      BY <2>1 DEF all
<1> QED
    BY <1>4, <1>6, <1>7

LEMMA InitAddress == Address!AddressInit => AddressInv
<1> SUFFICES ASSUME Address!AddressInit PROVE AddressInv
    OBVIOUS
<1>1. Address!Cardinality(CityStreets) \in Nat
  <2>1. Address!Cardinality(CityStreets) = Cardinality(CityStreets)
      BY Zenon DEF Address!Cardinality, Cardinality
  <2>2. IsFiniteSet(CityStreets)
      BY PipelineAssumption
  <2> QED
      BY <2>1, <2>2, FS_CardinalityType
<1>2. x1 \in Seq(CityStreets) /\ Distinct(x1)
    BY <1>1 DEF Address!AddressInit, Address!SetToSeqs, Distinct
<1>3. Address!NoLoad \in Load /\ Address!NoLoad.since = 0 /\ Address!NoLoad.stage = "idle"
    BY DEF Address!NoLoad, Load
<1>4. Address!NoIndex \in ProcessIndex /\ Address!NoIndex.rows = <<>>
    BY DEF Address!NoIndex, ProcessIndex
<1>5. x2 = 0 /\ x3 = Address!NoLoad /\ x4 = <<>> /\ x5 = [p \in ApiProcesses |-> Address!NoIndex]
    BY DEF Address!AddressInit
<1> QED
    BY <1>2, <1>3, <1>4, <1>5, Bounds DEF AddressInv

LEMMA AddressHolds == AddressInv => Address!AddressTypeOK
BY DEF AddressInv, Load, ProcessIndex, Address!AddressTypeOK

LEMMA AddressStep ==
    ASSUME AddressInv, Address!AddressNext
    PROVE  AddressInv' /\ Address!WholeLayerIndexed
<1> DEFINE Goal == AddressInv' /\ Address!WholeLayerIndexed
<1>typed. /\ x1 \in Seq(CityStreets) /\ Len(x1) \in Nat /\ Distinct(x1)
           /\ x2 \in 0 .. MaxCityEdits /\ x2 \in Nat
          /\ x3 \in Load /\ x3.rows \in Seq(CityStreets) /\ Len(x3.rows) \in Nat /\ x3.since \in Nat
          /\ x4 \in Seq(CityStreets) /\ x5 \in [ApiProcesses -> ProcessIndex]
    BY Bounds DEF AddressInv, Load
<1>none. /\ Address!NoLoad \in Load /\ Address!NoLoad.since = 0 /\ Address!NoLoad.stage = "idle"
    BY DEF Address!NoLoad, Load
<1>1. ASSUME NEW rows, rows \in Seq(CityStreets), Distinct(rows), Address!Edit(rows) PROVE Goal
  <2>1. x2 < MaxCityEdits /\ x1' = rows /\ x2' = x2 + 1 /\ UNCHANGED <<x3, x4, x5>>
      BY <1>1 DEF Address!Edit
  <2>2. x2' \in 0 .. MaxCityEdits /\ x3.since < x2'
      BY <1>typed, <2>1, Bounds DEF AddressInv
  <2>3. Distinct(x1)'
      BY <1>1, <2>1 DEF Distinct
  <2>4. AddressInv'
      BY <1>1, <1>typed, <2>1, <2>2, <2>3 DEF AddressInv
  <2> QED
      BY <2>1, <2>4 DEF Address!WholeLayerIndexed
<1>2. ASSUME NEW i \in 1 .. Len(x1), Address!RetireAddress(i) PROVE Goal
  <2> DEFINE left == SubSeq(x1, 1, i - 1) \o SubSeq(x1, i + 1, Len(x1))
  <2>1. Address!Edit(left)
      BY <1>2 DEF Address!RetireAddress, Address!RemoveAt
  <2>2. /\ SubSeq(x1, 1, i - 1) \in Seq(CityStreets) /\ Len(SubSeq(x1, 1, i - 1)) = i - 1
        /\ \A k \in 1 .. i - 1 : SubSeq(x1, 1, i - 1)[k] = x1[k]
      BY <1>typed
  <2>3. /\ SubSeq(x1, i + 1, Len(x1)) \in Seq(CityStreets) /\ Len(SubSeq(x1, i + 1, Len(x1))) = Len(x1) - i
        /\ \A k \in 1 .. Len(x1) - i : SubSeq(x1, i + 1, Len(x1))[k] = x1[k + i]
      BY <1>typed
  <2>4. /\ left \in Seq(CityStreets) /\ Len(left) = Len(x1) - 1
        /\ \A k \in 1 .. i - 1 : left[k] = x1[k]
        /\ \A k \in i .. Len(x1) - 1 : left[k] = x1[k + 1]
    <3> DEFINE a == SubSeq(x1, 1, i - 1)
               b == SubSeq(x1, i + 1, Len(x1))
    <3>1. a \in Seq(CityStreets) /\ Len(a) = i - 1 /\ b \in Seq(CityStreets) /\ Len(b) = Len(x1) - i
        BY <2>2, <2>3
    <3> HIDE DEF a, b
    <3>2. /\ a \o b \in Seq(CityStreets) /\ Len(a \o b) = Len(x1) - 1
          /\ \A k \in 1 .. i - 1 : (a \o b)[k] = a[k]
          /\ \A k \in i .. Len(x1) - 1 : (a \o b)[k] = b[k - (i - 1)]
      <4>1. /\ a \o b \in Seq(CityStreets) /\ Len(a \o b) = Len(a) + Len(b)
            /\ \A k \in 1 .. Len(a) + Len(b) :
                    (a \o b)[k] = IF k <= Len(a) THEN a[k] ELSE b[k - Len(a)]
          BY <3>1, ConcatProperties
      <4>2. Len(a) + Len(b) = Len(x1) - 1 /\ i \in Nat /\ i <= Len(x1)
          BY <1>typed, <3>1
      <4>3. \A k \in 1 .. i - 1 : k \in 1 .. Len(a) + Len(b) /\ k <= Len(a)
          BY <1>typed, <3>1, <4>2
      <4>4. \A k \in i .. Len(x1) - 1 : k \in 1 .. Len(a) + Len(b) /\ ~(k <= Len(a))
          BY <1>typed, <3>1, <4>2
      <4>5. \A k \in i .. Len(x1) - 1 : (a \o b)[k] = b[k - Len(a)]
          BY <4>1, <4>4
      <4> QED
          BY <3>1, <4>1, <4>2, <4>3, <4>5
    <3>3. \A k \in i .. Len(x1) - 1 : k - (i - 1) \in 1 .. Len(x1) - i /\ (k - (i - 1)) + i = k + 1
        BY <1>typed
    <3> QED
        BY <2>2, <2>3, <3>2, <3>3 DEF a, b
  <2>5. Distinct(left)
    <3> HIDE DEF left
    <3>1. DOMAIN left = 1 .. Len(x1) - 1 /\ DOMAIN x1 = 1 .. Len(x1)
        BY <1>typed, <2>4
    <3>2. ASSUME NEW j \in 1 .. Len(x1) - 1, NEW k \in 1 .. Len(x1) - 1, left[j] = left[k] PROVE j = k
      <4> DEFINE was(n) == IF n < i THEN n ELSE n + 1
      <4>1. \A n \in 1 .. Len(x1) - 1 : left[n] = x1[was(n)] /\ was(n) \in 1 .. Len(x1)
          BY <1>typed, <2>4
      <4>2. was(j) = was(k)
        <5> HIDE DEF was
        <5> QED
            BY <1>typed, <3>1, <3>2, <4>1 DEF Distinct
      <4> QED
          BY <4>2
    <3> QED
        BY <3>1, <3>2 DEF Distinct
  <2> HIDE DEF left
  <2> QED
      BY <1>1, <2>1, <2>4, <2>5
<1>3. ASSUME NEW s \in CityStreets, Address!FileAddress(s) PROVE Goal
  <2>1. Address!Edit(Append(x1, s)) /\ s \notin Holds(x1)
      BY <1>3 DEF Address!FileAddress, Address!ToSet, Holds
  <2>2. Append(x1, s) \in Seq(CityStreets) /\ Distinct(Append(x1, s))
      BY <1>typed, <2>1, AppendHolds
  <2> QED
      BY <1>1, <2>1, <2>2
<1>4. ASSUME NEW counts \in BOOLEAN, Address!StartLoad(counts) PROVE Goal
  <2>1. /\ x3' = [stage |-> "paging", rows |-> <<>>, since |-> x2,
                  expected |-> IF counts THEN Len(x1) ELSE 0]
        /\ UNCHANGED <<x1, x2, x4, x5>>
      BY <1>4 DEF Address!StartLoad
  <2>2. x3' \in Load /\ x3'.since = x2 /\ x3'.rows = <<>> /\ x3'.stage = "paging"
      BY <1>typed, <2>1 DEF Load
  <2>3. AddressInv'
      BY <1>typed, <2>1, <2>2 DEF AddressInv, Distinct
  <2> QED
      BY <2>1, <2>3 DEF Address!WholeLayerIndexed
<1>5. ASSUME Address!FetchPage PROVE Goal
  <2> DEFINE offset == Len(x3.rows)
             last == IF offset + RowsServed > Len(x1) THEN Len(x1) ELSE offset + RowsServed
             page == IF offset >= Len(x1) THEN <<>> ELSE SubSeq(x1, offset + 1, last)
  <2>1. /\ x3.stage = "paging" /\ UNCHANGED <<x1, x2, x4, x5>>
        /\ x3' = [x3 EXCEPT !.rows = @ \o page,
                            !.stage = IF offset + RowsServed < Len(x1) THEN "paging" ELSE "fetched"]
      BY <1>5 DEF Address!FetchPage, Address!Page, Address!MoreAfter
  <2>2. page \in Seq(CityStreets) /\ Len(page) \in Nat
      BY <1>typed, Bounds
  <2>3. offset < Len(x1) => /\ last \in Nat /\ offset <= last /\ last <= Len(x1) /\ Len(page) = last - offset
                            /\ \A i \in 1 .. last - offset : page[i] = x1[offset + i]
    <3>1. ASSUME offset < Len(x1)
          PROVE  last \in Nat /\ offset <= last /\ last <= Len(x1) /\ offset + 1 \in 1 .. Len(x1) + 1
        BY <1>typed, <3>1, Bounds
    <3>2. offset \in Nat
        BY <1>typed
    <3> HIDE DEF last, offset
    <3>3. ASSUME offset < Len(x1)
          PROVE  /\ Len(SubSeq(x1, offset + 1, last)) = last - offset
                 /\ \A i \in 1 .. last - offset : SubSeq(x1, offset + 1, last)[i] = x1[offset + i]
        BY <1>typed, <3>1, <3>2, <3>3
    <3> QED
        BY <1>typed, <3>1, <3>2, <3>3
  <2>4. offset >= Len(x1) => page = <<>>
      OBVIOUS
  <2> DEFINE rows == x3.rows \o page
  <2>5. /\ rows \in Seq(CityStreets) /\ Len(rows) = offset + Len(page)
        /\ \A i \in 1 .. offset : rows[i] = x3.rows[i]
        /\ \A i \in offset + 1 .. offset + Len(page) : rows[i] = page[i - offset]
    <3> HIDE DEF page
    <3> QED
        BY <1>typed, <2>2
  <2> HIDE DEF page, rows
  <2>6. /\ x3' \in Load /\ x3'.rows = rows /\ x3'.since = x3.since
        /\ x3'.stage = IF offset + RowsServed < Len(x1) THEN "paging" ELSE "fetched"
      BY <1>typed, <2>1, <2>5 DEF Load, rows
  <2>7. ASSUME x3.since = x2
        PROVE  /\ Len(rows) <= Len(x1) /\ \A i \in 1 .. Len(rows) : rows[i] = x1[i]
               /\ x3'.stage = "fetched" => Len(rows) = Len(x1)
    <3>1. offset <= Len(x1) /\ \A i \in 1 .. offset : x3.rows[i] = x1[i]
        BY <2>1, <2>7 DEF AddressInv
    <3>2. CASE offset >= Len(x1)
      <4>1. Len(page) = 0
          BY <2>4, <3>2
      <4> QED
          BY <1>typed, <2>5, <3>1, <3>2, <4>1
    <3>3. CASE offset < Len(x1)
      <4>1. Len(rows) = last
        <5>1. offset \in Nat /\ last \in Nat /\ Len(page) = last - offset
            BY <1>typed, <2>3, <3>3
        <5> HIDE DEF offset, last
        <5> QED
            BY <2>5, <5>1
      <4>2. ASSUME NEW i \in offset + 1 .. last PROVE rows[i] = x1[i]
        <5>1. i - offset \in 1 .. last - offset /\ offset + (i - offset) = i
            BY <1>typed, <2>3, <3>3
        <5> QED
            BY <1>typed, <2>3, <2>5, <3>3, <4>1, <5>1
      <4>3. x3'.stage = "fetched" => last = Len(x1)
          BY <1>typed, <2>6, Bounds
      <4>4. \A i \in 1 .. last : i \in 1 .. offset \/ i \in offset + 1 .. last
          BY <1>typed, <2>3, <3>3
      <4> QED
          BY <2>3, <2>5, <3>1, <3>3, <4>1, <4>2, <4>3, <4>4
    <3> QED
        BY <1>typed, <3>2, <3>3
  <2>8. AddressInv'
      BY <1>typed, <2>1, <2>6, <2>7 DEF AddressInv, Distinct
  <2> QED
      BY <2>1, <2>8 DEF Address!WholeLayerIndexed
<1>6. ASSUME Address!SwapTables PROVE Goal
  <2>1. /\ x3.stage = "fetched" /\ x4' = Address!InOrderMet(x3.rows) /\ x3' = Address!NoLoad
        /\ UNCHANGED <<x1, x2, x5>>
      BY <1>6 DEF Address!SwapTables
  <2>2. x4' \in Seq(CityStreets)
      BY <1>typed, <2>1, StreetsMet
  <2>3. AddressInv'
      BY <1>typed, <1>none, <2>1, <2>2 DEF AddressInv, Distinct
  <2>4. ASSUME x3.since = x2 PROVE x4' = x1
    <3>1. Len(x3.rows) = Len(x1) /\ \A i \in 1 .. Len(x1) : x3.rows[i] = x1[i]
        BY <2>1, <2>4 DEF AddressInv
    <3>2. x3.rows = x1
        BY <1>typed, <3>1
    <3> QED
        BY <1>typed, <2>1, <3>2, StreetsMet
  <2> QED
      BY <2>1, <2>3, <2>4 DEF Address!WholeLayerIndexed
<1>7. ASSUME Address!LoadFails PROVE Goal
  <2>1. x3' = Address!NoLoad /\ UNCHANGED <<x1, x2, x4, x5>>
      BY <1>7 DEF Address!LoadFails
  <2>2. AddressInv'
      BY <1>typed, <1>none, <2>1 DEF AddressInv, Distinct
  <2> QED
      BY <2>1, <2>2 DEF Address!WholeLayerIndexed
<1>8. ASSUME NEW p \in ApiProcesses, NEW entry \in ProcessIndex, x5' = [x5 EXCEPT ![p] = entry],
             UNCHANGED <<x1, x2, x3, x4>>,
             entry.built, x5[p].rows # <<>> => entry.rows # <<>>
      PROVE  Goal
  <2>1. /\ x5' \in [ApiProcesses -> ProcessIndex] /\ x5'[p] = entry
        /\ \A q \in ApiProcesses \ {p} : x5'[q] = x5[q]
      BY <1>8, <1>typed
  <2>2. AddressInv'
      BY <1>typed, <1>8, <2>1 DEF AddressInv, Distinct
  <2> QED
      BY <1>8, <2>1, <2>2 DEF Address!WholeLayerIndexed
<1>9. ASSUME NEW p \in ApiProcesses, NEW readable \in BOOLEAN, Address!BuildIndex(p, readable) PROVE Goal
  <2> DEFINE rows == IF readable THEN x4 ELSE <<>>
             entry == [built |-> TRUE, due |-> FALSE,
                       rows |-> IF Address!Published(p, rows) THEN rows ELSE x5[p].rows]
  <2>1. x5' = [x5 EXCEPT ![p] = entry] /\ UNCHANGED <<x1, x2, x3, x4>>
      BY <1>9 DEF Address!BuildIndex
  <2>2. rows \in Seq(CityStreets) /\ x5[p].rows \in Seq(CityStreets)
      BY <1>typed DEF ProcessIndex
  <2>3. x5[p].rows # <<>> => x5[p].built
      BY DEF AddressInv
  <2> HIDE DEF rows
  <2>4. entry \in ProcessIndex /\ entry.built /\ (x5[p].rows # <<>> => entry.rows # <<>>)
      BY <2>2, <2>3 DEF ProcessIndex, Address!Published
  <2> HIDE DEF entry
  <2> QED
      BY <1>8, <2>1, <2>4
<1>10. ASSUME NEW p \in ApiProcesses, Address!IndexExpires(p) PROVE Goal
  <2> DEFINE entry == [x5[p] EXCEPT !.due = TRUE]
  <2>1. x5' = [x5 EXCEPT ![p] = entry] /\ UNCHANGED <<x1, x2, x3, x4>> /\ x5[p].built
      BY <1>10 DEF Address!IndexExpires
  <2>2. entry \in ProcessIndex /\ entry.built /\ entry.rows = x5[p].rows
      BY <1>typed, <2>1 DEF ProcessIndex
  <2> HIDE DEF entry
  <2> QED
      BY <1>8, <2>1, <2>2
<1>11. ASSUME UNCHANGED <<x1, x2, x3, x4, x5>> PROVE Goal
  <2>1. AddressInv'
      BY <1>11 DEF AddressInv, Distinct
  <2> QED
      BY <1>11, <2>1 DEF Address!WholeLayerIndexed
<1>12. ASSUME NEW p \in ApiProcesses, NEW s \in CityStreets, Address!FindStreet(p, s) PROVE Goal
    BY <1>11, <1>12 DEF Address!FindStreet
<1>13. ASSUME NEW p \in ApiProcesses, Address!FindPoint(p) PROVE Goal
    BY <1>11, <1>13 DEF Address!FindPoint
<1> HIDE DEF Goal
<1>14. Goal
    BY <1>2, <1>3, <1>4, <1>5, <1>6, <1>7, <1>9, <1>10, <1>12, <1>13 DEF Address!AddressNext
<1> QED
    BY <1>14 DEF Goal

(* x5 job and x6 crossed.                                                   *)

PhotonBefore == {"listed", "downloaded", "cleared", "opened", "half", "extracted", "aside"}
PhotonJob == [at : PhotonBefore \cup {"idle", "placed", "unpacked"}, build : 0 .. MaxBuilds,
              reads : 0 .. MaxBuilds]
PhotonDir == [there : BOOLEAN, has : SUBSET (Photon!IndexBuilds \X Photon!Members)]

\* A job that is not idle has listed a build.
PhotonTyped ==
    /\ x1 \in 0 .. MaxBuilds /\ x3 \in 0 .. MaxBuilds /\ x4 \in 0 .. x1
    /\ x2 \in [Photon!Dirs -> PhotonDir]
    /\ x5 \in [Procs -> PhotonJob]
    /\ x6 \in BOOLEAN
    /\ \A j \in Procs : IF x5[j].at = "idle" THEN x5[j] = Photon!IdleJob ELSE x5[j].build \in 1 .. x1
    /\ \A j \in Procs : x5[j].at \in {"opened", "half"} => x5[j].reads # 0

\* On the volume d: what is staged is the build b, and the operator's undo would stage it
\* again.
Stages(d, b) ==
    /\ d["staged"].there => d["staged"] = Photon!Whole(b)
    /\ ~d["staged"].there /\ d["live"].there /\ d["old"].there => d["live"] = Photon!Whole(b)

\* What the stage of a job for the build b says of the volume d and the tarball t.
StageIs(at, b, reads, d, t) ==
    /\ at \in {"downloaded", "cleared"} => t = b
    /\ at \in {"opened", "half"} => reads = b
    /\ at \in {"cleared", "opened"} => d["extract"] = Photon!Empty
    /\ at = "half" => d["extract"] = [there |-> TRUE, has |-> {<<b, 1>>}]
    /\ at \in {"extracted", "aside"} => d["extract"] = Photon!Whole(b)
    /\ at \in {"placed", "unpacked"} => Stages(d, b)

PhotonStage(j) == StageIs(x5[j].at, x5[j].build, x5[j].reads, x2, x3)

\* A build that the marker remembers as done, and no newer one is out.
Marked == x1 # 0 /\ x4 = x1

NoneToUndo(d) == ~(d["staged"].there /\ d["live"].there /\ d["old"].there)

PhotonMarked ==
    Marked =>
        /\ Stages(x2, x1)
        /\ \A j \in Procs : x5[j].at # "idle" => x5[j].build = x1
        /\ \A j \in Procs : x5[j].at \in PhotonBefore => NoneToUndo(x2)

Serves(d) ==
    \A n \in {"staged", "live", "old"} : d[n].there => \E b \in Photon!IndexBuilds : d[n] = Photon!Whole(b)

PhotonInv ==
    /\ PhotonTyped
    /\ ~x6 => /\ \A i, j \in Procs : i = j \/ x5[i].at = "idle" \/ x5[j].at = "idle"
              /\ \A j \in Procs : PhotonStage(j)
              /\ PhotonMarked
              /\ Serves(x2)

LEMMA InitPhoton == Photon!PhotonInit => PhotonInv
<1> SUFFICES ASSUME Photon!PhotonInit PROVE PhotonInv
    OBVIOUS
<1>1. Photon!IdleJob \in PhotonJob /\ Photon!Absent \in PhotonDir
    BY Bounds DEF Photon!IdleJob, PhotonJob, Photon!Absent, PhotonDir
<1>3. /\ \A j \in Procs : x5[j] = Photon!IdleJob
      /\ \A d \in Photon!Dirs : x2[d] = Photon!Absent
      /\ x1 = 0
    BY DEF Photon!PhotonInit
<1>2. PhotonTyped
  <2>1. Photon!IdleJob.at = "idle"
      BY DEF Photon!IdleJob
  <2>2. x5 \in [Procs -> PhotonJob]
      BY <1>1 DEF Photon!PhotonInit
  <2>3. x2 \in [Photon!Dirs -> PhotonDir]
      BY <1>1 DEF Photon!PhotonInit
  <2>4. x1 \in 0 .. MaxBuilds /\ x3 \in 0 .. MaxBuilds /\ x4 \in 0 .. x1 /\ x6 \in BOOLEAN
    <3>1. x1 = 0 /\ x3 = 0 /\ x4 = 0
        BY DEF Photon!PhotonInit
    <3>2. x6 \in BOOLEAN
        BY Zenon DEF Photon!PhotonInit
    <3> QED
        BY <3>1, <3>2, Bounds
  <2>5. \A j \in Procs : x5[j] = Photon!IdleJob /\ x5[j].at = "idle"
      BY <1>3, <2>1
  <2> QED
      BY <2>2, <2>3, <2>4, <2>5 DEF PhotonTyped
<1>4. \A j \in Procs : PhotonStage(j)
    BY <1>3 DEF PhotonStage, StageIs, Photon!IdleJob
<1>5. Serves(x2)
    BY <1>3 DEF Serves, Photon!Dirs, Photon!Absent
<1> QED
    BY <1>2, <1>3, <1>4, <1>5 DEF PhotonInv, PhotonMarked, Marked, Photon!IdleJob

LEMMA PhotonHolds == PhotonInv => Photon!PhotonTypeOK /\ Photon!ServedIndexIsWhole
<1> SUFFICES ASSUME PhotonInv PROVE Photon!PhotonTypeOK /\ Photon!ServedIndexIsWhole
    OBVIOUS
<1>1. Photon!PhotonTypeOK
    BY Bounds DEF PhotonInv, PhotonTyped, Photon!PhotonTypeOK, PhotonJob, PhotonDir
<1>2. Photon!ServedIndexIsWhole
    BY DEF PhotonInv, PhotonMarked, Serves, Marked, Stages, Photon!ServedIndexIsWhole
<1> QED
    BY <1>1, <1>2

\* A job takes a step from one stage to the next.
PhotonMoves(j, from, to) ==
    /\ x5[j].at = from /\ x5'[j].at = to
    /\ x5'[j].build = x5[j].build /\ x5'[j].reads = x5[j].reads
    /\ \A i \in Procs \ {j} : x5'[i] = x5[i]
    /\ x5' \in [Procs -> PhotonJob]
    /\ x1' = x1 /\ x6' = x6
    /\ x5[j].build \in 1 .. x1

LEMMA PhotonMove ==
    ASSUME PhotonInv, NEW j \in Procs, NEW from \in PhotonBefore \cup {"placed"},
           NEW to \in PhotonBefore \cup {"placed", "unpacked"}, Photon!Step(j, from, to)
    PROVE  PhotonMoves(j, from, to)
BY DEF PhotonInv, PhotonTyped, PhotonMoves, PhotonJob, Photon!Step, PhotonBefore

\* What is left to show of such a step.
LEMMA PhotonMoved ==
    ASSUME PhotonInv, NEW j \in Procs, NEW from \in PhotonBefore \cup {"placed"},
           NEW to \in PhotonBefore \cup {"placed", "unpacked"}, PhotonMoves(j, from, to),
           to \in {"opened", "half"} => x5[j].reads # 0,
           x2' \in [Photon!Dirs -> PhotonDir], x3' \in 0 .. MaxBuilds, x4' = x4,
           ~x6 => /\ StageIs(to, x5[j].build, x5[j].reads, x2', x3')
                  /\ Serves(x2')
                  /\ Marked /\ x5[j].build = x1 =>
                        Stages(x2', x1) /\ (to \in PhotonBefore => NoneToUndo(x2'))
    PROVE  PhotonInv'
<1>1. PhotonTyped'
    BY DEF PhotonInv, PhotonTyped, PhotonMoves, PhotonBefore
<1>2. ASSUME ~x6 PROVE \A i \in Procs \ {j} : x5'[i].at = "idle"
    BY <1>2 DEF PhotonInv, PhotonMoves, PhotonBefore
<1>3. ASSUME ~x6 PROVE (\A i \in Procs : PhotonStage(i))'
  <2>1. \A i \in Procs \ {j} : StageIs(x5'[i].at, x5'[i].build, x5'[i].reads, x2', x3')
      BY <1>2, <1>3 DEF StageIs
  <2>2. StageIs(x5'[j].at, x5'[j].build, x5'[j].reads, x2', x3')
      BY <1>3 DEF PhotonMoves
  <2>3. \A i \in Procs : StageIs(x5'[i].at, x5'[i].build, x5'[i].reads, x2', x3')
      BY <2>1, <2>2
  <2> QED
      BY <2>3 DEF PhotonStage
<1>4. ASSUME ~x6 PROVE PhotonMarked'
  <2>1. SUFFICES ASSUME Marked
        PROVE  /\ Stages(x2', x1)
               /\ \A i \in Procs : x5'[i].at # "idle" => x5'[i].build = x1
               /\ \A i \in Procs : x5'[i].at \in PhotonBefore => NoneToUndo(x2')
      BY DEF PhotonMarked, PhotonMoves, Marked
  <2>2. x5[j].build = x1
      BY <1>4, <2>1 DEF PhotonInv, PhotonMarked, PhotonMoves, PhotonBefore
  <2>3. Stages(x2', x1) /\ (to \in PhotonBefore => NoneToUndo(x2'))
      BY <1>4, <2>1, <2>2
  <2>4. x5'[j].at = to /\ x5'[j].build = x1
      BY <2>2 DEF PhotonMoves
  <2>5. ASSUME NEW i \in Procs, x5'[i].at # "idle" PROVE i = j
      BY <1>2, <1>4, <2>5
  <2>6. "idle" \notin PhotonBefore
      BY DEF PhotonBefore
  <2> QED
      BY <2>3, <2>4, <2>5, <2>6
<1> QED
    BY <1>1, <1>2, <1>3, <1>4 DEF PhotonInv, PhotonMoves

\* What is left to show of the operator's moves.
LEMMA PhotonOperated ==
    ASSUME PhotonInv, UNCHANGED <<x1, x3, x4, x5, x6>>, x2' \in [Photon!Dirs -> PhotonDir],
           x2'["extract"] = x2["extract"], \A b \in 1 .. x1 : Stages(x2, b) => Stages(x2', b),
           Serves(x2) => Serves(x2'), NoneToUndo(x2')
    PROVE  PhotonInv'
<1>1. PhotonTyped'
    BY DEF PhotonInv, PhotonTyped
<1>2. ASSUME ~x6 PROVE (\A j \in Procs : PhotonStage(j))'
  <2>1. \A j \in Procs : StageIs(x5[j].at, x5[j].build, x5[j].reads, x2', x3)
      BY <1>2 DEF PhotonInv, PhotonTyped, PhotonStage, StageIs, Photon!IdleJob
  <2> QED
      BY <2>1 DEF PhotonStage
<1>3. ASSUME ~x6 PROVE PhotonMarked'
    BY <1>3 DEF PhotonInv, PhotonTyped, PhotonMarked, Marked
<1> QED
    BY <1>1, <1>2, <1>3 DEF PhotonInv

\* What is left to show when a job ends.
LEMMA PhotonEnds ==
    ASSUME PhotonInv, NEW j \in Procs, x5' = [x5 EXCEPT ![j] = Photon!IdleJob],
           UNCHANGED <<x1, x2, x6>>, x3' \in {0, x3}, x4' \in 0 .. x1,
           ~x6 => x4' = x4 \/ (x4' = x5[j].build /\ x5[j].at = "unpacked"),
           x5[j].at # "idle"
    PROVE  PhotonInv'
<1>1. Photon!IdleJob \in PhotonJob /\ Photon!IdleJob.at = "idle"
    BY Bounds DEF Photon!IdleJob, PhotonJob
<1>2. x5'[j] = Photon!IdleJob /\ \A i \in Procs \ {j} : x5'[i] = x5[i]
    BY DEF PhotonInv, PhotonTyped
<1>3. PhotonTyped'
    BY <1>1, <1>2, Bounds DEF PhotonInv, PhotonTyped
<1>4. ASSUME ~x6 PROVE \A i \in Procs : x5'[i].at = "idle"
    BY <1>4, <1>1, <1>2 DEF PhotonInv
<1>5. ASSUME ~x6 PROVE (\A i \in Procs : PhotonStage(i))'
  <2>1. \A i \in Procs : StageIs(x5'[i].at, x5'[i].build, x5'[i].reads, x2', x3')
      BY <1>4, <1>5 DEF StageIs
  <2> QED
      BY <2>1 DEF PhotonStage
<1>6. ASSUME ~x6 PROVE PhotonMarked'
  <2>1. \A i \in Procs : x5'[i].at \notin PhotonBefore
      BY <1>4, <1>6 DEF PhotonBefore
  <2>2. CASE x4' = x4
      BY <1>4, <1>6, <2>1, <2>2 DEF PhotonInv, PhotonMarked, Marked
  <2>3. CASE x4' = x5[j].build /\ x5[j].at = "unpacked"
    <3>1. Stages(x2, x5[j].build)
        BY <1>6, <2>3 DEF PhotonInv, PhotonStage, StageIs
    <3> QED
        BY <3>1, <2>1, <1>4, <1>6, <2>3 DEF PhotonMarked, Marked
  <2> QED
      BY <1>6, <2>2, <2>3
<1> QED
    BY <1>3, <1>4, <1>5, <1>6 DEF PhotonInv

LEMMA PhotonStep ==
    ASSUME PhotonInv, Photon!PhotonNext
    PROVE  PhotonInv'
<1> USE DEF PhotonInv
<1>idle. Photon!IdleJob \in PhotonJob /\ Photon!IdleJob.at = "idle"
    BY Bounds DEF Photon!IdleJob, PhotonJob
<1>dirs. /\ Photon!Absent \in PhotonDir /\ Photon!Empty \in PhotonDir
         /\ ~Photon!Absent.there /\ {"extract", "staged", "replacing", "live", "old"} = Photon!Dirs
    BY DEF Photon!Absent, Photon!Empty, PhotonDir, Photon!Dirs
<1>disk. \A d \in Photon!Dirs : x2[d] \in PhotonDir
    BY DEF PhotonTyped
<1>1. CASE Photon!Publish
  <2>1. PhotonTyped'
      BY <1>1, Bounds DEF PhotonTyped, Photon!Publish, PhotonJob
  <2>2. ~x6' => (\A j \in Procs : PhotonStage(j))' /\ Serves(x2')
      BY <1>1 DEF Photon!Publish, PhotonStage
  <2>3. ~Marked'
      BY <1>1, Bounds DEF PhotonTyped, Photon!Publish, Marked
  <2> QED
      BY <1>1, <2>1, <2>2, <2>3 DEF Photon!Publish, PhotonMarked
<1>2. ASSUME NEW j \in Procs, Photon!StartSync(j) PROVE PhotonInv'
  <2>1. PhotonTyped'
      BY <1>2, Bounds DEF PhotonTyped, Photon!StartSync, PhotonJob, PhotonBefore
  <2>2. ~x6' => ~x6 /\ \A i \in Procs \ {j} : x5[i].at = "idle"
      BY <1>2, <1>idle DEF PhotonTyped, Photon!StartSync
  <2>3. /\ x5'[j].at = "listed" /\ x5'[j].build = x1 /\ \A i \in Procs \ {j} : x5'[i] = x5[i]
        /\ x1' = x1 /\ x2' = x2 /\ x3' = x3 /\ x4' = x4 /\ x1 # 0
        /\ ~(x2["staged"].there /\ x4 = x1)
      BY <1>2 DEF PhotonTyped, Photon!StartSync
  <2>4. ASSUME ~x6' PROVE (\A i \in Procs : PhotonStage(i))'
    <3>1. \A i \in Procs : StageIs(x5'[i].at, x5'[i].build, x5'[i].reads, x2', x3')
        BY <2>2, <2>3, <2>4 DEF StageIs
    <3> QED
        BY <3>1 DEF PhotonStage
  <2>5. ASSUME ~x6' PROVE PhotonMarked'
      BY <2>2, <2>3, <2>5 DEF PhotonMarked, Marked, NoneToUndo
  <2> QED
      BY <2>1, <2>2, <2>3, <2>4, <2>5
<1>3. ASSUME NEW j \in Procs, Photon!Download(j) PROVE PhotonInv'
  <2>1. /\ PhotonMoves(j, "listed", "downloaded")
        /\ x3' = x5[j].build /\ x4' = x4 /\ x2' = x2
      BY <1>3, PhotonMove DEF Photon!Download, PhotonBefore
  <2>2. x2' \in [Photon!Dirs -> PhotonDir] /\ x3' \in 0 .. MaxBuilds
      BY <2>1, <1>dirs, <1>disk, Bounds DEF PhotonTyped, PhotonMoves
  <2>3. ASSUME ~x6
        PROVE  StageIs("downloaded", x5[j].build, x5[j].reads, x2', x3') /\ Serves(x2')
    <3>1. PhotonStage(j) /\ x5[j].at = "listed" /\ Serves(x2)
        BY <2>1, <2>3 DEF PhotonMoves
    <3>2. StageIs("downloaded", x5[j].build, x5[j].reads, x2', x3')
        BY <3>1, <2>1, <2>2, <1>dirs DEF PhotonStage, StageIs, PhotonTyped
    <3>3. Serves(x2')
        BY <3>1, <2>1, <1>dirs DEF Serves, PhotonTyped, PhotonMoves, PhotonStage, StageIs, Photon!IndexBuilds
    <3> QED
        BY <3>2, <3>3
  <2>4. ASSUME ~x6, Marked, x5[j].build = x1
        PROVE  Stages(x2', x1) /\ ("downloaded" \in PhotonBefore => NoneToUndo(x2'))
      BY <2>1, <2>2, <2>4, <1>dirs DEF PhotonMarked, PhotonMoves, PhotonBefore, PhotonStage, StageIs, Stages,
         NoneToUndo, PhotonTyped
  <2> QED
      BY <2>1, <2>2, <2>3, <2>4, PhotonMoved DEF PhotonBefore
<1>4. ASSUME NEW j \in Procs, Photon!ClearExtract(j) PROVE PhotonInv'
  <2>1. /\ PhotonMoves(j, "downloaded", "cleared")
        /\ x3' = x3 /\ x4' = x4 /\ x2' = [x2 EXCEPT !["extract"] = Photon!Empty]
      BY <1>4, PhotonMove DEF Photon!ClearExtract, Photon!ExtractDir, PhotonBefore
  <2>2. x2' \in [Photon!Dirs -> PhotonDir] /\ x3' \in 0 .. MaxBuilds
      BY <2>1, <1>dirs, <1>disk, Bounds DEF PhotonTyped, PhotonMoves
  <2>3. ASSUME ~x6
        PROVE  StageIs("cleared", x5[j].build, x5[j].reads, x2', x3') /\ Serves(x2')
    <3>1. PhotonStage(j) /\ x5[j].at = "downloaded" /\ Serves(x2)
        BY <2>1, <2>3 DEF PhotonMoves
    <3>2. StageIs("cleared", x5[j].build, x5[j].reads, x2', x3')
        BY <3>1, <2>1, <2>2, <1>dirs DEF PhotonStage, StageIs, PhotonTyped
    <3>3. Serves(x2')
        BY <3>1, <2>1, <1>dirs DEF Serves, PhotonTyped, PhotonMoves, PhotonStage, StageIs, Photon!IndexBuilds
    <3> QED
        BY <3>2, <3>3
  <2>4. ASSUME ~x6, Marked, x5[j].build = x1
        PROVE  Stages(x2', x1) /\ ("cleared" \in PhotonBefore => NoneToUndo(x2'))
      BY <2>1, <2>2, <2>4, <1>dirs DEF PhotonMarked, PhotonMoves, PhotonBefore, PhotonStage, StageIs, Stages,
         NoneToUndo, PhotonTyped
  <2> QED
      BY <2>1, <2>2, <2>3, <2>4, PhotonMoved DEF PhotonBefore
<1>5. ASSUME NEW j \in Procs, Photon!OpenArchive(j) PROVE PhotonInv'
  <2>1. /\ x5[j].at = "cleared" /\ x3 # 0 /\ UNCHANGED <<x1, x2, x3, x4, x6>>
        /\ x5'[j] = [x5[j] EXCEPT !.at = "opened", !.reads = x3]
        /\ \A i \in Procs \ {j} : x5'[i] = x5[i]
      BY <1>5 DEF Photon!OpenArchive, PhotonTyped
  <2>2. x5[j] \in PhotonJob /\ x5[j].build \in 1 .. x1
      BY <2>1 DEF PhotonTyped
  <2>3. /\ x5'[j] \in PhotonJob /\ x5'[j].at = "opened" /\ x5'[j].reads = x3
        /\ x5'[j].build = x5[j].build
      BY <2>1, <2>2 DEF PhotonTyped, PhotonJob, PhotonBefore
  <2>4. x5' \in [Procs -> PhotonJob]
    <3>1. x5' = [x5 EXCEPT ![j] = [x5[j] EXCEPT !.at = "opened", !.reads = x3]]
        BY <1>5 DEF Photon!OpenArchive, PhotonTyped
    <3>2. x5' = [x5 EXCEPT ![j] = x5'[j]]
        BY <2>1, <3>1, Zenon
    <3> QED
        BY <3>2, <2>3 DEF PhotonTyped
  <2>5. PhotonTyped'
    <3>1. \A i \in Procs : IF x5'[i].at = "idle" THEN x5'[i] = Photon!IdleJob ELSE x5'[i].build \in 1 .. x1
      <4>1. ASSUME NEW i \in Procs \ {j}
            PROVE  IF x5'[i].at = "idle" THEN x5'[i] = Photon!IdleJob ELSE x5'[i].build \in 1 .. x1
          BY <2>1 DEF PhotonTyped
      <4>2. x5'[j].at # "idle" /\ x5'[j].build \in 1 .. x1
          BY <2>2, <2>3
      <4> QED
          BY <4>1, <4>2
    <3>2. \A i \in Procs : x5'[i].at \in {"opened", "half"} => x5'[i].reads # 0
        BY <2>1, <2>3 DEF PhotonTyped
    <3> QED
        BY <2>1, <2>4, <3>1, <3>2 DEF PhotonTyped
  <2>6. ASSUME ~x6 PROVE \A i \in Procs \ {j} : x5[i].at = "idle"
      BY <2>1, <2>6
  <2>7. ASSUME ~x6 PROVE (\A i \in Procs : PhotonStage(i))'
    <3>1. \A i \in Procs \ {j} : StageIs(x5'[i].at, x5'[i].build, x5'[i].reads, x2', x3')
        BY <2>1, <2>6, <2>7 DEF StageIs
    <3>2. StageIs(x5'[j].at, x5'[j].build, x5'[j].reads, x2', x3')
        BY <2>1, <2>3, <2>7 DEF PhotonStage, StageIs
    <3> QED
        BY <3>1, <3>2 DEF PhotonStage
  <2>8. ASSUME ~x6 PROVE PhotonMarked'
      BY <2>1, <2>3, <2>6, <2>8 DEF PhotonMarked, Marked, PhotonBefore
  <2> QED
      BY <2>1, <2>3, <2>5, <2>6, <2>7, <2>8
<1>6. ASSUME NEW j \in Procs, Photon!Extract(j, 1, "opened", "half") PROVE PhotonInv'
  <2>1. /\ PhotonMoves(j, "opened", "half")
        /\ x3' = x3 /\ x4' = x4
        /\ x2' = [x2 EXCEPT !["extract"] = [there |-> TRUE, has |-> @.has \cup {<<x5[j].reads, 1>>}]]
      BY <1>6, PhotonMove DEF Photon!Extract, Photon!ExtractDir, PhotonBefore
  <2>dir. /\ x5[j].reads # 0
          /\ [there |-> TRUE, has |-> x2["extract"].has \cup {<<x5[j].reads, 1>>}] \in PhotonDir
    <3>1. x5[j].reads # 0 /\ <<x5[j].reads, 1>> \in Photon!IndexBuilds \X Photon!Members
        BY <2>1, Bounds DEF PhotonTyped, PhotonJob, PhotonMoves, Photon!IndexBuilds, Photon!Members
    <3> QED
        BY <3>1, <1>disk, <1>dirs DEF PhotonDir
  <2>2. x2' \in [Photon!Dirs -> PhotonDir] /\ x3' \in 0 .. MaxBuilds
      BY <2>1, <2>dir, <1>dirs, <1>disk, Bounds DEF PhotonTyped, PhotonMoves
  <2>3. ASSUME ~x6
        PROVE  StageIs("half", x5[j].build, x5[j].reads, x2', x3') /\ Serves(x2')
    <3>1. PhotonStage(j) /\ x5[j].at = "opened" /\ Serves(x2)
        BY <2>1, <2>3 DEF PhotonMoves
    <3>2. StageIs("half", x5[j].build, x5[j].reads, x2', x3')
      <4>1. x2'["extract"] = [there |-> TRUE, has |-> x2["extract"].has \cup {<<x5[j].reads, 1>>}]
          BY <2>1, <1>dirs DEF PhotonTyped
      <4>2. x5[j].reads = x5[j].build /\ x2["extract"].has = {}
          BY <3>1 DEF PhotonStage, StageIs, Photon!Empty
      <4>3. x2'["extract"] = [there |-> TRUE, has |-> {<<x5[j].build, 1>>}]
          BY <4>1, <4>2
      <4> QED
          BY <4>2, <4>3 DEF StageIs
    <3>3. Serves(x2')
        BY <3>1, <2>1, <1>dirs DEF Serves, PhotonTyped, PhotonMoves, PhotonStage, StageIs, Photon!IndexBuilds
    <3> QED
        BY <3>2, <3>3
  <2>4. ASSUME ~x6, Marked, x5[j].build = x1
        PROVE  Stages(x2', x1) /\ ("half" \in PhotonBefore => NoneToUndo(x2'))
      BY <2>1, <2>2, <2>4, <1>dirs DEF PhotonMarked, PhotonMoves, PhotonBefore, PhotonStage, StageIs, Stages,
         NoneToUndo, PhotonTyped
  <2> QED
      BY <2>1, <2>2, <2>3, <2>4, <2>dir, PhotonMoved DEF PhotonBefore
<1>7. ASSUME NEW j \in Procs, Photon!Extract(j, 2, "half", "extracted") PROVE PhotonInv'
  <2>1. /\ PhotonMoves(j, "half", "extracted")
        /\ x3' = x3 /\ x4' = x4
        /\ x2' = [x2 EXCEPT !["extract"] = [there |-> TRUE, has |-> @.has \cup {<<x5[j].reads, 2>>}]]
      BY <1>7, PhotonMove DEF Photon!Extract, Photon!ExtractDir, PhotonBefore
  <2>dir. /\ x5[j].reads # 0
          /\ [there |-> TRUE, has |-> x2["extract"].has \cup {<<x5[j].reads, 2>>}] \in PhotonDir
    <3>1. x5[j].reads # 0 /\ <<x5[j].reads, 2>> \in Photon!IndexBuilds \X Photon!Members
        BY <2>1, Bounds DEF PhotonTyped, PhotonJob, PhotonMoves, Photon!IndexBuilds, Photon!Members
    <3> QED
        BY <3>1, <1>disk, <1>dirs DEF PhotonDir
  <2>2. x2' \in [Photon!Dirs -> PhotonDir] /\ x3' \in 0 .. MaxBuilds
      BY <2>1, <2>dir, <1>dirs, <1>disk, Bounds DEF PhotonTyped, PhotonMoves
  <2>3. ASSUME ~x6
        PROVE  StageIs("extracted", x5[j].build, x5[j].reads, x2', x3') /\ Serves(x2')
    <3>1. PhotonStage(j) /\ x5[j].at = "half" /\ Serves(x2)
        BY <2>1, <2>3 DEF PhotonMoves
    <3>2. StageIs("extracted", x5[j].build, x5[j].reads, x2', x3')
      <4>1. x2'["extract"] = [there |-> TRUE, has |-> x2["extract"].has \cup {<<x5[j].reads, 2>>}]
          BY <2>1, <1>dirs DEF PhotonTyped
      <4>2. x5[j].reads = x5[j].build /\ x2["extract"].has = {<<x5[j].build, 1>>}
          BY <3>1 DEF PhotonStage, StageIs
      <4>3. x2'["extract"] = Photon!Whole(x5[j].build)
          BY <4>1, <4>2 DEF Photon!Whole, Photon!Members
      <4> QED
          BY <4>2, <4>3 DEF StageIs
    <3>3. Serves(x2')
        BY <3>1, <2>1, <1>dirs DEF Serves, PhotonTyped, PhotonMoves, PhotonStage, StageIs, Photon!IndexBuilds
    <3> QED
        BY <3>2, <3>3
  <2>4. ASSUME ~x6, Marked, x5[j].build = x1
        PROVE  Stages(x2', x1) /\ ("extracted" \in PhotonBefore => NoneToUndo(x2'))
      BY <2>1, <2>2, <2>4, <1>dirs DEF PhotonMarked, PhotonMoves, PhotonBefore, PhotonStage, StageIs, Stages,
         NoneToUndo, PhotonTyped
  <2> QED
      BY <2>1, <2>2, <2>3, <2>4, <2>dir, PhotonMoved DEF PhotonBefore
<1>8. ASSUME NEW j \in Procs, Photon!MoveAside(j) PROVE PhotonInv'
  <2>1. /\ PhotonMoves(j, "extracted", "aside")
        /\ x3' = x3 /\ x4' = x4
        /\ x2' = IF x2["staged"].there
                  THEN [x2 EXCEPT !["replacing"] = x2["staged"], !["staged"] = Photon!Absent]
                  ELSE [x2 EXCEPT !["replacing"] = Photon!Absent]
      BY <1>8, PhotonMove DEF Photon!MoveAside, PhotonBefore
  <2>2. x2' \in [Photon!Dirs -> PhotonDir] /\ x3' \in 0 .. MaxBuilds
      BY <2>1, <1>dirs, <1>disk, Bounds DEF PhotonTyped, PhotonMoves
  <2>3. ASSUME ~x6
        PROVE  StageIs("aside", x5[j].build, x5[j].reads, x2', x3') /\ Serves(x2')
    <3>1. PhotonStage(j) /\ x5[j].at = "extracted" /\ Serves(x2)
        BY <2>1, <2>3 DEF PhotonMoves
    <3>2. StageIs("aside", x5[j].build, x5[j].reads, x2', x3')
        BY <3>1, <2>1, <2>2, <1>dirs DEF PhotonStage, StageIs, PhotonTyped
    <3>3. Serves(x2')
        BY <3>1, <2>1, <1>dirs DEF Serves, PhotonTyped, PhotonMoves, PhotonStage, StageIs, Photon!IndexBuilds
    <3> QED
        BY <3>2, <3>3
  <2>4. ASSUME ~x6, Marked, x5[j].build = x1
        PROVE  Stages(x2', x1) /\ ("aside" \in PhotonBefore => NoneToUndo(x2'))
      BY <2>1, <2>2, <2>4, <1>dirs DEF PhotonMarked, PhotonMoves, PhotonBefore, PhotonStage, StageIs, Stages,
         NoneToUndo, PhotonTyped
  <2> QED
      BY <2>1, <2>2, <2>3, <2>4, PhotonMoved DEF PhotonBefore
<1>9. ASSUME NEW j \in Procs, Photon!PutInPlace(j) PROVE PhotonInv'
  <2>1. /\ PhotonMoves(j, "aside", "placed")
        /\ x3' = x3 /\ x4' = x4
        /\ x2' = [x2 EXCEPT !["staged"] = x2["extract"], !["extract"] = Photon!Empty]
      BY <1>9, PhotonMove DEF Photon!PutInPlace, PhotonBefore
  <2>2. x2' \in [Photon!Dirs -> PhotonDir] /\ x3' \in 0 .. MaxBuilds
      BY <2>1, <1>dirs, <1>disk, Bounds DEF PhotonTyped, PhotonMoves
  <2>3. ASSUME ~x6
        PROVE  StageIs("placed", x5[j].build, x5[j].reads, x2', x3') /\ Serves(x2')
    <3>1. PhotonStage(j) /\ x5[j].at = "aside" /\ Serves(x2)
        BY <2>1, <2>3 DEF PhotonMoves
    <3>2. /\ x2'["staged"] = Photon!Whole(x5[j].build)
          /\ x2'["live"] = x2["live"] /\ x2'["old"] = x2["old"]
        BY <3>1, <2>1, <1>dirs DEF PhotonTyped, PhotonStage, StageIs
    <3>3. Photon!Whole(x5[j].build).there
        BY DEF Photon!Whole
    <3>4. StageIs("placed", x5[j].build, x5[j].reads, x2', x3')
      <4>1. Stages(x2', x5[j].build)
          BY <3>2, <3>3 DEF Stages
      <4> QED
          BY <4>1 DEF StageIs
    <3>5. x5[j].build \in Photon!IndexBuilds
        BY <2>1, Bounds DEF PhotonTyped, PhotonMoves, Photon!IndexBuilds
    <3>6. Serves(x2')
        BY <3>1, <3>2, <3>5 DEF Serves
    <3> QED
        BY <3>4, <3>6
  <2>4. ASSUME ~x6, Marked, x5[j].build = x1
        PROVE  Stages(x2', x1) /\ ("placed" \in PhotonBefore => NoneToUndo(x2'))
      BY <2>1, <2>2, <2>4, <1>dirs DEF PhotonMarked, PhotonMoves, PhotonBefore, PhotonStage, StageIs, Stages,
         NoneToUndo, PhotonTyped
  <2> QED
      BY <2>1, <2>2, <2>3, <2>4, PhotonMoved DEF PhotonBefore
<1>10. ASSUME NEW j \in Procs, Photon!CleanUp(j) PROVE PhotonInv'
  <2>1. /\ PhotonMoves(j, "placed", "unpacked")
        /\ x3' = 0 /\ x4' = x4
        /\ x2' = [x2 EXCEPT !["replacing"] = Photon!Absent, !["extract"] = Photon!Absent]
      BY <1>10, PhotonMove DEF Photon!CleanUp, PhotonBefore
  <2>2. x2' \in [Photon!Dirs -> PhotonDir] /\ x3' \in 0 .. MaxBuilds
      BY <2>1, <1>dirs, <1>disk, Bounds DEF PhotonTyped, PhotonMoves
  <2>3. ASSUME ~x6
        PROVE  StageIs("unpacked", x5[j].build, x5[j].reads, x2', x3') /\ Serves(x2')
    <3>1. PhotonStage(j) /\ x5[j].at = "placed" /\ Serves(x2)
        BY <2>1, <2>3 DEF PhotonMoves
    <3>2. StageIs("unpacked", x5[j].build, x5[j].reads, x2', x3')
        BY <3>1, <2>1, <2>2, <1>dirs DEF PhotonStage, StageIs, PhotonTyped, Stages
    <3>3. Serves(x2')
        BY <3>1, <2>1, <1>dirs DEF Serves, PhotonTyped, PhotonMoves, PhotonStage, StageIs, Photon!IndexBuilds
    <3> QED
        BY <3>2, <3>3
  <2>4. ASSUME ~x6, Marked, x5[j].build = x1
        PROVE  Stages(x2', x1) /\ ("unpacked" \in PhotonBefore => NoneToUndo(x2'))
      BY <2>1, <2>2, <2>4, <1>dirs DEF PhotonMarked, PhotonMoves, PhotonBefore, PhotonStage, StageIs, Stages,
         NoneToUndo, PhotonTyped
  <2> QED
      BY <2>1, <2>2, <2>3, <2>4, PhotonMoved DEF PhotonBefore
<1>11. ASSUME NEW j \in Procs, Photon!WriteMarker(j) PROVE PhotonInv'
  <2>1. /\ x5[j].at # "idle" /\ x5' = [x5 EXCEPT ![j] = Photon!IdleJob]
        /\ UNCHANGED <<x1, x2, x6>> /\ x3' \in {0, x3}
        /\ x4' = x5[j].build /\ x5[j].at = "unpacked"
      BY <1>11 DEF Photon!WriteMarker, PhotonTyped
  <2>2. x4' \in 0 .. x1
      BY <2>1, Bounds DEF PhotonTyped
  <2> QED
      BY <2>1, <2>2, PhotonEnds
<1>12. ASSUME NEW j \in Procs, Photon!SyncFails(j) PROVE PhotonInv'
  <2>1. /\ x5[j].at # "idle" /\ x5' = [x5 EXCEPT ![j] = Photon!IdleJob]
        /\ UNCHANGED <<x1, x2, x6>> /\ x3' \in {0, x3}
        /\ x4' = x4
      BY <1>12 DEF Photon!SyncFails, PhotonTyped
  <2>2. x4' \in 0 .. x1
      BY <2>1, Bounds DEF PhotonTyped
  <2> QED
      BY <2>1, <2>2, PhotonEnds
<1>13. ASSUME NEW j \in Procs, Photon!SyncDies(j) PROVE PhotonInv'
  <2>1. /\ x5[j].at # "idle" /\ x5' = [x5 EXCEPT ![j] = Photon!IdleJob]
        /\ UNCHANGED <<x1, x2, x6>> /\ x3' \in {0, x3}
        /\ x4' = x4
      BY <1>13 DEF Photon!SyncDies, PhotonTyped
  <2>2. x4' \in 0 .. x1
      BY <2>1, Bounds DEF PhotonTyped
  <2> QED
      BY <2>1, <2>2, PhotonEnds
<1>14. CASE Photon!SetLiveAside
  <2>1. x2' \in [Photon!Dirs -> PhotonDir] /\ x2'["extract"] = x2["extract"]
      BY <1>14, <1>dirs DEF Photon!SetLiveAside, Photon!Move, PhotonTyped
  <2>2. \A b \in 1 .. x1 : Stages(x2, b) => Stages(x2', b)
      BY <1>14, <1>dirs DEF Photon!SetLiveAside, Photon!Move, PhotonTyped, Stages
  <2>3. Serves(x2) => Serves(x2')
      BY <1>14, <1>dirs DEF Photon!SetLiveAside, Photon!Move, PhotonTyped, Serves
  <2>4. NoneToUndo(x2')
      BY <1>14, <1>dirs DEF Photon!SetLiveAside, Photon!Move, PhotonTyped, NoneToUndo
  <2> QED
      BY <1>14, <2>1, <2>2, <2>3, <2>4, PhotonOperated DEF Photon!SetLiveAside
<1>15. CASE Photon!PromoteStaged
  <2>1. x2' \in [Photon!Dirs -> PhotonDir] /\ x2'["extract"] = x2["extract"]
      BY <1>15, <1>dirs DEF Photon!PromoteStaged, Photon!Move, PhotonTyped
  <2>2. \A b \in 1 .. x1 : Stages(x2, b) => Stages(x2', b)
      BY <1>15, <1>dirs DEF Photon!PromoteStaged, Photon!Move, PhotonTyped, Stages
  <2>3. Serves(x2) => Serves(x2')
      BY <1>15, <1>dirs DEF Photon!PromoteStaged, Photon!Move, PhotonTyped, Serves
  <2>4. NoneToUndo(x2')
      BY <1>15, <1>dirs DEF Photon!PromoteStaged, Photon!Move, PhotonTyped, NoneToUndo
  <2> QED
      BY <1>15, <2>1, <2>2, <2>3, <2>4, PhotonOperated DEF Photon!PromoteStaged
<1>16. CASE Photon!RemoveOld
  <2>1. x2' \in [Photon!Dirs -> PhotonDir] /\ x2'["extract"] = x2["extract"]
      BY <1>16, <1>dirs DEF Photon!RemoveOld, PhotonTyped
  <2>2. \A b \in 1 .. x1 : Stages(x2, b) => Stages(x2', b)
      BY <1>16, <1>dirs DEF Photon!RemoveOld, PhotonTyped, Stages
  <2>3. Serves(x2) => Serves(x2')
      BY <1>16, <1>dirs DEF Photon!RemoveOld, PhotonTyped, Serves
  <2>4. NoneToUndo(x2')
      BY <1>16, <1>dirs DEF Photon!RemoveOld, PhotonTyped, NoneToUndo
  <2> QED
      BY <1>16, <2>1, <2>2, <2>3, <2>4, PhotonOperated DEF Photon!RemoveOld
<1>17. CASE Photon!UndoPromotion
  <2>1. x2' \in [Photon!Dirs -> PhotonDir] /\ x2'["extract"] = x2["extract"]
      BY <1>17, <1>dirs DEF Photon!UndoPromotion, PhotonTyped
  <2>2. \A b \in 1 .. x1 : Stages(x2, b) => Stages(x2', b)
      BY <1>17, <1>dirs DEF Photon!UndoPromotion, PhotonTyped, Stages
  <2>3. Serves(x2) => Serves(x2')
      BY <1>17, <1>dirs DEF Photon!UndoPromotion, PhotonTyped, Serves
  <2>4. NoneToUndo(x2')
      BY <1>17, <1>dirs DEF Photon!UndoPromotion, PhotonTyped, NoneToUndo
  <2> QED
      BY <1>17, <2>1, <2>2, <2>3, <2>4, PhotonOperated DEF Photon!UndoPromotion
<1> QED
    BY <1>1, <1>2, <1>3, <1>4, <1>5, <1>6, <1>7, <1>8, <1>9, <1>10, <1>11, <1>12, <1>13, <1>14, <1>15,
       <1>16, <1>17 DEF Photon!PhotonNext

-----------------------------------------------------------------------------
(* A map file.  x1 is remote, x2 target, x3 tmp, x4 etag and x5 syncing.    *)
(* Versions grow, so that what a job downloads is no older than what it saw *)
(* and what a rename puts in place no older than what it replaces.          *)

AssetTyped ==
    /\ x1 \in 0 .. MaxFileVersions /\ x2 \in 0 .. x1 /\ x3 \in 0 .. x1 /\ x4 \in 0 .. x2
    /\ x5 \in [Procs -> [at : {"idle", "seen", "downloaded", "replaced"}, saw : 0 .. x1]]

AssetInv ==
    /\ AssetTyped
    /\ x3 # 0 => x3 >= x2
    /\ \A j \in Procs : /\ x5[j].at = "downloaded" => x3 >= x5[j].saw \/ x2 >= x5[j].saw
                        /\ x5[j].at = "replaced" => x2 >= x5[j].saw

LEMMA InitAsset == Asset!AssetsInit => AssetInv
BY Bounds DEF Asset!AssetsInit, Asset!NotSyncing, AssetInv, AssetTyped

LEMMA AssetHolds == AssetInv => Asset!AssetsTypeOK /\ Asset!FileIsAsNoted
BY Bounds DEF AssetInv, AssetTyped, Asset!AssetsTypeOK, Asset!FileIsAsNoted, Asset!Unchanged

LEMMA AssetStep ==
    ASSUME AssetInv, Asset!AssetsNext
    PROVE  AssetInv'
<1> USE Bounds DEF AssetInv, AssetTyped, Asset!NotSyncing
<1>1. CASE Asset!UploadAsset
    BY <1>1 DEF Asset!UploadAsset
<1>2. ASSUME NEW j \in Procs, Asset!HeadAsset(j) PROVE AssetInv'
    BY <1>2 DEF Asset!HeadAsset
<1>3. ASSUME NEW j \in Procs, Asset!DownloadAsset(j) PROVE AssetInv'
    BY <1>3 DEF Asset!DownloadAsset
<1>4. ASSUME NEW j \in Procs, Asset!ReplaceAsset(j) PROVE AssetInv'
    BY <1>4 DEF Asset!ReplaceAsset
<1>5. ASSUME NEW j \in Procs, Asset!NoteEtag(j) PROVE AssetInv'
    BY <1>5 DEF Asset!NoteEtag, Asset!RemoteEtag
<1>6. ASSUME NEW j \in Procs, Asset!AssetFails(j) PROVE AssetInv'
    BY <1>6 DEF Asset!AssetFails
<1> QED
    BY <1>1, <1>2, <1>3, <1>4, <1>5, <1>6 DEF Asset!AssetsNext

-----------------------------------------------------------------------------
(* The request metrics.  x1 is unseen, x2 buffer, x3 flush, x4 metric and   *)
(* x5 forgotten.                                                            *)

MetricsTyped ==
    /\ x1 \in SUBSET HttpRequests /\ x5 \in SUBSET HttpRequests
    /\ x2 \in Seq(HttpRequests) /\ Len(x2) <= BufferRows
    /\ x3 \in [Procs -> [on : BOOLEAN, rows : SUBSET HttpRequests]]
    /\ x4 \in [HttpRequests -> {0, 1}]

InHand(q) == \E f \in Procs : q \in x3[f].rows

\* A request has one row, and that is in one place.
InOnePlace(q) ==
    /\ q \in x1 => q \notin Holds(x2) /\ ~InHand(q) /\ x4[q] = 0 /\ q \notin x5
    /\ ~(q \in Holds(x2) /\ InHand(q))
    /\ x4[q] = 1 \/ q \in x5 => q \notin Holds(x2) /\ ~InHand(q)
    /\ q \in x1 \/ q \in Holds(x2) \/ InHand(q) \/ x4[q] = 1 \/ q \in x5

MetricsInv ==
    /\ MetricsTyped
    /\ Distinct(x2)
    /\ \A f, g \in Procs : f = g \/ x3[f].rows \cap x3[g].rows = {}
    /\ \A f \in Procs : ~x3[f].on => x3[f].rows = {}
    /\ \A q \in HttpRequests : InOnePlace(q)

LEMMA InitMetrics == Metrics!MetricsInit => MetricsInv
<1> SUFFICES ASSUME Metrics!MetricsInit PROVE MetricsInv
    OBVIOUS
<1>1. Holds(x2) = {} /\ Distinct(x2) /\ \A q \in HttpRequests : ~InHand(q)
    BY DEF Metrics!MetricsInit, Metrics!NotFlushing, Holds, Distinct, InHand
<1>2. Metrics!NotFlushing \in [on : BOOLEAN, rows : SUBSET HttpRequests]
    BY DEF Metrics!NotFlushing
<1>3. MetricsTyped
    BY <1>2, Bounds DEF Metrics!MetricsInit, MetricsTyped
<1> QED
    BY <1>1, <1>3 DEF Metrics!MetricsInit, Metrics!NotFlushing, MetricsInv, InOnePlace

LEMMA MetricsHold == MetricsInv => Metrics!MetricsTypeOK /\ Metrics!EachRequestCountedOnce
BY DEF MetricsInv, MetricsTyped, InOnePlace, Holds, InHand, Metrics!MetricsTypeOK,
       Metrics!EachRequestCountedOnce

LEMMA MetricsStep ==
    ASSUME MetricsInv, Metrics!MetricsNext
    PROVE  MetricsInv'
<1>0. MetricsTyped /\ Distinct(x2) /\ \A q \in HttpRequests : InOnePlace(q)
    BY DEF MetricsInv
<1>1. ASSUME NEW q \in HttpRequests, Metrics!Record(q) PROVE MetricsInv'
  <2>1. /\ q \in x1 /\ x1' = x1 \ {q} /\ x3' = x3 /\ x4' = x4
        /\ q \notin Holds(x2)
      BY <1>0, <1>1 DEF Metrics!Record, InOnePlace
  <2>2. \A p : InHand(p)' <=> InHand(p)
      BY <2>1 DEF InHand
  <2>3. CASE Len(x2) = BufferRows
    <3>1. x2 # <<>>
        BY <2>3, Bounds
    <3>2. x2' = Append(Tail(x2), q)
        BY <1>1, <2>3 DEF Metrics!Record, Metrics!WithRoom
    <3>3. /\ Tail(x2) \in Seq(HttpRequests) /\ Len(Tail(x2)) = Len(x2) - 1
          /\ Distinct(Tail(x2)) /\ Holds(Tail(x2)) = Holds(x2) \ {Head(x2)}
          /\ Head(x2) \in Holds(x2)
        BY <1>0, <3>1, TailHolds DEF MetricsTyped
    <3>4. /\ x2' \in Seq(HttpRequests) /\ Len(x2') = Len(x2) - 1 + 1
          /\ Distinct(x2') /\ Holds(x2') = (Holds(x2) \ {Head(x2)}) \cup {q}
      <4> DEFINE kept == Tail(x2)
      <4>1. kept \in Seq(HttpRequests) /\ Distinct(kept) /\ q \notin Holds(kept)
          BY <2>1, <3>3
      <4>2. /\ Append(kept, q) \in Seq(HttpRequests) /\ Len(Append(kept, q)) = Len(kept) + 1
            /\ Distinct(Append(kept, q)) /\ Holds(Append(kept, q)) = Holds(kept) \cup {q}
        <5> HIDE DEF kept
        <5> QED
            BY <4>1, AppendHolds
      <4> QED
          BY <3>2, <3>3, <4>2
    <3>5. x5' = x5 \cup {Head(x2)}
      <4>1. Tail(x2) # x2
          BY <1>0, <3>3 DEF MetricsTyped
      <4> QED
          BY <1>1, <2>3, <4>1 DEF Metrics!Record, Metrics!WithRoom
    <3>6. Head(x2) \in HttpRequests
        BY <1>0, <3>3 DEF MetricsTyped, Holds
    <3>7. MetricsTyped'
        BY <1>0, <2>1, <2>3, <3>4, <3>5, <3>6, Bounds DEF MetricsTyped
    <3>8. ASSUME NEW p \in HttpRequests PROVE InOnePlace(p)'
        BY <1>0, <2>1, <2>2, <3>3, <3>4, <3>5 DEF InOnePlace
    <3> QED
        BY <2>1, <3>4, <3>7, <3>8 DEF MetricsInv
  <2>4. CASE Len(x2) # BufferRows
    <3>1. x2' = Append(x2, q) /\ x5' = x5
        BY <1>1, <2>4 DEF Metrics!Record, Metrics!WithRoom
    <3>2. /\ x2' \in Seq(HttpRequests) /\ Len(x2') = Len(x2) + 1
          /\ Distinct(x2') /\ Holds(x2') = Holds(x2) \cup {q}
        BY <1>0, <2>1, <3>1, AppendHolds DEF MetricsTyped
    <3>3. MetricsTyped'
        BY <1>0, <2>1, <2>4, <3>1, <3>2, Bounds DEF MetricsTyped
    <3>4. ASSUME NEW p \in HttpRequests PROVE InOnePlace(p)'
        BY <1>0, <2>1, <2>2, <3>1, <3>2 DEF InOnePlace
    <3> QED
        BY <2>1, <3>2, <3>3, <3>4 DEF MetricsInv
  <2> QED
      BY <2>3, <2>4
<1>2. ASSUME NEW f \in Procs, Metrics!StartFlush(f) PROVE MetricsInv'
  <2>1. x1' = x1 /\ x2' = x2 /\ x4' = x4 /\ x5' = x5 /\ x3' = [x3 EXCEPT ![f].on = TRUE]
      BY <1>2 DEF Metrics!StartFlush
  <2>2. MetricsTyped' /\ \A g \in Procs : x3'[g].rows = x3[g].rows /\ (x3[g].on => x3'[g].on)
      BY <1>0, <2>1 DEF MetricsTyped
  <2>3. \A p : InHand(p)' <=> InHand(p)
      BY <2>2 DEF InHand
  <2>4. ASSUME NEW p \in HttpRequests PROVE InOnePlace(p)'
      BY <1>0, <2>1, <2>3 DEF InOnePlace
  <2> QED
      BY <2>1, <2>2, <2>4 DEF MetricsInv
<1>3. ASSUME NEW f \in Procs, Metrics!PopRow(f) PROVE MetricsInv'
  <2>1. /\ x2 # <<>> /\ x3[f].on /\ x1' = x1 /\ x4' = x4 /\ x5' = x5 /\ x2' = Tail(x2)
        /\ x3' = [x3 EXCEPT ![f].rows = @ \cup {Head(x2)}]
      BY <1>3 DEF Metrics!PopRow, Metrics!PoppedBuffer
  <2>2. /\ x2' \in Seq(HttpRequests) /\ Len(x2') = Len(x2) - 1
        /\ Distinct(x2') /\ Holds(x2') = Holds(x2) \ {Head(x2)} /\ Head(x2) \in Holds(x2)
      BY <1>0, <2>1, TailHolds DEF MetricsTyped
  <2>3. Head(x2) \in HttpRequests
      BY <1>0, <2>2 DEF MetricsTyped, Holds
  <2>4. /\ x3' \in [Procs -> [on : BOOLEAN, rows : SUBSET HttpRequests]]
        /\ \A g \in Procs : /\ x3'[g].rows = IF g = f THEN x3[f].rows \cup {Head(x2)} ELSE x3[g].rows
                            /\ x3'[g].on = x3[g].on
      BY <1>0, <2>1, <2>3 DEF MetricsTyped
  <2>5. \A p : InHand(p)' <=> InHand(p) \/ p = Head(x2)
      BY <2>4 DEF InHand
  <2>6. MetricsTyped'
    <3>1. Len(x2') <= BufferRows
        BY <1>0, <2>2, Bounds DEF MetricsTyped
    <3> QED
        BY <1>0, <2>1, <2>2, <2>4, <3>1 DEF MetricsTyped
  <2>7. ~InHand(Head(x2))
      BY <1>0, <2>2, <2>3 DEF InOnePlace
  <2>8. \A g \in Procs : Head(x2) \notin x3[g].rows
      BY <2>7 DEF InHand
  <2>9. ASSUME NEW p \in HttpRequests PROVE InOnePlace(p)'
      BY <1>0, <2>1, <2>2, <2>5 DEF InOnePlace
  <2>10. ASSUME NEW g \in Procs, NEW h \in Procs PROVE g = h \/ x3'[g].rows \cap x3'[h].rows = {}
      BY <2>4, <2>8 DEF MetricsInv
  <2>11. ASSUME NEW g \in Procs, ~x3'[g].on PROVE x3'[g].rows = {}
      BY <2>1, <2>4, <2>11 DEF MetricsInv
  <2> QED
      BY <2>2, <2>6, <2>9, <2>10, <2>11 DEF MetricsInv
\* A flush ends: its rows are in the table, or known to be lost.
<1>4. ASSUME NEW f \in Procs, Metrics!InsertRows(f) \/ Metrics!FlushFails(f) PROVE MetricsInv'
  <2>1. /\ x1' = x1 /\ x2' = x2 /\ x3' = [x3 EXCEPT ![f] = [on |-> FALSE, rows |-> {}]]
        /\ \/ /\ x4' = [q \in HttpRequests |-> IF q \in x3[f].rows THEN x4[q] + 1 ELSE x4[q]]
              /\ x5' = x5
           \/ x5' = x5 \cup x3[f].rows /\ x4' = x4
      BY <1>4 DEF Metrics!InsertRows, Metrics!FlushFails, Metrics!NotFlushing
  <2>2. [on |-> FALSE, rows |-> {}] \in [on : BOOLEAN, rows : SUBSET HttpRequests]
      OBVIOUS
  <2>3. /\ x3' \in [Procs -> [on : BOOLEAN, rows : SUBSET HttpRequests]]
        /\ \A g \in Procs : g # f => x3'[g] = x3[g]
        /\ x3'[f].rows = {}
      BY <1>0, <2>1, <2>2 DEF MetricsTyped
  <2>4. \A p : InHand(p)' <=> InHand(p) /\ p \notin x3[f].rows
      BY <2>3 DEF InHand, MetricsInv
  <2>5. \A q \in x3[f].rows : q \in HttpRequests /\ InHand(q) /\ x4[q] = 0 /\ q \notin x5
    <3>1. \A q \in x3[f].rows : q \in HttpRequests /\ InHand(q)
        BY <1>0 DEF MetricsTyped, InHand
    <3> QED
        BY <1>0, <3>1 DEF MetricsTyped, InOnePlace
  <2>6. x4' \in [HttpRequests -> {0, 1}] /\ x5' \in SUBSET HttpRequests
      BY <1>0, <2>1, <2>5 DEF MetricsTyped
  <2>7. \A q \in HttpRequests :
            /\ q \in x3[f].rows => x4'[q] = 1 \/ q \in x5'
            /\ q \notin x3[f].rows => x4'[q] = x4[q] /\ (q \in x5' <=> q \in x5)
      BY <1>0, <2>1, <2>5 DEF MetricsTyped
  <2>8. ASSUME NEW p \in HttpRequests PROVE InOnePlace(p)'
      BY <1>0, <2>1, <2>4, <2>5, <2>7 DEF InOnePlace
  <2>9. MetricsTyped'
      BY <1>0, <2>1, <2>3, <2>6 DEF MetricsTyped
  <2>10. /\ \A g, h \in Procs : g = h \/ x3'[g].rows \cap x3'[h].rows = {}
         /\ \A g \in Procs : ~x3'[g].on => x3'[g].rows = {}
      BY <2>3 DEF MetricsInv
  <2> QED
      BY <1>0, <2>1, <2>8, <2>9, <2>10 DEF MetricsInv
<1> QED
    BY <1>1, <1>2, <1>3, <1>4 DEF Metrics!MetricsNext

-----------------------------------------------------------------------------
(* Ascending sequences of numbers.                                          *)

Ascends(s) == \A i, k \in DOMAIN s : i < k => s[i] < s[k]

LEMMA AscendsDistinct ==
    ASSUME NEW s \in Seq(Nat), Ascends(s)
    PROVE  Distinct(s)
BY DEF Ascends, Distinct

LEMMA TailAscends ==
    ASSUME NEW s \in Seq(Nat), s # <<>>, Ascends(s)
    PROVE  /\ Tail(s) \in Seq(Nat) /\ Ascends(Tail(s)) /\ Holds(Tail(s)) = Holds(s) \ {Head(s)}
           /\ Head(s) \in Holds(s) /\ \A e \in Holds(Tail(s)) : Head(s) < e
<1>1. /\ Tail(s) \in Seq(Nat) /\ Holds(Tail(s)) = Holds(s) \ {Head(s)} /\ Head(s) \in Holds(s)
    BY AscendsDistinct, TailHolds
<1>2. /\ Len(s) \in Nat /\ Len(s) > 0 /\ Head(s) = s[1] /\ DOMAIN s = 1 .. Len(s)
      /\ DOMAIN Tail(s) = 1 .. Len(s) - 1 /\ \A i \in 1 .. Len(s) - 1 : Tail(s)[i] = s[i + 1]
    OBVIOUS
<1>3. Ascends(Tail(s))
    BY <1>2, SMTT(30) DEF Ascends
<1>4. ASSUME NEW e \in Holds(Tail(s)) PROVE Head(s) < e
    BY <1>2 DEF Holds, Ascends
<1> QED
    BY <1>1, <1>3, <1>4

LEMMA AppendAscends ==
    ASSUME NEW s \in Seq(Nat), NEW e \in Nat, Ascends(s), \A d \in Holds(s) : d < e
    PROVE  /\ Append(s, e) \in Seq(Nat) /\ Ascends(Append(s, e))
           /\ Holds(Append(s, e)) = Holds(s) \cup {e}
<1>1. e \notin Holds(s)
    OBVIOUS
<1>2. Append(s, e) \in Seq(Nat) /\ Holds(Append(s, e)) = Holds(s) \cup {e}
    BY <1>1, AscendsDistinct, AppendHolds
<1>3. /\ Len(s) \in Nat /\ DOMAIN s = 1 .. Len(s) /\ DOMAIN Append(s, e) = 1 .. Len(s) + 1
      /\ \A i \in 1 .. Len(s) : Append(s, e)[i] = s[i] /\ s[i] \in Holds(s)
      /\ Append(s, e)[Len(s) + 1] = e
    BY DEF Holds
<1>4. Ascends(Append(s, e))
    BY <1>3 DEF Ascends
<1> QED
    BY <1>2, <1>4

\* An ascending sequence in two.
LEMMA SplitAscends ==
    ASSUME NEW s \in Seq(Nat), Ascends(s), NEW cut \in Nat, cut <= Len(s),
           NEW p \in Seq(Nat), NEW q \in Seq(Nat),
           DOMAIN p = 1 .. cut, \A i \in 1 .. cut : p[i] = s[i],
           DOMAIN q = 1 .. Len(s) - cut, \A i \in 1 .. Len(s) - cut : q[i] = s[cut + i]
    PROVE  /\ Ascends(p) /\ Ascends(q) /\ Holds(s) = Holds(p) \cup Holds(q)
           /\ \A d \in Holds(p), e \in Holds(q) : d < e
<1>1. Len(s) \in Nat /\ DOMAIN s = 1 .. Len(s)
    OBVIOUS
<1>2. /\ \A i \in 1 .. cut : i \in DOMAIN s
      /\ \A i \in 1 .. Len(s) - cut : cut + i \in DOMAIN s /\ s[cut + i] \in Nat
    BY <1>1
<1>3. Ascends(p) /\ Ascends(q)
  <2>1. ASSUME NEW i \in 1 .. cut, NEW m \in 1 .. cut, i < m PROVE p[i] < p[m]
    <3>1. i \in DOMAIN s /\ m \in DOMAIN s /\ p[i] = s[i] /\ p[m] = s[m]
        BY <1>2
    <3> QED
        BY <2>1, <3>1 DEF Ascends
  <2>2. ASSUME NEW i \in 1 .. Len(s) - cut, NEW m \in 1 .. Len(s) - cut, i < m PROVE q[i] < q[m]
    <3>1. cut + i < cut + m
        BY <1>1, <2>2
    <3> QED
        BY <1>2, <3>1 DEF Ascends
  <2> QED
      BY <2>1, <2>2 DEF Ascends
<1>4. ASSUME NEW d \in Holds(p), NEW e \in Holds(q) PROVE d < e
  <2>1. PICK i \in 1 .. cut : d = s[i]
      BY <1>1 DEF Holds
  <2>2. PICK m \in 1 .. Len(s) - cut : e = s[cut + m]
      BY <1>1 DEF Holds
  <2>3. i < cut + m /\ i \in DOMAIN s /\ cut + m \in DOMAIN s
      BY <1>1
  <2> QED
      BY <2>1, <2>2, <2>3 DEF Ascends
<1>5. Holds(p) \subseteq Holds(s) /\ Holds(q) \subseteq Holds(s)
    BY <1>1, <1>2 DEF Holds
<1>6. ASSUME NEW e \in Holds(s) PROVE e \in Holds(p) \cup Holds(q)
  <2>1. PICK i \in 1 .. Len(s) : s[i] = e
      BY <1>1, <1>6 DEF Holds
  <2>2. CASE i <= cut
    <3>1. i \in 1 .. cut /\ p[i] = e
        BY <1>1, <2>1, <2>2
    <3> QED
        BY <3>1 DEF Holds
  <2>3. CASE ~(i <= cut)
    <3>2. i - cut \in 1 .. Len(s) - cut /\ cut + (i - cut) = i
        BY <1>1, <2>3
    <3>1. i - cut \in 1 .. Len(s) - cut /\ q[i - cut] = e
        BY <2>1, <3>2
    <3> QED
        BY <1>1, <3>1 DEF Holds
  <2> QED
      BY <2>2, <2>3
<1> QED
    BY <1>3, <1>4, <1>5, <1>6

-----------------------------------------------------------------------------
(* The riders' replies.  x1 is holder, x2 replies, x3 inbox, x4 batch, x5   *)
(* stored, x6 toAck, x7 noting and x8 astray.                               *)

Text == [from : Procs, says : Reply!Consent \cup {"other"}]

RepliesTyped ==
    /\ x1 \in [PhoneHolders -> [phone : Procs \cup {"no_number"}, optedOut : BOOLEAN]]
    /\ x2 \in Seq(Text)
    /\ x3 \in Seq(Nat) /\ Holds(x3) \subseteq DOMAIN x2
    /\ x4 \in Seq(Nat) /\ Holds(x4) \subseteq DOMAIN x2
    /\ x5 \in SUBSET (DOMAIN x2) /\ x6 \in SUBSET x5
    /\ x7 \in SUBSET Procs /\ x8 \in SUBSET Procs

\* What is still to be heard: the last of what was texted, in the order it was.
ToHear == (Holds(x3) \cup Holds(x4)) \ x5

InOrder ==
    /\ Ascends(x3) /\ Ascends(x4)
    /\ \A i \in Holds(x4), k \in Holds(x3) : i < k
    /\ \A i \in ToHear, k \in DOMAIN x2 : i <= k => k \in ToHear

ConsentOf(n) == {i \in ToHear : x2[i].from = n /\ x2[i].says \in Reply!Consent}

ShownAsBlocked(a) ==
    x1[a].phone \in Procs \ x8 /\ ConsentOf(x1[a].phone) = {} => x1[a].optedOut = Reply!Blocked(x1[a].phone)

ReplyInv == RepliesTyped /\ InOrder /\ \A a \in PhoneHolders : ShownAsBlocked(a)

LEMMA InitReply == Reply!RepliesInit => ReplyInv
<1> SUFFICES ASSUME Reply!RepliesInit PROVE ReplyInv
    OBVIOUS
<1>1. /\ x2 = <<>> /\ x3 = <<>> /\ x4 = <<>> /\ x5 = {} /\ x6 = {} /\ x7 = {} /\ x8 = {}
      /\ x1 = [a \in PhoneHolders |-> [phone |-> "no_number", optedOut |-> FALSE]]
    BY DEF Reply!RepliesInit
<1>2. DOMAIN x2 = {} /\ Holds(x3) = {} /\ Holds(x4) = {} /\ DOMAIN x3 = {} /\ DOMAIN x4 = {}
    BY <1>1 DEF Holds
<1>3. RepliesTyped
    BY <1>1, <1>2 DEF RepliesTyped
<1>4. InOrder
    BY <1>2 DEF InOrder, Ascends, ToHear
<1>5. ASSUME NEW a \in PhoneHolders PROVE ShownAsBlocked(a)
  <2>1. ~Reply!Blocked(x1[a].phone)
      BY <1>2 DEF Reply!Blocked, Reply!Ids
  <2>2. x1[a].optedOut = FALSE
      BY <1>1
  <2> QED
      BY <2>1, <2>2 DEF ShownAsBlocked, Reply!Blocked
<1> QED
    BY <1>3, <1>4, <1>5 DEF ReplyInv

LEMMA ReplyHolds == ReplyInv => Reply!RepliesTypeOK /\ Reply!EchoIsHonest
<1> SUFFICES ASSUME ReplyInv PROVE Reply!RepliesTypeOK /\ Reply!EchoIsHonest
    OBVIOUS
<1>1. Reply!RepliesTypeOK
  <2>1. x3 \in Seq(DOMAIN x2) /\ x4 \in Seq(DOMAIN x2)
    <3>1. ASSUME NEW s \in Seq(Nat), Holds(s) \subseteq DOMAIN x2 PROVE s \in Seq(DOMAIN x2)
        BY <3>1 DEF Holds
    <3> QED
        BY <3>1 DEF ReplyInv, RepliesTyped
  <2> QED
      BY <2>1 DEF ReplyInv, RepliesTyped, Text, Reply!RepliesTypeOK, Reply!Ids
<1>2. Reply!EchoIsHonest
  <2>1. ASSUME NEW n, Reply!Waiting(n) = {} PROVE ConsentOf(n) = {}
      BY <2>1 DEF Reply!Waiting, Reply!ToSet, Reply!IsFresh, ConsentOf, ToHear, Holds
  <2> QED
      BY <2>1 DEF ReplyInv, ShownAsBlocked, Reply!EchoIsHonest
<1> QED
    BY <1>1, <1>2

LEMMA TextsTyped ==
    ASSUME RepliesTyped, NEW i \in DOMAIN x2
    PROVE  x2[i] \in Text /\ x2[i].from \in Procs
<1>1. x2[i] \in Text
    BY DEF RepliesTyped
<1> QED
    BY <1>1 DEF Text

LEMMA SameBlocked ==
    ASSUME x2' = x2
    PROVE  \A n : Reply!Blocked(n)' = Reply!Blocked(n)
BY DEF Reply!Blocked, Reply!Ids

\* Nothing more is heard of a number, unless the code knows.
LEMMA StillShownAsBlocked ==
    ASSUME ReplyInv, x1' = x1, x2' = x2, x8 \subseteq x8',
           \A n \in Procs \ x8' : ConsentOf(n)' = ConsentOf(n)
    PROVE  \A a \in PhoneHolders : ShownAsBlocked(a)'
<1> SUFFICES ASSUME NEW a \in PhoneHolders PROVE ShownAsBlocked(a)'
    OBVIOUS
<1>1. ShownAsBlocked(a) /\ x1'[a] = x1[a]
    BY DEF ReplyInv
<1>2. Reply!Blocked(x1[a].phone)' = Reply!Blocked(x1[a].phone)
    BY SameBlocked DEF Reply!Blocked, Reply!Ids
<1>3. x1[a].phone \in Procs \ x8' => ConsentOf(x1[a].phone)' = ConsentOf(x1[a].phone)
    BY DEF ConsentOf, ToHear
<1> QED
    BY <1>1, <1>2, <1>3 DEF ShownAsBlocked

\* The poll is done with a reply.
LEMMA PopsReply ==
    ASSUME ReplyInv, x4 # <<>>, x4' = Tail(x4), x3' = x3, x2' = x2,
           x5 \subseteq x5', x5' \subseteq x5 \cup {Head(x4)}
    PROVE  /\ Head(x4) \in DOMAIN x2 /\ x4' \in Seq(Nat) /\ Holds(x4)' \subseteq DOMAIN x2
           /\ InOrder' /\ ToHear' = ToHear \ {Head(x4)}
           /\ Head(x4) \notin x5 => Head(x4) \in ToHear
<1> DEFINE i == Head(x4)
<1>1. /\ x4' \in Seq(Nat) /\ Ascends(x4') /\ Holds(x4') = Holds(x4) \ {i} /\ i \in Holds(x4)
      /\ \A e \in Holds(x4') : i < e
    BY TailAscends DEF ReplyInv, RepliesTyped, InOrder
<1> HIDE DEF i
<1>2. /\ Holds(x3)' = Holds(x3) /\ Holds(x4)' = Holds(x4')
    BY DEF Holds
<1>3. \A e \in Holds(x3) : i < e
    BY <1>1 DEF ReplyInv, InOrder
<1>4. i \in DOMAIN x2 /\ i \in Nat /\ \A k \in DOMAIN x2 : k \in Nat
    BY <1>1 DEF ReplyInv, RepliesTyped
<1>5. i \notin Holds(x3)
    BY <1>3, <1>4
<1>6. ToHear' = ToHear \ {i}
    BY <1>1, <1>2, <1>5 DEF ToHear, i
<1>7. ASSUME NEW e \in ToHear', NEW k \in DOMAIN x2, e <= k PROVE k \in ToHear'
  <2>1. k \in ToHear
      BY <1>6, <1>7 DEF ReplyInv, InOrder
  <2>2. i < e /\ e \in DOMAIN x2
      BY <1>1, <1>2, <1>3 DEF ToHear, ReplyInv, RepliesTyped
  <2> QED
      BY <1>4, <1>6, <1>7, <2>1, <2>2
<1>8. InOrder'
    BY <1>1, <1>2, <1>7 DEF ReplyInv, InOrder, Ascends
<1> QED
    BY <1>1, <1>2, <1>4, <1>6, <1>8 DEF ReplyInv, RepliesTyped, ToHear, i

LEMMA Texts ==
    ASSUME ReplyInv, NEW n \in Procs, NEW says \in Reply!Consent \cup {"other"}, Reply!TextBack(n, says)
    PROVE  ReplyInv'
<1> DEFINE new == Len(x2) + 1
<1>0. RepliesTyped /\ InOrder
    BY DEF ReplyInv
<1>1. /\ x2' = Append(x2, [from |-> n, says |-> says]) /\ x3' = Append(x3, new)
      /\ UNCHANGED <<x1, x4, x5, x6, x7, x8>>
    BY DEF Reply!TextBack
<1>2. /\ Len(x2) \in Nat /\ DOMAIN x2 = 1 .. Len(x2) /\ [from |-> n, says |-> says] \in Text
    BY <1>0 DEF RepliesTyped, Text
<1>3. /\ x2' \in Seq(Text) /\ DOMAIN x2' = 1 .. new /\ x2'[new] = [from |-> n, says |-> says]
      /\ \A i \in DOMAIN x2 : x2'[i] = x2[i]
    BY <1>0, <1>1, <1>2 DEF RepliesTyped
<1>4. x3' \in Seq(Nat) /\ Ascends(x3') /\ Holds(x3') = Holds(x3) \cup {new}
  <2>1. new \in Nat /\ \A e \in Holds(x3) : e < new
      BY <1>0, <1>2 DEF RepliesTyped
  <2> HIDE DEF new
  <2> QED
      BY <1>0, <1>1, <2>1, AppendAscends DEF RepliesTyped, InOrder
<1>5. Holds(x3)' = Holds(x3') /\ Holds(x4)' = Holds(x4)
    BY <1>1 DEF Holds
<1>6. new \notin DOMAIN x2 /\ DOMAIN x2' = DOMAIN x2 \cup {new} /\ \A i \in DOMAIN x2 : i \in Nat /\ i < new
    BY <1>2, <1>3
<1>7. RepliesTyped'
    BY <1>0, <1>1, <1>3, <1>4, <1>5, <1>6 DEF RepliesTyped
<1> HIDE DEF new
<1>8. ToHear' = ToHear \cup {new}
    BY <1>0, <1>1, <1>4, <1>5, <1>6 DEF ToHear, RepliesTyped
<1>9. InOrder'
  <2>1. \A i \in Holds(x4), k \in Holds(x3') : i < k
      BY <1>0, <1>4, <1>6 DEF RepliesTyped, InOrder
  <2>2. \A i \in ToHear', k \in DOMAIN x2' : i <= k => k \in ToHear'
    <3>1. new \in Nat
        BY <1>2 DEF new
    <3>2. ASSUME NEW i \in ToHear', NEW k \in DOMAIN x2, i <= k PROVE k \in ToHear
      <4>1. i # new
          BY <1>6, <3>1, <3>2
      <4> QED
          BY <1>0, <1>8, <3>2, <4>1 DEF InOrder
    <3> QED
        BY <1>6, <1>8, <3>2
  <2> QED
      BY <1>0, <1>1, <1>4, <1>5, <2>1, <2>2 DEF InOrder, Ascends
<1>10. ASSUME NEW a \in PhoneHolders PROVE ShownAsBlocked(a)'
  <2> DEFINE m == x1[a].phone
  <2>0. x2'[new].from = n /\ x2'[new].says = says
      BY <1>3
  <2>1. CASE m = n /\ says \in Reply!Consent
    <3>1. new \in ConsentOf(m)'
        BY <1>1, <1>8, <2>0, <2>1 DEF ConsentOf, Reply!Consent
    <3> QED
        BY <1>1, <3>1 DEF ShownAsBlocked
  <2>2. CASE ~(m = n /\ says \in Reply!Consent)
    <3>1. \A i \in DOMAIN x2' : x2'[i].from = m /\ x2'[i].says \in Reply!Consent
                                  <=> /\ i \in DOMAIN x2
                                      /\ x2[i].from = m /\ x2[i].says \in Reply!Consent
      <4> HIDE DEF m
      <4>1. ~(x2'[new].from = m /\ x2'[new].says \in Reply!Consent)
          BY <2>0, <2>2
      <4>2. \A i \in DOMAIN x2 : x2'[i] = x2[i]
          BY <1>3
      <4> QED
          BY <1>6, <4>1, <4>2
    <3>2. Reply!Blocked(m)' <=> Reply!Blocked(m)
      <4>1. {i \in DOMAIN x2' : x2'[i].from = m /\ x2'[i].says \in Reply!Consent} =
            {i \in DOMAIN x2 : x2[i].from = m /\ x2[i].says \in Reply!Consent}
          BY <1>6, <3>1
      <4> QED
          BY <1>1, <1>3, <4>1 DEF Reply!Blocked, Reply!Ids
    <3>3. ConsentOf(m) \subseteq ConsentOf(m)'
        BY <1>0, <1>1, <1>3, <1>8 DEF ConsentOf, ToHear, RepliesTyped
    <3> QED
        BY <1>1, <3>2, <3>3 DEF ReplyInv, ShownAsBlocked, Reply!Blocked
  <2> QED
      BY <2>1, <2>2
<1> QED
    BY <1>7, <1>9, <1>10 DEF ReplyInv

LEMMA Stores ==
    ASSUME ReplyInv, Reply!StoreReply
    PROVE  ReplyInv'
<1> DEFINE i == Head(x4)
           n == x2[i].from
<1>0. RepliesTyped /\ InOrder
    BY DEF ReplyInv
<1>1. /\ x4 # <<>> /\ i \notin x5 /\ x5' = x5 \cup {i} /\ x6' = {i} /\ x4' = Tail(x4)
      /\ x1' = Reply!Echoed(n, x2[i].says)
      /\ x8' = IF x2[i].says \in Reply!Consent THEN x8 \ {n} ELSE x8
      /\ UNCHANGED <<x2, x3, x7>>
    BY DEF Reply!StoreReply, Reply!IsFresh
<1>2. /\ i \in DOMAIN x2 /\ x4' \in Seq(Nat) /\ Holds(x4)' \subseteq DOMAIN x2
      /\ InOrder' /\ ToHear' = ToHear \ {i} /\ i \in ToHear
    BY <1>1, PopsReply
<1> HIDE DEF i
<1>3. n \in Procs
    BY <1>0, <1>2, TextsTyped
<1> HIDE DEF n
<1>4. /\ x1' \in [PhoneHolders -> [phone : Procs \cup {"no_number"}, optedOut : BOOLEAN]]
      /\ \A a \in PhoneHolders : x1'[a].phone = x1[a].phone
      /\ \A a \in PhoneHolders : ~(x1[a].phone = n /\ x2[i].says \in Reply!Consent) => x1'[a] = x1[a]
      /\ \A a \in PhoneHolders : x1[a].phone = n /\ x2[i].says \in Reply!Consent
                                    => x1'[a].optedOut = (x2[i].says = "stop")
    BY <1>0, <1>1 DEF Reply!Echoed, RepliesTyped
<1>5. RepliesTyped'
  <2>1. Holds(x3)' = Holds(x3)
      BY <1>1 DEF Holds
  <2> QED
      BY <1>0, <1>1, <1>2, <1>4, <2>1 DEF RepliesTyped
<1>6. ASSUME NEW a \in PhoneHolders PROVE ShownAsBlocked(a)'
  <2> DEFINE m == x1[a].phone
  <2>0. x1'[a].phone = m
      BY <1>4
  <2>1. CASE m = n /\ x2[i].says \in Reply!Consent
    <3>1. ASSUME ConsentOf(m)' = {} PROVE Reply!Blocked(m)' = (x2[i].says = "stop")
      <4>1. ASSUME NEW k \in DOMAIN x2, x2[k].from = m, x2[k].says \in Reply!Consent PROVE k <= i
        <5>1. k \notin ToHear'
            BY <1>1, <2>0, <3>1, <4>1 DEF ConsentOf, Reply!Consent
        <5>2. k = i \/ k \notin ToHear
            BY <1>2, <5>1
        <5>3. i \in Nat /\ k \in Nat
            BY <1>0, <1>2 DEF RepliesTyped
        <5> QED
            BY <1>0, <1>2, <5>2, <5>3 DEF InOrder
      <4> DEFINE said == {k \in DOMAIN x2 : x2[k].from = m /\ x2[k].says \in Reply!Consent}
      <4>2. i \in said /\ \A k \in said : k <= i
          BY <1>2, <2>1, <4>1 DEF n
      <4>3. i \in Nat /\ said \subseteq Nat
          BY <1>0, <1>2 DEF RepliesTyped
      <4>4. Reply!Blocked(m) = (x2[i].says = "stop")
        <5>1. Reply!Blocked(m) <=> \E k \in said : x2[k].says = "stop" /\ \A l \in said : l <= k
            BY DEF Reply!Blocked, Reply!Ids
        <5> HIDE DEF said
        <5>2. \A k \in said : (\A l \in said : l <= k) => k = i
            BY <4>2, <4>3
        <5>3. Reply!Blocked(m) \in BOOLEAN
            BY DEF Reply!Blocked
        <5> QED
            BY <4>2, <5>1, <5>2, <5>3
      <4> QED
          BY <1>1, <4>4, <2>0, SameBlocked DEF Reply!Blocked, Reply!Ids
    <3> QED
        BY <1>4, <2>0, <2>1, <3>1 DEF ShownAsBlocked, ConsentOf, Reply!Blocked
  <2>2. CASE ~(m = n /\ x2[i].says \in Reply!Consent)
    <3>1. ConsentOf(m)' = ConsentOf(m)
        BY <1>1, <1>2, <2>0, <2>2 DEF ConsentOf, Reply!Consent, n
    <3>2. Reply!Blocked(m)' = Reply!Blocked(m)
        BY <1>1, <2>0 DEF Reply!Blocked, Reply!Ids
    <3>3. x1'[a] = x1[a] /\ (m \notin x8' => m \notin x8)
        BY <1>1, <1>4, <2>2
    <3> QED
        BY <3>1, <3>2, <3>3 DEF ReplyInv, ShownAsBlocked
  <2> QED
      BY <2>1, <2>2
<1> QED
    BY <1>2, <1>5, <1>6 DEF ReplyInv

\* Someone's row is written: what is to be heard stays.
LEMMA RowWritten ==
    ASSUME ReplyInv, UNCHANGED <<x2, x3, x4, x5, x6>>, x7' \in SUBSET Procs, x8' \in SUBSET Procs,
           x1' \in [PhoneHolders -> [phone : Procs \cup {"no_number"}, optedOut : BOOLEAN]],
           \A a \in PhoneHolders :
               \/ x1'[a] = x1[a] /\ (x1[a].phone \in x8 => x1[a].phone \in x8')
               \/ x1'[a].phone \in x8' \/ x1'[a].phone \notin Procs
               \/ x1'[a].optedOut = Reply!Blocked(x1'[a].phone)
    PROVE  ReplyInv'
<1>1. Holds(x3)' = Holds(x3) /\ Holds(x4)' = Holds(x4) /\ ToHear' = ToHear
    BY DEF Holds, ToHear
<1>2. RepliesTyped' /\ InOrder'
    BY <1>1 DEF ReplyInv, RepliesTyped, InOrder, Ascends
<1>3. ASSUME NEW a \in PhoneHolders PROVE ShownAsBlocked(a)'
  <2>1. ConsentOf(x1[a].phone)' = ConsentOf(x1'[a].phone)
      BY <1>1 DEF ConsentOf, Reply!Consent
  <2>2. Reply!Blocked(x1[a].phone)' = Reply!Blocked(x1'[a].phone)
      BY DEF Reply!Blocked, Reply!Ids
  <2> QED
      BY <2>1, <2>2 DEF ReplyInv, ShownAsBlocked
<1> QED
    BY <1>2, <1>3 DEF ReplyInv

LEMMA ReplyStep ==
    ASSUME ReplyInv, Reply!RepliesNext
    PROVE  ReplyInv'
<1>0. RepliesTyped /\ InOrder
    BY DEF ReplyInv
<1>1. ASSUME NEW i \in Reply!Ids, Reply!HandOutAgain(i) PROVE ReplyInv'
  <2>1. /\ x3 = <<>> /\ x4 = <<>> /\ i \in x5 /\ x3' = <<i>> /\ UNCHANGED <<x1, x2, x4, x5, x6, x7, x8>>
      BY <1>1 DEF Reply!HandOutAgain
  <2>2. i \in DOMAIN x2 /\ i \in Nat
      BY <1>0, <2>1 DEF RepliesTyped
  <2>3. /\ x3' \in Seq(Nat) /\ DOMAIN x3' = {1} /\ x3'[1] = i
        /\ Holds(x3) = {} /\ Holds(x4) = {}
      BY <2>1, <2>2 DEF Holds
  <2>4. Holds(x3)' = {i} /\ Holds(x4)' = {} /\ Ascends(x3') /\ Ascends(x4')
      BY <1>0, <2>1, <2>3 DEF Holds, Ascends, InOrder
  <2>5. ToHear' = {} /\ ToHear = {}
      BY <2>1, <2>3, <2>4 DEF ToHear
  <2>6. RepliesTyped' /\ InOrder'
      BY <1>0, <2>1, <2>2, <2>3, <2>4, <2>5 DEF RepliesTyped, InOrder
  <2>7. \A n \in Procs : ConsentOf(n)' = ConsentOf(n)
      BY <2>1, <2>5 DEF ConsentOf
  <2> QED
      BY <2>1, <2>6, <2>7, StillShownAsBlocked DEF ReplyInv
<1>2. CASE Reply!Poll
  <2> DEFINE cut == IF Len(x3) < RepliesPerPoll THEN Len(x3) ELSE RepliesPerPoll
  <2>1. /\ x4 = <<>> /\ x4' = SubSeq(x3, 1, cut) /\ x3' = SubSeq(x3, cut + 1, Len(x3))
        /\ UNCHANGED <<x1, x2, x5, x6, x7, x8>>
      BY <1>2 DEF Reply!Poll
  <2>2. cut \in Nat /\ cut <= Len(x3) /\ x3 \in Seq(Nat) /\ Len(x3) \in Nat
      BY <1>0, Bounds DEF RepliesTyped
  <2> HIDE DEF cut
  <2>3. /\ x4' \in Seq(Nat) /\ DOMAIN x4' = 1 .. cut /\ \A i \in 1 .. cut : x4'[i] = x3[i]
        /\ x3' \in Seq(Nat) /\ DOMAIN x3' = 1 .. Len(x3) - cut
        /\ \A i \in 1 .. Len(x3) - cut : x3'[i] = x3[cut + i]
    <3>1. /\ x4' \in Seq(Nat) /\ DOMAIN x4' = 1 .. cut /\ \A i \in 1 .. cut : x4'[i] = x3[i]
        BY <2>1, <2>2
    <3>2. x3' \in Seq(Nat) /\ Len(x3') = Len(x3) - cut /\ DOMAIN x3' = 1 .. Len(x3')
        BY <2>1, <2>2
    <3>3. \A i \in 1 .. Len(x3) - cut : x3'[i] = x3[cut + i]
        BY <2>1, <2>2
    <3> QED
        BY <3>1, <3>2, <3>3
  <2>4. /\ Ascends(x4') /\ Ascends(x3') /\ Holds(x3) = Holds(x4') \cup Holds(x3')
        /\ \A d \in Holds(x4'), e \in Holds(x3') : d < e
      BY <1>0, <2>2, <2>3, SplitAscends, ZenonT(30) DEF InOrder
  <2>5. Holds(x3)' = Holds(x3') /\ Holds(x4)' = Holds(x4') /\ Holds(x4) = {}
      BY <2>1 DEF Holds
  <2>6. ToHear' = ToHear
      BY <2>1, <2>4, <2>5 DEF ToHear
  <2>7. RepliesTyped'
      BY <1>0, <2>1, <2>3, <2>4, <2>5 DEF RepliesTyped
  <2>8. InOrder'
      BY <1>0, <2>1, <2>4, <2>5, <2>6 DEF InOrder, Ascends
  <2>9. \A n \in Procs : ConsentOf(n)' = ConsentOf(n)
      BY <2>1, <2>6 DEF ConsentOf, Reply!Consent
  <2> QED
      BY <2>1, <2>7, <2>8, <2>9, StillShownAsBlocked DEF ReplyInv
<1>3. CASE Reply!SkipDuplicate
  <2>1. x4 # <<>> /\ Head(x4) \in x5 /\ x4' = Tail(x4) /\ UNCHANGED <<x1, x2, x3, x5, x6, x7, x8>>
      BY <1>3 DEF Reply!SkipDuplicate, Reply!IsFresh
  <2>2. /\ x4' \in Seq(Nat) /\ Holds(x4)' \subseteq DOMAIN x2 /\ InOrder' /\ ToHear' = ToHear \ {Head(x4)}
      BY <2>1, PopsReply
  <2>3. ToHear' = ToHear /\ Holds(x3)' = Holds(x3)
      BY <2>1, <2>2 DEF ToHear, Holds
  <2>4. RepliesTyped'
      BY <1>0, <2>1, <2>2, <2>3 DEF RepliesTyped
  <2>5. \A n \in Procs : ConsentOf(n)' = ConsentOf(n)
      BY <2>1, <2>3 DEF ConsentOf, Reply!Consent
  <2> QED
      BY <2>1, <2>2, <2>4, <2>5, StillShownAsBlocked DEF ReplyInv
<1>4. CASE Reply!AckReply
  <2>1. x6' = {} /\ UNCHANGED <<x1, x2, x3, x4, x5, x7, x8>>
      BY <1>4 DEF Reply!AckReply
  <2>2. Holds(x3)' = Holds(x3) /\ Holds(x4)' = Holds(x4) /\ ToHear' = ToHear
      BY <2>1 DEF Holds, ToHear
  <2>3. RepliesTyped' /\ InOrder'
      BY <1>0, <2>1, <2>2 DEF RepliesTyped, InOrder, Ascends
  <2>4. \A n \in Procs : ConsentOf(n)' = ConsentOf(n)
      BY <2>1, <2>2 DEF ConsentOf, Reply!Consent
  <2> QED
      BY <2>1, <2>3, <2>4, StillShownAsBlocked DEF ReplyInv
<1>5. CASE Reply!StoreFails
  <2> DEFINE i == Head(x4)
  <2>1. /\ x4 # <<>> /\ x4' = Tail(x4) /\ UNCHANGED <<x1, x2, x3, x5, x6, x7>>
        /\ x8' = x8 \cup Reply!Unheard({i})
      BY <1>5 DEF Reply!StoreFails
  <2>2. /\ i \in DOMAIN x2 /\ x4' \in Seq(Nat) /\ Holds(x4)' \subseteq DOMAIN x2
        /\ InOrder' /\ ToHear' = ToHear \ {i}
      BY <2>1, PopsReply
  <2> HIDE DEF i
  <2>3. Reply!Unheard({i}) \subseteq Procs
      BY <1>0, <2>2, TextsTyped DEF Reply!Unheard
  <2>4. RepliesTyped'
    <3>1. Holds(x3)' = Holds(x3)
        BY <2>1 DEF Holds
    <3> QED
        BY <1>0, <2>1, <2>2, <2>3, <3>1 DEF RepliesTyped
  <2>5. ASSUME NEW n \in Procs \ x8' PROVE ConsentOf(n)' = ConsentOf(n)
    <3>1. i \in ToHear /\ x2[i].says \in Reply!Consent => x2[i].from \in x8'
        BY <2>1 DEF Reply!Unheard, Reply!IsFresh, ToHear
    <3> QED
        BY <2>1, <2>2, <3>1 DEF ConsentOf, Reply!Consent
  <2> QED
      BY <2>1, <2>2, <2>4, <2>5, StillShownAsBlocked DEF ReplyInv
<1>6. CASE Reply!PollDies
  <2>1. /\ x4' = <<>> /\ x6' = {} /\ UNCHANGED <<x1, x2, x3, x5, x7>>
        /\ x8' = x8 \cup Reply!Unheard(Holds(x4))
      BY <1>6 DEF Reply!PollDies, Reply!ToSet, Holds
  <2>2. Holds(x3)' = Holds(x3) /\ Holds(x4)' = {} /\ DOMAIN x4' = {}
      BY <2>1 DEF Holds
  <2>3. ToHear' = Holds(x3) \ x5
      BY <2>1, <2>2 DEF ToHear
  <2>4. Reply!Unheard(Holds(x4)) \subseteq Procs
    <3>1. Holds(x4) \subseteq DOMAIN x2
        BY <1>0 DEF RepliesTyped
    <3> QED
        BY <1>0, <3>1, TextsTyped DEF Reply!Unheard
  <2>5. RepliesTyped'
      BY <1>0, <2>1, <2>2, <2>4 DEF RepliesTyped
  <2>6. InOrder'
    <3>1. ASSUME NEW e \in ToHear', NEW k \in DOMAIN x2, e <= k PROVE k \in ToHear'
      <4>1. e \in ToHear /\ k \in ToHear
          BY <1>0, <2>3, <3>1 DEF ToHear, InOrder
      <4>2. k \notin Holds(x4)
        <5>1. e \in Nat /\ k \in Nat /\ e \in Holds(x3)
            BY <1>0, <2>3 DEF RepliesTyped
        <5> QED
            BY <1>0, <3>1, <5>1 DEF InOrder
      <4> QED
          BY <2>3, <4>1, <4>2 DEF ToHear
    <3> QED
        BY <1>0, <2>1, <2>2, <3>1 DEF InOrder, Ascends
  <2>7. ASSUME NEW n \in Procs \ x8' PROVE ConsentOf(n)' = ConsentOf(n)
    <3>1. \A i \in ToHear \ ToHear' : x2[i].says \in Reply!Consent => x2[i].from \in x8'
        BY <2>1, <2>3 DEF Reply!Unheard, Reply!IsFresh, ToHear
    <3>2. ToHear' \subseteq ToHear
        BY <2>3 DEF ToHear
    <3> QED
        BY <2>1, <3>1, <3>2 DEF ConsentOf, Reply!Consent
  <2> QED
      BY <2>1, <2>5, <2>6, <2>7, StillShownAsBlocked DEF ReplyInv
<1>7. ASSUME NEW n \in Procs, Reply!SendBlocked(n) \/ Reply!NoteFails(n) PROVE ReplyInv'
    BY <1>0, <1>7, RowWritten DEF Reply!SendBlocked, Reply!NoteFails, RepliesTyped
<1>8. ASSUME NEW n \in Procs, Reply!NoteOptOut(n) PROVE ReplyInv'
  <2>1. /\ x7' = x7 \ {n} /\ UNCHANGED <<x2, x3, x4, x5, x6>>
        /\ x1' = [a \in PhoneHolders |-> IF x1[a].phone = n THEN [x1[a] EXCEPT !.optedOut = TRUE] ELSE x1[a]]
        /\ x8' = IF Reply!Blocked(n) THEN x8 \ {n} ELSE x8 \cup {n}
      BY <1>8 DEF Reply!NoteOptOut, Reply!Echoed, Reply!Consent
  <2>2. /\ x1' \in [PhoneHolders -> [phone : Procs \cup {"no_number"}, optedOut : BOOLEAN]]
        /\ \A a \in PhoneHolders : x1[a].phone # n => x1'[a] = x1[a]
        /\ \A a \in PhoneHolders : x1[a].phone = n => x1'[a].phone = n /\ x1'[a].optedOut = TRUE
      BY <1>0, <2>1 DEF RepliesTyped
  <2>3. Reply!Blocked(n) \in BOOLEAN
      BY DEF Reply!Blocked
  <2>4. ASSUME NEW a \in PhoneHolders
        PROVE  \/ x1'[a] = x1[a] /\ (x1[a].phone \in x8 => x1[a].phone \in x8')
               \/ x1'[a].phone \in x8'
               \/ x1'[a].optedOut = Reply!Blocked(x1'[a].phone)
    <3>1. CASE x1[a].phone # n
        BY <2>1, <2>2, <3>1
    <3>2. CASE x1[a].phone = n /\ Reply!Blocked(n)
      <4>1. Reply!Blocked(n) = TRUE
          BY <2>3, <3>2
      <4> QED
          BY <2>2, <3>2, <4>1
    <3>3. CASE x1[a].phone = n /\ ~Reply!Blocked(n)
        BY <2>1, <2>2, <3>3
    <3> QED
        BY <3>1, <3>2, <3>3
  <2>5. x7' \in SUBSET Procs /\ x8' \in SUBSET Procs
      BY <1>0, <2>1 DEF RepliesTyped
  <2> QED
      BY <2>1, <2>2, <2>4, <2>5, RowWritten
<1>9. ASSUME NEW a \in PhoneHolders, NEW n \in Procs \cup {"no_number"}, Reply!ChangeNumber(a, n)
      PROVE  ReplyInv'
  <2>1. /\ x1' = [x1 EXCEPT ![a].phone = n] /\ UNCHANGED <<x2, x3, x4, x5, x6, x7>>
        /\ x8' = IF n \in Procs THEN x8 \cup {n} ELSE x8
      BY <1>9 DEF Reply!ChangeNumber
  <2>2. /\ x1' \in [PhoneHolders -> [phone : Procs \cup {"no_number"}, optedOut : BOOLEAN]]
        /\ x1'[a].phone = n /\ \A b \in PhoneHolders \ {a} : x1'[b] = x1[b]
      BY <1>0, <2>1 DEF RepliesTyped
  <2> QED
      BY <1>0, <2>1, <2>2, RowWritten DEF RepliesTyped
<1> QED
    BY <1>1, <1>2, <1>3, <1>4, <1>5, <1>6, <1>7, <1>8, <1>9, Texts, Stores DEF Reply!RepliesNext

-----------------------------------------------------------------------------
(* The parts together. *)

PipelineInv ==
    /\ part = "cycles"    => RollupInv
    /\ part = "stops"     => StopInv
    /\ part = "sla"       => SlaInv
    /\ part = "servicing" => ServiceInv /\ VisitInv
    /\ part = "battery"   => BatteryInv
    /\ part = "payloads"  => PayloadInv
    /\ part = "addresses" => AddressInv
    /\ part = "photon"    => PhotonInv
    /\ part = "assets"    => AssetInv
    /\ part = "metrics"   => MetricsInv
    /\ part = "replies"   => ReplyInv
    /\ part \in {"cycles", "stops", "sla", "servicing", "battery", "payloads", "addresses", "photon",
                 "assets", "metrics", "replies"}

LEMMA InitPipelineInv == MCInit => PipelineInv
BY InitRollup, InitStop, InitSla, InitService, InitVisit, InitBattery, InitPayload, InitAddress, InitPhoton,
   InitAsset, InitMetrics, InitReply DEF MCInit, PipelineInv

LEMMA PipelineNoStep ==
    ASSUME PipelineInv, UNCHANGED MCvars
    PROVE  PipelineInv'
<1> USE DEF MCvars
<1>1. RollupInv => RollupInv'
    BY FoldedStays DEF RollupInv, CyclesTyped, RawInv, CyclesInOrder, InFlight, Rollup!Started
<1>2. StopInv => StopInv'
    BY DEF StopInv, StopTyped, StopFine
<1>3. SlaInv => SlaInv'
    BY DEF SlaInv, Sla!SlaTypeOK, Sla!FigureOrVerdict
<1>4. ServiceInv => ServiceInv'
    BY DEF ServiceInv, ServiceTyped
<1>5. VisitInv => VisitInv'
    BY DEF VisitInv
<1>6. BatteryInv => BatteryInv'
    BY DEF BatteryInv, Mined, Shown
<1>7. PayloadInv => PayloadInv'
    BY DEF PayloadInv, PayloadTyped, TagIsTrue, CallerIsTrue
<1>8. AddressInv => AddressInv'
    BY DEF AddressInv, Distinct
<1>9. PhotonInv => PhotonInv'
    BY DEF PhotonInv, PhotonTyped, PhotonStage, PhotonMarked, Marked
<1>10. AssetInv => AssetInv'
    BY DEF AssetInv, AssetTyped
<1>11. MetricsInv => MetricsInv'
    BY DEF MetricsInv, MetricsTyped, Distinct, InOnePlace, Holds, InHand
<1>12. ReplyInv => ReplyInv'
  <2>1. ToHear' = ToHear /\ \A n \in Procs : ConsentOf(n)' = ConsentOf(n)
      BY DEF ToHear, ConsentOf, Holds
  <2>2. \A n \in Procs : Reply!Blocked(n)' = Reply!Blocked(n)
      BY DEF Reply!Blocked, Reply!Ids
  <2>3. ASSUME NEW a \in PhoneHolders, ShownAsBlocked(a) PROVE ShownAsBlocked(a)'
      BY <2>1, <2>2, <2>3 DEF ShownAsBlocked
  <2>4. RepliesTyped => RepliesTyped'
      BY DEF RepliesTyped, Holds
  <2>5. InOrder => InOrder'
      BY <2>1 DEF InOrder, Holds, Ascends
  <2> QED
      BY <2>3, <2>4, <2>5 DEF ReplyInv
<1> QED
    BY <1>1, <1>2, <1>3, <1>4, <1>5, <1>6, <1>7, <1>8, <1>9, <1>10, <1>11, <1>12 DEF PipelineInv

LEMMA NextPipelineInv == PipelineInv /\ [MCNext]_MCvars => PipelineInv'
<1> SUFFICES ASSUME PipelineInv, MCNext PROVE PipelineInv'
    BY PipelineNoStep
<1>1. part' = part
    BY DEF MCNext
<1>2. CASE part = "cycles"
    BY <1>1, <1>2, RollupStep DEF MCNext, PipelineInv
<1>3. CASE part = "stops"
    BY <1>1, <1>3, StopStep DEF MCNext, PipelineInv
<1>4. CASE part = "sla"
    BY <1>1, <1>4, SlaStep DEF MCNext, PipelineInv
<1>5. CASE part = "servicing"
    BY <1>1, <1>5, ServiceStep, VisitStep DEF MCNext, PipelineInv
<1>6. CASE part = "battery"
    BY <1>1, <1>6, BatteryStep DEF MCNext, PipelineInv
<1>7. CASE part = "payloads"
    BY <1>1, <1>7, PayloadStep DEF MCNext, PipelineInv
<1>8. CASE part = "addresses"
    BY <1>1, <1>8, AddressStep DEF MCNext, PipelineInv
<1>9. CASE part = "photon"
    BY <1>1, <1>9, PhotonStep DEF MCNext, PipelineInv
<1>10. CASE part = "assets"
    BY <1>1, <1>10, AssetStep DEF MCNext, PipelineInv
<1>11. CASE part = "metrics"
    BY <1>1, <1>11, MetricsStep DEF MCNext, PipelineInv
<1>12. CASE part = "replies"
    BY <1>1, <1>12, ReplyStep DEF MCNext, PipelineInv
<1> QED
    BY <1>2, <1>3, <1>4, <1>5, <1>6, <1>7, <1>8, <1>9, <1>10, <1>11, <1>12 DEF PipelineInv

\* Every part keeps its types, however many cycles, jobs, processes and requests there are.
THEOREM PipelineTyped == MCSpec => []PipelineTypeOK
<1>1. PipelineInv => PipelineTypeOK
  <2> SUFFICES ASSUME PipelineInv PROVE PipelineTypeOK
      OBVIOUS
  <2>1. ServiceInv /\ VisitInv => Service!ServicingTypeOK
      BY Bounds DEF ServiceInv, ServiceTyped, VisitInv, ReplayState, Service!ServicingTypeOK
  <2>2. CASE part = "cycles"
      BY <2>2, RollupHolds DEF PipelineInv, PipelineTypeOK
  <2>3. CASE part = "stops"
      BY <2>3, StopHolds DEF PipelineInv, PipelineTypeOK
  <2>4. CASE part = "sla"
      BY <2>4 DEF PipelineInv, PipelineTypeOK, SlaInv
  <2>5. CASE part = "servicing"
      BY <2>5, <2>1 DEF PipelineInv, PipelineTypeOK
  <2>6. CASE part = "battery"
      BY <2>6, BatteryHolds DEF PipelineInv, PipelineTypeOK
  <2>7. CASE part = "payloads"
      BY <2>7, PayloadHolds DEF PipelineInv, PipelineTypeOK
  <2>8. CASE part = "addresses"
      BY <2>8, AddressHolds DEF PipelineInv, PipelineTypeOK
  <2>9. CASE part = "photon"
      BY <2>9, PhotonHolds DEF PipelineInv, PipelineTypeOK
  <2>10. CASE part = "assets"
      BY <2>10, AssetHolds DEF PipelineInv, PipelineTypeOK
  <2>11. CASE part = "metrics"
      BY <2>11, MetricsHold DEF PipelineInv, PipelineTypeOK
  <2>12. CASE part = "replies"
      BY <2>12, ReplyHolds DEF PipelineInv, PipelineTypeOK
  <2> QED
      BY <2>2, <2>3, <2>4, <2>5, <2>6, <2>7, <2>8, <2>9, <2>10, <2>11, <2>12 DEF PipelineInv
<1> QED
    BY <1>1, InitPipelineInv, NextPipelineInv, PTL DEF MCSpec

\* What is counted is counted once, through crashes, overlapping jobs, replays and
\* backfills: a cycle's snapshot and a stop's close in the rollups, a servicing in the log
\* and a depot visit at a time, a rental in the battery model's fit, a request in the
\* metrics.
THEOREM NothingCountedTwiceHolds == MCSpec => []NothingCountedTwice
<1>1. PipelineInv => NothingCountedTwice
    BY RollupHolds, StopHolds, ServiceHolds, VisitHolds, BatteryHolds, MetricsHold
       DEF PipelineInv, NothingCountedTwice
<1> QED
    BY <1>1, InitPipelineInv, NextPipelineInv, PTL DEF MCSpec

\* What is kept or served is whole and is what its tag says, wherever a job stops and
\* whichever jobs overlap: the raw rows, a payload, the compliance row, the geocoder's
\* index, a map file, the echo of a rider's STOP.
THEOREM PublishedWholeHolds == MCSpec => []PublishedWhole
<1>1. PipelineInv => PublishedWhole
    BY RollupHolds, PayloadHolds, PhotonHolds, AssetHolds, ReplyHolds DEF PipelineInv, PublishedWhole, SlaInv
<1> QED
    BY <1>1, InitPipelineInv, NextPipelineInv, PTL DEF MCSpec

\* The city's address layer is swapped in whole when it stood still, and never lost from a
\* process that has it (refresh_address_points, street_index).
THEOREM AddressesWholeHolds == MCSpec => AddressesWhole
<1>1. PipelineInv /\ [MCNext]_MCvars => [part = "addresses" => Address!WholeLayerIndexed]_MCvars
    BY AddressStep DEF PipelineInv, MCNext
<1> QED
    BY <1>1, InitPipelineInv, NextPipelineInv, PTL DEF MCSpec, AddressesWhole
=============================================================================
