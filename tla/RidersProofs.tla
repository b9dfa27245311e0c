---------------------------- MODULE RidersProofs ----------------------------
(***************************************************************************)
(* What the riders' parts promise for any number of claims, reports,        *)
(* watches, checks, scooters and overlapping cycles.                        *)
(***************************************************************************)
EXTENDS MCRiders, SequenceTheorems, TLAPS

-----------------------------------------------------------------------------
(* Claims.  x1 is dibs, x2 called, x3 watcher, x4 sent and x5 quiet.        *)

\* A claim that has been made has a row; a claim that ended untold may not be texted again.
Claimed ==
    /\ \A c \in Dibs!Made : x1[c].life # "none"
    /\ \A c \in x5 : x1[c].life # "none" /\ (x1[c].life # "live" \/ x1[c].mine)

\* A text on its way holds its claim's reservation, is the only one that does, and is for a
\* claim that did not end first.
Reserved ==
    \A k \in Actors : x3[k].stage = "sending" =>
        /\ x1[x3[k].claim].attempt
        /\ x1[x3[k].claim].life # "none"
        /\ x3[k].claim \notin x5
        /\ \A j \in Actors \ {k} : x3[j].stage = "sending" => x3[j].claim # x3[k].claim

DibsInv == Dibs!DibsTypeOK /\ Claimed /\ Reserved

LEMMA InitDibsInv == Dibs!DibsInit => DibsInv
<1> SUFFICES ASSUME Dibs!DibsInit PROVE DibsInv
    OBVIOUS
<1>1. Dibs!DibsTypeOK
    BY EmptySeq DEF Dibs!DibsInit, Dibs!DibsTypeOK, Dibs!ClaimRow, Dibs!Pass, Dibs!NoRow, Dibs!NoPass,
       Dibs!NoClaim, Dibs!NoVehicle
<1>2. Claimed
    BY DEF Dibs!DibsInit, Claimed, Dibs!Made
<1>3. Reserved
    BY DEF Dibs!DibsInit, Reserved, Dibs!NoPass
<1> QED
    BY <1>1, <1>2, <1>3 DEF DibsInv

\* The pass that is left of a cycle is a pass, of one claim fewer.
LEMMA PassLeft ==
    ASSUME Dibs!DibsTypeOK, NEW k \in Actors, NEW c \in Rows
    PROVE  Dibs!PassWithout(k, c) \in Dibs!Pass /\ Dibs!PassWithout(k, c).stage # "sending"
BY DEF Dibs!DibsTypeOK, Dibs!PassWithout, Dibs!Pass, Dibs!NoPass, Dibs!NoClaim, Dibs!NoVehicle
\* What the watcher and the holder write on a claim's row leaves a row.
LEMMA RowWritten ==
    ASSUME NEW row \in Dibs!ClaimRow, NEW b \in BOOLEAN
    PROVE  /\ \A l \in {"live", "released", "expired"} : [row EXCEPT !.life = l] \in Dibs!ClaimRow
           /\ [row EXCEPT !.mine = b] \in Dibs!ClaimRow
           /\ [row EXCEPT !.taken = b] \in Dibs!ClaimRow
           /\ [row EXCEPT !.attempt = b] \in Dibs!ClaimRow
           /\ [row EXCEPT !.notified = b] \in Dibs!ClaimRow
           /\ [row EXCEPT !.skipped = b] \in Dibs!ClaimRow
BY DEF Dibs!ClaimRow

LEMMA RowsWritten ==
    ASSUME NEW rows \in [Rows -> Dibs!ClaimRow], NEW c \in Rows, NEW row \in Dibs!ClaimRow
    PROVE  [rows EXCEPT ![c] = row] \in [Rows -> Dibs!ClaimRow]
OBVIOUS

LEMMA DibsTyped ==
    ASSUME Dibs!DibsTypeOK, Dibs!DibsNext
    PROVE  Dibs!DibsTypeOK'
<1> USE DEF Dibs!Pass, Dibs!NoClaim, Dibs!NoVehicle, Dibs!NoRow, Dibs!NoPass
<1>0. /\ x1 \in [Rows -> Dibs!ClaimRow]
      /\ x2 \in Seq(Rows)
      /\ x3 \in [Actors -> Dibs!Pass]
      /\ \A k \in Actors : x3[k].stage = "sending" => x3[k].claim \in Rows
      /\ x4 \subseteq Rows /\ x5 \subseteq Rows
    BY DEF Dibs!DibsTypeOK
<1>1. ASSUME NEW c \in Rows, NEW v \in Scooters, NEW signedIn \in BOOLEAN, NEW notifySms \in BOOLEAN,
             Dibs!CreateDibs(c, v, signedIn, notifySms)
      PROVE  Dibs!DibsTypeOK'
  <2>1. x1' \in [Rows -> Dibs!ClaimRow]
    <3> DEFINE row == [Dibs!NoRow EXCEPT !.vehicle = v, !.life = "live", !.notify = notifySms /\ signedIn]
    <3>1. row \in Dibs!ClaimRow
      BY DEF Dibs!ClaimRow
    <3>2. x1' = [x1 EXCEPT ![c] = row]
      BY <1>1 DEF Dibs!CreateDibs
    <3> QED
      BY <1>0, <3>1, <3>2, RowsWritten
  <2>2. x2' \in Seq(Rows)
    BY <1>0, <1>1, AppendProperties DEF Dibs!CreateDibs
  <2>3. x3' \in [Actors -> Dibs!Pass]
    BY <1>0, <1>1 DEF Dibs!CreateDibs
  <2>4. \A j \in Actors : x3'[j].stage = "sending" => x3'[j].claim \in Rows
    BY <1>0, <1>1 DEF Dibs!CreateDibs
  <2>5. x4' \subseteq Rows /\ x5' \subseteq Rows
    BY <1>0, <1>1 DEF Dibs!CreateDibs
  <2> QED
    BY <2>1, <2>2, <2>3, <2>4, <2>5 DEF Dibs!DibsTypeOK
<1>2. ASSUME NEW c \in Rows, Dibs!DibsRelease(c) PROVE Dibs!DibsTypeOK'
  <2>1. x1' \in [Rows -> Dibs!ClaimRow]
    <3> DEFINE row == [x1[c] EXCEPT !.life = "released"]
    <3>1. row \in Dibs!ClaimRow
      BY <1>0, <1>2, RowWritten
    <3>2. x1' = [x1 EXCEPT ![c] = row]
      BY <1>2 DEF Dibs!DibsRelease, Dibs!Releasable, Dibs!LiveClaim, Dibs!Quietened
    <3> QED
      BY <1>0, <3>1, <3>2, RowsWritten
  <2>2. x2' \in Seq(Rows)
    BY <1>0, <1>2 DEF Dibs!DibsRelease, Dibs!Releasable, Dibs!LiveClaim, Dibs!Quietened
  <2>3. x3' \in [Actors -> Dibs!Pass]
    BY <1>0, <1>2 DEF Dibs!DibsRelease, Dibs!Releasable, Dibs!LiveClaim, Dibs!Quietened
  <2>4. \A j \in Actors : x3'[j].stage = "sending" => x3'[j].claim \in Rows
    BY <1>0, <1>2 DEF Dibs!DibsRelease, Dibs!Releasable, Dibs!LiveClaim, Dibs!Quietened
  <2>5. x4' \subseteq Rows /\ x5' \subseteq Rows
    BY <1>0, <1>2 DEF Dibs!DibsRelease, Dibs!Releasable, Dibs!LiveClaim, Dibs!Quietened
  <2> QED
    BY <2>1, <2>2, <2>3, <2>4, <2>5 DEF Dibs!DibsTypeOK
<1>3. ASSUME NEW c \in Rows, Dibs!ClaimExpires(c) PROVE Dibs!DibsTypeOK'
  <2>1. x1' \in [Rows -> Dibs!ClaimRow]
    <3> DEFINE row == [x1[c] EXCEPT !.life = "expired"]
    <3>1. row \in Dibs!ClaimRow
      BY <1>0, <1>3, RowWritten
    <3>2. x1' = [x1 EXCEPT ![c] = row]
      BY <1>3 DEF Dibs!ClaimExpires, Dibs!LiveClaim, Dibs!Quietened
    <3> QED
      BY <1>0, <3>1, <3>2, RowsWritten
  <2>2. x2' \in Seq(Rows)
    BY <1>0, <1>3 DEF Dibs!ClaimExpires, Dibs!LiveClaim, Dibs!Quietened
  <2>3. x3' \in [Actors -> Dibs!Pass]
    BY <1>0, <1>3 DEF Dibs!ClaimExpires, Dibs!LiveClaim, Dibs!Quietened
  <2>4. \A j \in Actors : x3'[j].stage = "sending" => x3'[j].claim \in Rows
    BY <1>0, <1>3 DEF Dibs!ClaimExpires, Dibs!LiveClaim, Dibs!Quietened
  <2>5. x4' \subseteq Rows /\ x5' \subseteq Rows
    BY <1>0, <1>3 DEF Dibs!ClaimExpires, Dibs!LiveClaim, Dibs!Quietened
  <2> QED
    BY <2>1, <2>2, <2>3, <2>4, <2>5 DEF Dibs!DibsTypeOK
<1>4. ASSUME NEW c \in Rows, Dibs!DibsMine(c) PROVE Dibs!DibsTypeOK'
  <2>1. x1' \in [Rows -> Dibs!ClaimRow]
    <3> DEFINE row == [x1[c] EXCEPT !.mine = TRUE]
    <3>1. row \in Dibs!ClaimRow
      BY <1>0, <1>4, RowWritten
    <3>2. x1' = [x1 EXCEPT ![c] = row]
      BY <1>4 DEF Dibs!DibsMine, Dibs!Quietened
    <3> QED
      BY <1>0, <3>1, <3>2, RowsWritten
  <2>2. x2' \in Seq(Rows)
    BY <1>0, <1>4 DEF Dibs!DibsMine, Dibs!Quietened
  <2>3. x3' \in [Actors -> Dibs!Pass]
    BY <1>0, <1>4 DEF Dibs!DibsMine, Dibs!Quietened
  <2>4. \A j \in Actors : x3'[j].stage = "sending" => x3'[j].claim \in Rows
    BY <1>0, <1>4 DEF Dibs!DibsMine, Dibs!Quietened
  <2>5. x4' \subseteq Rows /\ x5' \subseteq Rows
    BY <1>0, <1>4 DEF Dibs!DibsMine, Dibs!Quietened
  <2> QED
    BY <2>1, <2>2, <2>3, <2>4, <2>5 DEF Dibs!DibsTypeOK
<1>5. ASSUME NEW c \in Rows, Dibs!LeaseLapses(c) PROVE Dibs!DibsTypeOK'
  <2>1. x1' \in [Rows -> Dibs!ClaimRow]
    <3> DEFINE row == [x1[c] EXCEPT !.attempt = FALSE]
    <3>1. row \in Dibs!ClaimRow
      BY <1>0, <1>5, RowWritten
    <3>2. x1' = [x1 EXCEPT ![c] = row]
      BY <1>5 DEF Dibs!LeaseLapses
    <3> QED
      BY <1>0, <3>1, <3>2, RowsWritten
  <2>2. x2' \in Seq(Rows)
    BY <1>0, <1>5 DEF Dibs!LeaseLapses
  <2>3. x3' \in [Actors -> Dibs!Pass]
    BY <1>0, <1>5 DEF Dibs!LeaseLapses
  <2>4. \A j \in Actors : x3'[j].stage = "sending" => x3'[j].claim \in Rows
    BY <1>0, <1>5 DEF Dibs!LeaseLapses
  <2>5. x4' \subseteq Rows /\ x5' \subseteq Rows
    BY <1>0, <1>5 DEF Dibs!LeaseLapses
  <2> QED
    BY <2>1, <2>2, <2>3, <2>4, <2>5 DEF Dibs!DibsTypeOK
<1>6. ASSUME NEW k \in Actors, NEW out \in SUBSET Scooters, Dibs!FetchDibsFeed(k, out) PROVE Dibs!DibsTypeOK'
  <2>1. x1' \in [Rows -> Dibs!ClaimRow]
    BY <1>0, <1>6 DEF Dibs!FetchDibsFeed
  <2>2. x2' \in Seq(Rows)
    BY <1>0, <1>6 DEF Dibs!FetchDibsFeed
  <2>3. x3' \in [Actors -> Dibs!Pass]
    BY ZenonT(60), <1>0, <1>6 DEF Dibs!FetchDibsFeed
  <2>4. \A j \in Actors : x3'[j].stage = "sending" => x3'[j].claim \in Rows
    BY <1>0, <1>6 DEF Dibs!FetchDibsFeed
  <2>5. x4' \subseteq Rows /\ x5' \subseteq Rows
    BY <1>0, <1>6 DEF Dibs!FetchDibsFeed
  <2> QED
    BY <2>1, <2>2, <2>3, <2>4, <2>5 DEF Dibs!DibsTypeOK
<1>7. ASSUME NEW k \in Actors, Dibs!MarkTaken(k) PROVE Dibs!DibsTypeOK'
  <2>1. x1' \in [Rows -> Dibs!ClaimRow]
    <3> DEFINE taken(c) == x1[c].taken \/ c \in Dibs!TakenClaims(k)
    <3>1. \A c \in Rows : [x1[c] EXCEPT !.taken = taken(c)] \in Dibs!ClaimRow
      BY <1>0, RowWritten
    <3>2. x1' = [c \in Rows |-> [x1[c] EXCEPT !.taken = taken(c)]]
      BY <1>7 DEF Dibs!MarkTaken
    <3> QED
      BY <3>1, <3>2
  <2>2. x2' \in Seq(Rows)
    BY <1>0, <1>7 DEF Dibs!MarkTaken, Dibs!TakenClaims
  <2>3. x3' \in [Actors -> Dibs!Pass]
    <3>1. Dibs!TakenClaims(k) \subseteq Rows
      BY <1>0, ElementOfSeq DEF Dibs!TakenClaims, Dibs!Made
    <3>2. [Dibs!NoPass EXCEPT !.stage = "reserving", !.todo = Dibs!TakenClaims(k)] \in Dibs!Pass
      BY <3>1
    <3>3. Dibs!NoPass \in Dibs!Pass
      OBVIOUS
    <3> QED
      BY <1>0, <1>7, <3>2, <3>3 DEF Dibs!MarkTaken
  <2>4. \A j \in Actors : x3'[j].stage = "sending" => x3'[j].claim \in Rows
    BY <1>0, <1>7 DEF Dibs!MarkTaken, Dibs!TakenClaims
  <2>5. x4' \subseteq Rows /\ x5' \subseteq Rows
    BY <1>0, <1>7 DEF Dibs!MarkTaken, Dibs!TakenClaims
  <2> QED
    BY <2>1, <2>2, <2>3, <2>4, <2>5 DEF Dibs!DibsTypeOK
<1>8. ASSUME NEW k \in Actors, NEW c \in Rows, Dibs!ReserveRefused(k, c) PROVE Dibs!DibsTypeOK'
  <2>1. x1' \in [Rows -> Dibs!ClaimRow]
    BY <1>0, <1>8 DEF Dibs!ReserveRefused
  <2>2. x2' \in Seq(Rows)
    BY <1>0, <1>8 DEF Dibs!ReserveRefused
  <2>3. x3' \in [Actors -> Dibs!Pass]
    BY <1>0, <1>8, PassLeft DEF Dibs!ReserveRefused
  <2>4. \A j \in Actors : x3'[j].stage = "sending" => x3'[j].claim \in Rows
    BY <1>0, <1>8, PassLeft DEF Dibs!ReserveRefused
  <2>5. x4' \subseteq Rows /\ x5' \subseteq Rows
    BY <1>0, <1>8 DEF Dibs!ReserveRefused
  <2> QED
    BY <2>1, <2>2, <2>3, <2>4, <2>5 DEF Dibs!DibsTypeOK
<1>9. ASSUME NEW k \in Actors, NEW c \in Rows, Dibs!Reserve(k, c) PROVE Dibs!DibsTypeOK'
  <2>1. x1' \in [Rows -> Dibs!ClaimRow]
    <3> DEFINE row == [x1[c] EXCEPT !.attempt = TRUE]
    <3>1. row \in Dibs!ClaimRow
      BY <1>0, <1>9, RowWritten
    <3>2. x1' = [x1 EXCEPT ![c] = row]
      BY <1>9 DEF Dibs!Reserve
    <3> QED
      BY <1>0, <3>1, <3>2, RowsWritten
  <2>2. x2' \in Seq(Rows)
    BY <1>0, <1>9 DEF Dibs!Reserve
  <2>3. x3' \in [Actors -> Dibs!Pass]
    <3> DEFINE pass == [x3[k] EXCEPT !.stage = "sending", !.claim = c]
    <3>1. pass \in Dibs!Pass
      BY <1>0
    <3>2. x3' = [x3 EXCEPT ![k] = pass]
      BY <1>9 DEF Dibs!Reserve
    <3> HIDE DEF pass
    <3> QED
      BY <1>0, <3>1, <3>2
  <2>4. \A j \in Actors : x3'[j].stage = "sending" => x3'[j].claim \in Rows
    BY <1>0, <1>9 DEF Dibs!Reserve
  <2>5. x4' \subseteq Rows /\ x5' \subseteq Rows
    BY <1>0, <1>9 DEF Dibs!Reserve
  <2> QED
    BY <2>1, <2>2, <2>3, <2>4, <2>5 DEF Dibs!DibsTypeOK
<1>10. ASSUME NEW k \in Actors, Dibs!CommsAccepts(k) PROVE Dibs!DibsTypeOK'
  <2>1. x1' \in [Rows -> Dibs!ClaimRow]
    BY <1>0, <1>10 DEF Dibs!CommsAccepts
  <2>2. x2' \in Seq(Rows)
    BY <1>0, <1>10 DEF Dibs!CommsAccepts
  <2>3. x3' \in [Actors -> Dibs!Pass]
    BY <1>0, <1>10 DEF Dibs!CommsAccepts
  <2>4. \A j \in Actors : x3'[j].stage = "sending" => x3'[j].claim \in Rows
    BY <1>0, <1>10 DEF Dibs!CommsAccepts
  <2>5. x4' \subseteq Rows /\ x5' \subseteq Rows
    BY <1>0, <1>10 DEF Dibs!CommsAccepts
  <2> QED
    BY <2>1, <2>2, <2>3, <2>4, <2>5 DEF Dibs!DibsTypeOK
<1>11. ASSUME NEW k \in Actors, Dibs!MarkNotified(k) PROVE Dibs!DibsTypeOK'
  <2>1. x1' \in [Rows -> Dibs!ClaimRow]
    <3>0. x3[k].claim \in Rows
      BY <1>0, <1>11 DEF Dibs!MarkNotified
    <3> DEFINE row == [x1[x3[k].claim] EXCEPT !.notified = TRUE]
    <3>1. row \in Dibs!ClaimRow
      BY <1>0, <3>0, RowWritten
    <3>2. x1' = [x1 EXCEPT ![x3[k].claim] = row]
      BY <1>11 DEF Dibs!MarkNotified
    <3> QED
      BY <1>0, <3>0, <3>1, <3>2, RowsWritten
  <2>2. x2' \in Seq(Rows)
    BY <1>0, <1>11 DEF Dibs!MarkNotified
  <2>3. x3' \in [Actors -> Dibs!Pass]
    BY <1>0, <1>11, PassLeft DEF Dibs!MarkNotified
  <2>4. \A j \in Actors : x3'[j].stage = "sending" => x3'[j].claim \in Rows
    BY <1>0, <1>11, PassLeft DEF Dibs!MarkNotified
  <2>5. x4' \subseteq Rows /\ x5' \subseteq Rows
    BY <1>0, <1>11 DEF Dibs!MarkNotified
  <2> QED
    BY <2>1, <2>2, <2>3, <2>4, <2>5 DEF Dibs!DibsTypeOK
<1>12. ASSUME NEW k \in Actors, Dibs!Skip(k) PROVE Dibs!DibsTypeOK'
  <2>1. x1' \in [Rows -> Dibs!ClaimRow]
    <3> DEFINE c   == x3[k].claim
               row == [[x1[c] EXCEPT !.skipped = TRUE] EXCEPT !.attempt = FALSE]
    <3>0. c \in Rows
      BY <1>0, <1>12 DEF Dibs!Skip
    <3>1. row \in Dibs!ClaimRow
      <4>1. [x1[c] EXCEPT !.skipped = TRUE] \in Dibs!ClaimRow
        BY <1>0, <3>0, RowWritten
      <4> QED
        BY <4>1, RowWritten
    <3>2. x1' = [x1 EXCEPT ![c] = row]
      BY <1>0, <1>12, <3>0 DEF Dibs!Skip
    <3> QED
      BY <1>0, <3>0, <3>1, <3>2, RowsWritten
  <2>2. x2' \in Seq(Rows)
    BY <1>0, <1>12 DEF Dibs!Skip
  <2>3. x3' \in [Actors -> Dibs!Pass]
    BY <1>0, <1>12, PassLeft DEF Dibs!Skip
  <2>4. \A j \in Actors : x3'[j].stage = "sending" => x3'[j].claim \in Rows
    BY <1>0, <1>12, PassLeft DEF Dibs!Skip
  <2>5. x4' \subseteq Rows /\ x5' \subseteq Rows
    BY <1>0, <1>12 DEF Dibs!Skip
  <2> QED
    BY <2>1, <2>2, <2>3, <2>4, <2>5 DEF Dibs!DibsTypeOK
<1>13. ASSUME NEW k \in Actors, Dibs!Defer(k) PROVE Dibs!DibsTypeOK'
  <2>1. x1' \in [Rows -> Dibs!ClaimRow]
    <3>0. x3[k].claim \in Rows
      BY <1>0, <1>13 DEF Dibs!Defer
    <3> DEFINE row == [x1[x3[k].claim] EXCEPT !.attempt = FALSE]
    <3>1. row \in Dibs!ClaimRow
      BY <1>0, <3>0, RowWritten
    <3>2. x1' = [x1 EXCEPT ![x3[k].claim] = row]
      BY <1>13 DEF Dibs!Defer
    <3> QED
      BY <1>0, <3>0, <3>1, <3>2, RowsWritten
  <2>2. x2' \in Seq(Rows)
    BY <1>0, <1>13 DEF Dibs!Defer
  <2>3. x3' \in [Actors -> Dibs!Pass]
    BY <1>0, <1>13, PassLeft DEF Dibs!Defer
  <2>4. \A j \in Actors : x3'[j].stage = "sending" => x3'[j].claim \in Rows
    BY <1>0, <1>13, PassLeft DEF Dibs!Defer
  <2>5. x4' \subseteq Rows /\ x5' \subseteq Rows
    BY <1>0, <1>13 DEF Dibs!Defer
  <2> QED
    BY <2>1, <2>2, <2>3, <2>4, <2>5 DEF Dibs!DibsTypeOK
<1>14. ASSUME NEW k \in Actors, Dibs!WatcherDies(k) PROVE Dibs!DibsTypeOK'
  <2>1. x1' \in [Rows -> Dibs!ClaimRow]
    BY <1>0, <1>14 DEF Dibs!WatcherDies
  <2>2. x2' \in Seq(Rows)
    BY <1>0, <1>14 DEF Dibs!WatcherDies
  <2>3. x3' \in [Actors -> Dibs!Pass]
    BY <1>0, <1>14 DEF Dibs!WatcherDies
  <2>4. \A j \in Actors : x3'[j].stage = "sending" => x3'[j].claim \in Rows
    BY <1>0, <1>14 DEF Dibs!WatcherDies
  <2>5. x4' \subseteq Rows /\ x5' \subseteq Rows
    BY <1>0, <1>14 DEF Dibs!WatcherDies
  <2> QED
    BY <2>1, <2>2, <2>3, <2>4, <2>5 DEF Dibs!DibsTypeOK
<1> QED
    BY <1>1, <1>2, <1>3, <1>4, <1>5, <1>6, <1>7, <1>8, <1>9, <1>10, <1>11, <1>12, <1>13,
       <1>14 DEF Dibs!DibsNext

\* Making a claim calls it, after every earlier one; the other steps call nobody.
LEMMA MadeGrows ==
    ASSUME Dibs!DibsTypeOK, NEW c \in Rows, x2' = Append(x2, c)
    PROVE  /\ Dibs!Made' = Dibs!Made \cup {c}
           /\ \A i \in DOMAIN x2 : i \in DOMAIN x2' /\ x2'[i] = x2[i]
           /\ \A i \in DOMAIN x2' : i \in DOMAIN x2 \/ (i = Len(x2) + 1 /\ x2'[i] = c)
<1>1. x2 \in Seq(Rows)
    BY DEF Dibs!DibsTypeOK
<1>2. /\ \A i \in DOMAIN x2 : i \in DOMAIN x2' /\ x2'[i] = x2[i]
      /\ \A i \in DOMAIN x2' : i \in DOMAIN x2 \/ (i = Len(x2) + 1 /\ x2'[i] = c)
      /\ Len(x2) + 1 \in DOMAIN x2' /\ x2'[Len(x2) + 1] = c
    BY <1>1, AppendProperties
<1> QED
    BY <1>2 DEF Dibs!Made

LEMMA DibsStep ==
    ASSUME DibsInv, Dibs!DibsNext
    PROVE  DibsInv'
<1>0. /\ x1 \in [Rows -> Dibs!ClaimRow]
      /\ x3 \in [Actors -> Dibs!Pass]
      /\ \A k \in Actors : x3[k].stage = "sending" => x3[k].claim \in Rows
      /\ x5 \subseteq Rows
      /\ Dibs!DibsTypeOK /\ Claimed /\ Reserved
      /\ Dibs!Made \subseteq Rows
  <2>1. Dibs!Made \subseteq Rows
    BY ElementOfSeq DEF DibsInv, Dibs!DibsTypeOK, Dibs!Made
  <2> QED
    BY <2>1 DEF DibsInv, Dibs!DibsTypeOK
<1> USE DEF Dibs!ClaimRow, Dibs!Pass
<1>1. ASSUME NEW c \in Rows, NEW v \in Scooters, NEW signedIn \in BOOLEAN, NEW notifySms \in BOOLEAN,
             Dibs!CreateDibs(c, v, signedIn, notifySms)
      PROVE  Claimed' /\ Reserved'
  <2>1. Claimed'
    BY <1>0, <1>1, MadeGrows DEF Claimed, Dibs!CreateDibs, Dibs!NoRow
  <2>2. Reserved'
    BY <1>0, <1>1 DEF Claimed, Reserved, Dibs!CreateDibs, Dibs!NoRow
  <2> QED
    BY <2>1, <2>2
<1>2. ASSUME NEW c \in Rows, Dibs!DibsRelease(c) PROVE Claimed' /\ Reserved'
  <2>1. Claimed'
    BY <1>0, <1>2 DEF Claimed, Dibs!DibsRelease, Dibs!Releasable, Dibs!LiveClaim, Dibs!Quietened, Dibs!Made
  <2>2. Reserved'
    BY <1>0, <1>2 DEF Claimed, Reserved, Dibs!DibsRelease, Dibs!Releasable, Dibs!LiveClaim, Dibs!Quietened
  <2> QED
    BY <2>1, <2>2
<1>3. ASSUME NEW c \in Rows, Dibs!ClaimExpires(c) PROVE Claimed' /\ Reserved'
  <2>1. Claimed'
    BY <1>0, <1>3 DEF Claimed, Dibs!ClaimExpires, Dibs!LiveClaim, Dibs!Quietened, Dibs!Made
  <2>2. Reserved'
    BY <1>0, <1>3 DEF Claimed, Reserved, Dibs!ClaimExpires, Dibs!LiveClaim, Dibs!Quietened
  <2> QED
    BY <2>1, <2>2
<1>4. ASSUME NEW c \in Rows, Dibs!DibsMine(c) PROVE Claimed' /\ Reserved'
  <2>1. Claimed'
    BY <1>0, <1>4 DEF Claimed, Dibs!DibsMine, Dibs!Quietened, Dibs!Made
  <2>2. Reserved'
    BY <1>0, <1>4 DEF Claimed, Reserved, Dibs!DibsMine, Dibs!Quietened
  <2> QED
    BY <2>1, <2>2
<1>5. ASSUME NEW c \in Rows, Dibs!LeaseLapses(c) PROVE Claimed' /\ Reserved'
  <2>1. Claimed'
    BY <1>0, <1>5 DEF Claimed, Dibs!LeaseLapses, Dibs!Made
  <2>2. Reserved'
    BY <1>0, <1>5 DEF Claimed, Reserved, Dibs!LeaseLapses
  <2> QED
    BY <2>1, <2>2
<1>6. ASSUME NEW k \in Actors, NEW out \in SUBSET Scooters, Dibs!FetchDibsFeed(k, out)
      PROVE  Claimed' /\ Reserved'
  <2>1. Claimed'
    BY <1>0, <1>6 DEF Claimed, Dibs!FetchDibsFeed, Dibs!Made
  <2>2. Reserved'
    BY <1>0, <1>6 DEF Claimed, Reserved, Dibs!FetchDibsFeed
  <2> QED
    BY <2>1, <2>2
<1>7. ASSUME NEW k \in Actors, Dibs!MarkTaken(k) PROVE Claimed' /\ Reserved'
  <2>1. Claimed'
    BY <1>0, <1>7 DEF Claimed, Dibs!MarkTaken, Dibs!NoPass, Dibs!Made
  <2>2. Reserved'
    BY <1>0, <1>7 DEF Claimed, Reserved, Dibs!MarkTaken, Dibs!NoPass
  <2> QED
    BY <2>1, <2>2
<1>8. ASSUME NEW k \in Actors, NEW c \in Rows, Dibs!ReserveRefused(k, c) PROVE Claimed' /\ Reserved'
  <2>1. Claimed'
    BY <1>0, <1>8 DEF Claimed, Dibs!ReserveRefused, Dibs!Made
  <2>2. Reserved'
    BY <1>0, <1>8, PassLeft DEF Claimed, Reserved, Dibs!ReserveRefused
  <2> QED
    BY <2>1, <2>2
<1>9. ASSUME NEW k \in Actors, NEW c \in Rows, Dibs!Reserve(k, c) PROVE Claimed' /\ Reserved'
  <2>1. Claimed'
    BY <1>0, <1>9 DEF Claimed, Dibs!Reserve, Dibs!Reservable, Dibs!Open, Dibs!LiveClaim, Dibs!Made
  <2>2. Reserved'
    BY <1>0, <1>9 DEF Claimed, Reserved, Dibs!Reserve, Dibs!Reservable, Dibs!Open, Dibs!LiveClaim
  <2> QED
    BY <2>1, <2>2
<1>10. ASSUME NEW k \in Actors, Dibs!CommsAccepts(k) PROVE Claimed' /\ Reserved'
  <2>1. Claimed'
    BY <1>0, <1>10 DEF Claimed, Dibs!CommsAccepts, Dibs!Made
  <2>2. Reserved'
    BY <1>0, <1>10 DEF Claimed, Reserved, Dibs!CommsAccepts
  <2> QED
    BY <2>1, <2>2
<1>11. ASSUME NEW k \in Actors, Dibs!MarkNotified(k) PROVE Claimed' /\ Reserved'
  <2>1. Claimed'
    BY <1>0, <1>11 DEF Claimed, Dibs!MarkNotified, Dibs!Made
  <2>2. Reserved'
    BY <1>0, <1>11, PassLeft DEF Claimed, Reserved, Dibs!MarkNotified
  <2> QED
    BY <2>1, <2>2
<1>12. ASSUME NEW k \in Actors, Dibs!Skip(k) PROVE Claimed' /\ Reserved'
  <2>1. Claimed'
    BY <1>0, <1>12 DEF Claimed, Dibs!Skip, Dibs!Made
  <2>2. Reserved'
    BY <1>0, <1>12, PassLeft DEF Claimed, Reserved, Dibs!Skip
  <2> QED
    BY <2>1, <2>2
<1>13. ASSUME NEW k \in Actors, Dibs!Defer(k) PROVE Claimed' /\ Reserved'
  <2>1. Claimed'
    BY <1>0, <1>13 DEF Claimed, Dibs!Defer, Dibs!Made
  <2>2. Reserved'
    BY <1>0, <1>13, PassLeft DEF Claimed, Reserved, Dibs!Defer
  <2> QED
    BY <2>1, <2>2
<1>14. ASSUME NEW k \in Actors, Dibs!WatcherDies(k) PROVE Claimed' /\ Reserved'
  <2>1. Claimed'
    BY <1>0, <1>14 DEF Claimed, Dibs!WatcherDies, Dibs!NoPass, Dibs!Made
  <2>2. Reserved'
    BY <1>0, <1>14 DEF Claimed, Reserved, Dibs!WatcherDies, Dibs!NoPass
  <2> QED
    BY <2>1, <2>2
<1>15. Dibs!DibsTypeOK'
    BY DibsTyped DEF DibsInv
<1> QED
    BY <1>1, <1>2, <1>3, <1>4, <1>5, <1>6, <1>7, <1>8, <1>9, <1>10, <1>11, <1>12, <1>13, <1>14,
       <1>15 DEF DibsInv, Dibs!DibsNext

\* A step tells one open claim, closes one, or neither.
LEMMA DibsAlerts ==
    ASSUME DibsInv, Dibs!DibsNext
    PROVE  \/ Dibs!AlertOf' = Dibs!AlertOf
           \/ \E c \in Rows : /\ Dibs!AlertOf[c] = "open"
                              /\ \E to \in {"told", "closed"} :
                                    Dibs!AlertOf' = [Dibs!AlertOf EXCEPT ![c] = to]
<1>0. /\ \A k \in Actors : x3[k].stage = "sending" => x3[k].claim \in Rows
      /\ Reserved
    BY DEF DibsInv, Dibs!DibsTypeOK
<1>1. ASSUME NEW c \in Rows, x4' = x4, x5' = Dibs!Quietened({c})
      PROVE  \/ Dibs!AlertOf' = Dibs!AlertOf
             \/ /\ Dibs!AlertOf[c] = "open"
                /\ Dibs!AlertOf' = [Dibs!AlertOf EXCEPT ![c] = "closed"]
    BY <1>1 DEF Dibs!AlertOf, Dibs!Quietened
<1>2. ASSUME NEW k \in Actors, Dibs!CommsAccepts(k)
      PROVE  /\ x3[k].claim \in Rows
             /\ Dibs!AlertOf[x3[k].claim] = "open"
             /\ Dibs!AlertOf' = [Dibs!AlertOf EXCEPT ![x3[k].claim] = "told"]
    BY <1>0, <1>2 DEF Dibs!CommsAccepts, Reserved, Dibs!AlertOf
<1>3. ASSUME UNCHANGED <<x4, x5>>
      PROVE  Dibs!AlertOf' = Dibs!AlertOf
    BY <1>3 DEF Dibs!AlertOf
<1>4. CASE \E c \in Rows : Dibs!DibsRelease(c) \/ Dibs!ClaimExpires(c) \/ Dibs!DibsMine(c)
    BY <1>1, <1>4 DEF Dibs!DibsRelease, Dibs!ClaimExpires, Dibs!DibsMine
<1>5. CASE \E k \in Actors : Dibs!CommsAccepts(k)
    BY <1>2, <1>5
<1>6. ASSUME ~ \E c \in Rows : Dibs!DibsRelease(c) \/ Dibs!ClaimExpires(c) \/ Dibs!DibsMine(c),
             ~ \E k \in Actors : Dibs!CommsAccepts(k)
      PROVE  UNCHANGED <<x4, x5>>
    BY <1>6 DEF Dibs!DibsNext, Dibs!CreateDibs, Dibs!LeaseLapses, Dibs!FetchDibsFeed, Dibs!MarkTaken,
       Dibs!ReserveRefused, Dibs!Reserve, Dibs!MarkNotified, Dibs!Skip, Dibs!Defer, Dibs!WatcherDies
<1> QED
    BY <1>3, <1>4, <1>5, <1>6

\* A made claim keeps its scooter, an ended one its end and its taken_at, and none revives.
LEMMA ClaimsEndForGood ==
    ASSUME DibsInv, Dibs!DibsNext
    PROVE  /\ \A c \in Rows : x1[c].life # "none" =>
                /\ x1'[c].vehicle = x1[c].vehicle
                /\ x1[c].life # "live" => x1'[c].life = x1[c].life
                /\ x1[c].taken => x1'[c].taken
           /\ \/ x2' = x2
              \/ \E c \in Rows : x1[c].life = "none" /\ x2' = Append(x2, c)
<1>0. /\ x1 \in [Rows -> Dibs!ClaimRow]
      /\ \A k \in Actors : x3[k].stage = "sending" => x3[k].claim \in Rows
    BY DEF DibsInv, Dibs!DibsTypeOK
<1> USE <1>0 DEF Dibs!ClaimRow
<1>1. CASE \E c \in Rows, v \in Scooters, signedIn, notifySms \in BOOLEAN :
                Dibs!CreateDibs(c, v, signedIn, notifySms)
    BY <1>1 DEF Dibs!CreateDibs
<1>2. CASE \E c \in Rows : \/ Dibs!DibsRelease(c) \/ Dibs!ClaimExpires(c)
                           \/ Dibs!DibsMine(c) \/ Dibs!LeaseLapses(c)
    BY <1>2 DEF Dibs!DibsRelease, Dibs!Releasable, Dibs!ClaimExpires, Dibs!LiveClaim, Dibs!DibsMine,
       Dibs!LeaseLapses
<1>3. CASE \E k \in Actors : Dibs!MarkTaken(k)
    BY <1>3 DEF Dibs!MarkTaken
<1>4. CASE \E k \in Actors, c \in Rows : Dibs!Reserve(k, c)
    BY <1>4 DEF Dibs!Reserve
<1>5. CASE \E k \in Actors : Dibs!MarkNotified(k) \/ Dibs!Skip(k) \/ Dibs!Defer(k)
    BY <1>5 DEF Dibs!MarkNotified, Dibs!Skip, Dibs!Defer
<1>6. CASE \E k \in Actors :
            \/ \E out \in SUBSET Scooters : Dibs!FetchDibsFeed(k, out)
            \/ \E c \in Rows : Dibs!ReserveRefused(k, c)
            \/ Dibs!CommsAccepts(k) \/ Dibs!WatcherDies(k)
    BY <1>6 DEF Dibs!FetchDibsFeed, Dibs!ReserveRefused, Dibs!CommsAccepts, Dibs!WatcherDies
<1> QED
    BY <1>1, <1>2, <1>3, <1>4, <1>5, <1>6 DEF Dibs!DibsNext

LEMMA DibsCertificates ==
    ASSUME DibsInv, Dibs!DibsNext
    PROVE  Dibs!CertificateStands
<1>0. /\ Dibs!DibsTypeOK /\ Claimed /\ Dibs!Made \subseteq Rows
    BY ElementOfSeq DEF DibsInv, Dibs!DibsTypeOK, Dibs!Made
<1>1. \A c \in Rows : x1[c].life \in {"released", "expired"} =>
            Dibs!Verdict(c)' = Dibs!Verdict(c) /\ (x1[c].taken => x1'[c].taken)
    BY ClaimsEndForGood DEF Dibs!Verdict, Dibs!LiveClaim
<1>2. ASSUME NEW v \in Scooters, NEW c \in Dibs!ShownClaim(v), x1'[c].life = "live"
      PROVE  c \in Dibs!ShownClaim(v)'
  <2>1. c \in Dibs!Made /\ c \in Rows /\ x1[c].life = "live" /\ x1[c].vehicle = v
      BY <1>0, <1>2 DEF Dibs!ShownClaim, Dibs!LiveClaim
  <2>2. CASE x2' = x2
      <3>1. \A i \in DOMAIN x2 : x2[i] \in Rows /\ x1[x2[i]].life # "none"
          BY <1>0 DEF Dibs!Made, Claimed
      <3> QED
          BY <1>2, <2>1, <2>2, <3>1, ClaimsEndForGood DEF Dibs!ShownClaim, Dibs!LiveClaim, Dibs!Made
  <2>3. ASSUME NEW d \in Rows, x1[d].life = "none", x2' = Append(x2, d)
        PROVE  c \in Dibs!ShownClaim(v)'
      <3>1. \A i \in DOMAIN x2 : x2[i] \in Rows /\ x1[x2[i]].life # "none"
          BY <1>0 DEF Dibs!Made, Claimed
      <3>2. ASSUME NEW i \in DOMAIN x2', NEW j \in DOMAIN x2', x2'[i] = c, j < i,
                   x1'[x2'[j]].vehicle = v
            PROVE  x1'[x2'[j]].life # "live"
          <4>1. i \in DOMAIN x2 /\ x2[i] = c
              BY <1>0, <2>1, <2>3, <3>2, MadeGrows
          <4>2. j \in DOMAIN x2 /\ x2[j] = x2'[j]
              BY <1>0, <2>3, <3>2, <4>1, MadeGrows DEF Dibs!DibsTypeOK
          <4> QED
              BY <1>2, <3>1, <3>2, <4>1, <4>2, ClaimsEndForGood DEF Dibs!ShownClaim, Dibs!LiveClaim
      <3>3. c \in Dibs!Made' /\ x1'[c].vehicle = v
          BY <1>0, <2>1, <2>3, MadeGrows, ClaimsEndForGood
      <3> QED
          BY <1>2, <3>2, <3>3 DEF Dibs!ShownClaim, Dibs!LiveClaim
  <2> QED
      BY <2>2, <2>3, ClaimsEndForGood
<1> QED
    BY <1>1, <1>2 DEF Dibs!CertificateStands, Dibs!LiveClaim

-----------------------------------------------------------------------------
(* Reports.  x1 is vehicle, x2 report and x3 since. *)

ReportsInv ==
    /\ Fleet!ReportsTypeOK
    /\ x1.inFeed => x1.place \in Rows
    /\ \A r \in Problems : x2[r].kind = "none" => x2[r].resolved = "no" /\ ~x2[r].pending

LEMMA InitReportsInv == Fleet!ReportsInit => ReportsInv
BY DEF Fleet!ReportsInit, ReportsInv, Fleet!ReportsTypeOK, Fleet!Vehicle, Fleet!ReportRow, Fleet!Since,
   Fleet!NoReport, Fleet!Nothing, Fleet!Full, Fleet!NoCharge, Fleet!Nowhere, Fleet!LegacyClearMoves

FleetMoves ==
    /\ x2' = x2
    /\ x1' \in Fleet!Vehicle /\ (x1'.inFeed => x1'.place \in Rows)
    /\ x3' \in [Problems -> Fleet!Since]

\* What happens to the vehicle leaves the reports as they are, and a record of it.
LEMMA VehicleEvents ==
    ASSUME ReportsInv,
           \/ \E to \in Rows : Fleet!VehicleMoves(to)
           \/ \E charge \in 0 .. 2 : Fleet!ChargeChanges(charge)
           \/ Fleet!VehicleVanishes \/ Fleet!EntersDepot \/ Fleet!LeavesDepot
           \/ \E to \in Rows, charge \in 0 .. 2 : Fleet!VehicleReturns(to, charge)
    PROVE  FleetMoves
<1> USE DEF FleetMoves, ReportsInv, Fleet!ReportsTypeOK, Fleet!Vehicle, Fleet!Since, Fleet!Nowhere,
   Fleet!Full, Fleet!LegacyClearMoves
<1>0. \A r \in Problems : Fleet!OneMore(r) \in 0 .. 3
    BY DEF Fleet!OneMore
<1>1. ASSUME NEW to \in Rows, Fleet!VehicleMoves(to)
      PROVE  FleetMoves
    BY <1>0, <1>1 DEF Fleet!VehicleMoves, Fleet!Learns
<1>2. ASSUME NEW charge \in 0 .. 2, Fleet!ChargeChanges(charge)
      PROVE  FleetMoves
  <2>1. x2' = x2 /\ x1' \in Fleet!Vehicle /\ (x1'.inFeed => x1'.place \in Rows)
      BY <1>2 DEF Fleet!ChargeChanges
  <2> DEFINE serviced(r) == x3[r].serviced \/ Fleet!ServicedBy(charge)
  <2>2. \A r \in Problems : serviced(r) \in BOOLEAN
      BY Zenon DEF Fleet!ServicedBy
  <2>3. x3' = [r \in Problems |-> IF r \in Fleet!Filed
                                   THEN [x3[r] EXCEPT !.serviced = serviced(r)] ELSE x3[r]]
      BY <1>2 DEF Fleet!ChargeChanges, Fleet!Learns
  <2> HIDE DEF serviced
  <2> QED
      BY <2>1, <2>2, <2>3
<1>3. CASE Fleet!VehicleVanishes \/ Fleet!EntersDepot \/ Fleet!LeavesDepot
  <2>1. CASE Fleet!VehicleVanishes
      BY <2>1 DEF Fleet!VehicleVanishes, Fleet!Learns
  <2>2. CASE Fleet!EntersDepot
      BY ZenonT(60), <2>2 DEF Fleet!EntersDepot, Fleet!Learns
  <2>3. CASE Fleet!LeavesDepot
      BY <2>3 DEF Fleet!LeavesDepot, Fleet!Learns
  <2> QED
      BY <1>3, <2>1, <2>2, <2>3
<1>4. ASSUME NEW to \in Rows, NEW charge \in 0 .. 2, Fleet!VehicleReturns(to, charge)
      PROVE  FleetMoves
  <2>1. x2' = x2 /\ x1' \in Fleet!Vehicle /\ (x1'.inFeed => x1'.place \in Rows)
      BY <1>4 DEF Fleet!VehicleReturns
  <2> DEFINE serviced(r) == x3[r].serviced \/ Fleet!ServicedBy(charge)
             moves(r)    == IF to # x1.place THEN Fleet!OneMore(r) ELSE x3[r].moves
  <2>2. \A r \in Problems : serviced(r) \in BOOLEAN
      BY Zenon DEF Fleet!ServicedBy
  <2>3. \A r \in Problems : moves(r) \in 0 .. 3
      BY <1>0
  <2>4. x3' = [r \in Problems |-> IF r \in Fleet!Filed
                    THEN [x3[r] EXCEPT !.serviced = serviced(r), !.moves = moves(r)] ELSE x3[r]]
      BY <1>4 DEF Fleet!VehicleReturns, Fleet!Learns
  <2> HIDE DEF serviced, moves
  <2> QED
      BY ZenonT(60), <2>1, <2>2, <2>3, <2>4
<1> QED
    BY <1>1, <1>2, <1>3, <1>4

\* A rider or an admin writes one report, of a kind, and the vehicle stays as it is; only
\* a settled baseline lets go of a report and starts a new record.
Writes(r, row) ==
    /\ row \in Fleet!ReportRow /\ row.kind # "none"
    /\ x2[r].kind # "none" => row.kind = x2[r].kind /\ row.legacy = x2[r].legacy
    /\ x2[r].resolved = "admin" => row.resolved = "admin"
    /\ (x2[r].pending /\ ~row.pending) => Fleet!SettleBaseline(r)
    /\ x2' = [x2 EXCEPT ![r] = row] /\ x1' = x1
    /\ x3' = x3 \/ x3' = [x3 EXCEPT ![r] = Fleet!Nothing]

LEMMA ReportsWrite ==
    ASSUME ReportsInv, Fleet!ReportsNext
    PROVE  FleetMoves \/ \E r \in Problems : \E row \in Fleet!ReportRow : Writes(r, row)
<1> USE DEF Fleet!Full, Fleet!NoCharge, Fleet!Nowhere, Fleet!ReportRow
<1>0. /\ x1 \in Fleet!Vehicle /\ x2 \in [Problems -> Fleet!ReportRow]
      /\ \A r \in Problems : x2[r].kind = "none" => x2[r].resolved = "no" /\ ~x2[r].pending
    BY DEF ReportsInv, Fleet!ReportsTypeOK
<1>1. x1.place \in Rows \cup {"nowhere"} /\ x1.charge \in 0 .. 3
    BY <1>0 DEF Fleet!Vehicle
<1>blank. Fleet!NoReport \in Fleet!ReportRow
    BY DEF Fleet!NoReport
<1>2. ASSUME NEW r \in Problems, NEW kind \in {"rideability", "location"}, NEW signedIn \in BOOLEAN,
             Fleet!FileReport(r, kind, signedIn)
      PROVE  \E row \in Fleet!ReportRow : Writes(r, row)
  <2> DEFINE charge == IF x1.inFeed THEN x1.charge ELSE 3
             row == [[[[Fleet!NoReport EXCEPT !.kind = kind] EXCEPT !.signedIn = signedIn]
                        EXCEPT !.place = x1.place] EXCEPT !.charge = charge]
  <2>1. row \in Fleet!ReportRow /\ row.kind # "none"
    <3>1. charge \in 0 .. 3
        BY <1>1
    <3> HIDE DEF charge
    <3> QED
        BY <1>1, <1>blank, <3>1
  <2>2. x2' = [x2 EXCEPT ![r] = row] /\ x1' = x1 /\ x3' = x3
      BY <1>2 DEF Fleet!FileReport
  <2>3. x2[r].kind = "none" /\ x2[r].resolved = "no" /\ ~x2[r].pending
      BY <1>0, <1>2 DEF Fleet!FileReport
  <2> HIDE DEF row
  <2> QED
      BY <2>1, <2>2, <2>3 DEF Writes
<1>3. ASSUME NEW r \in Problems, NEW signedIn \in BOOLEAN, Fleet!LegacyReport(r, signedIn)
      PROVE  \E row \in Fleet!ReportRow : Writes(r, row)
  <2> DEFINE row == [[[[Fleet!NoReport EXCEPT !.kind = "rideability"] EXCEPT !.signedIn = signedIn]
                        EXCEPT !.place = x1.place] EXCEPT !.legacy = TRUE]
  <2>1. row \in Fleet!ReportRow /\ row.kind # "none"
      BY <1>1, <1>blank
  <2>2. x2' = [x2 EXCEPT ![r] = row] /\ x1' = x1 /\ x3' = x3
      BY <1>3 DEF Fleet!LegacyReport
  <2>3. x2[r].kind = "none" /\ x2[r].resolved = "no" /\ ~x2[r].pending
      BY <1>0, <1>3 DEF Fleet!LegacyReport
  <2> HIDE DEF row
  <2> QED
      BY <2>1, <2>2, <2>3 DEF Writes
<1>4. ASSUME NEW r \in Problems, NEW source \in {"admin", "rider_check"}, Fleet!ResolveReport(r, source)
      PROVE  \E row \in Fleet!ReportRow : Writes(r, row)
  <2> DEFINE row == [x2[r] EXCEPT !.resolved = source]
  <2>1. row \in Fleet!ReportRow /\ row.kind # "none"
      BY <1>0, <1>4 DEF Fleet!ResolveReport, Fleet!Filed
  <2>2. x2' = [x2 EXCEPT ![r] = row] /\ x1' = x1 /\ x3' = x3
      BY <1>4 DEF Fleet!ResolveReport
  <2>3. /\ x2[r].kind # "none" => row.kind = x2[r].kind /\ row.legacy = x2[r].legacy
        /\ x2[r].resolved = "admin" => row.resolved = "admin"
        /\ x2[r].pending => row.pending
      BY <1>0, <1>4 DEF Fleet!ResolveReport
  <2> HIDE DEF row
  <2> QED
      BY <2>1, <2>2, <2>3 DEF Writes
<1>5. ASSUME NEW r \in Problems, Fleet!ReportFades(r)
      PROVE  \E row \in Fleet!ReportRow : Writes(r, row)
  <2> DEFINE row == [x2[r] EXCEPT !.faded = TRUE]
  <2>1. row \in Fleet!ReportRow /\ row.kind # "none"
      BY <1>0, <1>5 DEF Fleet!ReportFades, Fleet!Filed
  <2>2. x2' = [x2 EXCEPT ![r] = row] /\ x1' = x1 /\ x3' = x3
      BY <1>5 DEF Fleet!ReportFades
  <2>3. /\ x2[r].kind # "none" => row.kind = x2[r].kind /\ row.legacy = x2[r].legacy
        /\ x2[r].resolved = "admin" => row.resolved = "admin"
        /\ x2[r].pending => row.pending
      BY <1>0, <1>5 DEF Fleet!ReportFades
  <2> HIDE DEF row
  <2> QED
      BY <2>1, <2>2, <2>3 DEF Writes
<1>6. ASSUME NEW r \in Problems, Fleet!ReinstateReport(r)
      PROVE  \E row \in Fleet!ReportRow : Writes(r, row)
  <2> DEFINE row == [x2[r] EXCEPT !.resolved = "no"]
  <2>1. row \in Fleet!ReportRow /\ row.kind # "none"
      BY <1>0, <1>6 DEF Fleet!ReinstateReport, Fleet!Reinstatable
  <2>2. x2' = [x2 EXCEPT ![r] = row] /\ x1' = x1 /\ x3' = x3
      BY <1>6 DEF Fleet!ReinstateReport
  <2>3. /\ x2[r].kind # "none" => row.kind = x2[r].kind /\ row.legacy = x2[r].legacy
        /\ x2[r].resolved = "admin" => row.resolved = "admin"
        /\ x2[r].pending => row.pending
      BY <1>0, <1>6 DEF Fleet!ReinstateReport, Fleet!Reinstatable
  <2> HIDE DEF row
  <2> QED
      BY <2>1, <2>2, <2>3 DEF Writes
<1>7. ASSUME NEW r \in Problems, Fleet!Reconfirm(r)
      PROVE  \E row \in Fleet!ReportRow : Writes(r, row)
  <2> DEFINE row == [x2[r] EXCEPT !.pending = TRUE]
  <2>1. row \in Fleet!ReportRow /\ row.kind # "none"
      BY <1>0, <1>7 DEF Fleet!Reconfirm, Fleet!Stands, Fleet!Filed
  <2>2. x2' = [x2 EXCEPT ![r] = row] /\ x1' = x1 /\ x3' = x3
      BY <1>7 DEF Fleet!Reconfirm
  <2>3. /\ x2[r].kind # "none" => row.kind = x2[r].kind /\ row.legacy = x2[r].legacy
        /\ x2[r].resolved = "admin" => row.resolved = "admin"
        /\ x2[r].pending => row.pending
      BY <1>0, <1>7 DEF Fleet!Reconfirm
  <2> HIDE DEF row
  <2> QED
      BY <2>1, <2>2, <2>3 DEF Writes
<1>8. ASSUME NEW r \in Problems, Fleet!SettleBaseline(r)
      PROVE  \E row \in Fleet!ReportRow : Writes(r, row)
  <2> DEFINE row == [[[x2[r] EXCEPT !.pending = FALSE] EXCEPT !.place = x1.place]
                        EXCEPT !.charge = x1.charge]
  <2>1. row \in Fleet!ReportRow /\ row.kind # "none"
      BY ZenonT(60), <1>0, <1>1, <1>8 DEF Fleet!SettleBaseline
  <2>2. x2' = [x2 EXCEPT ![r] = row] /\ x1' = x1
      BY <1>0, <1>8 DEF Fleet!SettleBaseline
  <2>3. x3' = [x3 EXCEPT ![r] = Fleet!Nothing]
      BY <1>8 DEF Fleet!SettleBaseline, Fleet!Rebaselined
  <2> QED
      BY <1>0, <1>8, <2>1, <2>2, <2>3 DEF Writes
<1> QED
    BY <1>2, <1>3, <1>4, <1>5, <1>6, <1>7, <1>8, VehicleEvents DEF Fleet!ReportsNext

LEMMA ReportsStep ==
    ASSUME ReportsInv, Fleet!ReportsNext
    PROVE  ReportsInv'
<1>1. CASE FleetMoves
    BY <1>1 DEF ReportsInv, FleetMoves, Fleet!ReportsTypeOK
<1>2. ASSUME NEW r \in Problems, NEW row \in Fleet!ReportRow, Writes(r, row)
      PROVE  ReportsInv'
  <2>1. x2' \in [Problems -> Fleet!ReportRow] /\ x1' = x1
      BY <1>2 DEF Writes, ReportsInv, Fleet!ReportsTypeOK
  <2>2. Fleet!Nothing \in Fleet!Since
      BY DEF Fleet!Nothing, Fleet!Since, Fleet!LegacyClearMoves
  <2>3. x3' \in [Problems -> Fleet!Since]
      BY <1>2, <2>2 DEF Writes, ReportsInv, Fleet!ReportsTypeOK
  <2>4. \A q \in Problems : x2'[q].kind = "none" => x2'[q].resolved = "no" /\ ~x2'[q].pending
      BY <1>2 DEF Writes, ReportsInv, Fleet!ReportsTypeOK
  <2> QED
      BY <2>1, <2>2, <2>3, <2>4 DEF ReportsInv, Fleet!ReportsTypeOK
<1> QED
    BY <1>1, <1>2, ReportsWrite

\* What reports follow in one step.
LEMMA ReportsFollow ==
    ASSUME ReportsInv, Fleet!ReportsNext
    PROVE  Fleet!OnlyARealChangeClears /\ Fleet!RebaselinedStands
<1>0. /\ x1 \in Fleet!Vehicle /\ x2 \in [Problems -> Fleet!ReportRow]
      /\ x2' \in [Problems -> Fleet!ReportRow] /\ x3' \in [Problems -> Fleet!Since]
      /\ \A r \in Problems : x2[r].kind = "none" => x2[r].resolved = "no" /\ ~x2[r].pending
    BY ReportsStep DEF ReportsInv, Fleet!ReportsTypeOK
<1> USE DEF Fleet!Full, Fleet!NoCharge, Fleet!Nowhere, Fleet!ReportRow
<1>1. \A r \in Problems : /\ x2[r].kind # "none" => /\ x2'[r].kind = x2[r].kind
                                                    /\ x2'[r].legacy = x2[r].legacy
                          /\ x2[r].resolved = "admin" => x2'[r].resolved = "admin"
    BY <1>0, ReportsWrite DEF FleetMoves, Writes
<1>2. ASSUME NEW r \in Problems, x2[r].pending, ~x2'[r].pending
      PROVE  Fleet!SettleBaseline(r)
    BY <1>0, <1>2, ReportsWrite DEF FleetMoves, Writes
<1>3. ASSUME NEW r \in Problems, Fleet!Stands(r), ~Fleet!Stands(r)', x2'[r].resolved = "no"
      PROVE  Fleet!Cleared(r)' /\ x2[r].kind # "none"
    BY <1>0, <1>1, <1>3 DEF Fleet!Stands, Fleet!Filed
<1>4. Fleet!OnlyARealChangeClears
    BY <1>0, <1>1, <1>3 DEF Fleet!OnlyARealChangeClears, Fleet!Cleared, Fleet!LegacyMoved,
       Fleet!LegacyClearMoves, Fleet!Since
<1>5. ASSUME NEW r \in Problems, Fleet!SettleBaseline(r), x2[r].resolved = "no", x2[r].pending
      PROVE  Fleet!Stands(r)'
  <2>1. /\ x1' = x1 /\ x2'[r].place = x1.place /\ x2'[r].charge = x1.charge
        /\ x2'[r].kind = x2[r].kind /\ x2'[r].resolved = "no"
        /\ x3'[r] = Fleet!Nothing
      BY <1>0, <1>5 DEF Fleet!SettleBaseline, Fleet!Rebaselined, ReportsInv, Fleet!ReportsTypeOK
  <2>2. ~Fleet!Cleared(r)'
      BY <1>0, <2>1 DEF Fleet!Cleared, Fleet!Moved, Fleet!OffMap, Fleet!Rose, Fleet!IsFull, Fleet!LegacyMoved,
         Fleet!Nothing, Fleet!Vehicle
  <2> QED
      BY <1>0, <1>5, <2>1, <2>2 DEF Fleet!Stands, Fleet!Filed
<1> QED
    BY <1>1, <1>2, <1>4, <1>5 DEF Fleet!RebaselinedStands

-----------------------------------------------------------------------------
(* Checks.  x1 is clock, x2 shown, x3 parked, x4 rental, x5 check, x6       *)
(* condition and x7 ledger.                                                 *)

\* A check is given up only once the feed has shown all of its window.
GivenUp == \A c \in Rows : x5[c].feed = "unconfirmed" => x2 > x5[c].at + 1

ChecksInv ==
    /\ Check!ChecksTypeOK
    /\ x2 <= x1
    /\ GivenUp
    /\ \A c \in Rows : x5[c].feed = "none" => x5[c].reconfirmed = {}
    /\ \A c \in Rows : x5[c].base => [check |-> c, confirmed |-> FALSE] \in x7
    /\ Check!HeldReportHasCheck

LEMMA InitChecksInv == Check!ChecksInit => ChecksInv
BY BoundsAssumption DEF Check!ChecksInit, ChecksInv, Check!ChecksTypeOK, GivenUp, Check!HeldReportHasCheck,
   Check!Times, Check!Never, Check!CheckRow, Check!Condition, Check!NoCheck, Check!NotFiled, Check!FeedWindow

LEMMA ChecksTyped ==
    ASSUME Check!ChecksTypeOK, Check!ChecksNext
    PROVE  Check!ChecksTypeOK'
<1>0. /\ x1 \in Check!Times /\ x2 \in Check!Times /\ x3 \in Check!Times
      /\ x4 \in Check!Times \cup {Check!Never}
      /\ x5 \in [Rows -> Check!CheckRow] /\ x6 \in [Problems -> Check!Condition]
      /\ x7 \subseteq Check!Awards
    BY DEF Check!ChecksTypeOK
<1>1. CASE Check!Tick
    BY <1>0, <1>1, BoundsAssumption DEF Check!Tick, Check!ChecksTypeOK, Check!Times
<1>2. CASE \E t \in Check!Times : \/ Check!RentalStarts(t) \/ Check!VehicleMoves(t)
                                  \/ \E moved \in BOOLEAN : Check!RentalEnds(t, moved)
    BY <1>0, <1>2 DEF Check!RentalStarts, Check!VehicleMoves, Check!RentalEnds, Check!Applies,
       Check!ChecksTypeOK
<1>3. ASSUME NEW r \in Problems, NEW by \in Actors, Check!FileCondition(r, by)
      PROVE  Check!ChecksTypeOK'
    BY ZenonT(60), <1>0, <1>3 DEF Check!FileCondition, Check!ChecksTypeOK, Check!Condition
<1>4. ASSUME NEW r \in Problems, NEW byAdmin \in BOOLEAN, Check!ConditionClears(r, byAdmin)
      PROVE  Check!ChecksTypeOK'
    BY <1>0, <1>4 DEF Check!ConditionClears, Check!ChecksTypeOK, Check!Condition
<1>5. ASSUME NEW c \in Rows, NEW a \in Actors, Check!SubmitWithoutRide(c, a)
      PROVE  Check!ChecksTypeOK'
  <2> DEFINE row == [[[Check!NoCheck EXCEPT !.feed = "not_applicable"] EXCEPT !.by = a] EXCEPT !.at = x1]
  <2>1. Check!NoCheck \in Check!CheckRow
      BY BoundsAssumption DEF Check!NoCheck, Check!CheckRow, Check!Times
  <2>2. row \in Check!CheckRow
      BY <1>0, <2>1 DEF Check!CheckRow
  <2>3. x5' = [x5 EXCEPT ![c] = row]
      BY <1>5 DEF Check!SubmitWithoutRide
  <2> HIDE DEF row
  <2> QED
      BY <1>0, <1>5, <2>2, <2>3 DEF Check!SubmitWithoutRide, Check!ChecksTypeOK
<1>6. ASSUME NEW c \in Rows, NEW a \in Actors, NEW still \in SUBSET Problems, Check!SubmitCheck(c, a, still)
      PROVE  Check!ChecksTypeOK'
  <2> DEFINE base == ~Check!Withheld(a)
  <2>1. base \in BOOLEAN
      BY Zenon DEF Check!Withheld
  <2>2. x5' \in [Rows -> Check!CheckRow]
      BY <1>0, <1>6, <2>1 DEF Check!SubmitCheck, Check!CheckRow, Check!NoCheck
  <2>3. x6' \in [Problems -> Check!Condition]
      BY ZenonT(60), <1>0, <1>6 DEF Check!SubmitCheck, Check!Condition
  <2>4. x7' \subseteq Check!Awards
    <3>1. [check |-> c, confirmed |-> FALSE] \in Check!Awards
        BY DEF Check!Awards
    <3> QED
        BY <1>0, <1>6, <3>1 DEF Check!SubmitCheck
  <2> QED
      BY <1>0, <1>6, <2>2, <2>3, <2>4 DEF Check!SubmitCheck, Check!ChecksTypeOK
<1>7. ASSUME NEW snap \in Check!Times, Check!ConfirmPass(snap)
      PROVE  Check!ChecksTypeOK'
  <2>1. \A c \in Rows : /\ Check!FeedAfter(c, snap) \in {"none", "not_applicable", "pending", "confirmed",
                                                        "unconfirmed"}
                       /\ (x5[c].settled \/ Check!Settles(c, snap)) \in BOOLEAN
    <3>1. \A c \in Rows : Check!FeedAfter(c, snap) \in {"none", "not_applicable", "pending", "confirmed",
                                                        "unconfirmed"}
        BY <1>0 DEF Check!FeedAfter, Check!CheckRow
    <3>2. \A c \in Rows : (x5[c].settled \/ Check!Settles(c, snap)) \in BOOLEAN
        BY Zenon DEF Check!Settles
    <3> QED
        BY <3>1, <3>2
  <2>2. x5' \in [Rows -> Check!CheckRow]
    <3> DEFINE settled(c) == x5[c].settled \/ Check!Settles(c, snap)
    <3>1. \A c \in Rows : settled(c) \in BOOLEAN
        BY <2>1
    <3>2. x5' = [c \in Rows |-> [x5[c] EXCEPT !.feed = Check!FeedAfter(c, snap), !.settled = settled(c)]]
        BY <1>7 DEF Check!ConfirmPass
    <3> DEFINE feed(c) == Check!FeedAfter(c, snap)
               passed(c) == [x5[c] EXCEPT !.feed = feed(c), !.settled = settled(c)]
    <3>3. x5' = [c \in Rows |-> passed(c)]
        BY <3>2
    <3>4. \A c \in Rows : feed(c) \in {"none", "not_applicable", "pending", "confirmed", "unconfirmed"}
        BY <2>1
    <3> HIDE DEF settled, feed
    <3>5. \A c \in Rows : passed(c) \in Check!CheckRow
      <4> SUFFICES ASSUME NEW c \in Rows
                   PROVE  passed(c) \in Check!CheckRow
          OBVIOUS
      <4>1. x5[c] \in Check!CheckRow /\ settled(c) \in BOOLEAN
          BY <1>0, <3>1
      <4> QED
          BY <3>4, <4>1 DEF Check!CheckRow
    <3> HIDE DEF passed
    <3> QED
        BY <3>3, <3>5
  <2>3. x6' \in [Problems -> Check!Condition]
      BY ZenonT(60), <1>0, <1>7 DEF Check!ConfirmPass, Check!Condition
  <2>4. x7' \subseteq Check!Awards
    <3>1. \A c \in Rows : [check |-> c, confirmed |-> TRUE] \in Check!Awards
        BY DEF Check!Awards
    <3> QED
        BY <1>0, <1>7, <3>1 DEF Check!ConfirmPass, Check!PendingChecks
  <2> QED
      BY <1>0, <1>7, <2>2, <2>3, <2>4 DEF Check!ConfirmPass, Check!ChecksTypeOK
<1> QED
    BY <1>1, <1>2, <1>3, <1>4, <1>5, <1>6, <1>7 DEF Check!ChecksNext

\* What a cycle's pass leaves of a check.
LEMMA PassedChecks ==
    ASSUME Check!ChecksTypeOK, NEW snap \in Check!Times, Check!ConfirmPass(snap), NEW c \in Rows
    PROVE  /\ x5'[c].feed = Check!FeedAfter(c, snap)
           /\ x5'[c].at = x5[c].at /\ x5'[c].base = x5[c].base
           /\ x5'[c].reconfirmed = x5[c].reconfirmed
           /\ x5'[c].parked = x5[c].parked /\ x5'[c].rental = x5[c].rental
           /\ x5'[c].settled => x5[c].settled \/ Check!Settles(c, snap)
<1> DEFINE settled(d) == x5[d].settled \/ Check!Settles(d, snap)
<1>1. x5' = [d \in Rows |-> [x5[d] EXCEPT !.feed = Check!FeedAfter(d, snap), !.settled = settled(d)]]
    BY DEF Check!ConfirmPass
<1>2. x5[c] \in Check!CheckRow
    BY DEF Check!ChecksTypeOK
<1>3. settled(c) => x5[c].settled \/ Check!Settles(c, snap)
    OBVIOUS
<1> HIDE DEF settled
<1> QED
    BY <1>1, <1>2, <1>3 DEF Check!CheckRow

LEMMA ChecksStep ==
    ASSUME ChecksInv, Check!ChecksNext
    PROVE  ChecksInv'
<1>0. /\ x1 \in Nat /\ x2 \in Nat /\ x2 <= x1
      /\ x5 \in [Rows -> Check!CheckRow] /\ x6 \in [Problems -> Check!Condition]
      /\ \A c \in Rows : x5[c].at \in Nat
      /\ Check!Times \subseteq Nat
    BY BoundsAssumption DEF ChecksInv, Check!ChecksTypeOK, Check!Times, Check!CheckRow
<1> USE DEF Check!CheckRow, Check!Condition, Check!NoCheck
<1>1. CASE Check!Tick
    BY <1>0, <1>1, ChecksTyped DEF ChecksInv, GivenUp, Check!HeldReportHasCheck, Check!Tick
<1>2. CASE \E t \in Check!Times : \/ Check!RentalStarts(t) \/ Check!VehicleMoves(t)
                                  \/ \E moved \in BOOLEAN : Check!RentalEnds(t, moved)
  <2>1. /\ UNCHANGED <<x1, x5, x6, x7>>
        /\ \E t \in Nat : t <= x1 /\ x2' = IF t > x2 THEN t ELSE x2
      BY <1>0, <1>2 DEF Check!RentalStarts, Check!VehicleMoves, Check!RentalEnds, Check!Applies
  <2>2. x2' \in Nat /\ x2' >= x2 /\ x2' <= x1
      BY <1>0, <2>1
  <2>3. GivenUp'
      BY <1>0, <2>1, <2>2 DEF ChecksInv, GivenUp
  <2> QED
      BY <2>1, <2>2, <2>3, ChecksTyped DEF ChecksInv, Check!HeldReportHasCheck
<1>3. CASE \E r \in Problems, by \in Actors : Check!FileCondition(r, by)
    BY <1>0, <1>3, ChecksTyped DEF ChecksInv, GivenUp, Check!HeldReportHasCheck, Check!FileCondition,
       Check!NotFiled
<1>4. CASE \E r \in Problems, byAdmin \in BOOLEAN : Check!ConditionClears(r, byAdmin)
    BY <1>0, <1>4, ChecksTyped DEF ChecksInv, GivenUp, Check!HeldReportHasCheck, Check!ConditionClears
<1>5. ASSUME NEW c \in Rows, NEW a \in Actors, Check!SubmitWithoutRide(c, a)
      PROVE  ChecksInv'
  <2>1. /\ \A d \in Rows \ {c} : x5'[d] = x5[d]
        /\ x5'[c].feed = "not_applicable" /\ ~x5'[c].base
        /\ x5[c].reconfirmed = {}
      BY <1>0, <1>5 DEF Check!SubmitWithoutRide, ChecksInv
  <2>2. UNCHANGED <<x1, x2, x6, x7>>
      BY <1>5 DEF Check!SubmitWithoutRide
  <2> QED
      BY <1>0, <1>5, <2>1, <2>2, ChecksTyped DEF ChecksInv, GivenUp, Check!HeldReportHasCheck
<1>6. ASSUME NEW c \in Rows, NEW a \in Actors, NEW still \in SUBSET Problems, Check!SubmitCheck(c, a, still)
      PROVE  ChecksInv'
  <2>1. /\ \A d \in Rows \ {c} : x5'[d] = x5[d]
        /\ x5'[c].feed = "pending" /\ x5'[c].reconfirmed = still /\ ~x5'[c].settled
        /\ x5[c].reconfirmed = {}
        /\ x5'[c].base => [check |-> c, confirmed |-> FALSE] \in x7'
        /\ x7 \subseteq x7'
      BY <1>0, <1>6 DEF Check!SubmitCheck, ChecksInv
  <2>2. /\ UNCHANGED <<x1, x2>>
        /\ \A r \in Problems : IF r \in still THEN x6'[r].owner = c
                               ELSE x6'[r].pending = x6[r].pending /\ x6'[r].owner = x6[r].owner
      BY <1>0, <1>6 DEF Check!SubmitCheck
  <2>3. Check!HeldReportHasCheck'
      BY <1>0, <2>1, <2>2 DEF ChecksInv, Check!HeldReportHasCheck
  <2> QED
      BY <1>0, <2>1, <2>2, <2>3, ChecksTyped DEF ChecksInv, GivenUp
<1>7. ASSUME NEW snap \in Check!Times, Check!ConfirmPass(snap)
      PROVE  ChecksInv'
  <2>1. /\ \A d \in Rows : /\ x5'[d].feed = Check!FeedAfter(d, snap)
                           /\ x5'[d].at = x5[d].at /\ x5'[d].base = x5[d].base
                           /\ x5'[d].reconfirmed = x5[d].reconfirmed
                           /\ x5'[d].settled => x5[d].settled \/ Check!Settles(d, snap)
        /\ x7 \subseteq x7'
        /\ x1' = x1 /\ x2' <= x1 /\ x2' >= x2 /\ x2' >= snap /\ x2' \in Nat /\ snap \in Nat
    <3>1. x7 \subseteq x7'
        BY <1>7 DEF Check!ConfirmPass
    <3>2. x1' = x1 /\ x2' <= x1 /\ x2' >= x2 /\ x2' >= snap /\ x2' \in Nat /\ snap \in Nat
      <4>1. x1' = x1 /\ snap <= x1 /\ x2' = IF snap > x2 THEN snap ELSE x2
          BY <1>7 DEF Check!ConfirmPass
      <4> QED
          BY <1>0, <4>1
    <3> QED
        BY <1>7, <3>1, <3>2, PassedChecks DEF ChecksInv
  <2>2. \A r \in Problems : x6'[r].pending =>
            /\ x6[r].pending /\ x6'[r].owner = x6[r].owner
            /\ \A c \in Rows : x6[r].owner = c => ~Check!Settles(c, snap)
      BY <1>0, <1>7 DEF Check!ConfirmPass
  <2>3. GivenUp'
    <3> SUFFICES ASSUME NEW c \in Rows, x5'[c].feed = "unconfirmed" PROVE x2' > x5'[c].at + 1
        BY DEF GivenUp
    <3>1. x5[c].feed = "unconfirmed" \/ Check!WindowClosed(c, snap)
        BY <2>1 DEF Check!FeedAfter
    <3> QED
        BY <1>0, <2>1, <3>1 DEF ChecksInv, GivenUp, Check!WindowClosed, Check!FeedWindow
  <2>4. Check!HeldReportHasCheck'
      BY <2>1, <2>2 DEF ChecksInv, Check!HeldReportHasCheck
  <2>5. \A c \in Rows : x5'[c].feed = "none" => x5[c].feed = "none"
      BY <2>1 DEF Check!FeedAfter, Check!PendingChecks
  <2> QED
      BY <2>1, <2>3, <2>4, <2>5, ChecksTyped DEF ChecksInv
<1> QED
    BY <1>1, <1>2, <1>3, <1>4, <1>5, <1>6, <1>7 DEF Check!ChecksNext

\* A check that is given up keeps what it was compared with.
LEMMA UnconfirmedStays ==
    ASSUME ChecksInv, Check!ChecksNext, NEW c \in Rows, x5[c].feed = "unconfirmed"
    PROVE  /\ x5'[c].at = x5[c].at /\ x5'[c].parked = x5[c].parked
           /\ x5'[c].rental = x5[c].rental
<1>0. x5 \in [Rows -> Check!CheckRow]
    BY DEF ChecksInv, Check!ChecksTypeOK
<1>1. ASSUME NEW d \in Rows, NEW a \in Actors,
             \/ Check!SubmitWithoutRide(d, a)
             \/ \E still \in SUBSET Problems : Check!SubmitCheck(d, a, still)
      PROVE  x5'[c] = x5[c]
  <2>1. d # c /\ \E row : x5' = [x5 EXCEPT ![d] = row]
      BY <1>1 DEF Check!SubmitWithoutRide, Check!SubmitCheck
  <2> QED
      BY <1>0, <2>1
<1>2. CASE \E snap \in Check!Times : Check!ConfirmPass(snap)
    BY <1>2, PassedChecks DEF ChecksInv
<1>3. CASE UNCHANGED x5
    BY <1>3
<1> QED
    BY <1>1, <1>2, <1>3 DEF Check!ChecksNext, Check!Tick, Check!RentalStarts, Check!VehicleMoves,
       Check!RentalEnds, Check!FileCondition, Check!ConditionClears

\* What checks, and the reports they hold, follow in one step.
LEMMA ChecksFollow ==
    ASSUME ChecksInv, Check!ChecksNext
    PROVE  Check!NotGivenUpEarly /\ Check!HeldThroughTheRide /\ Check!CheckAwardsEarned
<1>0. /\ x1 \in Nat /\ x2 \in Nat
      /\ x5 \in [Rows -> Check!CheckRow] /\ x6 \in [Problems -> Check!Condition]
      /\ \A c \in Rows : x5[c].at \in Nat
      /\ Check!Times \subseteq Nat
    BY BoundsAssumption DEF ChecksInv, Check!ChecksTypeOK, Check!Times, Check!CheckRow
<1> USE DEF Check!CheckRow, Check!Condition, Check!NoCheck
<1>1. ASSUME NEW c \in Rows, x5[c].feed = "unconfirmed", ~Check!Signal(c), Check!Signal(c)'
      PROVE  Check!OutOfOrder
  <2>1. x2 > x5[c].at + 1
      BY <1>1 DEF ChecksInv, GivenUp
  <2>2. /\ x5'[c].at = x5[c].at /\ x5'[c].parked = x5[c].parked /\ x5'[c].rental = x5[c].rental
      BY <1>1, UnconfirmedStays
  <2>3. CASE Check!InWindow(x4', x5[c].at) /\ ~Check!InWindow(x4, x5[c].at)
    <3>1. x4' # x4 /\ x4' # Check!Never /\ x4' \in Nat /\ x4' <= x5[c].at + 1
      <4>1. x4' \in Check!Times \cup {Check!Never}
          BY ChecksTyped DEF ChecksInv, Check!ChecksTypeOK
      <4> QED
          BY <1>0, <2>3, <4>1 DEF Check!InWindow, Check!FeedWindow
    <3> QED
        BY <1>0, <2>1, <3>1 DEF Check!OutOfOrder
  <2>4. CASE /\ x3' > x5[c].parked /\ x3' <= x5[c].at + 1
             /\ ~(x3 > x5[c].parked /\ x3 <= x5[c].at + 1)
    <3>1. x3' \in Nat
        BY <1>0, ChecksTyped DEF ChecksInv, Check!ChecksTypeOK
    <3> QED
        BY <1>0, <2>1, <2>4, <3>1 DEF Check!OutOfOrder
  <2> QED
      BY <1>1, <2>2, <2>3, <2>4 DEF Check!Signal, Check!InWindow, Check!FeedWindow
<1>2. Check!NotGivenUpEarly
    BY <1>1 DEF Check!NotGivenUpEarly
<1>3. ASSUME NEW r \in Problems, x6[r].pending, ~x6'[r].pending
      PROVE  \E snap \in Check!Times : Check!ConfirmPass(snap)
  <2>1. CASE \E q \in Problems, by \in Actors : Check!FileCondition(q, by)
      BY <1>0, <1>3, <2>1 DEF Check!FileCondition, Check!NotFiled
  <2>2. CASE \E q \in Problems, byAdmin \in BOOLEAN : Check!ConditionClears(q, byAdmin)
      BY <1>0, <1>3, <2>2 DEF Check!ConditionClears
  <2>3. CASE \E c \in Rows, a \in Actors, still \in SUBSET Problems : Check!SubmitCheck(c, a, still)
    <3>1. ASSUME NEW c \in Rows, NEW a \in Actors, NEW still \in SUBSET Problems,
                 Check!SubmitCheck(c, a, still)
          PROVE  x6'[r].pending
      <4>1. x6'[r] = IF r \in still THEN [x6[r] EXCEPT !.pending = TRUE, !.owner = c]
                     ELSE IF r \in Check!Standing THEN [x6[r] EXCEPT !.stands = FALSE] ELSE x6[r]
          BY <1>3, <3>1 DEF Check!SubmitCheck
      <4>2. x6[r] \in Check!Condition /\ x6[r].pending
          BY <1>0, <1>3
      <4> QED
          BY <4>1, <4>2
    <3> QED
        BY <1>3, <2>3, <3>1
  <2>4. CASE \/ Check!Tick
             \/ \E t \in Check!Times : Check!RentalStarts(t) \/ Check!VehicleMoves(t)
             \/ \E t \in Check!Times, moved \in BOOLEAN : Check!RentalEnds(t, moved)
             \/ \E c \in Rows, a \in Actors : Check!SubmitWithoutRide(c, a)
    <3>1. x6' = x6
        BY <2>4 DEF Check!Tick, Check!RentalStarts, Check!VehicleMoves, Check!RentalEnds,
           Check!SubmitWithoutRide
    <3> QED
        BY <1>3, <3>1
  <2> QED
      BY <2>1, <2>2, <2>3, <2>4, Zenon DEF Check!ChecksNext
<1>4. ASSUME NEW r \in Problems, NEW snap \in Check!Times, Check!ConfirmPass(snap),
             x6[r].pending, ~x6'[r].pending
      PROVE  x4 = Check!Never \/ x1 >= x5[x6[r].owner].at + 2
  <2>1. PICK c \in Rows : x6[r].owner = c /\ Check!Settles(c, snap)
      BY <1>0, <1>4 DEF Check!ConfirmPass
  <2>2. snap \in Nat /\ snap <= x1
      BY <1>0, <1>4 DEF Check!ConfirmPass
  <2> QED
      BY <1>0, <2>1, <2>2 DEF Check!Settles, Check!MaxSettleWait
<1>5. Check!HeldThroughTheRide
    BY <1>3, <1>4 DEF Check!HeldThroughTheRide, Check!MaxSettleWait
<1>6. Check!CheckAwardsEarned
  <2> SUFFICES ASSUME NEW e \in x7' \ x7
               PROVE  IF e.confirmed
                      THEN /\ [check |-> e.check, confirmed |-> FALSE] \in x7
                           /\ x5'[e.check].feed = "confirmed"
                      ELSE \E r \in Problems : x6[r].stands /\ x6[r].by # x5'[e.check].by
      BY DEF Check!CheckAwardsEarned
  <2>1. ASSUME NEW c \in Rows, NEW a \in Actors, NEW still \in SUBSET Problems,
               Check!SubmitCheck(c, a, still)
        PROVE  \E r \in Problems : ~e.confirmed /\ x6[r].stands /\ x6[r].by # x5'[e.check].by
    <3>1. e = [check |-> c, confirmed |-> FALSE] /\ ~Check!Withheld(a) /\ x5'[c].by = a
        BY <1>0, <2>1 DEF Check!SubmitCheck
    <3> QED
        BY <3>1 DEF Check!Withheld, Check!Standing
  <2>2. ASSUME NEW snap \in Check!Times, Check!ConfirmPass(snap)
        PROVE  /\ e.confirmed
               /\ [check |-> e.check, confirmed |-> FALSE] \in x7
               /\ x5'[e.check].feed = "confirmed"
    <3>1. PICK c \in Rows : /\ e = [check |-> c, confirmed |-> TRUE]
                            /\ c \in Check!PendingChecks /\ Check!Signal(c) /\ x5[c].base
        BY <2>2 DEF Check!ConfirmPass, Check!PendingChecks
    <3>2. x5'[c].feed = Check!FeedAfter(c, snap)
        BY <2>2, PassedChecks DEF ChecksInv
    <3> QED
        BY <3>1, <3>2 DEF Check!FeedAfter, ChecksInv
  <2> QED
      BY <2>1, <2>2 DEF Check!ChecksNext, Check!Tick, Check!RentalStarts, Check!VehicleMoves,
         Check!RentalEnds, Check!FileCondition, Check!ConditionClears, Check!SubmitWithoutRide
<1> QED
    BY <1>2, <1>5, <1>6

-----------------------------------------------------------------------------
(* Watches.  x1 is watch, x2 asked, x3 confirming, x4 scan and x5 told. *)

\* What a cycle has read of a watch is of the past, and if no text has come between, is
\* no news after the last one.
ReadRows ==
    \A k \in Actors, w \in Subscriptions :
        /\ x4[k].rows[w].texts <= x1[w].texts
        /\ (x4[k].rows[w].texts = x1[w].texts /\ x1[w].texts \in 1 .. MaxTexts - 1) =>
                ~Watch!Changed(x5[w], x4[k].rows[w].base)

\* A cycle under way has a feed.
Fetched == \A k \in Actors : x4[k].stage = "idle" \/ x4[k].seen \in Watch!Observed

WatchInv == Watch!WatchTypeOK /\ ReadRows /\ Fetched /\ Watch!BaselineIsTold

LEMMA BlankWatch == Watch!NoWatch \in Watch!WatchRow /\ Watch!NoScan \in Watch!Scan
BY BoundsAssumption DEF Watch!NoWatch, Watch!WatchRow, Watch!NoScan, Watch!Scan, Watch!Baseline

LEMMA InitWatchInv == Watch!WatchInit => WatchInv
<1> SUFFICES ASSUME Watch!WatchInit PROVE WatchInv
    OBVIOUS
<1>1. Watch!WatchTypeOK
    BY BlankWatch DEF Watch!WatchInit, Watch!WatchTypeOK, Watch!Baseline
<1>2. \A w \in Subscriptions : x1[w].texts = 0 /\ \A k \in Actors : x4[k].rows[w].texts = 0
    BY DEF Watch!WatchInit, Watch!NoScan, Watch!NoWatch
<1>3. Fetched
    BY DEF Watch!WatchInit, Watch!NoScan, Fetched
<1> QED
    BY <1>1, <1>2, <1>3 DEF WatchInv, ReadRows, Watch!BaselineIsTold

\* Ending a watch, or a watch's being due, changes nothing else of it.
OnlyEnds(w) ==
    /\ x1'[w].base = x1[w].base /\ x1'[w].texts = x1[w].texts
    /\ x1[w].ended \in Watch!Reasons => x1'[w] = x1[w]

LEMMA EndedTyped ==
    ASSUME Watch!WatchTypeOK, NEW w \in Subscriptions, NEW reason \in Watch!Reasons,
           x1' = Watch!Ended(w, reason)
    PROVE  x1' \in [Subscriptions -> Watch!WatchRow] /\ \A v \in Subscriptions : OnlyEnds(v)
BY DEF Watch!WatchTypeOK, Watch!Ended, Watch!WatchRow, OnlyEnds, Watch!Unended, Watch!Reasons

\* A cycle that is done with a watch has read no more than it had.
LEMMA ScannedTyped ==
    ASSUME Watch!WatchTypeOK, NEW k \in Actors, NEW w \in Subscriptions
    PROVE  /\ Watch!Scanned(k, w) \in Watch!Scan
           /\ Watch!Scanned(k, w).stage = "idle" \/ Watch!Scanned(k, w).seen = x4[k].seen
           /\ \A v \in Subscriptions : Watch!Scanned(k, w).rows[v] \in {x4[k].rows[v], Watch!NoWatch}
<1>1. x4[k] \in Watch!Scan
    BY DEF Watch!WatchTypeOK
<1>2. CASE x4[k].todo = {w}
    BY <1>2, BlankWatch DEF Watch!Scanned, Watch!NoScan
<1>3. CASE x4[k].todo # {w}
  <2> DEFINE rows == [x4[k].rows EXCEPT ![w] = Watch!NoWatch]
             scan == [[[[x4[k] EXCEPT !.stage = "reading"] EXCEPT !.todo = x4[k].todo \ {w}]
                        EXCEPT !.at = {}] EXCEPT !.rows = rows]
  <2>1. rows \in [Subscriptions -> Watch!WatchRow]
      BY <1>1, BlankWatch DEF Watch!Scan
  <2>2. Watch!Scanned(k, w) = scan
      BY <1>1, <1>3 DEF Watch!Scanned, Watch!Scan
  <2>3. scan \in Watch!Scan /\ scan.rows = rows /\ scan.seen = x4[k].seen
      BY <1>1, <2>1 DEF Watch!Scan
  <2>4. \A v \in Subscriptions : rows[v] \in {x4[k].rows[v], Watch!NoWatch}
      BY <1>1 DEF Watch!Scan
  <2> HIDE DEF rows, scan
  <2> QED
      BY <2>2, <2>3, <2>4
<1> QED
    BY <1>2, <1>3

\* A step that sends nothing and rebases nothing keeps what was said.
LEMMA WatchCarries ==
    ASSUME WatchInv, x5' = x5, x2' \subseteq Subscriptions, x3' \subseteq Subscriptions,
           x1' \in [Subscriptions -> Watch!WatchRow], x4' \in [Actors -> Watch!Scan],
           \A w \in Subscriptions : OnlyEnds(w), Fetched',
           \A k \in Actors, w \in Subscriptions :
                \/ x4'[k].rows[w] \in {x4[k].rows[w], Watch!NoWatch}
                \/ x4'[k].rows[w].base = x1[w].base /\ x4'[k].rows[w].texts = x1[w].texts
    PROVE  WatchInv'
<1>1. Watch!WatchTypeOK'
    BY DEF WatchInv, Watch!WatchTypeOK
<1>2. Watch!BaselineIsTold'
    BY DEF WatchInv, Watch!BaselineIsTold, OnlyEnds, Watch!Changed
<1>3. \A w \in Subscriptions : x1[w].texts \in Nat
    BY BoundsAssumption DEF WatchInv, Watch!WatchTypeOK, Watch!WatchRow
<1>4. ReadRows'
  <2> SUFFICES ASSUME NEW k \in Actors, NEW w \in Subscriptions
               PROVE  /\ x4'[k].rows[w].texts <= x1'[w].texts
                      /\ (x4'[k].rows[w].texts = x1'[w].texts /\ x1'[w].texts \in 1 .. MaxTexts - 1) =>
                            ~Watch!Changed(x5'[w], x4'[k].rows[w].base)
      BY DEF ReadRows, Watch!Changed
  <2>1. x1'[w].texts = x1[w].texts
      BY DEF OnlyEnds
  <2>2. CASE x4'[k].rows[w] = x4[k].rows[w]
      BY <2>1, <2>2 DEF WatchInv, ReadRows
  <2>3. CASE x4'[k].rows[w] = Watch!NoWatch
      BY <1>3, <2>1, <2>3 DEF Watch!NoWatch
  <2>4. CASE x4'[k].rows[w].base = x1[w].base /\ x4'[k].rows[w].texts = x1[w].texts
      BY <1>3, <2>1, <2>4 DEF WatchInv, Watch!BaselineIsTold
  <2> QED
      BY <2>2, <2>3, <2>4
<1> QED
    BY <1>1, <1>2, <1>4 DEF WatchInv

\* The next baseline is no news after the last text, if what it was judged against was
\* none and had no news itself.
LEMMA NoNews ==
    ASSUME NEW told, NEW prev, NEW now, ~Watch!Changed(told, prev), ~Watch!Changed(prev, now)
    PROVE  ~Watch!Changed(told, Watch!NewBaseline(prev, now))
BY DEF Watch!Changed, Watch!NewBaseline

LEMMA JudgeStep ==
    ASSUME WatchInv, NEW k \in Actors, NEW w \in Subscriptions, NEW serviced \in BOOLEAN,
           Watch!Judge(k, w, serviced)
    PROVE  /\ WatchInv'
           /\ \A v \in Subscriptions \ {w} : x1'[v] = x1[v]
           /\ x1[w].ended \notin Watch!Reasons
           /\ x1'[w].texts >= x1[w].texts
<1> DEFINE row  == x4[k].rows[w]
           base == Watch!NewBaseline(row.base, x4[k].seen)
           text == Watch!Texting(k, w, serviced)
<1>1. /\ x1 \in [Subscriptions -> Watch!WatchRow] /\ x4 \in [Actors -> Watch!Scan]
      /\ x5 \in [Subscriptions -> Watch!Baseline]
      /\ x4[k] \in Watch!Scan /\ row \in Watch!WatchRow /\ x4[k].seen \in Watch!Baseline
      /\ row.texts \in Nat /\ row.texts <= MaxTexts /\ row.base \in Watch!Baseline
    BY BoundsAssumption DEF WatchInv, Watch!WatchTypeOK, Watch!Scan, Watch!WatchRow
<1>2. /\ x1[w].ended \in {"live", "due"} /\ x1[w].texts = row.texts
    BY DEF Watch!Judge, Watch!ClaimHolds, Watch!Unended
<1>3. base \in Watch!Baseline
  <2>1. x4[k].seen \in Watch!Observed
      BY DEF WatchInv, Fetched, Watch!Judge
  <2>2. row.base.spot \in Rows \cup {Watch!NoSpot}
      BY <1>1 DEF Watch!Baseline, Watch!Observed, Watch!NotSeen
  <2> QED
      BY <2>1, <2>2 DEF Watch!NewBaseline, Watch!Baseline, Watch!Observed
<1>4. /\ \A v \in Subscriptions \ {w} : x1'[v] = x1[v]
      /\ x1'[w].base = base /\ x1'[w].ended = x1[w].ended
      /\ x1'[w].texts = row.texts + (IF text THEN 1 ELSE 0)
      /\ x1' \in [Subscriptions -> Watch!WatchRow]
  <2> DEFINE texts == row.texts + (IF text THEN 1 ELSE 0)
             new   == [[x1[w] EXCEPT !.base = base] EXCEPT !.texts = texts]
  <2>1. texts \in 0 .. MaxTexts
      BY <1>1, BoundsAssumption DEF Watch!Texting
  <2>2. x1' = [x1 EXCEPT ![w] = new]
      BY <1>1 DEF Watch!Judge
  <2> HIDE DEF base, texts
  <2>3. new \in Watch!WatchRow /\ new.base = base /\ new.texts = texts /\ new.ended = x1[w].ended
      BY <1>1, <1>3, <2>1 DEF Watch!WatchRow
  <2> HIDE DEF new
  <2> QED
      BY <1>1, <2>2, <2>3 DEF texts
<1>5. /\ x4' \in [Actors -> Watch!Scan]
      /\ \A j \in Actors, v \in Subscriptions : x4'[j].rows[v] \in {x4[j].rows[v], Watch!NoWatch}
      /\ Fetched'
  <2>0. x4[k].stage # "idle"
      BY DEF Watch!Judge
  <2>1. CASE text
    <3> DEFINE scan == [[x4[k] EXCEPT !.stage = "sending"] EXCEPT !.at = {w}]
    <3>1. scan \in Watch!Scan /\ scan.rows = x4[k].rows /\ scan.seen = x4[k].seen
        BY <1>1 DEF Watch!Scan
    <3>2. x4' = [x4 EXCEPT ![k] = scan]
        BY <2>1 DEF Watch!Judge
    <3> HIDE DEF scan
    <3> QED
        BY <1>1, <2>0, <3>1, <3>2 DEF WatchInv, Fetched
  <2>2. CASE ~text
    <3>1. x4' = [x4 EXCEPT ![k] = Watch!Scanned(k, w)]
        BY <2>2 DEF Watch!Judge
    <3> QED
        BY <1>1, <2>0, <3>1, ScannedTyped DEF WatchInv, Fetched
  <2> QED
      BY <2>1, <2>2
<1>6. x5' = IF text THEN [x5 EXCEPT ![w] = base] ELSE x5
    BY DEF Watch!Judge
<1>7. Watch!WatchTypeOK'
    BY SMTT(30), <1>1, <1>3, <1>4, <1>5, <1>6 DEF Watch!Judge, WatchInv, Watch!WatchTypeOK
<1>8. Watch!BaselineIsTold'
  <2> SUFFICES ASSUME NEW v \in Subscriptions, x1'[v].texts \in 1 .. MaxTexts - 1
               PROVE  ~Watch!Changed(x5'[v], x1'[v].base)
      BY DEF Watch!BaselineIsTold, Watch!Changed
  <2>1. CASE v # w
      BY <1>1, <1>4, <1>6, <2>1 DEF WatchInv, Watch!BaselineIsTold
  <2>2. CASE v = w /\ text
      BY <1>1, <1>4, <1>6, <2>2 DEF Watch!Changed
  <2>3. CASE v = w /\ ~text
    <3>1. row.texts \in 1 .. MaxTexts - 1
        BY <1>1, <1>4, <2>3
    <3>2. ~Watch!Changed(x5[w], row.base)
        BY <1>2, <3>1 DEF WatchInv, ReadRows
    <3>3. ~Watch!Changed(row.base, x4[k].seen)
        BY <1>1, <2>3, <3>1, BoundsAssumption DEF Watch!Texting, Watch!HasNews
    <3> QED
        BY <1>4, <1>6, <2>3, <3>2, <3>3, NoNews
  <2> QED
      BY <2>1, <2>2, <2>3
<1>9. ReadRows'
  <2> SUFFICES ASSUME NEW j \in Actors, NEW v \in Subscriptions
               PROVE  /\ x4'[j].rows[v].texts <= x1'[v].texts
                      /\ (x4'[j].rows[v].texts = x1'[v].texts /\ x1'[v].texts \in 1 .. MaxTexts - 1) =>
                            ~Watch!Changed(x5'[v], x4'[j].rows[v].base)
      BY DEF ReadRows, Watch!Changed
  <2>1. x1'[v].texts \in Nat /\ x1[v].texts \in Nat /\ x4[j].rows[v].texts \in Nat
      BY <1>1, <1>4, BoundsAssumption DEF Watch!WatchRow, Watch!Scan
  <2>2. CASE x4'[j].rows[v] = Watch!NoWatch
      BY <2>1, <2>2 DEF Watch!NoWatch
  <2>3. CASE x4'[j].rows[v] = x4[j].rows[v] /\ v # w
      BY <1>1, <1>4, <1>6, <2>3 DEF WatchInv, ReadRows
  <2>4. CASE x4'[j].rows[v] = x4[j].rows[v] /\ v = w /\ text
    <3>1. x4[j].rows[v].texts <= x1[v].texts /\ x1'[v].texts = x1[v].texts + 1
        BY <1>2, <1>4, <2>4 DEF WatchInv, ReadRows
    <3> QED
        BY <2>1, <2>4, <3>1
  <2>5. CASE x4'[j].rows[v] = x4[j].rows[v] /\ v = w /\ ~text
      BY <1>1, <1>2, <1>4, <1>6, <2>5 DEF WatchInv, ReadRows
  <2> QED
      BY <1>5, <2>2, <2>3, <2>4, <2>5
<1> QED
    BY <1>1, <1>2, <1>4, <1>5, <1>7, <1>8, <1>9 DEF WatchInv, Watch!Reasons

\* Every other step only ends watches, or reads them.
LEMMA WatchQuietStep ==
    ASSUME WatchInv, Watch!WatchNext,
           ~ \E k \in Actors, w \in Subscriptions, serviced \in BOOLEAN : Watch!Judge(k, w, serviced)
    PROVE  WatchInv' /\ \A w \in Subscriptions : OnlyEnds(w)
<1>0. /\ x1 \in [Subscriptions -> Watch!WatchRow] /\ x4 \in [Actors -> Watch!Scan]
      /\ x2 \subseteq Subscriptions /\ x3 \subseteq Subscriptions
      /\ Watch!WatchTypeOK /\ Fetched
    BY DEF WatchInv, Watch!WatchTypeOK
<1>kept. ASSUME x1' = x1
         PROVE  x1' \in [Subscriptions -> Watch!WatchRow] /\ \A v \in Subscriptions : OnlyEnds(v)
    BY <1>0, <1>kept DEF OnlyEnds
<1>1. ASSUME NEW w \in Subscriptions, Watch!SubscribeCount(w)
      PROVE  WatchInv' /\ \A v \in Subscriptions : OnlyEnds(v)
    BY <1>0, <1>1, <1>kept, WatchCarries DEF Watch!SubscribeCount, Fetched
<1>2. ASSUME NEW w \in Subscriptions, Watch!SubscribeInsert(w) \/ Watch!WatchDue(w)
      PROVE  WatchInv' /\ \A v \in Subscriptions : OnlyEnds(v)
  <2>1. x1' \in [Subscriptions -> Watch!WatchRow] /\ \A v \in Subscriptions : OnlyEnds(v)
      BY <1>0, <1>2 DEF Watch!SubscribeInsert, Watch!WatchDue, Watch!WatchRow, OnlyEnds, Watch!Reasons
  <2>2. x2' = x2 /\ x3' \subseteq Subscriptions /\ x4' = x4 /\ x5' = x5
      BY <1>0, <1>2 DEF Watch!SubscribeInsert, Watch!WatchDue
  <2> QED
      BY <1>0, <2>1, <2>2, WatchCarries DEF Fetched
<1>3. ASSUME NEW w \in Subscriptions,
             Watch!Unsubscribe(w) \/ \E accepted \in BOOLEAN : Watch!Confirm(w, accepted)
      PROVE  WatchInv' /\ \A v \in Subscriptions : OnlyEnds(v)
  <2>1. x1' = x1 \/ \E reason \in Watch!Reasons : x1' = Watch!Ended(w, reason)
      BY <1>3 DEF Watch!Unsubscribe, Watch!Confirm, Watch!Reasons
  <2>2. x1' \in [Subscriptions -> Watch!WatchRow] /\ \A v \in Subscriptions : OnlyEnds(v)
    <3>1. CASE x1' = x1
        BY <1>kept, <3>1
    <3>2. ASSUME NEW reason \in Watch!Reasons, x1' = Watch!Ended(w, reason)
          PROVE  x1' \in [Subscriptions -> Watch!WatchRow] /\ \A v \in Subscriptions : OnlyEnds(v)
        BY <1>0, <3>2, EndedTyped
    <3> QED
        BY <2>1, <3>1, <3>2
  <2>3. x2' = x2 /\ x3' \subseteq Subscriptions /\ x4' = x4 /\ x5' = x5
      BY <1>0, <1>3 DEF Watch!Unsubscribe, Watch!Confirm
  <2> QED
      BY <1>0, <2>2, <2>3, WatchCarries DEF Fetched
<1>4. ASSUME NEW k \in Actors, NEW now \in Watch!Observed, Watch!WatchFetch(k, now)
      PROVE  WatchInv' /\ \A v \in Subscriptions : OnlyEnds(v)
  <2> DEFINE scan == [[Watch!NoScan EXCEPT !.stage = "fetched"] EXCEPT !.seen = now]
  <2>1. /\ scan \in Watch!Scan /\ scan.seen = now
        /\ \A v \in Subscriptions : scan.rows[v] = Watch!NoWatch
      BY BlankWatch DEF Watch!Scan, Watch!NoScan, Watch!Baseline
  <2>2. x4' = [x4 EXCEPT ![k] = scan] /\ UNCHANGED <<x1, x2, x3, x5>>
      BY <1>4 DEF Watch!WatchFetch
  <2> HIDE DEF scan
  <2>3. Fetched' /\ x4' \in [Actors -> Watch!Scan]
      BY <1>0, <2>1, <2>2 DEF Fetched
  <2>4. \A j \in Actors, v \in Subscriptions : x4'[j].rows[v] \in {x4[j].rows[v], Watch!NoWatch}
      BY <1>0, <2>1, <2>2
  <2> QED
      BY <1>0, <1>kept, <2>2, <2>3, <2>4, WatchCarries
<1>5. ASSUME NEW k \in Actors, Watch!ReadWatches(k)
      PROVE  WatchInv' /\ \A v \in Subscriptions : OnlyEnds(v)
  <2> DEFINE live == {w \in Subscriptions : Watch!ExpireDue[w].ended \in {"live", "due"}}
             scan == [[[x4[k] EXCEPT !.stage = "reading"] EXCEPT !.rows = x1'] EXCEPT !.todo = live]
  <2>1. x1' = Watch!ExpireDue /\ UNCHANGED <<x2, x3, x5>>
      BY <1>5 DEF Watch!ReadWatches
  <2>2. /\ x1' \in [Subscriptions -> Watch!WatchRow]
        /\ \A v \in Subscriptions : /\ x1'[v].base = x1[v].base
                                    /\ x1'[v].texts = x1[v].texts
                                    /\ x1[v].ended # "due" => x1'[v] = x1[v]
      BY <1>0, <2>1 DEF Watch!ExpireDue, Watch!WatchRow, Watch!Reasons
  <2>3. \A v \in Subscriptions : OnlyEnds(v)
      BY <2>2 DEF OnlyEnds, Watch!Reasons
  <2>4. live \subseteq Subscriptions /\ x4[k].stage # "idle"
      BY <1>5 DEF Watch!ReadWatches
  <2>5. x4' = [x4 EXCEPT ![k] = IF live = {} THEN Watch!NoScan ELSE scan]
      BY <1>5, <2>1 DEF Watch!ReadWatches
  <2> HIDE DEF live
  <2>6. scan \in Watch!Scan /\ scan.rows = x1' /\ scan.seen = x4[k].seen
      BY ZenonT(60), <1>0, <2>2, <2>4 DEF Watch!Scan
  <2> HIDE DEF scan
  <2>7. Fetched' /\ x4' \in [Actors -> Watch!Scan]
      BY <1>0, <2>4, <2>5, <2>6, BlankWatch DEF Fetched, Watch!NoScan
  <2>8. \A j \in Actors, v \in Subscriptions :
            \/ x4'[j].rows[v] \in {x4[j].rows[v], Watch!NoWatch}
            \/ x4'[j].rows[v].base = x1[v].base /\ x4'[j].rows[v].texts = x1[v].texts
    <3>1. \A v \in Subscriptions : Watch!NoScan.rows[v] = Watch!NoWatch
        BY DEF Watch!NoScan
    <3>2. x4'[k] = Watch!NoScan \/ x4'[k] = scan
        BY <1>0, <2>5
    <3>3. \A j \in Actors \ {k} : x4'[j] = x4[j]
        BY <1>0, <2>5
    <3>4. \A v \in Subscriptions : x4'[k].rows[v] \in {x1'[v], Watch!NoWatch}
        BY <2>6, <3>1, <3>2
    <3> QED
        BY <2>2, <3>3, <3>4
  <2> QED
      BY <1>0, <2>1, <2>2, <2>3, <2>7, <2>8, WatchCarries
<1>6. ASSUME NEW k \in Actors, NEW w \in Subscriptions,
             \/ Watch!WatchUnreachable(k, w) \/ Watch!JudgeLoses(k, w)
             \/ Watch!TextGone(k, w) \/ Watch!TextImpossible(k, w)
      PROVE  WatchInv' /\ \A v \in Subscriptions : OnlyEnds(v)
  <2>1. x1' = x1 \/ \E reason \in Watch!Reasons : x1' = Watch!Ended(w, reason)
      BY <1>6 DEF Watch!WatchUnreachable, Watch!JudgeLoses, Watch!TextGone, Watch!TextImpossible,
         Watch!Reasons
  <2>2. x1' \in [Subscriptions -> Watch!WatchRow] /\ \A v \in Subscriptions : OnlyEnds(v)
    <3>1. CASE x1' = x1
        BY <1>kept, <3>1
    <3>2. ASSUME NEW reason \in Watch!Reasons, x1' = Watch!Ended(w, reason)
          PROVE  x1' \in [Subscriptions -> Watch!WatchRow] /\ \A v \in Subscriptions : OnlyEnds(v)
        BY <1>0, <3>2, EndedTyped
    <3> QED
        BY <2>1, <3>1, <3>2
  <2>3. /\ x4[k].stage # "idle" /\ x4' = [x4 EXCEPT ![k] = Watch!Scanned(k, w)]
        /\ UNCHANGED <<x2, x3, x5>>
      BY <1>6 DEF Watch!WatchUnreachable, Watch!JudgeLoses, Watch!TextGone, Watch!TextImpossible
  <2>4. Fetched' /\ x4' \in [Actors -> Watch!Scan]
      BY <1>0, <2>3, ScannedTyped DEF Fetched
  <2>5. \A j \in Actors, v \in Subscriptions : x4'[j].rows[v] \in {x4[j].rows[v], Watch!NoWatch}
      BY <1>0, <2>3, ScannedTyped
  <2> QED
      BY <1>0, <2>2, <2>3, <2>4, <2>5, WatchCarries
<1>7. ASSUME NEW k \in Actors, Watch!ScanDies(k)
      PROVE  WatchInv' /\ \A v \in Subscriptions : OnlyEnds(v)
  <2>1. x4' = [x4 EXCEPT ![k] = Watch!NoScan] /\ UNCHANGED <<x1, x2, x3, x5>>
      BY <1>7 DEF Watch!ScanDies
  <2>2. Fetched' /\ x4' \in [Actors -> Watch!Scan]
      BY <1>0, <2>1, BlankWatch DEF Fetched, Watch!NoScan
  <2>3. \A j \in Actors, v \in Subscriptions : x4'[j].rows[v] \in {x4[j].rows[v], Watch!NoWatch}
      BY <1>0, <2>1 DEF Watch!NoScan
  <2> QED
      BY <1>0, <1>kept, <2>1, <2>2, <2>3, WatchCarries
<1> QED
    BY <1>1, <1>2, <1>3, <1>4, <1>5, <1>6, <1>7 DEF Watch!WatchNext

LEMMA WatchStep ==
    ASSUME WatchInv, Watch!WatchNext
    PROVE  WatchInv' /\ Watch!EndedWatchIsSilent
<1>0. \A w \in Subscriptions : x1[w].texts \in Nat
    BY BoundsAssumption DEF WatchInv, Watch!WatchTypeOK, Watch!WatchRow
<1>1. CASE \E k \in Actors, w \in Subscriptions, serviced \in BOOLEAN : Watch!Judge(k, w, serviced)
    BY <1>0, <1>1, JudgeStep DEF Watch!EndedWatchIsSilent
<1>2. CASE ~ \E k \in Actors, w \in Subscriptions, serviced \in BOOLEAN : Watch!Judge(k, w, serviced)
    BY <1>0, <1>2, WatchQuietStep DEF Watch!EndedWatchIsSilent, OnlyEnds
<1> QED
    BY <1>1, <1>2

-----------------------------------------------------------------------------
(* The parts side by side: a behaviour runs one of them. *)

RidersInv ==
    /\ part = "dibs"    => DibsInv
    /\ part = "reports" => ReportsInv
    /\ part = "checks"  => ChecksInv
    /\ part = "watches" => WatchInv

LEMMA InitRidersInv == MCInit => RidersInv
BY InitDibsInv, InitReportsInv, InitChecksInv, InitWatchInv DEF MCInit, RidersInv

\* Invariants say nothing of a step that changes nothing.
LEMMA NoStep ==
    ASSUME RidersInv, UNCHANGED MCvars
    PROVE  RidersInv'
<1> USE DEF MCvars
<1>1. DibsInv => DibsInv'
    BY DEF DibsInv, Claimed, Reserved, Dibs!DibsTypeOK, Dibs!Made
<1>2. ReportsInv => ReportsInv'
    BY DEF ReportsInv, Fleet!ReportsTypeOK
<1>3. ChecksInv => ChecksInv'
    BY DEF ChecksInv, GivenUp, Check!ChecksTypeOK, Check!HeldReportHasCheck
<1>4. WatchInv => WatchInv'
    BY DEF WatchInv, ReadRows, Fetched, Watch!WatchTypeOK, Watch!BaselineIsTold, Watch!Changed
<1> QED
    BY <1>1, <1>2, <1>3, <1>4 DEF RidersInv

LEMMA NextRidersInv == RidersInv /\ [MCNext]_MCvars => RidersInv'
<1> SUFFICES ASSUME RidersInv, MCNext PROVE RidersInv'
    BY NoStep
<1>1. part' = part
    BY DEF MCNext
<1>2. CASE part = "dibs"
    BY <1>1, <1>2, DibsStep DEF MCNext, RidersInv
<1>3. CASE part = "reports"
    BY <1>1, <1>3, ReportsStep DEF MCNext, RidersInv
<1>4. CASE part = "checks"
    BY <1>1, <1>4, ChecksStep DEF MCNext, RidersInv
<1>5. CASE part = "watches"
    BY <1>1, <1>5, WatchStep DEF MCNext, RidersInv
<1> QED
    BY <1>1, <1>2, <1>3, <1>4, <1>5 DEF RidersInv

\* A claim's holder is texted once at most, through crashes, lost answers and overlapping
\* cycles, and never when the claim had ended or been called "mine" before a text was on
\* its way (dibs_watch._reserve), for any number of claims, scooters and cycles.
THEOREM TextedOnceOrNotAtAllHolds == MCSpec => TextedOnceOrNotAtAll
<1>1. MCInit => Alert!AlertInit
    BY DEF MCInit, Alert!AlertInit, Dibs!DibsInit, Dibs!AlertOf
<1>2. RidersInv /\ [MCNext]_MCvars =>
        [Alert!AlertNext]_(IF part = "dibs" THEN Dibs!AlertOf ELSE [c \in Rows |-> "open"])
  <2> SUFFICES ASSUME RidersInv, [MCNext]_MCvars
               PROVE  [Alert!AlertNext]_(IF part = "dibs" THEN Dibs!AlertOf ELSE [c \in Rows |-> "open"])
      OBVIOUS
  <2>1. part' = part
      BY DEF MCNext, MCvars
  <2>2. CASE part # "dibs"
      BY <2>1, <2>2
  <2>3. CASE part = "dibs" /\ UNCHANGED MCvars
      BY <2>1, <2>3 DEF MCvars, Dibs!AlertOf
  <2>4. CASE part = "dibs" /\ MCNext
      <3>1. DibsInv /\ Dibs!DibsNext
          BY <2>4 DEF MCNext, RidersInv
      <3> QED
          BY <2>1, <2>4, <3>1, DibsAlerts DEF Alert!AlertNext, Alert!Tell, Alert!Close
  <2> QED
      BY <2>2, <2>3, <2>4
<1> QED
    BY <1>1, <1>2, InitRidersInv, NextRidersInv, PTL DEF MCSpec, TextedOnceOrNotAtAll, Alert!AlertSpec

\* What is said about a scooter follows what the feed and the riders showed: a report is
\* cleared by a real change only and stands again from its new baseline, a check is given
\* up only by the feed's own clock, a certificate keeps its verdict, and a watch that is
\* over is silent (fleet_reports, condition_checks, api_dibs, admin_watch), for any number
\* of each.
THEOREM ReportsFollowTheFeedHolds == MCSpec => ReportsFollowTheFeed
<1>1. RidersInv /\ [MCNext]_MCvars =>
        [/\ part = "reports" => Fleet!OnlyARealChangeClears /\ Fleet!RebaselinedStands
         /\ part = "checks"  => Check!NotGivenUpEarly /\ Check!HeldThroughTheRide
         /\ part = "dibs"    => Dibs!CertificateStands
         /\ part = "watches" => Watch!EndedWatchIsSilent]_MCvars
    BY DibsCertificates, ReportsFollow, ChecksFollow, WatchStep DEF RidersInv, MCNext
<1> QED
    BY <1>1, InitRidersInv, NextRidersInv, PTL DEF MCSpec, ReportsFollowTheFeed

\* Two of the things that are not lost: a report that is held has a check that will let it
\* go, however many checks have handed it on, and the baseline of a watch that has texted
\* is no news after what it last said, whichever of the cycles in flight wrote it.
LEMMA HeldAndTold ==
    RidersInv => /\ part = "checks"  => Check!HeldReportHasCheck
                 /\ part = "watches" => Watch!BaselineIsTold
BY DEF RidersInv, ChecksInv, WatchInv
=============================================================================
