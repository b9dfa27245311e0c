---------------------------- MODULE SignInProofs ----------------------------
(***************************************************************************)
(* What codes, accounts and sessions promise for any number of codes,       *)
(* guesses, accounts, addresses, proofs, sessions, links and requests in    *)
(* flight; and that the three parts keep to their types side by side.       *)
(***************************************************************************)
EXTENDS MCSignIn, FiniteSetTheorems, SequenceTheorems, TLAPS

-----------------------------------------------------------------------------
(* Codes: what a code buys, how often it is tried, and whether its text goes out. *)

\* A row's counters: it is compared no more often than attempts were claimed on it, and
\* has bought something only if it is used.
Counters ==
    \A c \in Codes :
        /\ compared[c] <= code[c].attempts
        /\ compared[c] <= MaxCodeAttempts
        /\ spent[c] <= 1
        /\ ~code[c].used => spent[c] = 0

\* What the stage of a send says of its text and of its row.
Sends ==
    \A c \in Codes :
        /\ send[c] = "delivered" => c \in delivered
        /\ send[c] \in {"idle", "begun", "sending", "refused"} => c \notin delivered
        /\ c \in Rows <=> send[c] \notin {"idle", "begun"}

\* A live code of a phone number whose send has been settled.
Stands(c) == c \in Rows /\ code[c].dest \in Phones /\ ~code[c].used /\ send[c] = "settled"

\* A number has one such code at most, and its text went out.
SettledRows ==
    lost = 0 =>
        /\ \A c \in Codes : Stands(c) => c \in delivered
        /\ \A c, x \in Codes : (Stands(c) /\ Stands(x) /\ code[c].dest = code[x].dest) => c = x

IInv == TypeOK /\ Counters /\ Sends /\ SettledRows

-----------------------------------------------------------------------------
LEMMA InitIInv == Init => IInv
<1> SUFFICES ASSUME Init PROVE IInv
    OBVIOUS
<1>1. TypeOK
    BY BoundsAssumption, EmptySeq
       DEF Init, TypeOK, CodeRow, BlankCode, GuessJob, BlankGuess, Stage
<1>2. Rows = {}
    BY DEF Init, Rows
<1>3. Counters
    BY BoundsAssumption DEF Init, Counters, BlankCode
<1>4. Sends
    BY <1>2 DEF Init, Sends
<1>5. SettledRows
    BY <1>2 DEF SettledRows, Stands
<1> QED
    BY <1>1, <1>3, <1>4, <1>5 DEF IInv

\* Committing a row adds it to Rows; nothing else changes them.
LEMMA RowsAppended ==
    ASSUME TypeOK, NEW c \in Codes, issued' = Append(issued, c)
    PROVE  Rows' = Rows \cup {c} /\ issued' \in Seq(Codes) /\ Len(issued') = Len(issued) + 1
<1>1. issued \in Seq(Codes)
    BY DEF TypeOK
<1>2. Len(issued') = Len(issued) + 1 /\ issued' \in Seq(Codes)
    BY <1>1, AppendProperties
<1>3. DOMAIN issued = 1 .. Len(issued) /\ DOMAIN issued' = 1 .. Len(issued) + 1
    BY <1>1, <1>2
<1>4. /\ \A i \in 1 .. Len(issued) : issued'[i] = issued[i]
      /\ issued'[Len(issued) + 1] = c
    BY <1>1, AppendProperties
<1>5. Len(issued) \in Nat
    BY <1>1
<1>6. Rows' \subseteq Rows \cup {c}
    BY <1>3, <1>4, <1>5 DEF Rows
<1>7. Rows \cup {c} \subseteq Rows'
    BY <1>3, <1>4, <1>5 DEF Rows
<1> QED
    BY <1>2, <1>6, <1>7

LEMMA RowsAreCodes == TypeOK => Rows \subseteq Codes
BY DEF TypeOK, Rows

-----------------------------------------------------------------------------
LEMMA BurntType ==
    ASSUME TypeOK, NEW cs
    PROVE  /\ Burnt(cs) \in [Codes -> CodeRow]
           /\ \A c \in Codes : /\ Burnt(cs)[c].dest = code[c].dest
                               /\ Burnt(cs)[c].attempts = code[c].attempts
                               /\ Burnt(cs)[c].used <=> (code[c].used \/ c \in cs)
<1>1. \A c \in Codes : code[c] \in CodeRow
    BY DEF TypeOK
<1>2. \A c \in Codes : Burnt(cs)[c] \in CodeRow
    BY <1>1 DEF Burnt, CodeRow
<1>3. Burnt(cs) = [c \in Codes |-> Burnt(cs)[c]]
    BY DEF Burnt
<1> QED
    BY <1>1, <1>2, <1>3 DEF Burnt, CodeRow

\* Claiming an attempt on a row, and burning it as well.
LEMMA AttemptType ==
    ASSUME TypeOK, NEW r \in Codes
    PROVE  /\ Attempted(r) \in [Codes -> CodeRow]
           /\ AttemptedAndBurnt(r) \in [Codes -> CodeRow]
           /\ \A c \in Codes :
                /\ Attempted(r)[c].attempts = code[c].attempts + (IF c = r THEN 1 ELSE 0)
                /\ Attempted(r)[c].used = code[c].used
                /\ Attempted(r)[c].dest = code[c].dest
                /\ AttemptedAndBurnt(r)[c].attempts
                       = code[c].attempts + (IF c = r THEN 1 ELSE 0)
                /\ AttemptedAndBurnt(r)[c].used = (code[c].used \/ c = r)
                /\ AttemptedAndBurnt(r)[c].dest = code[c].dest
                /\ c # r => Attempted(r)[c] = code[c] /\ AttemptedAndBurnt(r)[c] = code[c]
<1>1. code \in [Codes -> CodeRow] /\ code[r] \in CodeRow
    BY DEF TypeOK
<1> DEFINE one == [code[r] EXCEPT !.attempts = @ + 1]
           two == [one EXCEPT !.used = TRUE]
<1>2. /\ one \in CodeRow /\ one.attempts = code[r].attempts + 1
      /\ one.used = code[r].used /\ one.dest = code[r].dest
    BY <1>1 DEF CodeRow
<1>3. ASSUME NEW o \in CodeRow
      PROVE  LET t == [o EXCEPT !.used = TRUE] IN
             t \in CodeRow /\ t.attempts = o.attempts /\ t.used = TRUE /\ t.dest = o.dest
    BY DEF CodeRow
<1>4. /\ two \in CodeRow /\ two.attempts = code[r].attempts + 1
      /\ two.used = TRUE /\ two.dest = code[r].dest
    <2> HIDE DEF one
    <2> QED
        BY <1>2, <1>3
<1>5. Attempted(r) = [code EXCEPT ![r] = one]
    BY DEF Attempted
<1>6. AttemptedAndBurnt(r) = [code EXCEPT ![r] = two]
    BY <1>1 DEF AttemptedAndBurnt
<1> HIDE DEF one, two
<1>7. \A c \in Codes : code[c] \in CodeRow
    BY <1>1
<1>8. \A c \in Codes : c # r => Attempted(r)[c] = code[c] /\ AttemptedAndBurnt(r)[c] = code[c]
    BY <1>1, <1>5, <1>6
<1>9. Attempted(r)[r] = one /\ AttemptedAndBurnt(r)[r] = two
    BY <1>1, <1>5, <1>6
<1>10. \A c \in Codes : code[c].attempts \in Nat /\ code[c].used \in BOOLEAN
    BY <1>7 DEF CodeRow
<1>11. Attempted(r) \in [Codes -> CodeRow] /\ AttemptedAndBurnt(r) \in [Codes -> CodeRow]
    BY <1>1, <1>2, <1>4, <1>5, <1>6
<1> SUFFICES ASSUME NEW c \in Codes
    PROVE  /\ Attempted(r)[c].attempts = code[c].attempts + (IF c = r THEN 1 ELSE 0)
           /\ Attempted(r)[c].used = code[c].used
           /\ Attempted(r)[c].dest = code[c].dest
           /\ AttemptedAndBurnt(r)[c].attempts = code[c].attempts + (IF c = r THEN 1 ELSE 0)
           /\ AttemptedAndBurnt(r)[c].used = (code[c].used \/ c = r)
           /\ AttemptedAndBurnt(r)[c].dest = code[c].dest
    BY <1>8, <1>11
<1>12. CASE c = r
    BY <1>2, <1>4, <1>9, <1>12
<1>13. CASE c # r
    BY <1>8, <1>10, <1>13
<1> QED
    BY <1>12, <1>13

LEMMA CounterType ==
    ASSUME NEW f \in [Codes -> Nat], NEW r
    PROVE  [f EXCEPT ![r] = @ + 1] \in [Codes -> Nat]
<1>1. CASE r \in Codes
    BY <1>1
<1>2. CASE r \notin Codes
    BY <1>2
<1> QED
    BY <1>1, <1>2

LEMMA NextType == TypeOK /\ [Next]_vars => TypeOK'
<1> SUFFICES ASSUME TypeOK, [Next]_vars PROVE TypeOK'
    OBVIOUS
<1> USE DEF TypeOK
<1>1. CASE UNCHANGED vars
    BY <1>1 DEF vars
<1>2. ASSUME NEW c \in Codes, NEW d \in Recipients, SendBegin(c, d) PROVE TypeOK'
    <2> DEFINE n == Cardinality({x \in Codes : send[x] # "idle"})
    <2>1. n \in Nat
        BY BoundsAssumption, FS_Subset, FS_CardinalityType
    <2> HIDE DEF n
    <2>2. code' = [code EXCEPT ![c] = [[@ EXCEPT !.dest = d] EXCEPT !.created = n]]
        BY <1>2 DEF SendBegin, n
    <2>3. code' \in [Codes -> CodeRow]
        BY <2>1, <2>2, BoundsAssumption DEF CodeRow
    <2>4. send' \in [Codes -> Stage]
        BY <1>2 DEF SendBegin, Stage
    <2> QED
        BY <1>2, <2>3, <2>4 DEF SendBegin
<1>3. ASSUME NEW c \in Codes, IssueCode(c) PROVE TypeOK'
    <2>1. issued' \in Seq(Codes) /\ Len(issued') = Len(issued) + 1
        BY <1>3, RowsAppended DEF IssueCode
    <2>2. expired' \in 0 .. Len(issued')
        BY <1>3, <2>1 DEF IssueCode
    <2>3. code' \in [Codes -> CodeRow]
        BY <1>3, BurntType DEF IssueCode
    <2>4. send' \in [Codes -> Stage]
        BY <1>3 DEF IssueCode, Stage
    <2> QED
        BY <1>3, <2>1, <2>2, <2>3, <2>4 DEF IssueCode
<1>4. ASSUME NEW c \in Codes, SendAccepted(c) PROVE TypeOK'
    BY <1>4 DEF SendAccepted, AfterSend, Stage
<1>5. ASSUME NEW c \in Codes, SendRefused(c) PROVE TypeOK'
    BY <1>5 DEF SendRefused, AfterSend, Stage
<1>6. ASSUME NEW c \in Codes, SettleIssuedCode(c) PROVE TypeOK'
    <2>1. code' \in [Codes -> CodeRow]
        BY <1>6, BurntType DEF SettleIssuedCode
    <2>2. send' \in [Codes -> Stage]
        BY <1>6 DEF SettleIssuedCode, Stage
    <2> QED
        BY <1>6, <2>1, <2>2 DEF SettleIssuedCode
<1>7. ASSUME NEW c \in Codes, SettlementLost(c) PROVE TypeOK'
    BY <1>7, BoundsAssumption DEF SettlementLost, Stage
<1>8. CASE CodeExpires
    BY <1>8 DEF CodeExpires
<1>9. ASSUME NEW g \in Guesses, NEW d \in Recipients,
             NEW door \in {"email", "sms", "profile"},
             NEW typed \in Codes \cup {Wrong}, GuessBegin(g, d, door, typed)
      PROVE  TypeOK'
    BY <1>9 DEF GuessBegin, GuessJob
<1>10. \A g \in Guesses : Finished(g) =>
            /\ guess' \in [Guesses -> GuessJob]
            /\ \A h \in Guesses : guess'[h].stage = "read" => guess'[h].row \in Codes
    BY DEF Finished, BlankGuess, GuessJob
<1>11. ASSUME NEW g \in Guesses, GuessTooLate(g) \/ GuessRolledBack(g) PROVE TypeOK'
    BY <1>10, <1>11 DEF GuessTooLate, GuessRolledBack
<1>12. ASSUME NEW g \in Guesses, guess[g].row \in Codes, GuessExhausts(g) PROVE TypeOK'
    <2>1. code' \in [Codes -> CodeRow]
        BY <1>12, AttemptType DEF GuessExhausts
    <2> QED
        BY <1>10, <1>12, <2>1 DEF GuessExhausts
<1>13. ASSUME NEW g \in Guesses, guess[g].row \in Codes, Compares(g),
              GuessWrong(g) \/ GuessRight(g) \/ GuessContested(g)
       PROVE  TypeOK'
    <2>1. code' \in [Codes -> CodeRow]
        <3>1. \/ code' = Attempted(guess[g].row)
              \/ code' = AttemptedAndBurnt(guess[g].row)
            BY <1>13 DEF GuessWrong, GuessRight, GuessContested
        <3> QED
            BY <1>13, <3>1, AttemptType
    <2>2. compared' \in [Codes -> Nat]
        BY <1>13, CounterType DEF Compares
    <2>3. spent' \in [Codes -> Nat]
        <3>1. CASE GuessRight(g)
            <4>1. spent' = [spent EXCEPT ![guess[g].row] = @ + 1]
                BY <3>1 DEF GuessRight
            <4> QED
                BY <4>1, CounterType
        <3>2. CASE GuessWrong(g) \/ GuessContested(g)
            BY <3>2 DEF GuessWrong, GuessContested
        <3> QED
            BY <1>13, <3>1, <3>2
    <2> QED
        BY <1>10, <1>13, <2>1, <2>2, <2>3 DEF Compares
<1>14. \A g \in Guesses : GuessExhausts(g) => guess[g].row \in Codes
    BY DEF GuessExhausts
<1>15. \A g \in Guesses : GuessWrong(g) \/ GuessRight(g) \/ GuessContested(g) =>
            Compares(g) /\ guess[g].row \in Codes
    BY DEF GuessWrong, GuessRight, GuessContested, Compares
<1> HIDE DEF TypeOK
<1> QED
    BY <1>1, <1>2, <1>3, <1>4, <1>5, <1>6, <1>7, <1>8, <1>9, <1>11, <1>12, <1>13, <1>14,
       <1>15 DEF Next

-----------------------------------------------------------------------------
(* Counters.                                                                *)

LEMMA NextCounters == TypeOK /\ Counters /\ [Next]_vars => Counters'
<1> SUFFICES ASSUME TypeOK, Counters, [Next]_vars PROVE Counters'
    OBVIOUS
<1>1. \A c \in Codes : /\ code[c].attempts \in Nat /\ code[c].used \in BOOLEAN
                       /\ compared[c] \in Nat /\ spent[c] \in Nat
    BY DEF TypeOK, CodeRow
<1>2. ASSUME \A c \in Codes : /\ code'[c].attempts = code[c].attempts
                              /\ code[c].used => code'[c].used,
             UNCHANGED <<compared, spent>>
      PROVE  Counters'
    BY <1>1, <1>2 DEF Counters
<1>3. CASE UNCHANGED vars
    BY <1>2, <1>3 DEF vars
<1>4. ASSUME NEW c \in Codes, NEW d \in Recipients, SendBegin(c, d) PROVE Counters'
    <2>1. code \in [Codes -> CodeRow]
        BY DEF TypeOK
    <2>2. \A x \in Codes : /\ code'[x].attempts = code[x].attempts
                           /\ code'[x].used = code[x].used
        BY <1>4, <2>1 DEF SendBegin, CodeRow
    <2> QED
        BY <1>2, <1>4, <2>2 DEF SendBegin
<1>5. ASSUME NEW c \in Codes, IssueCode(c) \/ SettleIssuedCode(c) PROVE Counters'
    BY <1>1, <1>2, <1>5, BurntType DEF IssueCode, SettleIssuedCode
<1>6. ASSUME UNCHANGED <<code, compared, spent>> PROVE Counters'
    BY <1>2, <1>6
<1>7. ASSUME NEW g \in Guesses, guess[g].row \in Codes, GuessExhausts(g) PROVE Counters'
    <2>1. \A c \in Codes : /\ code'[c].attempts >= code[c].attempts
                           /\ code[c].used => code'[c].used
        BY <1>1, <1>7, AttemptType DEF GuessExhausts
    <2>2. \A c \in Codes : code'[c].attempts \in Nat
        BY NextType DEF TypeOK, CodeRow
    <2>3. UNCHANGED <<compared, spent>>
        BY <1>7 DEF GuessExhausts
    <2> QED
        BY <1>1, <2>1, <2>2, <2>3 DEF Counters
<1>8. ASSUME NEW g \in Guesses, guess[g].row \in Codes, Compares(g),
             GuessWrong(g) \/ GuessRight(g) \/ GuessContested(g)
      PROVE  Counters'
    <2> DEFINE r == guess[g].row
    <2>1. ~code[r].used /\ code[r].attempts + 1 <= MaxCodeAttempts
        BY <1>1, <1>8, BoundsAssumption DEF Compares, Claimable, Exhausted
    <2>2. \A c \in Codes : compared'[c] = compared[c] + (IF c = r THEN 1 ELSE 0)
        BY <1>8 DEF Compares, TypeOK
    <2>3. \A c \in Codes : code'[c].attempts = code[c].attempts + (IF c = r THEN 1 ELSE 0)
        BY <1>8, AttemptType DEF GuessWrong, GuessRight, GuessContested
    <2>4. \A c \in Codes : c # r => code'[c].used = code[c].used /\ spent'[c] = spent[c]
        <3>1. \A c \in Codes : c # r => code'[c].used = code[c].used
            <4>1. code' = Attempted(r) \/ code' = AttemptedAndBurnt(r)
                BY <1>8 DEF GuessWrong, GuessRight, GuessContested
            <4> QED
                BY <1>8, <4>1, AttemptType
        <3>2. \A c \in Codes : c # r => spent'[c] = spent[c]
            BY <1>8 DEF GuessWrong, GuessRight, GuessContested, TypeOK
        <3> QED
            BY <3>1, <3>2
    <2>5. spent[r] = 0
        BY <1>8, <2>1 DEF Counters
    <2>6. spent'[r] = 0 \/ (spent'[r] = 1 /\ code'[r].used)
        <3>1. CASE GuessRight(g)
            <4>1. spent'[r] = spent[r] + 1
                BY <1>8, <3>1 DEF GuessRight, TypeOK
            <4>2. code'[r].used
                BY <1>8, <3>1, AttemptType DEF GuessRight
            <4> QED
                BY <2>5, <4>1, <4>2
        <3>2. CASE GuessWrong(g) \/ GuessContested(g)
            BY <2>5, <3>2 DEF GuessWrong, GuessContested
        <3> QED
            BY <1>8, <3>1, <3>2
    <2>7. \A c \in Codes : c # r => /\ compared'[c] <= code'[c].attempts
                                    /\ compared'[c] <= MaxCodeAttempts
                                    /\ spent'[c] <= 1
                                    /\ ~code'[c].used => spent'[c] = 0
        BY <1>1, <2>2, <2>3, <2>4 DEF Counters
    <2>8. compared'[r] <= code'[r].attempts /\ compared'[r] <= MaxCodeAttempts
        BY <1>1, <1>8, <2>1, <2>2, <2>3, BoundsAssumption DEF Counters
    <2> QED
        BY <2>6, <2>7, <2>8 DEF Counters
<1> QED
    BY <1>3, <1>4, <1>5, <1>6, <1>7, <1>8
       DEF Next, TypeOK, SendAccepted, SendRefused, SettlementLost, CodeExpires, GuessBegin,
           GuessTooLate, GuessRolledBack, GuessExhausts, GuessWrong, GuessRight,
           GuessContested, Compares

-----------------------------------------------------------------------------
(* Sends and settled rows.                                                  *)

LEMMA NextSends == TypeOK /\ Sends /\ [Next]_vars => Sends'
<1> SUFFICES ASSUME TypeOK, Sends, [Next]_vars PROVE Sends'
    OBVIOUS
<1> USE DEF Sends
<1>1. send \in [Codes -> Stage]
    BY DEF TypeOK
<1>2. ASSUME UNCHANGED <<send, issued, delivered>> PROVE Sends'
    BY <1>2 DEF Rows
<1>3. ASSUME NEW c \in Codes, NEW d \in Recipients, SendBegin(c, d) PROVE Sends'
    BY <1>1, <1>3 DEF SendBegin, Rows
<1>4. ASSUME NEW c \in Codes, IssueCode(c) PROVE Sends'
    <2>1. Rows' = Rows \cup {c}
        BY <1>4, RowsAppended DEF IssueCode
    <2> QED
        BY <1>1, <1>4, <2>1 DEF IssueCode
<1>5. ASSUME NEW c \in Codes, SendAccepted(c) PROVE Sends'
    BY <1>1, <1>5 DEF SendAccepted, AfterSend, Rows
<1>6. ASSUME NEW c \in Codes, SendRefused(c) PROVE Sends'
    BY <1>1, <1>6 DEF SendRefused, AfterSend, Rows
<1>7. ASSUME NEW c \in Codes, SettleIssuedCode(c) PROVE Sends'
    BY <1>1, <1>7 DEF SettleIssuedCode, Rows
<1>8. ASSUME NEW c \in Codes, SettlementLost(c) PROVE Sends'
    BY <1>1, <1>8 DEF SettlementLost, Rows
<1> HIDE DEF Sends
<1> QED
    BY <1>2, <1>3, <1>4, <1>5, <1>6, <1>7, <1>8
       DEF Next, vars, CodeExpires, GuessBegin, GuessTooLate, GuessRolledBack,
           GuessExhausts, GuessWrong, GuessRight, GuessContested, Compares

\* Whatever happens to it, a row keeps its address once it has one, and stays used.
LEMMA RowsKept ==
    ASSUME TypeOK, [Next]_vars, NEW c \in Codes
    PROVE  /\ send[c] # "idle" => code'[c].dest = code[c].dest
           /\ code[c].used => code'[c].used
<1>1. code \in [Codes -> CodeRow] /\ code[c].used \in BOOLEAN
    BY DEF TypeOK, CodeRow
<1>2. ASSUME code' = code PROVE code'[c].dest = code[c].dest /\ (code[c].used => code'[c].used)
    BY <1>2
<1>3. ASSUME NEW x \in Codes, NEW d \in Recipients, SendBegin(x, d)
      PROVE  /\ send[c] # "idle" => code'[c].dest = code[c].dest
             /\ code[c].used => code'[c].used
    BY <1>1, <1>3 DEF SendBegin, CodeRow
<1>4. ASSUME NEW cs, code' = Burnt(cs)
      PROVE  code'[c].dest = code[c].dest /\ (code[c].used => code'[c].used)
    BY <1>4, BurntType, Zenon
<1>5. ASSUME NEW r \in Codes, code' = Attempted(r) \/ code' = AttemptedAndBurnt(r)
      PROVE  code'[c].dest = code[c].dest /\ (code[c].used => code'[c].used)
    <2>1. CASE code' = Attempted(r)
        BY <2>1, AttemptType, Zenon
    <2>2. CASE code' = AttemptedAndBurnt(r)
        BY <2>2, AttemptType, Zenon
    <2> QED
        BY <1>5, <2>1, <2>2
<1>6. \A x \in Codes : IssueCode(x) \/ SettleIssuedCode(x) => \E cs : code' = Burnt(cs)
    BY DEF IssueCode, SettleIssuedCode
<1>7. \A g \in Guesses :
        GuessExhausts(g) \/ GuessWrong(g) \/ GuessRight(g) \/ GuessContested(g) =>
            /\ guess[g].row \in Codes
            /\ \/ code' = Attempted(guess[g].row)
               \/ code' = AttemptedAndBurnt(guess[g].row)
    BY DEF GuessExhausts, GuessWrong, GuessRight, GuessContested, Compares, TypeOK
<1> QED
    BY <1>2, <1>3, <1>4, <1>5, <1>6, <1>7
       DEF Next, vars, SendAccepted, SendRefused, SettlementLost, CodeExpires, GuessBegin,
           GuessTooLate, GuessRolledBack

\* While no settlement has been lost, only its settlement makes a row stand.
LEMMA OnlySettledStands ==
    ASSUME TypeOK, [Next]_vars, lost' = 0, NEW c \in Codes, Stands(c)'
    PROVE  Stands(c) \/ SettleIssuedCode(c)
<1>1. send \in [Codes -> Stage] /\ lost \in Nat
    BY BoundsAssumption DEF TypeOK
<1>2. /\ c \in Rows' /\ send'[c] = "settled" /\ code'[c].dest \in Phones /\ ~code'[c].used
    BY DEF Stands
<1>3. ASSUME send[c] = "settled", c \in Rows PROVE Stands(c)
    BY <1>2, <1>3, RowsKept DEF Stands
<1>4. ASSUME UNCHANGED <<send, issued>> PROVE Stands(c)
    BY <1>2, <1>3, <1>4 DEF Rows
<1>5. ASSUME NEW x \in Codes, NEW d \in Recipients, SendBegin(x, d) PROVE Stands(c)
    BY <1>1, <1>2, <1>3, <1>5 DEF SendBegin, Rows
<1>6. ASSUME NEW x \in Codes, IssueCode(x) PROVE Stands(c)
    <2>1. Rows' = Rows \cup {x}
        BY <1>6, RowsAppended DEF IssueCode
    <2>2. c # x
        BY <1>1, <1>2, <1>6 DEF IssueCode
    <2> QED
        BY <1>1, <1>2, <1>3, <1>6, <2>1, <2>2 DEF IssueCode
<1>7. ASSUME NEW x \in Codes, SendAccepted(x) \/ SendRefused(x) PROVE Stands(c)
    <2>1. code' = code /\ Rows' = Rows
        BY <1>7 DEF SendAccepted, SendRefused, Rows
    <2>2. c # x
        BY <1>1, <1>2, <1>7, <2>1, AddressAssumption DEF SendAccepted, SendRefused, AfterSend
    <2> QED
        BY <1>1, <1>2, <1>3, <1>7, <2>1, <2>2 DEF SendAccepted, SendRefused
<1>8. ASSUME NEW x \in Codes, SettleIssuedCode(x) PROVE Stands(c) \/ SettleIssuedCode(c)
    <2>1. CASE c = x
        BY <1>8, <2>1
    <2>2. CASE c # x
        BY <1>1, <1>2, <1>3, <1>8, <2>2 DEF SettleIssuedCode, Rows
    <2> QED
        BY <2>1, <2>2
<1>9. \A x \in Codes : ~SettlementLost(x)
    BY <1>1 DEF SettlementLost
<1> QED
    BY <1>4, <1>5, <1>6, <1>7, <1>8, <1>9
       DEF Next, vars, CodeExpires, GuessBegin, GuessTooLate, GuessRolledBack,
           GuessExhausts, GuessWrong, GuessRight, GuessContested, Compares

\* A refused code burns itself; a delivered one burns whatever stands beside it.
LEMMA SettlementBurns ==
    ASSUME TypeOK, NEW c \in Codes, SettleIssuedCode(c), Stands(c)'
    PROVE  /\ send[c] = "delivered"
           /\ \A x \in Codes \ {c} :
                (x \in Rows /\ code[x].dest = code[c].dest) => code'[x].used
<1>1. \A x \in Codes : /\ code'[x].used <=> (code[x].used \/ x \in BurnedAtSettlement(c))
                       /\ code'[x].dest = code[x].dest
    BY BurntType DEF SettleIssuedCode
<1>2. ~code'[c].used
    BY DEF Stands
<1>3. send[c] = "delivered"
    BY <1>1, <1>2 DEF SettleIssuedCode, BurnedAtSettlement
<1>4. BurnedAtSettlement(c) = Live(code[c].dest) \ {c}
    BY <1>3 DEF BurnedAtSettlement
<1> QED
    BY <1>1, <1>3, <1>4 DEF Live, RowsOf

LEMMA NextSettledRows ==
    TypeOK /\ Sends /\ SettledRows /\ [Next]_vars => SettledRows'
<1> SUFFICES ASSUME TypeOK, Sends, SettledRows, [Next]_vars, lost' = 0
             PROVE  /\ \A c \in Codes : Stands(c)' => c \in delivered'
                    /\ \A c, x \in Codes :
                        (Stands(c)' /\ Stands(x)' /\ code'[c].dest = code'[x].dest) => c = x
    BY DEF SettledRows
<1>1. lost = 0
    <2>1. lost \in Nat
        BY BoundsAssumption DEF TypeOK
    <2>2. lost' = lost \/ \E c \in Codes : SettlementLost(c)
        BY DEF Next, vars, SendBegin, IssueCode, SendAccepted, SendRefused,
           SettleIssuedCode, CodeExpires, GuessBegin, GuessTooLate,
           GuessRolledBack, GuessExhausts, GuessWrong, GuessRight, GuessContested, Compares
    <2> QED
        BY <2>1, <2>2 DEF SettlementLost
<1>2. delivered \subseteq delivered'
    BY DEF Next, vars, SendBegin, IssueCode, SendAccepted, SendRefused, SettlementLost,
       SettleIssuedCode, CodeExpires, GuessBegin, GuessTooLate,
       GuessRolledBack, GuessExhausts, GuessWrong, GuessRight, GuessContested, Compares
<1>3. \A c \in Codes : Stands(c)' => Stands(c) \/ SettleIssuedCode(c)
    BY OnlySettledStands
<1>4. /\ \A c \in Codes : Stands(c) => c \in delivered
      /\ \A c, x \in Codes : (Stands(c) /\ Stands(x) /\ code[c].dest = code[x].dest) => c = x
    BY <1>1 DEF SettledRows
<1>5. \A c \in Codes : Stands(c)' => code'[c].dest = code[c].dest
    <2> SUFFICES ASSUME NEW c \in Codes, Stands(c)' PROVE send[c] # "idle"
        BY RowsKept
    <2> QED
        BY <1>3 DEF Stands, SettleIssuedCode
<1>6. ASSUME NEW c \in Codes, SettleIssuedCode(c), Stands(c)',
             NEW x \in Codes, Stands(x)', code'[c].dest = code'[x].dest
      PROVE  c = x
    <2>1. x \in Rows
        BY <1>3, <1>6 DEF Stands, SettleIssuedCode, Rows
    <2>2. ~code'[x].used
        BY <1>6 DEF Stands
    <2>3. code[x].dest = code[c].dest
        BY <1>5, <1>6
    <2> QED
        BY <1>6, <2>1, <2>2, <2>3, SettlementBurns
<1>7. \A c \in Codes : Stands(c)' => c \in delivered'
    BY <1>2, <1>3, <1>4, SettlementBurns DEF Sends
<1>8. ASSUME NEW c \in Codes, NEW x \in Codes, Stands(c)', Stands(x)',
             code'[c].dest = code'[x].dest
      PROVE  c = x
    <2>1. CASE SettleIssuedCode(c)
        BY <1>6, <1>8, <2>1
    <2>2. CASE SettleIssuedCode(x)
        BY <1>6, <1>8, <2>2
    <2>3. CASE Stands(c) /\ Stands(x)
        BY <1>4, <1>5, <1>8, <2>3
    <2> QED
        BY <1>3, <1>8, <2>1, <2>2, <2>3
<1> QED
    BY <1>7, <1>8

-----------------------------------------------------------------------------
(* The theorems.                                                            *)

LEMMA NextIInv == IInv /\ [Next]_vars => IInv'
BY NextType, NextCounters, NextSends, NextSettledRows DEF IInv

\* IInv is inductive, for any number of codes, addresses and guesses.
THEOREM LoginCodesInvariant == Spec => []IInv
<1>1. Init => IInv
    BY InitIInv
<1>2. IInv /\ [Next]_vars => IInv'
    BY NextIInv
<1> QED
    BY <1>1, <1>2, PTL DEF Spec

\* No schedule of guesses beats the attempts of a code, or spends it twice.
THEOREM GuessesBoundedHolds == Spec => []GuessesBounded
<1>1. IInv => GuessesBounded
    BY DEF IInv, Counters, GuessesBounded
<1> QED
    BY <1>1, LoginCodesInvariant, PTL

\* A live code of a quiet number stands, for its send cannot be anywhere else.
LEMMA QuietStands ==
    ASSUME IInv, NEW d \in Phones, Quiet(d), NEW c \in Live(d)
    PROVE  c \in Codes /\ Stands(c) /\ code[c].dest = d /\ lost = 0
<1>1. c \in Rows /\ c \in Codes /\ code[c].dest = d /\ ~code[c].used
    BY RowsAreCodes DEF IInv, Live, RowsOf
<1>2. lost = 0 /\ send[c] \in {"begun", "settled"}
    BY <1>1 DEF Quiet
<1>3. send[c] = "settled"
    BY <1>1, <1>2 DEF IInv, Sends
<1> QED
    BY <1>1, <1>2, <1>3 DEF Stands

\* Overlapping sends to a number leave it one live code at most, once they have settled,
\* and never a code that did not go out.
THEOREM OneLiveCodeHolds == Spec => []OneLiveCode
<1>1. IInv => OneLiveCode
    <2> SUFFICES ASSUME IInv, NEW d \in Phones, Quiet(d)
                 PROVE  Cardinality(Live(d)) <= 1 /\ Live(d) \subseteq delivered
        BY DEF OneLiveCode
    <2>1. Live(d) \subseteq delivered
        BY QuietStands DEF IInv, SettledRows
    <2>2. \A c, x \in Live(d) : c = x
        BY QuietStands DEF IInv, SettledRows
    <2>3. CASE Live(d) = {}
        BY <2>1, <2>3, FS_EmptySet
    <2>4. CASE Live(d) # {}
        <3>1. PICK c : c \in Live(d)
            BY <2>4
        <3>2. Live(d) = {c}
            BY <2>2, <3>1
        <3>3. Cardinality(Live(d)) = 1
            BY <3>2, FS_Singleton
        <3> QED
            BY <2>1, <3>3
    <2> QED
        BY <2>3, <2>4
<1> QED
    BY <1>1, LoginCodesInvariant, PTL

\* The rows a send burns, when it commits or settles, and what a guess burns.
LEMMA Burning ==
    ASSUME IInv, [Next]_vars, NEW c \in delivered,
           code[c].dest \in Phones, ~code[c].used, code'[c].used
    PROVE  \/ code'[c].attempts > code[c].attempts
           \/ \E x \in delivered \ {c} : send[x] = "delivered" /\ send'[x] = "settled"
<1>1. c \in Codes /\ code[c] \in CodeRow /\ code[c].attempts \in Nat /\ code[c].used \in BOOLEAN
    BY DEF IInv, TypeOK, CodeRow
<1>2. ~UNCHANGED code
    OBVIOUS
<1>3. ASSUME NEW x \in Codes, NEW d \in Recipients, SendBegin(x, d) PROVE FALSE
    BY <1>1, <1>3 DEF SendBegin, IInv, TypeOK, CodeRow
<1>4. ASSUME NEW x \in Codes, IssueCode(x) PROVE FALSE
    <2>1. c \in BurnedAtIssue(code[x].dest)
        BY <1>1, <1>4, BurntType DEF IssueCode, IInv
    <2> QED
        BY <2>1, AddressAssumption DEF BurnedAtIssue, Live, RowsOf
<1>5. ASSUME NEW x \in Codes, SettleIssuedCode(x)
      PROVE  \E y \in delivered \ {c} : send[y] = "delivered" /\ send'[y] = "settled"
    <2>1. c \in BurnedAtSettlement(x)
        BY <1>1, <1>5, BurntType DEF SettleIssuedCode, IInv
    <2>2. send[x] = "delivered"
        BY <1>1, <1>5, <2>1 DEF SettleIssuedCode, BurnedAtSettlement, IInv, Sends
    <2>3. x # c
        BY <2>1, <2>2 DEF BurnedAtSettlement
    <2>4. x \in delivered /\ send'[x] = "settled"
        BY <1>5, <2>2 DEF SettleIssuedCode, IInv, Sends, TypeOK
    <2> QED
        BY <2>2, <2>3, <2>4
<1>6. ASSUME NEW r \in Codes, code' = Attempted(r) \/ code' = AttemptedAndBurnt(r)
      PROVE  code'[c].attempts > code[c].attempts
    <2>1. CASE c = r
        <3>1. code'[c].attempts = code[c].attempts + 1
            BY <1>6, <2>1, AttemptType DEF IInv
        <3> QED
            BY <1>1, <3>1
    <2>2. CASE c # r
        BY <1>1, <1>6, <2>2, AttemptType DEF IInv
    <2> QED
        BY <2>1, <2>2
<1>7. \A g \in Guesses :
        GuessExhausts(g) \/ GuessWrong(g) \/ GuessRight(g) \/ GuessContested(g) =>
            /\ guess[g].row \in Codes
            /\ \/ code' = Attempted(guess[g].row)
               \/ code' = AttemptedAndBurnt(guess[g].row)
    BY DEF GuessExhausts, GuessWrong, GuessRight, GuessContested, Compares, IInv, TypeOK
<1> QED
    BY <1>2, <1>3, <1>4, <1>5, <1>6, <1>7
       DEF Next, vars, SendAccepted, SendRefused, SettlementLost, CodeExpires, GuessBegin,
           GuessTooLate, GuessRolledBack

\* A code in hand survives every resend that does not go out.
THEOREM OnlyADeliveryBurnsHolds == Spec => OnlyADeliveryBurns
<1>1. IInv /\ [Next]_vars =>
        [\A c \in delivered :
            (code[c].dest \in Phones /\ ~code[c].used /\ code'[c].used) =>
                \/ code'[c].attempts > code[c].attempts
                \/ \E x \in delivered \ {c} : send[x] = "delivered" /\ send'[x] = "settled"]_vars
    BY Burning
<1> QED
    BY <1>1, LoginCodesInvariant, PTL DEF Spec, OnlyADeliveryBurns

-----------------------------------------------------------------------------
(* Accounts: the addresses they are reached at and prove. *)

AccountsTypes ==
    /\ account \in [Accounts -> Account]
    /\ claim \in [Proofs -> Claim]

\* A proof between its reads and its writes: no other account has proved the number, and
\* no other proof of it is under way.
ProofsReading ==
    \A k \in Proofs : \A p : (claim[k].stage = "read" /\ claim[k].phone = p) =>
        /\ p \in Phones
        /\ \A a \in Accounts \ {claim[k].by} : ~Proved(a, p)
        /\ \A j \in Proofs \ {k} : claim[j].stage = "read" => claim[j].phone # p

AccountsInv == AccountsTypes /\ Unique(account) /\ ProofsReading

-----------------------------------------------------------------------------
LEMMA InitAccountsInv == AccountsInit => AccountsInv
<1> SUFFICES ASSUME AccountsInit PROVE AccountsInv
    OBVIOUS
<1>1. AccountsTypes
    BY DEF AccountsInit, AccountsTypes, NoRow, BlankClaim, Account, Claim
<1>2. Unique(account)
    BY DEF AccountsInit, Unique, NoRow
<1>3. ProofsReading
    BY DEF AccountsInit, ProofsReading, BlankClaim
<1> QED
    BY <1>1, <1>2, <1>3 DEF AccountsInv

\* What ending a proof, or its reads, leaves of the claims.
LEMMA EndsClaim ==
    ASSUME AccountsTypes, NEW k \in Proofs, NEW by, NEW p, NEW s, Ends(k, by, p, s)
    PROVE  /\ claim'[k].stage = "done" /\ claim'[k].session = s /\ claim'[k].phone = p
           /\ \A j \in Proofs \ {k} : claim'[j] = claim[j]
           /\ (by \in Claimants /\ p \in Phones \cup {None} /\ s \in Claimants)
                => claim' \in [Proofs -> Claim]
BY DEF AccountsTypes, Ends, BlankClaim, Claim, Claimants

LEMMA ReadsClaim ==
    ASSUME AccountsTypes, NEW k \in Proofs, NEW by, NEW p, NEW h, Reads(k, by, p, h)
    PROVE  /\ claim'[k].stage = "read" /\ claim'[k].by = by /\ claim'[k].phone = p
           /\ claim'[k].session = NoAccount
           /\ \A j \in Proofs \ {k} : claim'[j] = claim[j]
           /\ (by \in Claimants /\ p \in Phones /\ h \in Claimants) => claim' \in [Proofs -> Claim]
BY DEF AccountsTypes, Reads, BlankClaim, Claim, Claimants

\* The rows that the writes of a proof leave.
LEMMA Written ==
    ASSUME AccountsTypes, NEW k \in Proofs, ProofWrites(k)
    PROVE  \E t \in Accounts :
            /\ claim[k].by = NoAccount => ~Exists(t)
            /\ claim[k].by # NoAccount => t = claim[k].by
            /\ account'[t] = [email |-> account[t].email, phone |-> claim[k].phone,
                              verified |-> TRUE]
            /\ \A a \in Accounts \ {t} :
                \/ account'[a] = account[a]
                \/ /\ a = claim[k].holder
                   /\ account'[a] = [account[a] EXCEPT !.phone = None]
                   /\ HasAddress(account'[a])
            /\ account' \in [Accounts -> Account]
            /\ Unique(account')
            /\ Ends(k, claim[k].by, claim[k].phone,
                    IF claim[k].by = NoAccount THEN t ELSE NoAccount)
<1>1. PICK t \in Accounts :
        LET row  == [email |-> account[t].email, phone |-> claim[k].phone, verified |-> TRUE]
            rows == [Released(k) EXCEPT ![t] = row] IN
        /\ claim[k].stage = "read"
        /\ IF claim[k].by = NoAccount THEN ~Exists(t) ELSE t = claim[k].by
        /\ claim[k].holder # NoAccount => HasAddress(Released(k)[claim[k].holder])
        /\ Unique(rows)
        /\ account' = rows
        /\ Ends(k, claim[k].by, claim[k].phone, IF claim[k].by = NoAccount THEN t
                                                                           ELSE NoAccount)
    BY DEF ProofWrites
<1>2. Released(k) \in [Accounts -> Account]
    BY DEF Released, AccountsTypes, Account
<1>3. /\ account' \in [Accounts -> Account]
      /\ account'[t] = [email |-> account[t].email, phone |-> claim[k].phone,
                        verified |-> TRUE]
      /\ \A a \in Accounts \ {t} : account'[a] = Released(k)[a]
    BY <1>1, <1>2 DEF AccountsTypes, Account, Claim
<1>4. ASSUME NEW a \in Accounts \ {t}, a = claim[k].holder
      PROVE  account'[a] = [account[a] EXCEPT !.phone = None] /\ HasAddress(account'[a])
    BY <1>1, <1>3, <1>4, AddressAssumption DEF Released
<1>5. ASSUME NEW a \in Accounts \ {t}, a # claim[k].holder
      PROVE  account'[a] = account[a]
    BY <1>3, <1>5 DEF Released
<1> QED
    BY <1>1, <1>3, <1>4, <1>5

\* Nobody comes by a proof except by writing it.
LEMMA ProofsWritten ==
    ASSUME AccountsTypes, [AccountsNext]_accountsVars, NEW a \in Accounts, NEW p \in Phones, Proved(a, p)'
    PROVE  \/ Proved(a, p)
           \/ \E k \in Proofs : ProofWrites(k) /\ claim[k].phone = p
<1>1. account \in [Accounts -> Account]
    BY DEF AccountsTypes
<1>2. ASSUME UNCHANGED account PROVE Proved(a, p)
    BY <1>2 DEF Proved
<1>3. ASSUME NEW b \in Accounts, NEW e \in Emails, EmailSignIn(b, e) PROVE Proved(a, p)
    BY <1>1, <1>3 DEF EmailSignIn, NoRow, Proved
<1>4. ASSUME NEW b \in Accounts, NEW e \in Emails \cup {None}, PutEmail(b, e)
      PROVE  Proved(a, p)
    BY <1>1, <1>4 DEF PutEmail, EditRow, Proved, Account
<1>5. ASSUME NEW b \in Accounts, NEW e, NEW q, PutPhone(b, e, q) PROVE Proved(a, p)
    BY <1>1, <1>5 DEF PutPhone, EditRow, Proved
<1>6. ASSUME NEW k \in Proofs, ProofWrites(k), ~Proved(a, p) PROVE claim[k].phone = p
    <2>1. PICK t \in Accounts :
            /\ account'[t] = [email |-> account[t].email, phone |-> claim[k].phone,
                              verified |-> TRUE]
            /\ \A b \in Accounts \ {t} :
                \/ account'[b] = account[b]
                \/ /\ b = claim[k].holder
                   /\ account'[b] = [account[b] EXCEPT !.phone = None]
                   /\ HasAddress(account'[b])
        BY <1>6, Written, Zenon
    <2>2. \A b \in Accounts : [account[b] EXCEPT !.phone = None].phone = None
        BY <1>1 DEF Account
    <2>3. p # None
        BY AddressAssumption DEF Destinations
    <2>4. a = t
        BY <1>6, <2>1, <2>2, <2>3 DEF Proved
    <2> QED
        BY <2>1, <2>4 DEF Proved
<1> QED
    BY <1>2, <1>3, <1>4, <1>5, <1>6
       DEF AccountsNext, accountsVars,
           OwnerSignsIn, ProofTaken, ProofContested, ProofReads, ProofBegins,
           ProofRolledBack

-----------------------------------------------------------------------------
LEMMA NextAccountsTypes ==
    AccountsTypes /\ Unique(account) /\ [AccountsNext]_accountsVars => AccountsTypes' /\ Unique(account')
<1> SUFFICES ASSUME AccountsTypes, Unique(account), [AccountsNext]_accountsVars
             PROVE  AccountsTypes' /\ Unique(account')
    OBVIOUS
<1>1. account \in [Accounts -> Account] /\ claim \in [Proofs -> Claim]
    BY DEF AccountsTypes
<1>2. CASE UNCHANGED accountsVars
    BY <1>2 DEF accountsVars, AccountsTypes
<1>3. ASSUME NEW a \in Accounts, NEW e \in Emails, EmailSignIn(a, e)
      PROVE  AccountsTypes' /\ Unique(account')
    <2>1. account' \in [Accounts -> Account]
        BY <1>1, <1>3 DEF EmailSignIn, Account, NoRow
    <2>2. /\ account'[a].email = e /\ account'[a].phone = None
          /\ \A b \in Accounts \ {a} : account'[b] = account[b] /\ account[b].email # e
        BY <1>1, <1>3 DEF EmailSignIn, NoRow
    <2>3. Unique(account')
        BY <2>2 DEF Unique
    <2> QED
        BY <1>1, <1>3, <2>1, <2>3 DEF EmailSignIn, AccountsTypes
<1>4. ASSUME NEW a \in Accounts, NEW row \in Account, EditRow(a, row)
      PROVE  AccountsTypes' /\ Unique(account')
    BY <1>1, <1>4 DEF EditRow, AccountsTypes
<1>5. ASSUME NEW a \in Accounts, NEW e \in Emails \cup {None}, PutEmail(a, e)
      PROVE  \E row \in Account : EditRow(a, row)
    <2>1. [account[a] EXCEPT !.email = e] \in Account
        BY <1>1 DEF Account
    <2> QED
        BY <1>5, <2>1 DEF PutEmail
<1>6. ASSUME NEW a \in Accounts, NEW e \in Emails \cup {None}, NEW p \in Phones \cup {None},
             PutPhone(a, e, p)
      PROVE  \E row \in Account : EditRow(a, row)
    BY <1>6 DEF PutPhone, Account
<1>7. ASSUME account' = account, claim' \in [Proofs -> Claim]
      PROVE  AccountsTypes' /\ Unique(account')
    BY <1>7, <1>1 DEF AccountsTypes
<1>8. ASSUME NEW k \in Proofs, NEW p \in Phones, OwnerSignsIn(k, p)
      PROVE  AccountsTypes' /\ Unique(account')
    BY <1>7, <1>8, EndsClaim DEF OwnerSignsIn, ProofBegins, Owners, Claimants
<1>9. ASSUME NEW k \in Proofs, NEW by \in Claimants, NEW p \in Phones,
             ProofTaken(k, by, p) \/ ProofContested(k, by, p)
      PROVE  AccountsTypes' /\ Unique(account')
    BY <1>7, <1>9, EndsClaim DEF ProofTaken, ProofContested, ProofBegins, Claimants
<1>10. ASSUME NEW k \in Proofs, NEW by \in Claimants, NEW p \in Phones, ProofReads(k, by, p)
       PROVE  AccountsTypes' /\ Unique(account')
    <2>1. \E h \in Claimants : Reads(k, by, p, h)
        BY <1>10 DEF ProofReads, Holders, Claimants
    <2>2. claim' \in [Proofs -> Claim]
        BY <2>1, ReadsClaim
    <2> QED
        BY <1>7, <1>10, <2>2 DEF ProofReads, ProofBegins
<1>11. ASSUME NEW k \in Proofs, ProofWrites(k) PROVE AccountsTypes' /\ Unique(account')
    <2>1. claim[k].by \in Claimants /\ claim[k].phone \in Phones \cup {None}
        BY <1>1 DEF Claim, Claimants
    <2>2. PICK t \in Accounts :
            /\ account' \in [Accounts -> Account]
            /\ Unique(account')
            /\ Ends(k, claim[k].by, claim[k].phone,
                    IF claim[k].by = NoAccount THEN t ELSE NoAccount)
        BY <1>11, Written
    <2>3. claim' \in [Proofs -> Claim]
        BY <2>1, <2>2, EndsClaim DEF Claimants
    <2> QED
        BY <2>2, <2>3 DEF AccountsTypes
<1>12. ASSUME NEW k \in Proofs, ProofRolledBack(k) PROVE AccountsTypes' /\ Unique(account')
    <2>1. claim[k].by \in Claimants /\ claim[k].phone \in Phones \cup {None}
        BY <1>1 DEF Claim, Claimants
    <2> QED
        BY <1>7, <1>12, <2>1, EndsClaim DEF ProofRolledBack, Claimants
<1> QED
    BY <1>2, <1>3, <1>4, <1>5, <1>6, <1>8, <1>9, <1>10, <1>11, <1>12 DEF AccountsNext

\* Starting a proof takes the lock of its number; ending one gives it back.
LEMMA NextProofsReading == AccountsInv /\ [AccountsNext]_accountsVars => ProofsReading'
<1> SUFFICES ASSUME AccountsInv, [AccountsNext]_accountsVars,
                    NEW k \in Proofs, NEW p, claim'[k].stage = "read", claim'[k].phone = p
             PROVE  /\ p \in Phones
                    /\ \A a \in Accounts \ {claim'[k].by} : ~Proved(a, p)'
                    /\ \A j \in Proofs \ {k} : claim'[j].stage = "read" => claim'[j].phone # p
    BY DEF ProofsReading
<1>1. AccountsTypes /\ Unique(account) /\ ProofsReading
    BY DEF AccountsInv
<1>2. \* No other proof of the number ends while this one is under way.
      ASSUME claim'[k] = claim[k]
      PROVE  \A a \in Accounts \ {claim'[k].by} : ~Proved(a, p)'
    <2> SUFFICES ASSUME NEW a \in Accounts, Proved(a, p)', a # claim[k].by
                 PROVE  FALSE
        BY <1>2
    <2>1. p \in Phones /\ ~Proved(a, p)
        BY <1>1, <1>2 DEF ProofsReading
    <2>2. PICK j \in Proofs : ProofWrites(j) /\ claim[j].phone = p
        BY <1>1, <2>1, ProofsWritten
    <2>3. claim[j].stage = "read"
        BY <2>2 DEF ProofWrites
    <2>4. claim'[j].stage = "done"
        BY <1>1, <2>2, Written, EndsClaim
    <2> QED
        BY <1>1, <1>2, <2>2, <2>3, <2>4 DEF ProofsReading
<1>3. ASSUME NEW i \in Proofs, NEW by \in Claimants, NEW q \in Phones, ProofReads(i, by, q)
      PROVE  /\ \A j \in Proofs : claim[j].stage = "read" => claim[j].phone # q
             /\ \A a \in Accounts \ {by} : ~Proved(a, q)
             /\ account' = account
             /\ \E h : Reads(i, by, q, h)
    <2>1. ~PhoneLocked(q) /\ account' = account /\ \E h : Reads(i, by, q, h)
        BY <1>3 DEF ProofReads, ProofBegins
    <2>2. CASE Holders(q) \subseteq {by}
        BY <2>1, <2>2 DEF PhoneLocked, Holders, Proved
    <2>3. CASE \E a \in Holders(q) \ {by} : Releasable(a)
        <3>1. PICK a \in Holders(q) \ {by} : Releasable(a)
            BY <2>3
        <3>2. a \in Accounts /\ account[a].phone = q /\ ~account[a].verified
            BY <3>1 DEF Holders, Releasable
        <3>3. q # None
            BY AddressAssumption DEF Destinations
        <3>4. \A b \in Accounts : account[b].phone = q => b = a
            BY <1>1, <3>2, <3>3 DEF Unique
        <3> QED
            BY <2>1, <3>2, <3>4 DEF PhoneLocked, Proved
    <2> QED
        BY <1>3, <2>2, <2>3 DEF ProofReads
<1>4. \* Every other step leaves each claim as it is, or ends one.
      ASSUME ~ \E i \in Proofs, by \in Claimants, q \in Phones : ProofReads(i, by, q)
      PROVE  \A j \in Proofs : claim'[j] = claim[j] \/ claim'[j].stage = "done"
    <2>1. claim' = claim \/ \E i \in Proofs : \E by, q, s : Ends(i, by, q, s)
        BY <1>1, <1>4, Written
           DEF AccountsNext, accountsVars, EmailSignIn, PutEmail, PutPhone, EditRow, OwnerSignsIn,
               ProofTaken, ProofContested, ProofRolledBack
    <2> QED
        BY <1>1, <2>1, EndsClaim
<1>5. CASE \E i \in Proofs, by \in Claimants, q \in Phones : ProofReads(i, by, q)
    <2>1. PICK i \in Proofs, by \in Claimants, q \in Phones : ProofReads(i, by, q)
        BY <1>5
    <2>2. /\ claim'[i].stage = "read" /\ claim'[i].by = by /\ claim'[i].phone = q
          /\ \A j \in Proofs \ {i} : claim'[j] = claim[j]
        BY <1>1, <1>3, <2>1, ReadsClaim
    <2>3. \A a \in Accounts : Proved(a, p)' => Proved(a, p)
        BY <1>3, <2>1 DEF Proved
    <2>4. CASE k = i
        BY <1>3, <2>1, <2>2, <2>3, <2>4
    <2>5. CASE k # i
        BY <1>1, <1>2, <1>3, <2>1, <2>2, <2>5 DEF ProofsReading
    <2> QED
        BY <2>4, <2>5
<1>6. CASE ~ \E i \in Proofs, by \in Claimants, q \in Phones : ProofReads(i, by, q)
    BY <1>1, <1>2, <1>4, <1>6 DEF ProofsReading
<1> QED
    BY <1>5, <1>6

LEMMA NextAccountsInv == AccountsInv /\ [AccountsNext]_accountsVars => AccountsInv'
BY NextAccountsTypes, NextProofsReading DEF AccountsInv

\* AccountsInv is inductive, for any number of accounts, addresses and proofs.
THEOREM SignInInvariant == AccountsSpec => []AccountsInv
<1>1. AccountsInit => AccountsInv
    BY InitAccountsInv
<1> QED
    BY <1>1, NextAccountsInv, PTL DEF AccountsSpec

\* Of unique keys, a number has at most one holder.
LEMMA AccountsInvTyped == AccountsInv => AccountsTypeOK
<1> SUFFICES ASSUME AccountsInv, NEW p \in Phones PROVE Cardinality(Holders(p)) <= 1
    BY DEF AccountsInv, AccountsTypes, AccountsTypeOK
<1>1. p # None
    BY AddressAssumption DEF Destinations
<1>2. \A a, b \in Holders(p) : a = b
    BY <1>1 DEF AccountsInv, Unique, Holders
<1>3. CASE Holders(p) = {}
    BY <1>3, FS_EmptySet
<1>4. CASE Holders(p) # {}
    <2>1. PICK a : Holders(p) = {a}
        BY <1>2, <1>4
    <2>2. Cardinality({a}) = 1
        BY FS_Singleton
    <2> QED
        BY <2>1, <2>2
<1> QED
    BY <1>3, <1>4

\* The rows keep their shape, and a number is in one of them at most (the unique key of
\* accounts.phone_number, and upsert_account_by_phone's and put_profile's writes).
THEOREM SignInTypeCorrect == AccountsSpec => []AccountsTypeOK
    BY AccountsInvTyped, SignInInvariant, PTL

\* Two transactions never end with a proved number in another account's hands: the one
\* that writes a proof had read that nobody else has it, and holds the number's lock.
THEOREM ProofNotTakenHolds == AccountsSpec => ProofNotTaken
<1>1. AccountsInv /\ [AccountsNext]_accountsVars =>
        [\A a, b \in Accounts, p \in Phones :
            (a # b /\ Proved(a, p)) => ~Proved(b, p)']_accountsVars
    <2> SUFFICES ASSUME AccountsInv, [AccountsNext]_accountsVars, NEW a \in Accounts, NEW b \in Accounts,
                        NEW p \in Phones, a # b, Proved(a, p), Proved(b, p)'
                 PROVE  FALSE
        OBVIOUS
    <2>1. AccountsTypes /\ Unique(account) /\ ProofsReading
        BY DEF AccountsInv
    <2>2. ~Proved(b, p)
        BY <2>1, AddressAssumption DEF Unique, Proved, Destinations
    <2>3. PICK k \in Proofs : ProofWrites(k) /\ claim[k].phone = p
        BY <2>1, <2>2, ProofsWritten
    <2>4. a = claim[k].by
        BY <2>1, <2>3 DEF ProofWrites, ProofsReading
    <2>5. account'[a].phone = p
        <3>1. claim[k].by # NoAccount
            BY <2>4, AddressAssumption
        <3>2. PICK t \in Accounts :
                /\ claim[k].by # NoAccount => t = claim[k].by
                /\ account'[t] = [email |-> account[t].email, phone |-> claim[k].phone,
                                  verified |-> TRUE]
            BY <2>1, <2>3, Written, Zenon
        <3> QED
            BY <2>3, <2>4, <3>1, <3>2
    <2>6. Unique(account')
        BY <2>1, NextAccountsTypes
    <2> QED
        BY <2>5, <2>6, AddressAssumption DEF Unique, Proved, Destinations
<1> QED
    BY <1>1, SignInInvariant, PTL DEF AccountsSpec, ProofNotTaken

\* An account that has only its proved number keeps a way in: its own edits cannot drop
\* the proof, and nobody else's claim can leave it with no address.
THEOREM LastDoorKeptHolds == AccountsSpec => LastDoorKept
<1>1. AccountsInv /\ [AccountsNext]_accountsVars =>
        [\A a \in Accounts :
            (\E p \in Phones : account[a].email = None /\ Proved(a, p)) =>
                (account'[a].email # None \/ \E p \in Phones : Proved(a, p)')]_accountsVars
    <2> SUFFICES ASSUME AccountsInv, [AccountsNext]_accountsVars, NEW a \in Accounts, NEW p \in Phones,
                        account[a].email = None, Proved(a, p)
                 PROVE  account'[a].email # None \/ \E q \in Phones : Proved(a, q)'
        OBVIOUS
    <2>1. AccountsTypes /\ Unique(account) /\ ProofsReading
        BY DEF AccountsInv
    <2>2. account \in [Accounts -> Account] /\ Exists(a)
        BY <2>1, AddressAssumption DEF AccountsTypes, Exists, Proved, Destinations
    <2>3. ASSUME account'[a] = account[a] PROVE Proved(a, p)'
        BY <2>3 DEF Proved
    <2>4. ASSUME NEW b \in Accounts, NEW e \in Emails, EmailSignIn(b, e) PROVE Proved(a, p)'
        BY <2>2, <2>3, <2>4 DEF EmailSignIn
    <2>5. ASSUME NEW b \in Accounts, NEW e \in Emails \cup {None}, PutEmail(b, e)
          PROVE  Proved(a, p)'
        BY <2>2, <2>3, <2>5 DEF PutEmail, EditRow, Proved, Account
    <2>6. ASSUME NEW b \in Accounts, NEW e, NEW q, PutPhone(b, e, q)
          PROVE  account'[a].email # None \/ Proved(a, p)'
        BY <2>2, <2>3, <2>6 DEF PutPhone, EditRow, DestroysLastDoor, Proved
    <2>7. ASSUME NEW k \in Proofs, ProofWrites(k)
          PROVE  \E q \in Phones : Proved(a, q)'
        <3>1. PICK t \in Accounts :
                /\ account'[t] = [email |-> account[t].email, phone |-> claim[k].phone,
                                  verified |-> TRUE]
                /\ \A x \in Accounts \ {t} :
                    \/ account'[x] = account[x]
                    \/ /\ x = claim[k].holder
                       /\ account'[x] = [account[x] EXCEPT !.phone = None]
                       /\ HasAddress(account'[x])
            BY <2>1, <2>7, Written, Zenon
        <3>2. CASE a = t
            <4>1. claim[k].phone \in Phones
                BY <2>1, <2>7 DEF ProofWrites, ProofsReading
            <4> QED
                BY <3>1, <3>2, <4>1 DEF Proved
        <3>3. CASE a # t
            <4>1. [account[a] EXCEPT !.phone = None].phone = None
                  /\ [account[a] EXCEPT !.phone = None].email = None
                BY <2>2 DEF Account
            <4> QED
                BY <2>3, <3>1, <3>3, <4>1 DEF HasAddress
        <3> QED
            BY <3>2, <3>3
    <2>8. ASSUME UNCHANGED account PROVE Proved(a, p)'
        BY <2>3, <2>8
    <2> QED
        BY <2>4, <2>5, <2>6, <2>7, <2>8
           DEF AccountsNext, accountsVars,
           OwnerSignsIn, ProofTaken, ProofContested, ProofReads, ProofBegins,
               ProofRolledBack
<1> QED
    BY <1>1, SignInInvariant, PTL DEF AccountsSpec, LastDoorKept

\* A session is opened by a proof, for the account that has it or for a new one.
THEOREM NeverAdoptedHolds == AccountsSpec => NeverAdopted
<1>1. AccountsInv /\ [AccountsNext]_accountsVars =>
        [\A k \in Proofs, a \in Accounts, p \in Phones :
            (claim[k].session = NoAccount /\ claim'[k].session = a /\ claim'[k].phone = p) =>
                /\ Exists(a) => Proved(a, p)
                /\ Proved(a, p)']_accountsVars
    <2> SUFFICES ASSUME AccountsInv, [AccountsNext]_accountsVars, NEW k \in Proofs, NEW a \in Accounts,
                        NEW p \in Phones, claim[k].session = NoAccount,
                        claim'[k].session = a, claim'[k].phone = p
                 PROVE  (Exists(a) => Proved(a, p)) /\ Proved(a, p)'
        OBVIOUS
    <2>1. AccountsTypes /\ a # NoAccount /\ claim'[k] # claim[k]
        BY AddressAssumption DEF AccountsInv
    <2>2. ASSUME NEW j \in Proofs, NEW q \in Phones, OwnerSignsIn(j, q)
          PROVE  Proved(a, p) /\ Proved(a, p)'
        <3>1. PICK b \in Owners(q) : Ends(j, NoAccount, q, b) /\ account' = account
            BY <2>2 DEF OwnerSignsIn, ProofBegins
        <3>2. k = j /\ a = b /\ p = q
            BY <2>1, <3>1, EndsClaim
        <3> QED
            BY <3>1, <3>2 DEF Owners, Proved
    <2>3. ASSUME NEW j \in Proofs, NEW by, NEW q, Ends(j, by, q, NoAccount)
          PROVE  FALSE
        BY <2>1, <2>3, EndsClaim
    <2>4. ASSUME NEW j \in Proofs, NEW by, NEW q, NEW h, Reads(j, by, q, h)
          PROVE  FALSE
        BY <2>1, <2>4, ReadsClaim
    <2>5. ASSUME NEW j \in Proofs, ProofWrites(j)
          PROVE  ~Exists(a) /\ Proved(a, p)'
        <3>1. PICK t \in Accounts :
                /\ claim[j].by = NoAccount => ~Exists(t)
                /\ account'[t] = [email |-> account[t].email, phone |-> claim[j].phone,
                                  verified |-> TRUE]
                /\ Ends(j, claim[j].by, claim[j].phone,
                        IF claim[j].by = NoAccount THEN t ELSE NoAccount)
            BY <2>1, <2>5, Written, Zenon
        <3>2. k = j /\ claim[j].by = NoAccount /\ a = t /\ p = claim[j].phone
            BY <2>1, <3>1, EndsClaim
        <3> QED
            BY <3>1, <3>2 DEF Proved
    <2> QED
        BY <2>1, <2>2, <2>3, <2>4, <2>5
           DEF AccountsNext, accountsVars, EmailSignIn, PutEmail, PutPhone, EditRow, ProofTaken,
               ProofContested, ProofReads, ProofRolledBack
<1> QED
    BY <1>1, SignInInvariant, PTL DEF AccountsSpec, NeverAdopted

-----------------------------------------------------------------------------
(* Sessions: rows of auth_sessions, sign-in links, the list of administrators. *)

\* What a row of auth_sessions owes to its scopes.
Bounded(row) ==
    /\ row.admin => row.expires = row.born + AdminHours
    /\ row.sliding # row.admin

\* Whoever the list has gets the scope at a door that proves an address.
Scoped(row) == row.listed /\ row.door # "phone" => row.admin

\* A row that a refresh has loaded is as bounded as the one it will become.
LoadedBounded ==
    \A r \in Requests : request[r].at = "refresh" => Bounded(request[r].row) /\ Scoped(request[r].row)
AllScoped == \A t \in Tokens : Scoped(session[t])

\* A removal that has counted holds the lock, and leaves another administrator behind.
RemovalHolds == \A r \in Requests : request[r].at = "remove" => listLock = r
OneIsLeft ==
    portalUsed \/
        /\ allowlist # {}
        /\ \A r \in Requests : request[r].at = "remove" => allowlist \ {request[r].member} # {}

SessionsInv == SessionsTypeOK /\ AdminSessionsEnd /\ LoadedBounded /\ AllScoped
ListInv     == RemovalHolds /\ OneIsLeft

-----------------------------------------------------------------------------
(* The rows.                                                                *)

LEMMA RequestShape ==
    ASSUME SessionsTypeOK, NEW r \in Requests
    PROVE  \/ request[r] = NoRequest
           \/ request[r].at = "refresh" /\ request[r].token \in Tokens /\ request[r].row \in Token
           \/ request[r].at = "remove" /\ request[r].member \in Members
BY DEF SessionsTypeOK, InFlight

LEMMA Times ==
    /\ 0 \in Ticks /\ 0 \in Expiry
    /\ \A t \in Ticks : t + AdminHours \in Expiry /\ t + RiderDays \in Expiry
BY SessionsAssumption DEF Ticks, Expiry, AdminHours, RiderDays

LEMMA BlankRows ==
    /\ NoToken \in Token /\ Revoked \in Token
    /\ NoToken.life = "none" /\ Revoked.life = "revoked"
    /\ Scoped(NoToken) /\ Scoped(Revoked)
    /\ NoLink \in Link /\ OverLink \in Link
    /\ NoRequest \in InFlight /\ NoRequest.at = "idle"
<1>1. NoToken \in Token /\ NoToken.life = "none" /\ NoToken.listed = FALSE
    BY Times DEF NoToken, Token
<1>2. Revoked \in Token /\ Revoked.life = "revoked" /\ Revoked.listed = FALSE
    BY <1>1 DEF Revoked, Token
<1>3. NoLink \in Link /\ OverLink \in Link
    BY DEF NoLink, OverLink, Link
<1>4. NoRequest \in InFlight /\ NoRequest.at = "idle"
    BY DEF NoRequest, InFlight
<1> QED
    BY <1>1, <1>2, <1>3, <1>4 DEF Scoped

LEMMA MintedRow ==
    ASSUME SessionsTypeOK, NEW m \in Members \cup {Nobody}, NEW door \in SignInDoors
    PROVE  Minted(m, door) \in Token /\ Bounded(Minted(m, door)) /\ Scoped(Minted(m, door))
<1> DEFINE admin == HasAdminScope(m, door)
           listed == IsAdmin(m)
<1>1. /\ admin \in BOOLEAN /\ listed \in BOOLEAN /\ now \in Ticks /\ door \in SignInDoors \cup {"none"}
      /\ listed /\ door # "phone" => admin
    BY DEF HasAdminScope, IsAdmin, SignInDoors, SessionsTypeOK
<1>2. /\ now + Lifetime(admin) \in Expiry
      /\ admin => now + Lifetime(admin) = now + AdminHours
    BY <1>1, Times DEF Lifetime
<1>3. Minted(m, door) = [life |-> "valid", of |-> m, door |-> door, listed |-> listed, admin |-> admin,
                         sliding |-> ~admin, expires |-> now + Lifetime(admin), born |-> now]
    BY DEF Minted
<1> HIDE DEF admin, listed
<1>4. Minted(m, door) \in Token
    BY <1>1, <1>2, <1>3 DEF Token
<1>5. Bounded(Minted(m, door)) /\ Scoped(Minted(m, door))
    BY <1>1, <1>2, <1>3 DEF Bounded, Scoped
<1> QED
    BY <1>4, <1>5

LEMMA RefreshedRow ==
    ASSUME SessionsTypeOK, NEW row \in Token, Bounded(row), Scoped(row)
    PROVE  LET new == [row EXCEPT !.life = "valid", !.expires = NewExpiry(row)] IN
           new \in Token /\ Bounded(new) /\ Scoped(new)
<1>1. NewExpiry(row) \in Expiry /\ (~row.sliding => NewExpiry(row) = row.expires)
    BY Times DEF SessionsTypeOK, NewExpiry, Token
<1>2. row.admin \in BOOLEAN /\ row.sliding \in BOOLEAN
    BY DEF Token
<1> QED
    BY <1>1, <1>2 DEF Token, Bounded, Scoped

-----------------------------------------------------------------------------
LEMMA InitSessionsInv == SessionsInit => SessionsInv
<1> SUFFICES ASSUME SessionsInit PROVE SessionsInv
    OBVIOUS
<1>1. SessionsTypeOK
    <2>1. now \in Ticks /\ listLock \in Requests \cup {Nobody} /\ portalUsed \in BOOLEAN
        BY Times DEF SessionsInit
    <2>2. session \in [Tokens -> Token] /\ link \in [Links -> Link]
        BY BlankRows DEF SessionsInit
    <2>3. request \in [Requests -> InFlight]
        BY BlankRows DEF SessionsInit
    <2>4. allowlist \subseteq Members \ PhoneOnly
        BY DEF SessionsInit
    <2> QED
        BY <2>1, <2>2, <2>3, <2>4 DEF SessionsTypeOK
<1>2. AdminSessionsEnd
    BY BlankRows DEF SessionsInit, AdminSessionsEnd
<1>3. LoadedBounded /\ AllScoped
    BY BlankRows DEF SessionsInit, LoadedBounded, AllScoped
<1> QED
    BY <1>1, <1>2, <1>3 DEF SessionsInv

\* A sign-in by whichever door.
LEMMA MintPreserves ==
    ASSUME SessionsInv, NEW t \in Tokens, NEW m \in Members \cup {Nobody}, NEW door \in SignInDoors,
           session' = [session EXCEPT ![t] = Minted(m, door)], link' \in [Links -> Link],
           UNCHANGED <<now, allowlist, request, listLock, portalUsed>>
    PROVE  SessionsInv'
<1>1. SessionsTypeOK'
    BY MintedRow DEF SessionsInv, SessionsTypeOK
<1>2. AdminSessionsEnd'
    BY MintedRow DEF SessionsInv, SessionsTypeOK, AdminSessionsEnd, Bounded
<1>3. LoadedBounded'
    BY DEF SessionsInv, LoadedBounded, Bounded, Scoped
<1>4. AllScoped'
    BY MintedRow DEF SessionsInv, SessionsTypeOK, AllScoped, Scoped
<1> QED
    BY <1>1, <1>2, <1>3, <1>4 DEF SessionsInv

LEMMA RefreshPreserves ==
    ASSUME SessionsInv, NEW r \in Requests, NEW t \in Tokens, RefreshCommits(r, t)
    PROVE  SessionsInv'
<1> DEFINE row == request[r].row
           new == [row EXCEPT !.life = "valid", !.expires = NewExpiry(row)]
           old == request[r].token
<1>1. row \in Token /\ old \in Tokens /\ Bounded(row) /\ Scoped(row)
    BY RequestShape, BlankRows DEF SessionsInv, LoadedBounded, RefreshCommits
<1>2. new \in Token /\ Bounded(new) /\ Scoped(new)
    BY <1>1, RefreshedRow DEF SessionsInv
<1>3. session' = [[session EXCEPT ![t] = new] EXCEPT ![old] = Revoked]
    BY DEF RefreshCommits
<1> HIDE DEF new, old, row
<1>4. SessionsTypeOK'
    BY <1>1, <1>2, <1>3, BlankRows DEF SessionsInv, SessionsTypeOK, RefreshCommits
<1>5. AdminSessionsEnd'
    BY <1>1, <1>2, <1>3, BlankRows
    DEF SessionsInv, SessionsTypeOK, AdminSessionsEnd, Bounded
<1>6. LoadedBounded'
    BY BlankRows DEF SessionsInv, SessionsTypeOK, LoadedBounded, RefreshCommits, Bounded, Scoped
<1>7. AllScoped'
    BY <1>1, <1>2, <1>3, BlankRows DEF SessionsInv, SessionsTypeOK, AllScoped, Scoped
<1> QED
    BY <1>4, <1>5, <1>6, <1>7 DEF SessionsInv

LEMMA NextSessionsInv == SessionsInv /\ [SessionsNext]_sessionVars => SessionsInv'
<1> SUFFICES ASSUME SessionsInv, [SessionsNext]_sessionVars PROVE SessionsInv'
    OBVIOUS
<1> USE DEF SessionsInv
<1>1. CASE PassTime
    BY <1>1, SessionsAssumption DEF PassTime, SessionsTypeOK, Ticks, AdminSessionsEnd,
       LoadedBounded, Bounded, AllScoped, Scoped
<1>2. ASSUME NEW t \in Tokens, NEW m \in Members, NEW door \in SignInDoors, SignInBy(t, m, door)
      PROVE  SessionsInv'
    BY <1>2, MintPreserves DEF SignInBy, SessionsTypeOK
<1>3. ASSUME NEW l \in Links, NEW m \in Members, RequestMagicLink(l, m) PROVE SessionsInv'
    BY <1>3 DEF RequestMagicLink, SessionsTypeOK, Link, AdminSessionsEnd, LoadedBounded, Bounded, AllScoped, Scoped
<1>4. ASSUME NEW l \in Links, LinkLapses(l) PROVE SessionsInv'
    BY <1>4, BlankRows DEF LinkLapses, SessionsTypeOK, AdminSessionsEnd, LoadedBounded, Bounded, AllScoped, Scoped
<1>5. ASSUME NEW l \in Links, NEW t \in Tokens, RedeemMagicLink(l, t) PROVE SessionsInv'
    <2>1. link[l].of \in Members \cup {Nobody}
        BY DEF SessionsTypeOK, Link
    <2>2. link' \in [Links -> Link]
        BY <1>5, BlankRows DEF RedeemMagicLink, SessionsTypeOK
    <2> QED
        BY <1>5, <2>1, <2>2, MintPreserves DEF RedeemMagicLink, SignInDoors
<1>6. ASSUME NEW r \in Requests, NEW t \in Tokens, RefreshLoads(r, t) PROVE SessionsInv'
    <2> DEFINE loaded == [at |-> "refresh", token |-> t, row |-> session[t]]
    <2>1. session[t] \in Token /\ Bounded(session[t]) /\ Scoped(session[t])
        BY <1>6 DEF RefreshLoads, Loadable, SessionsTypeOK, AdminSessionsEnd, AllScoped, Bounded
    <2>2. loaded \in InFlight /\ loaded.at = "refresh" /\ loaded.row = session[t]
        BY <2>1 DEF InFlight
    <2>3. request' = [request EXCEPT ![r] = loaded]
        BY <1>6 DEF RefreshLoads
    <2> HIDE DEF loaded
    <2>4. SessionsTypeOK'
        BY <1>6, <2>2, <2>3 DEF RefreshLoads, SessionsTypeOK
    <2>5. AdminSessionsEnd' /\ AllScoped'
        BY <1>6 DEF RefreshLoads, AdminSessionsEnd, AllScoped, Scoped
    <2>6. LoadedBounded'
        BY <2>1, <2>2, <2>3 DEF SessionsTypeOK, LoadedBounded, Bounded, AllScoped, Scoped
    <2> QED
        BY <2>4, <2>5, <2>6
<1>7. ASSUME NEW r \in Requests, NEW t \in Tokens, RefreshCommits(r, t) PROVE SessionsInv'
    BY <1>7, RefreshPreserves
<1>8. ASSUME NEW r \in Requests, RequestFails(r) PROVE SessionsInv'
    BY <1>8, BlankRows DEF RequestFails, SessionsTypeOK, AdminSessionsEnd, LoadedBounded, Bounded, AllScoped, Scoped
<1>9. ASSUME NEW r \in Requests, GuardedRemoves(r) PROVE SessionsInv'
    BY <1>9, BlankRows DEF GuardedRemoves, SessionsTypeOK, AdminSessionsEnd, LoadedBounded,
       Bounded, AllScoped, Scoped
<1>10. ASSUME NEW t \in Tokens, SignOut(t) PROVE SessionsInv'
    BY <1>10, BlankRows DEF SignOut, SessionsTypeOK, AdminSessionsEnd, LoadedBounded, Bounded, AllScoped, Scoped
<1>11. ASSUME NEW m \in Members, AddAdmin(m) \/ PortalRemoves(m) PROVE SessionsInv'
    BY <1>11 DEF AddAdmin, PortalRemoves, SessionsTypeOK, AdminSessionsEnd, LoadedBounded,
       Bounded, AllScoped, Scoped
<1>12. ASSUME NEW r \in Requests, NEW t \in Tokens, NEW m \in Members, GuardedCounts(r, t, m)
       PROVE  SessionsInv'
    <2> DEFINE counted == [at |-> "remove", member |-> m]
    <2>1. counted \in InFlight /\ counted.at = "remove"
        BY DEF InFlight
    <2>2. request' = [request EXCEPT ![r] = counted]
        BY <1>12 DEF GuardedCounts
    <2> HIDE DEF counted
    <2>3. SessionsTypeOK'
        BY <1>12, <2>1, <2>2 DEF GuardedCounts, SessionsTypeOK
    <2>4. AdminSessionsEnd' /\ LoadedBounded' /\ AllScoped'
        BY <1>12, <2>1, <2>2 DEF GuardedCounts, SessionsTypeOK, AdminSessionsEnd, LoadedBounded,
           Bounded, AllScoped, Scoped
    <2> QED
        BY <2>3, <2>4
<1>13. CASE UNCHANGED sessionVars
    BY <1>13 DEF sessionVars, SessionsTypeOK, AdminSessionsEnd, LoadedBounded, Bounded, AllScoped, Scoped
<1> QED
    BY <1>1, <1>2, <1>3, <1>4, <1>5, <1>6, <1>7, <1>8, <1>9, <1>10, <1>11, <1>12, <1>13
    DEF SessionsNext

\* The tables and the requests in flight have their types, through every overlap of the
\* sign-ins, the refreshes and the removals.
THEOREM SessionsTyped == SessionsSpec => []SessionsTypeOK
<1>1. SessionsInv => SessionsTypeOK
    BY DEF SessionsInv
<1> QED
    BY <1>1, InitSessionsInv, NextSessionsInv, PTL DEF SessionsSpec

-----------------------------------------------------------------------------
(* The allowlist.                                                           *)

LEMMA MoreThanOne ==
    ASSUME NEW S, IsFiniteSet(S), Cardinality(S) > 1, NEW m
    PROVE  S \ {m} # {}
<1>1. Cardinality(S) \in Nat
    BY FS_CardinalityType
<1>2. S \ {m} = {} => S = {} \/ S = {m}
    OBVIOUS
<1>3. Cardinality({}) = 0 /\ Cardinality({m}) = 1
    BY FS_EmptySet, FS_Singleton
<1> QED
    BY <1>1, <1>2, <1>3

LEMMA InitListInv == SessionsInit => ListInv
BY BlankRows DEF SessionsInit, ListInv, RemovalHolds, OneIsLeft

LEMMA NextListInv == SessionsTypeOK /\ ListInv /\ [SessionsNext]_sessionVars => ListInv'
<1> SUFFICES ASSUME SessionsTypeOK, ListInv, [SessionsNext]_sessionVars PROVE ListInv'
    OBVIOUS
<1> USE DEF ListInv
<1>1. CASE UNCHANGED <<allowlist, request, listLock, portalUsed>>
    BY <1>1 DEF RemovalHolds, OneIsLeft
<1>2. ASSUME NEW r \in Requests, NEW t \in Tokens, RefreshLoads(r, t) PROVE ListInv'
    BY <1>2, BlankRows DEF RefreshLoads, SessionsTypeOK, RemovalHolds, OneIsLeft
<1>3. ASSUME NEW r \in Requests, NEW t \in Tokens, RefreshCommits(r, t) PROVE ListInv'
    BY <1>3, BlankRows DEF RefreshCommits, SessionsTypeOK, RemovalHolds, OneIsLeft
<1>4. ASSUME NEW r \in Requests, RequestFails(r) PROVE ListInv'
    BY <1>4, BlankRows DEF RequestFails, SessionsTypeOK, RemovalHolds, OneIsLeft
<1>5. ASSUME NEW r \in Requests, GuardedRemoves(r) PROVE ListInv'
    <2>1. \A q \in Requests : request'[q].at # "remove"
        BY <1>5, BlankRows DEF GuardedRemoves, SessionsTypeOK, RemovalHolds
    <2> QED
        BY <1>5, <2>1 DEF GuardedRemoves, RemovalHolds, OneIsLeft
<1>6. ASSUME NEW m \in Members, AddAdmin(m) PROVE ListInv'
    BY <1>6 DEF AddAdmin, RemovalHolds, OneIsLeft
<1>7. ASSUME NEW m \in Members, PortalRemoves(m) PROVE ListInv'
    BY <1>7 DEF PortalRemoves, RemovalHolds, OneIsLeft
<1>8. ASSUME NEW r \in Requests, NEW t \in Tokens, NEW m \in Members, GuardedCounts(r, t, m)
      PROVE  ListInv'
    <2>1. \A q \in Requests : request[q].at # "remove"
        BY <1>8, SessionsAssumption DEF GuardedCounts, ListFree, RemovalHolds
    <2>2. /\ request'[r].at = "remove" /\ request'[r].member = m
          /\ \A q \in Requests \ {r} : request'[q] = request[q]
        BY <1>8 DEF GuardedCounts, SessionsTypeOK
    <2>3. RemovalHolds'
        BY <1>8, <2>1, <2>2 DEF GuardedCounts, RemovalHolds
    <2>4. IsFiniteSet(allowlist)
        BY SessionsAssumption, FS_Subset DEF SessionsTypeOK
    <2>5. ~portalUsed => allowlist \ {m} # {}
        BY <1>8, <2>4, MoreThanOne DEF GuardedCounts, OneIsLeft
    <2>6. OneIsLeft'
        BY <1>8, <2>1, <2>2, <2>5 DEF GuardedCounts, OneIsLeft
    <2> QED
        BY <2>3, <2>6
<1>9. CASE PassTime \/ \E t \in Tokens : SignOut(t)
    BY <1>1, <1>9 DEF PassTime, SignOut
<1>10. CASE \/ \E t \in Tokens, m \in Members, door \in SignInDoors : SignInBy(t, m, door)
            \/ \E l \in Links, m \in Members : RequestMagicLink(l, m)
            \/ \E l \in Links : LinkLapses(l)
            \/ \E l \in Links, t \in Tokens : RedeemMagicLink(l, t)
    BY <1>1, <1>10 DEF SignInBy, RequestMagicLink, LinkLapses, RedeemMagicLink
<1>11. CASE UNCHANGED sessionVars
    BY <1>1, <1>11 DEF sessionVars
<1> QED
    BY <1>2, <1>3, <1>4, <1>5, <1>6, <1>7, <1>8, <1>9, <1>10, <1>11 DEF SessionsNext

LEMMA RightsEnd == SessionsInv => LongRights
<1> SUFFICES ASSUME SessionsInv, NEW t \in Tokens, MayAdminister(t), now > session[t].born + AdminHours,
                    session[t].door # "phone", session[t].listed
             PROVE  FALSE
    BY DEF LongRights
<1>1. session[t].admin /\ session[t].expires = session[t].born + AdminHours
    BY DEF SessionsInv, AllScoped, Scoped, AdminSessionsEnd, MayAdminister, Loadable
<1>2. session[t].expires >= now
    BY DEF MayAdminister, Loadable
<1>3. now \in Nat /\ session[t].expires \in Nat
    BY SessionsAssumption DEF SessionsInv, SessionsTypeOK, Token, Ticks, Expiry
<1> QED
    BY <1>1, <1>2, <1>3

\* A session with the admin scope ends ADMIN_SESSION_HOURS after its sign-in however often it
\* is refreshed (session_expiry); only a sign-in by SMS, or an addition to the allowlist
\* since, lets anyone administer for longer (require_admin); and the removals that count
\* under the lock never empty the allowlist (remove_admin_guarded), for any number of
\* requests at once.
THEOREM AdminRightsKept == SessionsSpec => []AdminRights
<1>1. SessionsInit => SessionsInv /\ ListInv
    BY InitSessionsInv, InitListInv
<1>2. (SessionsInv /\ ListInv) /\ [SessionsNext]_sessionVars => (SessionsInv /\ ListInv)'
    BY NextSessionsInv, NextListInv DEF SessionsInv
<1>3. SessionsInv /\ ListInv => AdminRights
    BY RightsEnd DEF SessionsInv, ListInv, OneIsLeft, AdminRights, AllowlistNotEmptied
<1> QED
    BY <1>1, <1>2, <1>3, PTL DEF SessionsSpec

-----------------------------------------------------------------------------
(* The three parts side by side. *)

PartsInv == part \in Parts /\ IInv /\ AccountsInv /\ SessionsInv

\* Whichever part moves keeps its own invariant, and the others stand still: what a
\* sign-in touches (codes, accounts, sessions) always has its types.
THEOREM SignInTyped == MCSpec => []MCTypeOK
<1>1. MCInit => PartsInv
    BY InitIInv, InitAccountsInv, InitSessionsInv DEF MCInit, PartsInv
<1>2. PartsInv /\ [MCNext]_MCvars => PartsInv'
  <2> SUFFICES ASSUME PartsInv, [MCNext]_MCvars PROVE PartsInv'
        OBVIOUS
  <2>1. [Next]_vars /\ [AccountsNext]_accountsVars /\ [SessionsNext]_sessionVars
        BY DEF MCNext, MCvars
  <2>2. part' = part
        BY DEF MCNext, MCvars
  <2> QED
        BY <2>1, <2>2, NextIInv, NextAccountsInv, NextSessionsInv DEF PartsInv
<1>3. PartsInv => MCTypeOK
    BY AccountsInvTyped, PartsAssumption DEF PartsInv, MCTypeOK, IInv, SessionsInv
<1> QED
    BY <1>1, <1>2, <1>3, PTL DEF MCSpec
=============================================================================
