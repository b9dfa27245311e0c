---------------------------- MODULE CommsReplies ----------------------------
(***************************************************************************)
(* What riders text back (src/comms_replies.py, src/comms.py) and the echo   *)
(* of their consent in accounts.sms_opted_out_at.  Comms decides who may be  *)
(* texted, at once; the service polls for replies, and the poll claims what  *)
(* it returns: a reply in a process that dies is gone.  A refused send       *)
(* (src/api_auth.py) writes the same column, in a transaction of its own     *)
(* after comms has answered.                                                 *)
(*                                                                           *)
(* A reply is its position in the order of arrival.  Comms is external: it   *)
(* may hand a reply out a second time, which the code guards against.        *)
(***************************************************************************)
EXTENDS Naturals, Sequences, FiniteSets, SequencesExt

CONSTANTS
    Holders,       \* accounts
    Numbers,
    NoNumber,      \* not one of them
    PollLimit,     \* replies a poll asks for
    MaxReplies     \* bound

VARIABLES
    holder,        \* phone_number and sms_opted_out_at of each account
    replies,       \* what has been texted, and which of it is the second time
    inbox,         \* replies that comms has not handed out
    batch,         \* replies a poll was given and has not dealt with
    stored,        \* comms_replies
    toAck,         \* the reply that is stored and not acked
    noting,        \* numbers whose refused send is about to be noted
    astray         \* numbers whose echo the code knows it may have wrong

repliesVars == <<holder, replies, inbox, batch, stored, toAck, noting, astray>>

Ids == DOMAIN replies

RepliesInit ==
    /\ holder = [a \in Holders |-> [phone |-> NoNumber, optedOut |-> FALSE]]
    /\ replies = <<>>
    /\ inbox = <<>>
    /\ batch = <<>>
    /\ stored = {}
    /\ toAck = {}
    /\ noting = {}
    /\ astray = {}

-----------------------------------------------------------------------------
(* Comms.                                                                    *)

\* classify, and comms' own rule that it mirrors.
Consent == {"stop", "unstop"}

\* Comms blocks a number from its STOP to its UNSTOP.
Blocked(n) ==
    LET said == {i \in Ids : replies[i].from = n /\ replies[i].says \in Consent}
    IN \E i \in said : replies[i].says = "stop" /\ \A j \in said : j <= i

TextBack(n, says) ==
    /\ Len(replies) < MaxReplies
    /\ replies' = Append(replies, [from |-> n, says |-> says])
    /\ inbox' = Append(inbox, Len(replies) + 1)
    /\ UNCHANGED <<holder, batch, stored, toAck, noting, astray>>

\* "a redelivery we somehow see twice".
HandOutAgain(i) ==
    /\ inbox = <<>> /\ batch = <<>>
    /\ i \in stored
    /\ inbox' = <<i>>
    /\ UNCHANGED <<holder, replies, batch, stored, toAck, noting, astray>>

-----------------------------------------------------------------------------
(* poll_once, in a cron job that is never started twice.                     *)

\* poll_replies.
Poll ==
    /\ batch = <<>> /\ toAck = {} /\ inbox # <<>>
    /\ LET taken == IF Len(inbox) < PollLimit THEN Len(inbox) ELSE PollLimit IN
        /\ batch' = SubSeq(inbox, 1, taken)
        /\ inbox' = SubSeq(inbox, taken + 1, Len(inbox))
    /\ UNCHANGED <<holder, replies, stored, toAck, noting, astray>>

\* _record: the id is comms' own, and the primary key.
IsFresh(i) == i \notin stored

\* _apply_consent, on whoever has the number now.
Echoed(n, says) ==
    [a \in Holders |-> IF holder[a].phone = n /\ says \in Consent
                       THEN [holder[a] EXCEPT !.optedOut = (says = "stop")] ELSE holder[a]]

\* Its row and what it means, in one transaction.
StoreReply ==
    /\ batch # <<>> /\ toAck = {}
    /\ LET i == Head(batch) IN
        /\ IsFresh(i)
        /\ stored' = stored \cup {i}
        /\ toAck' = {i}
        /\ holder' = Echoed(replies[i].from, replies[i].says)
        /\ astray' = IF replies[i].says \in Consent THEN astray \ {replies[i].from} ELSE astray
    /\ batch' = Tail(batch)
    /\ UNCHANGED <<replies, inbox, noting>>

SkipDuplicate ==
    /\ batch # <<>> /\ toAck = {}
    /\ ~IsFresh(Head(batch))
    /\ batch' = Tail(batch)
    /\ UNCHANGED <<holder, replies, inbox, stored, toAck, noting, astray>>

\* The ack and handled_at, or only the log line that they failed.
AckReply ==
    /\ toAck # {}
    /\ toAck' = {}
    /\ UNCHANGED <<holder, replies, inbox, batch, stored, noting, astray>>

\* Numbers whose consent goes with these replies.
Unheard(ids) == {replies[i].from : i \in {j \in ids : IsFresh(j) /\ replies[j].says \in Consent}}

\* "Leaves no row at all, which is the worst case here".
StoreFails ==
    /\ batch # <<>> /\ toAck = {}
    /\ batch' = Tail(batch)
    /\ astray' = astray \cup Unheard({Head(batch)})
    /\ UNCHANGED <<holder, replies, inbox, stored, toAck, noting>>

PollDies ==
    /\ batch # <<>> \/ toAck # {}
    /\ batch' = <<>>
    /\ toAck' = {}
    /\ astray' = astray \cup Unheard(ToSet(batch))
    /\ UNCHANGED <<holder, replies, inbox, stored, noting>>

-----------------------------------------------------------------------------
(* The other writers of the row.                                             *)

\* send_sms raises OptedOut; nothing is held until _note_opt_out.
SendBlocked(n) ==
    /\ Blocked(n) /\ n \notin noting
    /\ noting' = noting \cup {n}
    /\ UNCHANGED <<holder, replies, inbox, batch, stored, toAck, astray>>

\* Late, it notes what is no longer so.
NoteOptOut(n) ==
    /\ n \in noting
    /\ noting' = noting \ {n}
    /\ holder' = Echoed(n, "stop")
    /\ astray' = IF Blocked(n) THEN astray \ {n} ELSE astray \cup {n}
    /\ UNCHANGED <<replies, inbox, batch, stored, toAck>>

\* Best effort.
NoteFails(n) ==
    /\ n \in noting
    /\ noting' = noting \ {n}
    /\ UNCHANGED <<holder, replies, inbox, batch, stored, toAck, astray>>

\* A number is typed, proved, released or taken out: the column stays as it was.
ChangeNumber(a, n) ==
    /\ n # holder[a].phone
    /\ n \in Numbers => \A b \in Holders : holder[b].phone # n
    /\ holder' = [holder EXCEPT ![a].phone = n]
    /\ astray' = IF n \in Numbers THEN astray \cup {n} ELSE astray
    /\ UNCHANGED <<replies, inbox, batch, stored, toAck, noting>>

RepliesNext ==
    \/ \E n \in Numbers, says \in Consent \cup {"other"} : TextBack(n, says)
    \/ \E i \in Ids : HandOutAgain(i)
    \/ Poll \/ StoreReply \/ SkipDuplicate \/ AckReply \/ StoreFails \/ PollDies
    \/ \E n \in Numbers : SendBlocked(n) \/ NoteOptOut(n) \/ NoteFails(n)
    \/ \E a \in Holders, n \in Numbers \cup {NoNumber} : ChangeNumber(a, n)

RepliesSpec == RepliesInit /\ [][RepliesNext]_repliesVars

-----------------------------------------------------------------------------
(* Properties.                                                               *)

RepliesTypeOK ==
    /\ holder \in [Holders -> [phone : Numbers \cup {NoNumber}, optedOut : BOOLEAN]]
    /\ replies \in Seq([from : Numbers, says : Consent \cup {"other"}])
    /\ inbox \in Seq(Ids) /\ batch \in Seq(Ids)
    /\ stored \subseteq Ids /\ toAck \subseteq stored
    /\ noting \subseteq Numbers /\ astray \subseteq Numbers

\* Replies of a number that are still to be heard.
Waiting(n) == {i \in ToSet(inbox) \cup ToSet(batch) : IsFresh(i) /\ replies[i].from = n}

\* Once what a number has texted is heard, its holder is shown as blocked exactly if comms
\* blocks it, in whatever batches the replies came and however refused sends are noted
\* beside them; unless a reply went with a dying process, a note came late, or the number
\* changed hands since (comms_replies: "the application being wrong about a person who told
\* us plainly").
EchoIsHonest ==
    \A a \in Holders :
        LET n == holder[a].phone IN
        n \in Numbers \ astray /\ Waiting(n) = {} => holder[a].optedOut = Blocked(n)
=============================================================================
