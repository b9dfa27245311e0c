--------------------------- MODULE DeviceFeatures ---------------------------
(***************************************************************************)
(* What riders say a scooter is equipped with (src/device_features.py,      *)
(* src/api_device_features.py): a log of reports, graded every ten minutes  *)
(* into one published answer per feature, and the catalog's seed.           *)
(*                                                                          *)
(* One vehicle that ingest has seen.  An answer to a feature is "poor" when *)
(* it is there in poor condition, and "unasked" when the reporter's client  *)
(* never put the question.  A vehicle's backlog is graded in one            *)
(* transaction under its device_state row's lock: a crash, or a second job, *)
(* leaves or finds the rows ungraded.                                       *)
(***************************************************************************)
EXTENDS Naturals, Sequences, FiniteSets

CONSTANTS
    Features,        \* FEATURE_KEYS
    ToConfirm,       \* CONFIRMATION_KEYS
    Catalogs,        \* what _CATALOG_STANDARD_FEATURES may say of a model
    AnswerSets,      \* the reports riders may send
    MaxFeatureReports  \* bound

Given == {"yes", "poor", "no"}
ReviewReports == 3                            \* REVIEW_CONSENSUS_REPORTS

VARIABLES
    log,         \* device_feature_reports, by id
    features,    \* the vehicle's columns of device_state
    standard     \* what the catalog says of the vehicle's model

featureVars == <<log, features, standard>>

Unasked   == [f \in Features |-> "unasked"]
ReportOf  == [at : 1 .. MaxFeatureReports + 1, says : AnswerSets, valid : BOOLEAN, processed : BOOLEAN]
Published == [status : {"needs_confirmation", "up_to_date", "needs_review"},
              stored : [Features -> Given \cup {"unasked"}], confirmed : BOOLEAN,
              since : 0 .. MaxFeatureReports + 1]

NothingKnown == [status |-> "needs_confirmation", stored |-> Unasked, confirmed |-> FALSE,
                 since |-> 0]

FeaturesInit ==
    /\ standard \in Catalogs
    /\ log = << >>
    /\ features = NothingKnown

-----------------------------------------------------------------------------
(* Answers.                                                                 *)

Asked(says)    == {f \in Features : says[f] # "unasked"}
Confirms(says) == ToConfirm \subseteq Asked(says)

\* answers_agree: a feature one side was not asked about drops out.
Agree(a, b) == \A f \in Asked(a) \cap Asked(b) : a[f] = b[f]

\* fill_abstentions.
Filled(stored, says) == [f \in Features |-> IF stored[f] = "unasked" THEN says[f] ELSE stored[f]]

\* consensus: the votes on one feature, by those who were asked; `votes` are reports' ids.
Vote(votes, f) ==
    LET asked == {i \in votes : f \in Asked(log[i].says)}
        Wins(S) == Cardinality({i \in asked : log[i].says[f] \in S}) >= Cardinality(asked) \div 2 + 1 IN
    IF asked = {} THEN "unasked"
    ELSE IF ~Wins({"yes", "poor"}) THEN "no"
    ELSE IF Wins({"poor"}) THEN "poor" ELSE "yes"

Consensus(votes) == [f \in Features |-> Vote(votes, f)]

-----------------------------------------------------------------------------
(* Grading: _process_vehicle.                                               *)

StatusOf(says, otherwise) == IF Confirms(says) THEN "up_to_date" ELSE otherwise

Publish(says, status) == [status |-> status, stored |-> says, confirmed |-> TRUE, since |-> 0]

Earlier(i, j) == log[i].at < log[j].at
Valid == {i \in DOMAIN log : log[i].valid}
Pending == {i \in Valid : ~log[i].processed}

\* _review_votes, oldest first as far as the LIMIT.
VotesUpTo(p, i) == {j \in Valid : log[j].at >= p.since /\ j <= i}
Oldest(votes)   == {j \in votes : Cardinality({k \in votes : Earlier(k, j)}) < ReviewReports}

\* The first report is authoritative for what it answers.
FirstReport(p, says) == Publish(says, StatusOf(says, p.status))

Reconfirmed(p, says) ==
    LET filled == Filled(p.stored, says) IN
    IF filled = p.stored THEN p ELSE Publish(filled, StatusOf(filled, p.status))

Reviewed(p, i) ==
    LET votes  == VotesUpTo(p, i)
        winner == Filled(Consensus(Oldest(votes)), p.stored) IN
    IF Cardinality(votes) < ReviewReports THEN p
    ELSE Publish(winner, StatusOf(winner, "needs_confirmation"))

GradeOne(p, i) ==
    LET says == log[i].says IN
    IF ~p.confirmed THEN FirstReport(p, says)
    ELSE IF p.status = "needs_review" THEN Reviewed(p, i)
    ELSE IF Agree(says, p.stored) THEN Reconfirmed(p, says)
    ELSE [p EXCEPT !.status = "needs_review", !.since = log[i].at]

-----------------------------------------------------------------------------
(* Steps.                                                                   *)

\* submit_device_feature_report and _insert_basket_report: `at` is the time its transaction
\* began, so that two that overlap may be numbered the other way round.  A repeat within
\* the dedupe window changes nothing; a wrong plate, without a scan that resolves, makes
\* the report invalid.
SubmitFeatures(says, at, valid) ==
    /\ Len(log) < MaxFeatureReports
    /\ at \in {Len(log) + 1, Len(log) + 2} \ {log[i].at : i \in DOMAIN log}
    /\ log' = Append(log, [at |-> at, says |-> says, valid |-> valid, processed |-> FALSE])
    /\ UNCHANGED <<features, standard>>

\* The pending reports, one after the other in the order of their times; no two have one.
Graded ==
    LET graded[t \in 0 .. MaxFeatureReports + 1] ==
            IF t = 0 THEN features
            ELSE IF \E i \in Pending : log[i].at = t
            THEN GradeOne(graded[t - 1], CHOOSE i \in Pending : log[i].at = t)
            ELSE graded[t - 1]
    IN graded

ProcessVehicle ==
    /\ Pending # {}
    /\ features' = Graded[MaxFeatureReports + 1]
    /\ log' = [i \in DOMAIN log |-> [log[i] EXCEPT !.processed = @ \/ i \in Pending]]
    /\ UNCHANGED standard

\* process_pending, at its end.
RetireInvalid ==
    /\ \E i \in DOMAIN log : ~log[i].valid /\ ~log[i].processed
    /\ log' = [i \in DOMAIN log |-> [log[i] EXCEPT !.processed = @ \/ ~log[i].valid]]
    /\ UNCHANGED <<features, standard>>

\* seed_catalog_features, in the cycle's transaction.
SeedCatalog ==
    /\ \E f \in standard : features.stored[f] = "unasked"
    /\ features' = [features EXCEPT
            !.stored = [f \in Features |-> IF f \in standard /\ @[f] = "unasked" THEN "yes" ELSE @[f]],
            !.confirmed = TRUE]
    /\ UNCHANGED <<log, standard>>

FeaturesNext ==
    \/ \E says \in AnswerSets, at \in 1 .. MaxFeatureReports + 1, valid \in BOOLEAN :
            SubmitFeatures(says, at, valid)
    \/ ProcessVehicle
    \/ RetireInvalid
    \/ SeedCatalog

FeaturesSpec == FeaturesInit /\ [][FeaturesNext]_featureVars

-----------------------------------------------------------------------------
(* Properties.                                                              *)

FeaturesTypeOK ==
    /\ log \in Seq(ReportOf)
    /\ features \in Published
    /\ standard \in Catalogs

\* What one job at a time, each with one report, would publish after the first n: the votes
\* of a review are the reports since the one that opened it, as they were graded.
OneByOne ==
    LET one[n \in 0 .. Len(log)] ==
            IF n = 0 THEN [published |-> NothingKnown, votes |-> {}]
            ELSE IF ~log[n].valid THEN one[n - 1]
            ELSE LET p      == one[n - 1].published
                     votes  == one[n - 1].votes \cup {n}
                     winner == Filled(Consensus(votes), p.stored)
                 IN IF p.status # "needs_review"
                    THEN [published |-> GradeOne(p, n), votes |-> {n}]
                    ELSE IF Cardinality(votes) < ReviewReports
                    THEN [published |-> p, votes |-> votes]
                    ELSE [published |-> Publish(winner, StatusOf(winner, "needs_confirmation")),
                          votes |-> {}]
    IN one

\* The published answers do not depend on how the jobs' firings cut the backlog
\* (_review_votes: "a different (and unreproducible) answer than the same five reports
\* arriving across five separate firings"): the reports are graded in their order, none is
\* passed over, and what is published is what they would give one by one.  For reports that
\* did not overlap, on a model the catalog knows nothing of.
BatchingDoesNotMatter ==
    (standard = {} /\ \A i \in DOMAIN log : log[i].at = i) =>
        \E n \in 0 .. Len(log) : /\ \A i \in Valid : log[i].processed <=> i <= n
                                 /\ features = OneByOne[n].published
=============================================================================
