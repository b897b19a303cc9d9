------------------------ MODULE StrategyReviewProofs ------------------------
(***************************************************************************)
(* Proofs about StrategyReview for any number of commands, artifacts,      *)
(* policies and cutoffs: published artifacts are never replaced, and a     *)
(* promotion rests on a chain of artifacts that are all still there.  And  *)
(* about ReviewAnalysis, for any tables: two reports of one cutoff are the *)
(* same report.                                                            *)
(***************************************************************************)
EXTENDS StrategyReview, ReviewAnalysis, FiniteSetTheorems, WellFoundedInduction, TLAPS

(***************************************************************************)
(* The shape of the state                                                   *)
(***************************************************************************)
Reports == [exp : Experiments, version : {Parent, Candidate},
            policy : Patches \cup {BasePolicy}, stage : Stages,
            gates : [Groups -> Results], decision : Ready \cup {"COLLECTING", "REJECTED"}]

Proposals == [policy : Patches, analysis : AnalysisIds, report : Reports]

Validations == [proposal : ProposalIds, content : Proposals]

Promotions == [validation : ValidationIds, content : Validations,
               analysis : AnalysisIds, report : Reports]

\* A command that is about to publish doc at key of one of the four directories.
Publishing(places, Keys, Docs) ==
    [at : places, key : Keys, doc : Docs, existed : BOOLEAN, linking : BOOLEAN]

Commands ==
    Publishing({"analyses"}, AnalysisIds, Reports)
      \cup Publishing({"candidate", "proposals"}, ProposalIds, Proposals)
      \cup Publishing({"validations"}, ValidationIds, Validations)
      \cup Publishing({"promotions"}, PromotionIds, Promotions)

\* The rows never pass the cutoff that bounds the analysis identities.
RowsOK ==
    /\ experiment \in [Experiments -> Rows \cup {NoFile}]
    /\ \A e \in Experiments : experiment[e] # NoFile => experiment[e].cutoff <= MaxCutoff[e]

FilesOK ==
    /\ analyses \in [AnalysisIds -> Reports \cup {NoFile}]
    /\ proposals \in [ProposalIds -> Proposals \cup {NoFile}]
    /\ validations \in [ValidationIds -> Validations \cup {NoFile}]
    /\ promotions \in [PromotionIds -> Promotions \cup {NoFile}]

TypeOK ==
    /\ RowsOK
    /\ FilesOK
    /\ published \subseteq {Parent, Candidate}
    /\ candidates \in Patches \cup {NoFile}
    /\ command \in [Callers -> Commands \cup {NoFile}]

(***************************************************************************)
(* The chain behind each kind of artifact, and the inductive invariant      *)
(***************************************************************************)
\* The stored report a document names is the one it carries.
ReportStored(reports, key, report) == report # NoFile /\ reports[key] = report

ProposalEarned(reports, d) ==
    /\ ReportStored(reports, d.analysis, d.report)
    /\ d.report.decision = "REJECTED" /\ d.report.policy = BasePolicy

ValidationEarned(reports, props, d) ==
    /\ d.content # NoFile /\ props[d.proposal] = d.content
    /\ ProposalEarned(reports, d.content)

PromotionEarned(reports, props, vals, rows, d) ==
    /\ d.content # NoFile /\ vals[d.validation] = d.content
    /\ ValidationEarned(reports, props, d.content)
    /\ ReportStored(reports, d.analysis, d.report)
    /\ d.report.exp = ShadowExp /\ rows[ShadowExp] # NoFile
    /\ d.report.policy = d.content.content.policy
    /\ rows[ShadowExp].policy = d.content.content.policy
    /\ \A g \in Required(d.report.stage) : d.report.gates[g] = "passed"

\* Only the candidate's experiment observes the candidate.
ParentRow ==
    experiment[ParentExp] # NoFile => experiment[ParentExp].version = Parent

\* Published artifacts have their chain ...
StoredEarned ==
    /\ \A k \in ProposalIds : proposals[k] # NoFile => ProposalEarned(analyses, proposals[k])
    /\ \A k \in ValidationIds : validations[k] # NoFile =>
          ValidationEarned(analyses, proposals, validations[k])
    /\ \A k \in PromotionIds : promotions[k] # NoFile =>
          PromotionEarned(analyses, proposals, validations, experiment, promotions[k])

\* ... and so has what a command holds between its checks and the link, however
\* many other commands publish, fail or clean up meanwhile.
HeldEarned ==
    \A c \in Callers :
        /\ At(c, "candidate") \/ At(c, "proposals") => ProposalEarned(analyses, command[c].doc)
        /\ At(c, "validations") => ValidationEarned(analyses, proposals, command[c].doc)
        /\ At(c, "promotions") =>
              PromotionEarned(analyses, proposals, validations, experiment, command[c].doc)

IInv == TypeOK /\ ParentRow /\ StoredEarned /\ HeldEarned

(***************************************************************************)
(* Lemmas about the operators                                               *)
(***************************************************************************)
\* A decision is one of the four a report can carry.
LEMMA DecisionType ==
  ASSUME NEW gates, NEW stage
  PROVE  Decision(gates, stage) \in Ready \cup {"COLLECTING", "REJECTED"}
BY DEF Decision, ReadyDecision, Ready

\* A cutoff the row has reached makes an analysis identity.
LEMMA AnalysisIdType ==
  ASSUME NEW review \in Reviews, NEW n \in 0 .. MaxCutoff[review[1]]
  PROVE  <<review, n>> \in AnalysisIds
<1>1. <<review, n>> \in {review} \X (0 .. MaxCutoff[review[1]])
  OBVIOUS
<1> QED
  BY <1>1 DEF AnalysisIds

\* What a command holds is determined by the directory it publishes in.
LEMMA HeldType ==
  ASSUME TypeOK, NEW c \in Callers, ~Idle(c)
  PROVE  /\ command[c] \in Commands
         /\ command[c].at = "analyses" =>
              command[c] \in Publishing({"analyses"}, AnalysisIds, Reports)
         /\ command[c].at \in {"candidate", "proposals"} =>
              command[c] \in Publishing({"candidate", "proposals"}, ProposalIds, Proposals)
         /\ command[c].at = "validations" =>
              command[c] \in Publishing({"validations"}, ValidationIds, Validations)
         /\ command[c].at = "promotions" =>
              command[c] \in Publishing({"promotions"}, PromotionIds, Promotions)
<1>1. command[c] \in Commands
  BY DEF TypeOK, Idle
<1> QED
  BY <1>1 DEF Commands, Publishing

\* A report read from a row has the type of a report.
LEMMA ReportType ==
  ASSUME TypeOK, NEW e \in Experiments, experiment[e] # NoFile, NEW stage \in Stages
  PROVE  Report(e, stage) \in Reports
<1>1. experiment[e] \in Rows
  BY DEF TypeOK, RowsOK
<1> QED
  BY <1>1, DecisionType DEF Report, Reports, Rows

(***************************************************************************)
(* Type correctness                                                         *)
(***************************************************************************)
LEMMA InitIInv == Init => IInv
<1> SUFFICES ASSUME Init PROVE IInv
  OBVIOUS
<1>1. PICK gates \in GateResults : experiment =
          [e \in Experiments |-> IF e = ShadowExp THEN NoFile ELSE
             [version |-> Parent, policy |-> BasePolicy, cutoff |-> 0, gates |-> gates]]
  BY DEF Init
<1>2. RowsOK /\ ParentRow
  BY <1>1, ReviewAssumption DEF RowsOK, ParentRow, Rows, Experiments
<1> QED
  BY <1>2 DEF Init, IInv, TypeOK, FilesOK, StoredEarned, HeldEarned, At, Idle

\* A command that publishes, is killed, or writes the snapshot keeps its type.
LEMMA TypeStep == TypeOK /\ [Next]_vars => TypeOK'
<1> SUFFICES ASSUME TypeOK, [Next]_vars PROVE TypeOK'
  OBVIOUS
<1>1. ASSUME NEW c \in Callers, Analyze(c) PROVE TypeOK'
  <2>1. PICK review \in Reviews :
          /\ experiment[review[1]] # NoFile
          /\ command' = [command EXCEPT ![c] =
                [at |-> "analyses", key |-> <<review, experiment[review[1]].cutoff>>,
                 doc |-> Report(review[1], review[2]), existed |-> FALSE, linking |-> FALSE]]
    BY <1>1 DEF Analyze
  <2>2. review[1] \in Experiments /\ review[2] \in Stages
    BY ReviewAssumption
  <2>3. <<review, experiment[review[1]].cutoff>> \in AnalysisIds
    BY <2>1, <2>2, AnalysisIdType, ReviewAssumption DEF TypeOK, RowsOK, Rows
  <2>4. command'[c] \in Publishing({"analyses"}, AnalysisIds, Reports)
    BY <2>1, <2>2, <2>3, ReportType DEF Publishing, TypeOK
  <2> QED
    BY <1>1, <2>1, <2>4 DEF Analyze, TypeOK, RowsOK, FilesOK, files, Commands
<1>2. ASSUME NEW c \in Callers, Propose(c) PROVE TypeOK'
  <2>1. PICK id \in ProposalIds, key \in AnalysisIds, p \in Patches :
          /\ analyses[key] # NoFile
          /\ command' = [command EXCEPT ![c] =
                [at |-> "candidate", key |-> id, existed |-> candidates # NoFile,
                 linking |-> FALSE,
                 doc |-> [policy |-> p, analysis |-> key, report |-> analyses[key]]]]
    BY <1>2 DEF Propose
  <2>2. command'[c] \in Publishing({"candidate", "proposals"}, ProposalIds, Proposals)
    BY <2>1 DEF Publishing, TypeOK, FilesOK, Proposals
  <2> QED
    BY <1>2, <2>1, <2>2 DEF Propose, TypeOK, RowsOK, FilesOK, files, Commands
<1>3. ASSUME NEW c \in Callers, WriteCandidate(c) PROVE TypeOK'
  <2>1. command[c] \in Publishing({"candidate", "proposals"}, ProposalIds, Proposals)
    BY <1>3, HeldType DEF WriteCandidate, At
  <2>2. [command[c] EXCEPT !.at = "proposals"]
          \in Publishing({"candidate", "proposals"}, ProposalIds, Proposals)
    BY <2>1 DEF Publishing
  <2>3. command' \in [Callers -> Commands \cup {NoFile}]
    BY <1>3, <2>2 DEF WriteCandidate, Goto, End, TypeOK, Commands
  <2>4. candidates' \in Patches \cup {NoFile}
    BY <1>3, <2>1 DEF WriteCandidate, TypeOK, Publishing, Proposals
  <2> QED
    BY <1>3, <2>3, <2>4 DEF WriteCandidate, TypeOK, RowsOK, FilesOK, files
<1>4. ASSUME NEW c \in Callers, Validate(c) PROVE TypeOK'
  <2>1. PICK id \in ValidationIds, pid \in ProposalIds :
          /\ proposals[pid] # NoFile
          /\ command' = [command EXCEPT ![c] =
                [at |-> "validations", key |-> id, existed |-> FALSE, linking |-> FALSE,
                 doc |-> [proposal |-> pid, content |-> proposals[pid]]]]
    BY <1>4 DEF Validate
  <2>2. command'[c] \in Publishing({"validations"}, ValidationIds, Validations)
    BY <2>1 DEF Publishing, TypeOK, FilesOK, Validations
  <2> QED
    BY <1>4, <2>1, <2>2 DEF Validate, TypeOK, RowsOK, FilesOK, files, Commands
<1>5. ASSUME NEW c \in Callers, Promote(c) PROVE TypeOK'
  <2>1. PICK id \in PromotionIds, vid \in ValidationIds, key \in AnalysisIds :
          /\ validations[vid] # NoFile /\ analyses[key] # NoFile
          /\ command' = [command EXCEPT ![c] =
                [at |-> "promotions", key |-> id, existed |-> FALSE, linking |-> FALSE,
                 doc |-> [validation |-> vid, content |-> validations[vid],
                          analysis |-> key, report |-> analyses[key]]]]
    BY <1>5 DEF Promote
  <2>2. command'[c] \in Publishing({"promotions"}, PromotionIds, Promotions)
    BY <2>1 DEF Publishing, TypeOK, FilesOK, Promotions
  <2> QED
    BY <1>5, <2>1, <2>2 DEF Promote, TypeOK, RowsOK, FilesOK, files, Commands
<1>6. ASSUME NEW c \in Callers, Publish(c) PROVE TypeOK'
  <2>1. /\ command[c] \in Commands
        /\ [command[c] EXCEPT !.linking = TRUE] \in Commands
    BY <1>6, HeldType DEF Publish, TestPath, Link, At, Commands, Publishing
  <2>2. ASSUME NEW place, NEW store, TestPath(c, place, store) PROVE TypeOK'
    <3>1. command' \in [Callers -> Commands \cup {NoFile}]
      BY <2>1, <2>2 DEF TestPath, End, TypeOK
    <3>2. candidates' \in Patches \cup {NoFile}
      BY <2>2 DEF TestPath, CleanUp, TypeOK
    <3> QED
      BY <2>2, <3>1, <3>2 DEF TestPath, TypeOK, RowsOK, FilesOK, files
  <2>3. CASE Link(c, "analyses", analyses) /\ UNCHANGED <<proposals, validations, promotions>>
    <3>1. command[c] \in Publishing({"analyses"}, AnalysisIds, Reports)
      BY <2>3, HeldType DEF Link, At
    <3> QED
      BY <2>3, <3>1 DEF Link, End, CleanUp, TypeOK, RowsOK, FilesOK, Publishing
  <2>4. CASE Link(c, "proposals", proposals) /\ UNCHANGED <<analyses, validations, promotions>>
    <3>1. command[c] \in Publishing({"candidate", "proposals"}, ProposalIds, Proposals)
      BY <2>4, HeldType DEF Link, At
    <3> QED
      BY <2>4, <3>1 DEF Link, End, CleanUp, TypeOK, RowsOK, FilesOK, Publishing
  <2>5. CASE Link(c, "validations", validations) /\ UNCHANGED <<analyses, proposals, promotions>>
    <3>1. command[c] \in Publishing({"validations"}, ValidationIds, Validations)
      BY <2>5, HeldType DEF Link, At
    <3> QED
      BY <2>5, <3>1 DEF Link, End, CleanUp, TypeOK, RowsOK, FilesOK, Publishing
  <2>6. CASE Link(c, "promotions", promotions) /\ UNCHANGED <<analyses, proposals, validations>>
    <3>1. command[c] \in Publishing({"promotions"}, PromotionIds, Promotions)
      BY <2>6, HeldType DEF Link, At
    <3> QED
      BY <2>6, <3>1 DEF Link, End, CleanUp, TypeOK, RowsOK, FilesOK, Publishing
  <2> QED
    BY <1>6, <2>2, <2>3, <2>4, <2>5, <2>6 DEF Publish
<1>7. ASSUME NEW c \in Callers, Kill(c) PROVE TypeOK'
  BY <1>7 DEF Kill, End, TypeOK, RowsOK, FilesOK, files
<1>8. ASSUME NEW e \in Experiments, Observe(e) PROVE TypeOK'
  <2>1. PICK gates \in GateResults : experiment' = [experiment EXCEPT
          ![e].cutoff = @ + 1, ![e].gates = gates]
    BY <1>8 DEF Observe
  <2>2. experiment[e] \in Rows /\ experiment[e].cutoff < MaxCutoff[e]
    BY <1>8 DEF Observe, TypeOK, RowsOK
  <2>3. /\ experiment' = [experiment EXCEPT ![e] = experiment'[e]]
        /\ experiment'[e] \in Rows /\ experiment'[e].cutoff <= MaxCutoff[e]
    <3> DEFINE row == [experiment[e] EXCEPT !.cutoff = @ + 1, !.gates = gates]
    <3>0. gates \in [Groups -> Results] /\ experiment[e].cutoff + 1 \in Nat
      BY <2>2, ReviewAssumption DEF Rows
    <3>1. row \in Rows /\ row.cutoff = experiment[e].cutoff + 1
      BY <2>2, <3>0 DEF Rows
    <3>2. experiment' = [experiment EXCEPT ![e] = row]
      BY <2>1 DEF TypeOK, RowsOK
    <3>3. row.cutoff <= MaxCutoff[e]
      BY <2>2, <3>1, ReviewAssumption DEF Rows
    <3> QED
      BY <3>1, <3>2, <3>3 DEF TypeOK, RowsOK
  <2>4. RowsOK'
    BY <2>3 DEF RowsOK, TypeOK
  <2> QED
    BY <1>8, <2>4 DEF Observe, TypeOK, FilesOK, files
<1>9. ASSUME NEW e \in Experiments, OutcomeSettles(e) PROVE TypeOK'
  <2>1. PICK gates \in GateResults : experiment' = [experiment EXCEPT ![e].gates = gates]
    BY <1>9 DEF OutcomeSettles
  <2>2. experiment[e] \in Rows
    BY <1>9 DEF OutcomeSettles, TypeOK, RowsOK
  <2>3. /\ experiment'[e] \in Rows /\ experiment'[e].cutoff = experiment[e].cutoff
        /\ experiment' = [experiment EXCEPT ![e] = experiment'[e]]
    BY <2>1, <2>2, ReviewAssumption DEF Rows, TypeOK, RowsOK
  <2>4. RowsOK'
    BY <1>9, <2>3 DEF RowsOK, TypeOK, OutcomeSettles
  <2> QED
    BY <1>9, <2>4 DEF OutcomeSettles, TypeOK, FilesOK, files
<1>10. CASE StartShadow
  <2>1. PICK gates \in GateResults : experiment' = [experiment EXCEPT ![ShadowExp] =
          [version |-> Candidate, policy |-> candidates, cutoff |-> 0, gates |-> gates]]
    BY <1>10 DEF StartShadow
  <2>2. candidates \in Patches
    BY <1>10 DEF StartShadow, TypeOK
  <2>3. RowsOK'
    BY <2>1, <2>2, ReviewAssumption DEF RowsOK, TypeOK, Rows, Experiments
  <2> QED
    BY <1>10, <2>3 DEF StartShadow, TypeOK, FilesOK, files
<1>11. CASE PublishVersion
  BY <1>11 DEF PublishVersion, TypeOK, RowsOK, FilesOK, files
<1>12. CASE UNCHANGED vars
  BY <1>12 DEF vars, files, TypeOK, RowsOK, FilesOK
<1> QED
  BY <1>1, <1>2, <1>3, <1>4, <1>5, <1>6, <1>7, <1>8, <1>9, <1>10, <1>11, <1>12 DEF Next

(***************************************************************************)
(* Artifacts are immutable                                                  *)
(***************************************************************************)
\* No file is written but by a link, to a path that holds nothing.
LEMMA UntouchedStep ==
  ASSUME TypeOK, [Next]_vars
  PROVE  /\ Untouched(analyses, AnalysisIds) /\ Untouched(proposals, ProposalIds)
         /\ Untouched(validations, ValidationIds) /\ Untouched(promotions, PromotionIds)
<1>1. CASE UNCHANGED files
  BY <1>1 DEF files, Untouched
<1>2. ASSUME NEW c \in Callers, Publish(c)
      PROVE  \/ UNCHANGED files
             \/ Link(c, "analyses", analyses) /\ UNCHANGED <<proposals, validations, promotions>>
             \/ Link(c, "proposals", proposals) /\ UNCHANGED <<analyses, validations, promotions>>
             \/ Link(c, "validations", validations) /\ UNCHANGED <<analyses, proposals, promotions>>
             \/ Link(c, "promotions", promotions) /\ UNCHANGED <<analyses, proposals, validations>>
  BY <1>2 DEF Publish, TestPath
<1>3. ASSUME NEW c \in Callers, Link(c, "analyses", analyses),
             UNCHANGED <<proposals, validations, promotions>>
      PROVE  Untouched(analyses, AnalysisIds) /\ UNCHANGED <<proposals, validations, promotions>>
  BY <1>3 DEF Link, Published, Untouched, TypeOK, FilesOK
<1>4. ASSUME NEW c \in Callers, Link(c, "proposals", proposals),
             UNCHANGED <<analyses, validations, promotions>>
      PROVE  Untouched(proposals, ProposalIds) /\ UNCHANGED <<analyses, validations, promotions>>
  BY <1>4 DEF Link, Published, Untouched, TypeOK, FilesOK
<1>5. ASSUME NEW c \in Callers, Link(c, "validations", validations),
             UNCHANGED <<analyses, proposals, promotions>>
      PROVE  Untouched(validations, ValidationIds) /\ UNCHANGED <<analyses, proposals, promotions>>
  BY <1>5 DEF Link, Published, Untouched, TypeOK, FilesOK
<1>6. ASSUME NEW c \in Callers, Link(c, "promotions", promotions),
             UNCHANGED <<analyses, proposals, validations>>
      PROVE  Untouched(promotions, PromotionIds) /\ UNCHANGED <<analyses, proposals, validations>>
  BY <1>6 DEF Link, Published, Untouched, TypeOK, FilesOK
<1>7. CASE \E c \in Callers : Publish(c)
  BY <1>1, <1>2, <1>3, <1>4, <1>5, <1>6, <1>7 DEF Untouched
<1>8. CASE ~\E c \in Callers : Publish(c)
  <2>1. UNCHANGED files
    BY <1>8 DEF Next, Analyze, Propose, WriteCandidate, Validate, Promote, Kill, Observe,
       OutcomeSettles, StartShadow, PublishVersion, vars
  <2> QED
    BY <1>1, <2>1
<1> QED
  BY <1>7, <1>8

\* The policy an experiment observes never changes, and the parent's experiment
\* never observes another version.
LEMMA RowStep ==
  ASSUME TypeOK, ParentRow, [Next]_vars
  PROVE  /\ ParentRow'
         /\ experiment[ShadowExp] # NoFile =>
              /\ experiment'[ShadowExp] # NoFile
              /\ experiment'[ShadowExp].policy = experiment[ShadowExp].policy
<1>1. CASE UNCHANGED experiment
  BY <1>1 DEF ParentRow
<1>2. ASSUME NEW e \in Experiments, Observe(e) \/ OutcomeSettles(e)
      PROVE  /\ experiment' = [experiment EXCEPT ![e] = experiment'[e]]
             /\ experiment[e] # NoFile /\ experiment'[e] # NoFile
             /\ experiment'[e].version = experiment[e].version
             /\ experiment'[e].policy = experiment[e].policy
  <2>1. experiment[e] \in Rows
    BY <1>2 DEF Observe, OutcomeSettles, TypeOK, RowsOK
  <2>2. CASE Observe(e)
    <3>1. PICK gates \in GateResults : experiment' = [experiment EXCEPT
            ![e].cutoff = @ + 1, ![e].gates = gates]
      BY <2>2 DEF Observe
    <3> DEFINE row == [experiment[e] EXCEPT !.cutoff = @ + 1, !.gates = gates]
    <3>2. /\ gates \in [Groups -> Results] /\ experiment[e].cutoff + 1 \in Nat
      BY <2>1, ReviewAssumption DEF Rows
    <3>3. row \in Rows /\ row.version = experiment[e].version /\ row.policy = experiment[e].policy
      BY <2>1, <3>2 DEF Rows
    <3>4. experiment' = [experiment EXCEPT ![e] = row]
      BY <3>1 DEF TypeOK, RowsOK
    <3> HIDE DEF row
    <3> QED
      BY <2>1, <3>3, <3>4, ReviewAssumption DEF TypeOK, RowsOK
  <2>3. CASE OutcomeSettles(e)
    <3>1. PICK gates \in GateResults : experiment' = [experiment EXCEPT ![e].gates = gates]
      BY <2>3 DEF OutcomeSettles
    <3> DEFINE row == [experiment[e] EXCEPT !.gates = gates]
    <3>2. row \in Rows /\ row.version = experiment[e].version /\ row.policy = experiment[e].policy
      BY <2>1, ReviewAssumption DEF Rows
    <3>3. experiment' = [experiment EXCEPT ![e] = row]
      BY <3>1 DEF TypeOK, RowsOK
    <3> HIDE DEF row
    <3> QED
      BY <2>1, <3>2, <3>3, ReviewAssumption DEF TypeOK, RowsOK
  <2> QED
    BY <1>2, <2>2, <2>3
<1>3. CASE \E e \in Experiments : Observe(e) \/ OutcomeSettles(e)
  <2>1. PICK e \in Experiments : Observe(e) \/ OutcomeSettles(e)
    BY <1>3
  <2> QED
    BY <2>1, <1>2, ReviewAssumption DEF ParentRow, TypeOK, RowsOK, Experiments
<1>4. CASE StartShadow
  BY <1>4, ReviewAssumption DEF StartShadow, ParentRow, TypeOK, RowsOK, Experiments
<1>5. CASE ~(\E e \in Experiments : Observe(e) \/ OutcomeSettles(e)) /\ ~StartShadow
  <2>1. UNCHANGED experiment
    BY <1>5 DEF Next, Analyze, Propose, WriteCandidate, Validate, Promote, Publish, TestPath,
       Link, Kill, PublishVersion, vars
  <2> QED
    BY <1>1, <2>1
<1> QED
  BY <1>3, <1>4, <1>5

(***************************************************************************)
(* A promotion is earned                                                    *)
(***************************************************************************)
\* A chain that stands keeps standing: the artifacts it names are there, so no
\* step changes them, and the row of the candidate keeps its policy.
LEMMA ChainStep ==
  ASSUME TypeOK, ParentRow, [Next]_vars
  PROVE  /\ \A d \in Proposals :
              ProposalEarned(analyses, d) => ProposalEarned(analyses', d)
         /\ \A d \in Validations : ValidationEarned(analyses, proposals, d) =>
              ValidationEarned(analyses', proposals', d)
         /\ \A d \in Promotions :
              PromotionEarned(analyses, proposals, validations, experiment, d) =>
                PromotionEarned(analyses', proposals', validations', experiment', d)
<1>1. \A d \in Proposals : ProposalEarned(analyses, d) => ProposalEarned(analyses', d)
  BY UntouchedStep DEF Untouched, ProposalEarned, ReportStored, Proposals
<1>2. \A d \in Validations : ValidationEarned(analyses, proposals, d) =>
        ValidationEarned(analyses', proposals', d)
  BY <1>1, UntouchedStep DEF Untouched, ValidationEarned, Validations
<1>3. \A d \in Promotions :
        PromotionEarned(analyses, proposals, validations, experiment, d) =>
          PromotionEarned(analyses', proposals', validations', experiment', d)
  BY <1>2, UntouchedStep, RowStep DEF Untouched, PromotionEarned, ReportStored, Promotions
<1> QED
  BY <1>1, <1>2, <1>3

\* What propose_candidate, validate and prepare_paper_promotion check is the
\* chain of the document they go on with.
LEMMA CommandsCheck ==
  ASSUME IInv, NEW c \in Callers
  PROVE  /\ Propose(c) => /\ command'[c].at = "candidate"
                          /\ ProposalEarned(analyses, command'[c].doc)
         /\ Validate(c) => /\ command'[c].at = "validations"
                           /\ ValidationEarned(analyses, proposals, command'[c].doc)
         /\ Promote(c) => /\ command'[c].at = "promotions"
                          /\ PromotionEarned(analyses, proposals, validations, experiment,
                                             command'[c].doc)
<1>1. ASSUME Propose(c)
      PROVE  command'[c].at = "candidate" /\ ProposalEarned(analyses, command'[c].doc)
  BY <1>1 DEF Propose, ProposalEarned, ReportStored, IInv, TypeOK
<1>2. ASSUME Validate(c)
      PROVE  /\ command'[c].at = "validations"
             /\ ValidationEarned(analyses, proposals, command'[c].doc)
  <2>1. PICK id \in ValidationIds, pid \in ProposalIds :
          /\ proposals[pid] # NoFile
          /\ command' = [command EXCEPT ![c] =
                [at |-> "validations", key |-> id, existed |-> FALSE, linking |-> FALSE,
                 doc |-> [proposal |-> pid, content |-> proposals[pid]]]]
    BY <1>2 DEF Validate
  <2> QED
    BY <2>1 DEF ValidationEarned, IInv, TypeOK, StoredEarned
<1>3. ASSUME Promote(c)
      PROVE  /\ command'[c].at = "promotions"
             /\ PromotionEarned(analyses, proposals, validations, experiment, command'[c].doc)
  <2>1. PICK id \in PromotionIds, vid \in ValidationIds, key \in AnalysisIds :
          /\ validations[vid] # NoFile /\ analyses[key] # NoFile
          /\ \A g \in Required(analyses[key].stage) : analyses[key].gates[g] = "passed"
          /\ analyses[key].version = Candidate
          /\ analyses[key].policy = validations[vid].content.policy
          /\ SameExperiment(analyses[key])
          /\ command' = [command EXCEPT ![c] =
                [at |-> "promotions", key |-> id, existed |-> FALSE, linking |-> FALSE,
                 doc |-> [validation |-> vid, content |-> validations[vid],
                          analysis |-> key, report |-> analyses[key]]]]
    BY <1>3 DEF Promote
  <2>2. analyses[key].exp = ShadowExp /\ experiment[ShadowExp] # NoFile
    BY <2>1, ReviewAssumption DEF SameExperiment, IInv, TypeOK, FilesOK, Reports, ParentRow,
       Experiments
  <2>3. experiment[ShadowExp].policy = validations[vid].content.policy
    BY <2>1, <2>2 DEF SameExperiment
  <2>4. ValidationEarned(analyses, proposals, validations[vid])
    BY <2>1 DEF IInv, StoredEarned
  <2> QED
    BY <2>1, <2>2, <2>3, <2>4 DEF PromotionEarned, ReportStored, IInv, TypeOK
<1> QED
  BY <1>1, <1>2, <1>3

\* A document that a command holds after a step is one it held before, at the
\* same directory or the one before it, or one whose chain it has just checked.
LEMMA HeldStep ==
  ASSUME IInv, [Next]_vars, NEW c \in Callers, command'[c] # NoFile
  PROVE  \/ command'[c].at = "analyses"
         \/ Propose(c) \/ Validate(c) \/ Promote(c)
         \/ /\ ~Idle(c) /\ command'[c].doc = command[c].doc
            /\ \/ command'[c].at = command[c].at
               \/ command[c].at = "candidate" /\ command'[c].at = "proposals"
<1>0. command \in [Callers -> Commands \cup {NoFile}]
  BY DEF IInv, TypeOK
<1>1. CASE command'[c] = command[c]
  BY <1>1 DEF Idle
<1>2. ASSUME NEW d \in Callers, d # c, Publish(d) PROVE command'[c] = command[c]
  BY <1>0, <1>2 DEF Publish, TestPath, Link, End
<1>3. ASSUME NEW d \in Callers, d # c,
             \/ Analyze(d) \/ Propose(d) \/ WriteCandidate(d) \/ Validate(d)
             \/ Promote(d) \/ Kill(d)
      PROVE  command'[c] = command[c]
  BY <1>0, <1>3 DEF Analyze, Propose, WriteCandidate, Validate, Promote, Kill, Goto, End
<1>4. CASE Analyze(c)
  BY <1>0, <1>4 DEF Analyze
<1>5. CASE WriteCandidate(c)
  <2>1. command[c] \in Commands /\ ~Idle(c) /\ command[c].at = "candidate"
    BY <1>0, <1>5 DEF WriteCandidate, At, Idle
  <2>2. command' = [command EXCEPT ![c].at = "proposals"]
    BY <1>0, <1>5 DEF WriteCandidate, Goto, End
  <2> QED
    BY <1>0, <2>1, <2>2 DEF Commands, Publishing
<1>6. CASE Publish(c)
  <2>1. command[c] \in Commands /\ ~Idle(c)
    BY <1>0, <1>6 DEF Publish, TestPath, Link, At, Idle
  <2>2. command' = [command EXCEPT ![c].linking = TRUE]
    BY <1>0, <1>6 DEF Publish, TestPath, Link, End
  <2> QED
    BY <1>0, <2>1, <2>2 DEF Commands, Publishing
<1>7. CASE Kill(c)
  BY <1>0, <1>7 DEF Kill, End
<1>8. CASE \E e \in Experiments : Observe(e) \/ OutcomeSettles(e)
  BY <1>1, <1>8 DEF Observe, OutcomeSettles
<1>9. CASE StartShadow \/ PublishVersion \/ UNCHANGED vars
  BY <1>1, <1>9 DEF StartShadow, PublishVersion, vars
<1> QED
  BY <1>1, <1>2, <1>3, <1>4, <1>5, <1>6, <1>7, <1>8, <1>9 DEF Next

\* A file that is there after a step was there before, or is the document of a
\* command that linked it.
LEMMA StoredStep ==
  ASSUME TypeOK, [Next]_vars
  PROVE  /\ \A k \in ProposalIds : proposals'[k] # proposals[k] =>
              \E c \in Callers : At(c, "proposals") /\ proposals'[k] = command[c].doc
         /\ \A k \in ValidationIds : validations'[k] # validations[k] =>
              \E c \in Callers : At(c, "validations") /\ validations'[k] = command[c].doc
         /\ \A k \in PromotionIds : promotions'[k] # promotions[k] =>
              \E c \in Callers : At(c, "promotions") /\ promotions'[k] = command[c].doc
<1>1. ASSUME NEW c \in Callers, Publish(c)
      PROVE  /\ \A k \in ProposalIds : proposals'[k] # proposals[k] =>
                  At(c, "proposals") /\ proposals'[k] = command[c].doc
             /\ \A k \in ValidationIds : validations'[k] # validations[k] =>
                  At(c, "validations") /\ validations'[k] = command[c].doc
             /\ \A k \in PromotionIds : promotions'[k] # promotions[k] =>
                  At(c, "promotions") /\ promotions'[k] = command[c].doc
  BY <1>1 DEF Publish, TestPath, Link, files, TypeOK, FilesOK
<1>2. CASE ~\E c \in Callers : Publish(c)
  BY <1>2 DEF Next, Analyze, Propose, WriteCandidate, Validate, Promote, Kill, Observe,
     OutcomeSettles, StartShadow, PublishVersion, vars, files
<1> QED
  BY <1>1, <1>2

\* The chains of the stored and of the held documents survive every step.
LEMMA EarnedStep == IInv /\ [Next]_vars => IInv'
<1> SUFFICES ASSUME IInv, [Next]_vars PROVE IInv'
  OBVIOUS
<1>1. TypeOK /\ ParentRow
  BY DEF IInv
<1>2. TypeOK' /\ ParentRow'
  BY <1>1, TypeStep, RowStep
<1>3. HeldEarned'
  <2> SUFFICES ASSUME NEW c \in Callers, command'[c] # NoFile
               PROVE  /\ command'[c].at \in {"candidate", "proposals"} =>
                            ProposalEarned(analyses', command'[c].doc)
                      /\ command'[c].at = "validations" =>
                            ValidationEarned(analyses', proposals', command'[c].doc)
                      /\ command'[c].at = "promotions" =>
                            PromotionEarned(analyses', proposals', validations', experiment',
                                            command'[c].doc)
    BY DEF HeldEarned, At, Idle
  <2>1. /\ command'[c].at \in {"candidate", "proposals"} => command'[c].doc \in Proposals
        /\ command'[c].at = "validations" => command'[c].doc \in Validations
        /\ command'[c].at = "promotions" => command'[c].doc \in Promotions
    BY <1>2 DEF TypeOK, Commands, Publishing
  <2>2. /\ command'[c].at \in {"candidate", "proposals"} =>
              ProposalEarned(analyses, command'[c].doc)
        /\ command'[c].at = "validations" =>
              ValidationEarned(analyses, proposals, command'[c].doc)
        /\ command'[c].at = "promotions" =>
              PromotionEarned(analyses, proposals, validations, experiment, command'[c].doc)
    BY HeldStep, CommandsCheck DEF IInv, HeldEarned, At
  <2> QED
    BY <1>1, <2>1, <2>2, ChainStep
<1>4. StoredEarned'
  <2>1. ASSUME NEW k \in ProposalIds, proposals'[k] # NoFile
        PROVE  ProposalEarned(analyses', proposals'[k])
    <3>1. ProposalEarned(analyses, proposals'[k])
      BY <1>1, <2>1, StoredStep DEF IInv, StoredEarned, HeldEarned
    <3> QED
      BY <1>1, <1>2, <2>1, <3>1, ChainStep DEF TypeOK, FilesOK
  <2>2. ASSUME NEW k \in ValidationIds, validations'[k] # NoFile
        PROVE  ValidationEarned(analyses', proposals', validations'[k])
    <3>1. ValidationEarned(analyses, proposals, validations'[k])
      BY <1>1, <2>2, StoredStep DEF IInv, StoredEarned, HeldEarned
    <3> QED
      BY <1>1, <1>2, <2>2, <3>1, ChainStep DEF TypeOK, FilesOK
  <2>3. ASSUME NEW k \in PromotionIds, promotions'[k] # NoFile
        PROVE  PromotionEarned(analyses', proposals', validations', experiment', promotions'[k])
    <3>1. PromotionEarned(analyses, proposals, validations, experiment, promotions'[k])
      BY <1>1, <2>3, StoredStep DEF IInv, StoredEarned, HeldEarned
    <3> QED
      BY <1>1, <1>2, <2>3, <3>1, ChainStep DEF TypeOK, FilesOK
  <2> QED
    BY <2>1, <2>2, <2>3 DEF StoredEarned
<1> QED
  BY <1>2, <1>3, <1>4 DEF IInv

\* _publish_json never replaces a file: no step changes a published report,
\* proposal, validation or promotion, for any number of racing commands.
THEOREM ArtifactsNeverChange == Spec => ArtifactsAreImmutable
<1>1. TypeOK /\ [Next]_vars =>
        [/\ Untouched(analyses, AnalysisIds) /\ Untouched(proposals, ProposalIds)
         /\ Untouched(validations, ValidationIds)
         /\ Untouched(promotions, PromotionIds)]_vars
  BY UntouchedStep
<1>2. Spec => []TypeOK
  <2>1. Init => TypeOK
    BY InitIInv DEF IInv
  <2> QED
    BY <2>1, TypeStep, PTL DEF Spec
<1> QED
  BY <1>1, <1>2, PTL DEF Spec, ArtifactsAreImmutable

\* A promotion prepare_paper_promotion has published rests on artifacts that are
\* all still what it saw, on a REJECTED report of the parent and on a ready one
\* of an experiment that observed exactly the promoted policy.
THEOREM PromotionsAreEarned == Spec => []PromotionIsEarned
<1>1. IInv => PromotionIsEarned
  BY DEF IInv, StoredEarned, PromotionIsEarned, PromotionEarned, ValidationEarned,
     ProposalEarned, ReportStored
<1> QED
  BY <1>1, InitIInv, EarnedStep, PTL DEF Spec

(***************************************************************************)
(* The analysis: the inductive invariant                                    *)
(***************************************************************************)
\* The tables, and the cycle that writes them.
TablesOK ==
    /\ now \in Nat
    /\ cycle = [id |-> cycle.id, at |-> cycle.at, asOf |-> cycle.asOf]
    /\ cycle.id \in Nat /\ cycle.asOf \in Nat /\ cycle.asOf <= now
    /\ cycle.at # "idle" => cycle.id \in Decisions
    /\ obs = [snapshots |-> obs.snapshots, outcomes |-> obs.outcomes,
              variants |-> obs.variants, contexts |-> obs.contexts]
    /\ paper = [decisions |-> paper.decisions, executions |-> paper.executions]

\* The next snapshots will be of this time.
Coming == IF cycle.at = "idle" THEN now ELSE cycle.asOf

\* Rows are of decisions and times before those that are still to come.
RowsArePast ==
    /\ \A s \in obs.snapshots : /\ s.time \in Nat /\ s.time < Coming
                                /\ s.decision \in Nat /\ s.decision < cycle.id
    /\ \A v \in obs.variants : v.snapshot[1] \in Nat /\ v.snapshot[1] < cycle.id
    /\ \A c \in obs.contexts : c.time \in Nat /\ c.time < Coming

\* The snapshots of a decision have one time, and decisions are made one after the other.
OneTime == \A s, t \in obs.snapshots : s.decision = t.decision => s.time = t.time

PaperIsPast ==
    /\ \A d \in paper.decisions : d.id \in Decisions /\ d.created \in Nat /\ d.created <= now
    /\ \A d, e \in paper.decisions : d.created = e.created => d = e
    /\ \A x \in paper.executions : x.at \in Nat /\ x.at <= now

\* What was written since the observation was read is later than all that was read.
ViewPrecedes ==
    /\ view.snapshots \subseteq obs.snapshots /\ view.outcomes \subseteq obs.outcomes
    /\ view.variants \subseteq obs.variants /\ view.contexts \subseteq obs.contexts
    /\ \A s \in view.snapshots :
         /\ \A t \in obs.snapshots \ view.snapshots : s.time < t.time
         /\ \A v \in obs.variants \ view.variants : s.decision < v.snapshot[1]
         /\ \A c \in obs.contexts \ view.contexts : s.time < c.time

\* The tables up to a cutoff, as the analyzer loads them.
SameLoaded(o, q, cutoff) ==
    /\ LoadSnapshots(o, cutoff) = LoadSnapshots(q, cutoff)
    /\ LoadSelectionVariants(o, cutoff) = LoadSelectionVariants(q, cutoff)
    /\ LoadMarketContexts(o, cutoff) = LoadMarketContexts(q, cutoff)

\* A filed report is made of what is loaded up to its cutoff now, outcomes that
\* were settled since excepted.
FiledHolds ==
    filed # None =>
        LET c == filed.cutoff
        IN  /\ filed = [cutoff |-> c, snapshots |-> LoadSnapshots(view, c),
                        outcomes |-> filed.outcomes,
                        variants |-> LoadSelectionVariants(view, c),
                        contexts |-> LoadMarketContexts(view, c),
                        decisions |-> FilterPaperDecisions(paper, c),
                        executions |-> LoadExecutions(paper, c)]
            /\ c # None /\ c.time \in Nat /\ c.time < Coming
            /\ c.completed \in Nat /\ c.completed <= now
            /\ SameLoaded(view, obs, c)
            /\ filed.outcomes \subseteq LoadOutcomes(view, c)

AnalysisInv ==
    TablesOK /\ RowsArePast /\ OneTime /\ PaperIsPast /\ ViewPrecedes /\ FiledHolds

LEMMA LeastNat ==
  ASSUME NEW T, T \subseteq Nat, T # {}
  PROVE  \E x \in T : \A y \in T : x <= y
<1>1. PICK x \in T : \A y \in T : ~ (<<y, x>> \in OpToRel(<, Nat))
  BY WFMin, NatLessThanWellFounded
<1>2. \A y \in T : ~(y < x)
  BY <1>1 DEF OpToRel
<1> QED
  BY <1>2

\* Nothing is written at first.
LEMMA AnalysisInitInv == AnalysisInit => AnalysisInv
BY DEF AnalysisInit, AnalysisInv, TablesOK, RowsArePast, OneTime, PaperIsPast, ViewPrecedes,
    FiledHolds, Empty, Coming

\* A row has the columns of its writer.
LEMMA StampedIs ==
  ASSUME NEW stamp, NEW row
  PROVE  \A k \in DOMAIN stamp : Stamped(stamp, row)[k] = stamp[k]
BY DEF Stamped

\* The cutoff is the time of a snapshot that was read, and of a decision that is saved.
LEMMA CutoffIs ==
  ASSUME AnalysisInv, SelectCutoff(view, paper) # None
  PROVE  LET c == SelectCutoff(view, paper)
         IN  /\ \E s \in view.snapshots : c.time = s.time
             /\ c.completed \in Nat /\ c.completed <= now
<1> DEFINE common == {d \in LoadDecisions(paper) : \E s \in view.snapshots : s.decision = d.id}
           Greatest(d) == \A e \in common : \/ e.created < d.created
                                            \/ e.created = d.created
                                               /\ HashRank[e.id] <= HashRank[d.id]
           latest == CHOOSE d \in common : Greatest(d)
           shots == {s \in view.snapshots : s.decision = latest.id}
           times == {s.time : s \in shots}
           c == SelectCutoff(view, paper)
<1>1. common # {} /\ c = [id |-> latest.id, completed |-> latest.created, time |-> Max(times)]
  BY DEF SelectCutoff
<1>2. \A d \in common : d \in paper.decisions
  BY DEF LoadDecisions
<1>3. \A d \in common : d.id \in Decisions /\ d.created \in Nat /\ d.created <= now
  BY <1>2 DEF AnalysisInv, PaperIsPast
<1>4. now \in Nat
  BY DEF AnalysisInv, TablesOK
<1>5. \E d \in common : Greatest(d)
  <2> DEFINE ages == {now - d.created : d \in common}
  <2>1. ages \subseteq Nat /\ ages # {}
    BY <1>1, <1>3, <1>4
  <2>2. PICK a \in ages : \A b \in ages : a <= b
    BY <2>1, LeastNat
  <2>3. PICK d \in common : a = now - d.created
    BY <2>2
  <2>4. \A e \in common : e.created <= d.created
    BY <1>3, <1>4, <2>2, <2>3
  <2>5. \A e \in common : e.created = d.created => e = d
    BY <1>2 DEF AnalysisInv, PaperIsPast
  <2>6. HashRank[d.id] <= HashRank[d.id]
    BY <1>3, AnalysisAssumption
  <2>7. Greatest(d)
    <3> SUFFICES ASSUME NEW e \in common, ~(e.created < d.created)
                 PROVE  e.created = d.created /\ HashRank[e.id] <= HashRank[d.id]
      OBVIOUS
    <3>1. e.created = d.created
      BY <1>3, <2>4
    <3> QED BY <2>5, <2>6, <3>1
  <2> QED BY <2>7
<1>6. latest \in common
  <2> HIDE DEF common, Greatest
  <2> QED BY <1>5
<1>7. PICK s \in view.snapshots : s.decision = latest.id
  BY <1>6
<1> HIDE DEF latest, common
<1>8. times = {s.time} /\ s.time \in Nat
  <2>1. \A t \in shots : t.time = s.time
    BY <1>7 DEF AnalysisInv, OneTime, ViewPrecedes
  <2>2. s.time \in Nat
    BY DEF AnalysisInv, ViewPrecedes, RowsArePast
  <2> QED BY <1>7, <2>1, <2>2
<1> HIDE DEF times
<1>9. Max(times) = s.time
  BY <1>8 DEF Max
<1> HIDE DEF c
<1> QED BY <1>1, <1>3, <1>6, <1>9 DEF c

(***************************************************************************)
(* The analysis: the steps                                                  *)
(***************************************************************************)
\* A filed report stays what is loaded, where nothing that comes up to its cutoff is
\* written or read.
LEMMA FiledStays ==
  ASSUME FiledHolds, filed' = filed,
         filed # None =>
           LET c == filed.cutoff
           IN  /\ SameLoaded(view', view, c) /\ SameLoaded(view', obs', c)
               /\ FilterPaperDecisions(paper', c) = FilterPaperDecisions(paper, c)
               /\ LoadExecutions(paper', c) = LoadExecutions(paper, c)
               /\ LoadOutcomes(view, c) \subseteq LoadOutcomes(view', c)
               /\ c.time < Coming' /\ c.completed <= now'
  PROVE  FiledHolds'
<1> SUFFICES ASSUME filed # None PROVE FiledHolds'
  BY DEF FiledHolds
<1> QED BY DEF FiledHolds, SameLoaded, LoadSnapshots, LoadSelectionVariants, LoadMarketContexts,
           FilterPaperDecisions, LoadDecisions, LoadExecutions, LoadOutcomes, Ids

\* A record of fields is known by what each holds.
LEMMA CycleExcept ==
  ASSUME TablesOK, NEW a, NEW t
  PROVE  /\ [cycle EXCEPT !.at = a, !.asOf = t] = [id |-> cycle.id, at |-> a, asOf |-> t]
         /\ [cycle EXCEPT !.at = a] = [id |-> cycle.id, at |-> a, asOf |-> cycle.asOf]
         /\ [cycle EXCEPT !.at = a, !.id = @ + 1]
              = [id |-> cycle.id + 1, at |-> a, asOf |-> cycle.asOf]
<1> DEFINE r == [id |-> cycle.id, at |-> cycle.at, asOf |-> cycle.asOf]
<1>1. cycle = r
  BY DEF TablesOK
<1>2. [r EXCEPT !.at = a, !.asOf = t] = [id |-> r.id, at |-> a, asOf |-> t]
  <2> DEFINE n == [r EXCEPT !.at = a, !.asOf = t]
  <2>1. n = [k \in {"id", "at", "asOf"} |-> n[k]]
    OBVIOUS
  <2>2. n.id = r.id /\ n.at = a /\ n.asOf = t
    OBVIOUS
  <2> HIDE DEF n
  <2>3. n = [id |-> r.id, at |-> a, asOf |-> t]
    BY <2>1, <2>2
  <2> QED BY <2>3 DEF n
<1>3. [r EXCEPT !.at = a] = [id |-> r.id, at |-> a, asOf |-> r.asOf]
  OBVIOUS
<1>4. [r EXCEPT !.at = a, !.id = @ + 1] = [id |-> r.id + 1, at |-> a, asOf |-> r.asOf]
  <2> DEFINE n == [r EXCEPT !.at = a, !.id = @ + 1]
  <2>1. n = [k \in {"id", "at", "asOf"} |-> n[k]]
    OBVIOUS
  <2>2. n.id = r.id + 1 /\ n.at = a /\ n.asOf = r.asOf
    OBVIOUS
  <2> HIDE DEF n
  <2>3. n = [id |-> r.id + 1, at |-> a, asOf |-> r.asOf]
    BY <2>1, <2>2
  <2> QED BY <2>3 DEF n
<1> HIDE DEF r
<1> QED BY <1>1, <1>2, <1>3, <1>4

\* A cycle that trades disturbs no report: its trades come after every cutoff.
LEMMA ExecuteKeeps ==
  ASSUME AnalysisInv, NEW trade \in Trades, Execute(trade)
  PROVE  AnalysisInv'
<1> DEFINE new == {Stamped([at |-> now + 1], x) : x \in trade}
<1>1. \A x \in new : x.at = now + 1
  <2> SUFFICES ASSUME NEW x \in trade PROVE Stamped([at |-> now + 1], x).at = now + 1
    OBVIOUS
  <2> QED BY StampedIs
<1> HIDE DEF new
<1>2. cycle' = [id |-> cycle.id, at |-> "executed", asOf |-> now]
  BY CycleExcept DEF Execute, AnalysisInv
<1>3. paper' = [decisions |-> paper.decisions, executions |-> paper.executions \cup new]
  BY DEF Execute, AnalysisInv, TablesOK, new
<1>4. /\ now \in Nat /\ now' = now + 1 /\ cycle.at = "idle" /\ cycle.id \in Decisions
      /\ obs' = obs /\ view' = view /\ filed' = filed
  BY DEF Execute, Advance, AnalysisInv, TablesOK
<1>5. TablesOK'
  BY <1>2, <1>3, <1>4 DEF AnalysisInv, TablesOK
<1>6. Coming' = Coming
  BY <1>2, <1>4 DEF Coming
<1>7. RowsArePast'
  BY <1>2, <1>4, <1>6 DEF AnalysisInv, RowsArePast
<1>8. OneTime' /\ ViewPrecedes'
  BY <1>4 DEF AnalysisInv, OneTime, ViewPrecedes
<1>9. PaperIsPast'
  BY <1>1, <1>3, <1>4 DEF AnalysisInv, PaperIsPast
<1>10. FiledHolds'
  <2> SUFFICES ASSUME filed # None PROVE FiledHolds'
    BY <1>4, FiledStays DEF AnalysisInv
  <2> DEFINE c == filed.cutoff
  <2>1. /\ SameLoaded(view, obs, c) /\ c.time \in Nat /\ c.time < Coming
        /\ c.completed \in Nat /\ c.completed <= now
    BY DEF AnalysisInv, FiledHolds
  <2> HIDE DEF c
  <2>2. SameLoaded(view', view, c) /\ SameLoaded(view', obs', c)
    BY <1>4, <2>1 DEF SameLoaded
  <2>3. FilterPaperDecisions(paper', c) = FilterPaperDecisions(paper, c)
    BY <1>3 DEF FilterPaperDecisions, LoadDecisions
  <2>4. LoadExecutions(paper', c) = LoadExecutions(paper, c)
    BY <1>1, <1>3, <1>4, <2>1 DEF LoadExecutions
  <2> QED BY <1>4, <1>6, <2>1, <2>2, <2>3, <2>4, FiledStays DEF AnalysisInv, c
<1> QED BY <1>5, <1>7, <1>8, <1>9, <1>10 DEF AnalysisInv

\* Nor does the decision it saves.
LEMMA SaveDecisionKeeps ==
  ASSUME AnalysisInv, NEW equity \in Equities, SaveDecision(equity)
  PROVE  AnalysisInv'
<1>1. PICK d : /\ d.id = cycle.id /\ d.created = now + 1
               /\ paper' = [decisions |-> paper.decisions \cup {d},
                            executions |-> paper.executions]
  <2> DEFINE d == [id |-> cycle.id, asOf |-> cycle.asOf, equity |-> equity,
                   status |-> IF \E x \in paper.executions : x.at > cycle.asOf
                              THEN "EXECUTED" ELSE "DRY_RUN",
                   created |-> now + 1]
  <2>1. paper' = [paper EXCEPT !.decisions = @ \cup {d}]
    BY DEF SaveDecision
  <2>2. d.id = cycle.id /\ d.created = now + 1
    OBVIOUS
  <2> HIDE DEF d
  <2> QED BY <2>1, <2>2 DEF AnalysisInv, TablesOK
<1>2. cycle' = [id |-> cycle.id, at |-> "decided", asOf |-> cycle.asOf]
  BY CycleExcept DEF SaveDecision, AnalysisInv
<1>4. /\ now \in Nat /\ now' = now + 1 /\ cycle.at = "executed" /\ cycle.id \in Decisions
      /\ obs' = obs /\ view' = view /\ filed' = filed
  BY DEF SaveDecision, Advance, AnalysisInv, TablesOK
<1>5. TablesOK'
  BY <1>1, <1>2, <1>4 DEF AnalysisInv, TablesOK
<1>6. Coming' = Coming
  BY <1>2, <1>4 DEF Coming
<1>7. RowsArePast'
  BY <1>2, <1>4, <1>6 DEF AnalysisInv, RowsArePast
<1>8. OneTime' /\ ViewPrecedes'
  BY <1>4 DEF AnalysisInv, OneTime, ViewPrecedes
<1>9. PaperIsPast'
  BY <1>1, <1>4 DEF AnalysisInv, PaperIsPast
<1>10. FiledHolds'
  <2> SUFFICES ASSUME filed # None PROVE FiledHolds'
    BY <1>4, FiledStays DEF AnalysisInv
  <2> DEFINE c == filed.cutoff
  <2>1. /\ SameLoaded(view, obs, c) /\ c.time \in Nat /\ c.time < Coming
        /\ c.completed \in Nat /\ c.completed <= now
    BY DEF AnalysisInv, FiledHolds
  <2> HIDE DEF c
  <2>2. SameLoaded(view', view, c) /\ SameLoaded(view', obs', c)
    BY <1>4, <2>1 DEF SameLoaded
  <2>3. FilterPaperDecisions(paper', c) = FilterPaperDecisions(paper, c)
    BY <1>1, <1>4, <2>1 DEF FilterPaperDecisions, LoadDecisions
  <2>4. LoadExecutions(paper', c) = LoadExecutions(paper, c)
    BY <1>1 DEF LoadExecutions
  <2> QED BY <1>4, <1>6, <2>1, <2>2, <2>3, <2>4, FiledStays DEF AnalysisInv, c
<1> QED BY <1>5, <1>7, <1>8, <1>9, <1>10 DEF AnalysisInv

\* The bundle of a cycle is of a later time and decision than all that was filed.
LEMMA SaveBundleKeeps ==
  ASSUME AnalysisInv, NEW cohort \in Cohorts, NEW context \in Contexts,
         SaveBundle(cohort, context)
  PROVE  AnalysisInv'
<1> DEFINE stamp == [decision |-> cycle.id, time |-> cycle.asOf]
           shots == {Stamped(stamp, s) : s \in cohort.rows}
           runs == {[snapshot |-> <<cycle.id, v.asset>>, variant |-> v.variant,
                     selected |-> v.selected] : v \in cohort.variants}
           met == {Stamped(stamp, context)}
<1>1. /\ \A s \in shots : s.decision = cycle.id /\ s.time = cycle.asOf
      /\ \A v \in runs : v.snapshot[1] = cycle.id
      /\ \A k \in met : k.time = cycle.asOf
  <2>1. \A row : /\ Stamped(stamp, row).decision = cycle.id
                 /\ Stamped(stamp, row).time = cycle.asOf
    <3> TAKE row
    <3>1. \A k \in DOMAIN stamp : Stamped(stamp, row)[k] = stamp[k]
      BY StampedIs
    <3> QED BY <3>1
  <2> QED BY <2>1
<1>2. obs' = [obs EXCEPT !.snapshots = @ \cup shots, !.variants = @ \cup runs,
                         !.contexts = @ \cup met]
  BY DEF SaveBundle
<1> HIDE DEF shots, runs, met
<1>3. obs' = [snapshots |-> obs.snapshots \cup shots, outcomes |-> obs.outcomes,
              variants |-> obs.variants \cup runs, contexts |-> obs.contexts \cup met]
  <2> DEFINE r == [snapshots |-> obs.snapshots, outcomes |-> obs.outcomes,
                   variants |-> obs.variants, contexts |-> obs.contexts]
  <2>1. obs = r
    BY DEF AnalysisInv, TablesOK
  <2> DEFINE n == [r EXCEPT !.snapshots = @ \cup shots, !.variants = @ \cup runs,
                           !.contexts = @ \cup met]
  <2>2. n = [k \in {"snapshots", "outcomes", "variants", "contexts"} |-> n[k]]
    OBVIOUS
  <2>3. /\ n.snapshots = r.snapshots \cup shots /\ n.outcomes = r.outcomes
        /\ n.variants = r.variants \cup runs /\ n.contexts = r.contexts \cup met
    OBVIOUS
  <2>4. obs' = n
    BY <1>2, <2>1
  <2> HIDE DEF n
  <2> HIDE DEF r
  <2> QED BY <2>1, <2>2, <2>3, <2>4
<1>4. /\ now \in Nat /\ now' = now + 1 /\ cycle.at = "decided" /\ cycle.id \in Nat
      /\ cycle.asOf \in Nat /\ cycle.asOf <= now
      /\ paper' = paper /\ view' = view /\ filed' = filed
  BY DEF SaveBundle, Advance, AnalysisInv, TablesOK
<1>5. cycle' = [id |-> cycle.id + 1, at |-> "idle", asOf |-> cycle.asOf]
  BY CycleExcept DEF SaveBundle, AnalysisInv
<1>6. TablesOK'
  BY <1>3, <1>4, <1>5 DEF AnalysisInv, TablesOK
<1>7. Coming = cycle.asOf /\ Coming' = now + 1 /\ cycle'.id = cycle.id + 1
  BY <1>4, <1>5 DEF Coming
<1>8. RowsArePast'
  BY <1>1, <1>3, <1>4, <1>7 DEF AnalysisInv, RowsArePast
<1>9. OneTime'
  <2>1. \A s \in obs.snapshots : s.decision \in Nat /\ s.decision < cycle.id
    BY DEF AnalysisInv, RowsArePast
  <2> QED BY <1>1, <1>3, <1>4, <2>1 DEF AnalysisInv, OneTime
<1>10. PaperIsPast'
  BY <1>4 DEF AnalysisInv, PaperIsPast
<1>11. ViewPrecedes'
  <2>1. \A s \in view.snapshots : /\ s.time \in Nat /\ s.time < cycle.asOf
                                  /\ s.decision \in Nat /\ s.decision < cycle.id
    BY <1>7 DEF AnalysisInv, RowsArePast, ViewPrecedes
  <2> QED BY <1>1, <1>3, <1>4, <2>1 DEF AnalysisInv, ViewPrecedes
<1>12. FiledHolds'
  <2> SUFFICES ASSUME filed # None PROVE FiledHolds'
    BY <1>4, FiledStays DEF AnalysisInv
  <2> DEFINE c == filed.cutoff
  <2>1. /\ SameLoaded(view, obs, c) /\ c.time \in Nat /\ c.time < cycle.asOf
        /\ c.completed \in Nat /\ c.completed <= now
    BY <1>7 DEF AnalysisInv, FiledHolds
  <2> HIDE DEF c
  <2>2. LoadSnapshots(obs', c) = LoadSnapshots(obs, c)
    BY <1>1, <1>3, <1>4, <2>1 DEF LoadSnapshots
  <2>3. LoadMarketContexts(obs', c) = LoadMarketContexts(obs, c)
    BY <1>1, <1>3, <1>4, <2>1 DEF LoadMarketContexts
  <2>4. LoadSelectionVariants(obs', c) = LoadSelectionVariants(obs, c)
    <3>1. \A k \in Ids(LoadSnapshots(obs, c)) : k[1] \in Nat /\ k[1] < cycle.id
      BY DEF Ids, Id, LoadSnapshots, AnalysisInv, RowsArePast
    <3>2. \A v \in runs : v.snapshot \notin Ids(LoadSnapshots(obs, c))
      BY <1>1, <1>4, <3>1
    <3> QED BY <1>3, <2>2, <3>2 DEF LoadSelectionVariants
  <2>5. SameLoaded(view', view, c) /\ SameLoaded(view', obs', c)
    BY <1>4, <2>1, <2>2, <2>3, <2>4 DEF SameLoaded
  <2> QED BY <1>4, <1>7, <2>1, <2>5, FiledStays DEF AnalysisInv, c
<1> QED BY <1>6, <1>8, <1>9, <1>10, <1>11, <1>12 DEF AnalysisInv

\* A cycle that dies leaves nothing but its number.
LEMMA CrashKeeps ==
  ASSUME AnalysisInv, Crash
  PROVE  AnalysisInv'
<1>1. /\ now \in Nat /\ cycle.at # "idle" /\ cycle.id \in Nat
      /\ cycle.asOf \in Nat /\ cycle.asOf <= now
      /\ now' = now /\ obs' = obs /\ paper' = paper /\ view' = view /\ filed' = filed
  BY DEF Crash, AnalysisInv, TablesOK
<1>2. cycle' = [id |-> cycle.id + 1, at |-> "idle", asOf |-> cycle.asOf]
  BY CycleExcept DEF Crash, AnalysisInv
<1>3. TablesOK'
  BY <1>1, <1>2 DEF AnalysisInv, TablesOK
<1>4. Coming = cycle.asOf /\ Coming' = now /\ cycle'.id = cycle.id + 1
  BY <1>1, <1>2 DEF Coming
<1>5. RowsArePast'
  BY <1>1, <1>4 DEF AnalysisInv, RowsArePast
<1>6. OneTime' /\ PaperIsPast' /\ ViewPrecedes'
  BY <1>1 DEF AnalysisInv, OneTime, PaperIsPast, ViewPrecedes
<1>7. FiledHolds'
  <2> SUFFICES ASSUME filed # None PROVE FiledHolds'
    BY <1>1, FiledStays DEF AnalysisInv
  <2> DEFINE c == filed.cutoff
  <2>1. /\ SameLoaded(view, obs, c) /\ c.time \in Nat /\ c.time < Coming
        /\ c.completed \in Nat /\ c.completed <= now
    BY DEF AnalysisInv, FiledHolds
  <2> HIDE DEF c
  <2>2. SameLoaded(view', view, c) /\ SameLoaded(view', obs', c)
    BY <1>1, <2>1 DEF SameLoaded
  <2> QED BY <1>1, <1>4, <2>1, <2>2, FiledStays DEF AnalysisInv, c
<1> QED BY <1>3, <1>5, <1>6, <1>7 DEF AnalysisInv

\* An evaluation writes nothing but outcomes.
LEMMA SettleKeeps ==
  ASSUME AnalysisInv, NEW d, NEW h, NEW e, NEW settlement, Settle(d, h, e, settlement)
  PROVE  AnalysisInv'
<1>1. PICK more : obs' = [obs EXCEPT !.outcomes = @ \cup more]
  BY Zenon DEF Settle
<1>2. obs' = [snapshots |-> obs.snapshots, outcomes |-> obs.outcomes \cup more,
              variants |-> obs.variants, contexts |-> obs.contexts]
  BY <1>1 DEF AnalysisInv, TablesOK
<1>3. /\ now \in Nat /\ now' = now + 1 /\ cycle' = cycle
      /\ paper' = paper /\ view' = view /\ filed' = filed
  BY DEF Settle, Advance, AnalysisInv, TablesOK
<1>4. TablesOK'
  BY <1>2, <1>3 DEF AnalysisInv, TablesOK
<1>5. Coming \in Nat /\ Coming' \in Nat /\ Coming <= Coming'
  BY <1>3 DEF Coming, AnalysisInv, TablesOK
<1>6. RowsArePast'
  BY <1>2, <1>3, <1>5 DEF AnalysisInv, RowsArePast
<1>7. OneTime' /\ PaperIsPast' /\ ViewPrecedes'
  BY <1>2, <1>3 DEF AnalysisInv, OneTime, PaperIsPast, ViewPrecedes
<1>8. FiledHolds'
  <2> SUFFICES ASSUME filed # None PROVE FiledHolds'
    BY <1>3, FiledStays DEF AnalysisInv
  <2> DEFINE c == filed.cutoff
  <2>1. /\ SameLoaded(view, obs, c) /\ c.time \in Nat /\ c.time < Coming
        /\ c.completed \in Nat /\ c.completed <= now
    BY DEF AnalysisInv, FiledHolds
  <2> HIDE DEF c
  <2>2. SameLoaded(view', view, c) /\ SameLoaded(view', obs', c)
    BY <1>2, <1>3, <2>1
    DEF SameLoaded, LoadSnapshots, LoadSelectionVariants, LoadMarketContexts
  <2> QED BY <1>3, <1>5, <2>1, <2>2, FiledStays DEF AnalysisInv, c
<1> QED BY <1>4, <1>6, <1>7, <1>8 DEF AnalysisInv

\* What an analysis reads anew, up to the filed cutoff, it had read.
LEMMA ReadObservationKeeps ==
  ASSUME AnalysisInv, ReadObservation
  PROVE  AnalysisInv'
<1>1. /\ view' = obs
      /\ now' = now /\ cycle' = cycle /\ obs' = obs /\ paper' = paper /\ filed' = filed
  BY DEF ReadObservation
<1>2. TablesOK' /\ RowsArePast' /\ OneTime' /\ PaperIsPast'
  BY <1>1 DEF AnalysisInv, TablesOK, RowsArePast, OneTime, PaperIsPast, Coming
<1>3. ViewPrecedes'
  BY <1>1 DEF ViewPrecedes
<1>4. FiledHolds'
  <2> SUFFICES ASSUME filed # None PROVE FiledHolds'
    BY <1>1, FiledStays DEF AnalysisInv
  <2> DEFINE c == filed.cutoff
  <2>1. /\ SameLoaded(view, obs, c) /\ c.time \in Nat /\ c.time < Coming
        /\ c.completed \in Nat /\ c.completed <= now
    BY DEF AnalysisInv, FiledHolds
  <2> HIDE DEF c
  <2>2. SameLoaded(view', view, c) /\ SameLoaded(view', obs', c)
    BY <1>1, <2>1 DEF SameLoaded
  <2>3. LoadOutcomes(view, c) \subseteq LoadOutcomes(view', c)
    BY <1>1, <2>1 DEF SameLoaded, LoadOutcomes, AnalysisInv, ViewPrecedes
  <2>4. Coming' = Coming
    BY <1>1 DEF Coming
  <2> QED BY <1>1, <2>1, <2>2, <2>3, <2>4, FiledStays DEF AnalysisInv, c
<1> QED BY <1>2, <1>3, <1>4 DEF AnalysisInv

\* A report is filed of what both databases hold up to its cutoff.
LEMMA FileReportKeeps ==
  ASSUME AnalysisInv, FileReport
  PROVE  AnalysisInv'
<1>1. /\ now' = now /\ cycle' = cycle /\ obs' = obs /\ paper' = paper /\ view' = view
      /\ filed' = Evidence(view, paper) /\ SelectCutoff(view, paper) # None
  BY DEF FileReport
<1>2. TablesOK' /\ RowsArePast' /\ OneTime' /\ PaperIsPast' /\ ViewPrecedes'
  BY <1>1 DEF AnalysisInv, TablesOK, RowsArePast, OneTime, PaperIsPast, ViewPrecedes, Coming
<1> DEFINE c == SelectCutoff(view, paper)
<1>3. /\ \E s \in view.snapshots : c.time = s.time
      /\ c.completed \in Nat /\ c.completed <= now
  BY <1>1, CutoffIs
<1>4. filed' = [cutoff |-> c, snapshots |-> LoadSnapshots(view, c),
                outcomes |-> LoadOutcomes(view, c),
                variants |-> LoadSelectionVariants(view, c),
                contexts |-> LoadMarketContexts(view, c),
                decisions |-> FilterPaperDecisions(paper, c),
                executions |-> LoadExecutions(paper, c)]
  BY <1>1 DEF Evidence
<1>5. c # None
  BY <1>1
<1> HIDE DEF c
<1>6. PICK s \in view.snapshots : c.time = s.time
  BY <1>3
<1>7. s.time \in Nat /\ s.time < Coming
  BY DEF AnalysisInv, ViewPrecedes, RowsArePast
<1>8. LoadSnapshots(view, c) = LoadSnapshots(obs, c)
  <2>1. \A t \in obs.snapshots : t.time \in Nat
    BY DEF AnalysisInv, RowsArePast
  <2> QED BY <1>6, <1>7, <2>1 DEF LoadSnapshots, AnalysisInv, ViewPrecedes
<1>9. LoadMarketContexts(view, c) = LoadMarketContexts(obs, c)
  <2>1. \A t \in obs.contexts : t.time \in Nat
    BY DEF AnalysisInv, RowsArePast
  <2> QED BY <1>6, <1>7, <2>1 DEF LoadMarketContexts, AnalysisInv, ViewPrecedes
<1>10. LoadSelectionVariants(view, c) = LoadSelectionVariants(obs, c)
  <2>1. \A k \in Ids(LoadSnapshots(view, c)) : \E t \in view.snapshots :
          k[1] = t.decision /\ t.decision \in Nat
    BY DEF Ids, Id, LoadSnapshots, AnalysisInv, ViewPrecedes, RowsArePast
  <2>2. \A v \in obs.variants \ view.variants :
          /\ v.snapshot[1] \in Nat
          /\ \A t \in view.snapshots : t.decision < v.snapshot[1]
    BY DEF AnalysisInv, ViewPrecedes, RowsArePast
  <2>3. \A v \in obs.variants \ view.variants : v.snapshot \notin Ids(LoadSnapshots(view, c))
    BY <2>1, <2>2
  <2> QED BY <1>8, <2>3 DEF LoadSelectionVariants, AnalysisInv, ViewPrecedes
<1>11. FiledHolds'
  <2>1. SameLoaded(view, obs, c)
    BY <1>8, <1>9, <1>10 DEF SameLoaded
  <2>2. Coming' = Coming
    BY <1>1 DEF Coming
  <2>3. /\ filed'.cutoff = c /\ filed'.outcomes = LoadOutcomes(view, c)
    BY <1>4
  <2> QED BY <1>1, <1>3, <1>4, <1>5, <1>6, <1>7, <2>1, <2>2, <2>3
          DEF FiledHolds, SameLoaded, LoadSnapshots, LoadSelectionVariants, LoadMarketContexts,
              FilterPaperDecisions, LoadDecisions, LoadExecutions, LoadOutcomes, Ids
<1> QED BY <1>2, <1>11 DEF AnalysisInv

(***************************************************************************)
(* The analysis: the theorem                                                *)
(***************************************************************************)
\* Every reachable state has it.
LEMMA AnalysisIsInv == AnalysisSpec => []AnalysisInv
<1>1. AnalysisInv /\ [AnalysisNext]_analysisVars => AnalysisInv'
  <2> SUFFICES ASSUME AnalysisInv, [AnalysisNext]_analysisVars PROVE AnalysisInv'
    OBVIOUS
  <2>1. CASE \E trade \in Trades : Execute(trade)
    BY <2>1, ExecuteKeeps
  <2>2. CASE \E equity \in Equities : SaveDecision(equity)
    BY <2>2, SaveDecisionKeeps
  <2>3. CASE \E cohort \in Cohorts, context \in Contexts : SaveBundle(cohort, context)
    BY <2>3, SaveBundleKeeps
  <2>4. CASE Crash
    BY <2>4, CrashKeeps
  <2>5. CASE \E d \in Decisions, h \in DOMAIN Minutes, e \in {now - 1, now} \cap Nat,
               settlement \in Settlements : Settle(d, h, e, settlement)
    BY <2>5, SettleKeeps
  <2>6. CASE ReadObservation
    BY <2>6, ReadObservationKeeps
  <2>7. CASE FileReport
    BY <2>7, FileReportKeeps
  <2>8. CASE UNCHANGED analysisVars
    BY <2>8 DEF analysisVars, AnalysisInv, TablesOK, RowsArePast, OneTime, PaperIsPast,
       ViewPrecedes, FiledHolds, Coming, SameLoaded, LoadSnapshots, LoadSelectionVariants,
       LoadMarketContexts, FilterPaperDecisions, LoadDecisions, LoadExecutions, LoadOutcomes, Ids
  <2> QED BY <2>1, <2>2, <2>3, <2>4, <2>5, <2>6, <2>7, <2>8 DEF AnalysisNext
<1> QED BY <1>1, AnalysisInitInv, PTL DEF AnalysisSpec

\* What is read under the filed cutoff is what was filed, or holds an outcome that
\* was not there.
LEMMA FiledIsFixed == AnalysisInv => ReportIsFixed
<1> DEFINE e == Evidence(view, paper)
           c == filed.cutoff
<1> SUFFICES ASSUME AnalysisInv, filed # None, e.cutoff = filed.cutoff
             PROVE  \/ \E r \in e.outcomes \ filed.outcomes : r.at <= e.cutoff.completed
                    \/ Cardinality({BuildReport(x) : x \in {e, filed}}) = 1
  BY DEF ReportIsFixed
<1>1. /\ filed = [cutoff |-> c, snapshots |-> LoadSnapshots(view, c),
                  outcomes |-> filed.outcomes,
                  variants |-> LoadSelectionVariants(view, c),
                  contexts |-> LoadMarketContexts(view, c),
                  decisions |-> FilterPaperDecisions(paper, c),
                  executions |-> LoadExecutions(paper, c)]
      /\ c # None /\ filed.outcomes \subseteq LoadOutcomes(view, c)
  BY DEF AnalysisInv, FiledHolds
<1>2. SelectCutoff(view, paper) = c
  BY <1>1 DEF Evidence
<1>3. e = [cutoff |-> c, snapshots |-> LoadSnapshots(view, c),
           outcomes |-> LoadOutcomes(view, c),
           variants |-> LoadSelectionVariants(view, c),
           contexts |-> LoadMarketContexts(view, c),
           decisions |-> FilterPaperDecisions(paper, c),
           executions |-> LoadExecutions(paper, c)]
  BY <1>1, <1>2 DEF Evidence
<1> HIDE DEF e, c
<1>4. CASE LoadOutcomes(view, c) = filed.outcomes
  <2>1. e = filed
    BY <1>1, <1>3, <1>4
  <2>2. {BuildReport(x) : x \in {e, filed}} = {BuildReport(filed)}
    BY <2>1
  <2>3. Cardinality({BuildReport(filed)}) = 1
    BY FS_Singleton
  <2> QED BY <2>2, <2>3
<1>5. CASE LoadOutcomes(view, c) # filed.outcomes
  <2>1. PICK r \in LoadOutcomes(view, c) : r \notin filed.outcomes
    BY <1>1, <1>5
  <2>2. r.at <= c.completed
    BY DEF LoadOutcomes
  <2> QED BY <1>3, <2>1, <2>2
<1> QED BY <1>4, <1>5

\* Two reports of one cutoff are the same report: whatever the scheduler writes in
\* either database, before, between or after the two reads of an analysis, what the
\* analyzer loads up to the cutoff it filed is what it filed (analyze,
\* select_cutoff), outcomes of a batch that straddles the cutoff excepted.
THEOREM ReportsAreFixed == AnalysisSpec => []ReportIsFixed
BY AnalysisIsInv, FiledIsFixed, PTL
=============================================================================
