--------------------------- MODULE StrategyReview ---------------------------
(***************************************************************************)
(* The strategy review workflow: immutable artifacts in four directories    *)
(* (analyses, proposals, validations, promotions), candidate snapshots      *)
(* beside them, and the operator commands that publish them from what the   *)
(* observation database holds.  Commands are processes of their own: two of *)
(* them interleave at every file they test, link or unlink, and a command   *)
(* may be killed between two files.                                         *)
(*                                                                          *)
(* A hash is modelled by the content it stands for.  A policy is the name   *)
(* of its patch on the parent: what a patch may hold is StrategyPolicy's    *)
(* business.  The gates of a report are the three groups that decide it.    *)
(***************************************************************************)
EXTENDS Naturals

CONSTANTS
    Callers,        \* commands that may run at once
    Parent,         \* the parent version, in the registry
    Candidate,      \* the version of a candidate
    Patches,        \* the policies a candidate may have
    BasePolicy,     \* the policy of the parent
    ParentExp,      \* the observation experiment of the parent
    ShadowExp,      \* the observation experiment of the candidate
    ProposalIds, ValidationIds, PromotionIds,
    Reviews,        \* the experiments and stages an operator asks to analyze
    GateResults,    \* the gate results an experiment may show
    NoFile,         \* no such file, row or command
    MaxCutoff       \* the cutoff decisions each experiment reaches

Groups == {"readiness", "quality", "paper"}
Results == {"passed", "failed", "pending"}
Stages == {"PAPER", "SHADOW_TO_PAPER"}
Experiments == {ParentExp, ShadowExp}

\* An observation_experiment row with what the decisions and outcomes up to its
\* cutoff show.
Rows == [version : {Parent, Candidate}, policy : Patches \cup {BasePolicy},
         cutoff : Nat, gates : [Groups -> Results]]

ASSUME ReviewAssumption ==
    /\ GateResults \subseteq [Groups -> Results] /\ GateResults # {}
    /\ Reviews \subseteq Experiments \X Stages
    /\ BasePolicy \notin Patches /\ Parent # Candidate /\ ParentExp # ShadowExp
    /\ MaxCutoff \in [Experiments -> Nat]
    /\ NoFile \notin Rows

VARIABLES
    experiment,     \* observation_experiment rows with what they show
    published,      \* versions() of the registry
    candidates,     \* the candidate snapshot
    analyses, proposals, validations, promotions,
    command         \* what each running command is at

files == <<analyses, proposals, validations, promotions>>
vars == <<experiment, published, candidates, files, command>>

(***************************************************************************)
(* The report of an analysis                                                *)
(***************************************************************************)
\* Every gate is required, but a shadow review does not require the paper ones.
Required(stage) == IF stage = "PAPER" THEN Groups ELSE Groups \ {"paper"}

ReadyDecision(stage) ==
    IF stage = "SHADOW_TO_PAPER" THEN "SHADOW_READY_FOR_PAPER" ELSE "PROMOTION_READY"

Ready == {"PROMOTION_READY", "SHADOW_READY_FOR_PAPER"}

\* Without readiness a review goes on collecting; a required gate that is still
\* pending rejects, as a failed one does.
Decision(gates, stage) ==
    CASE gates["readiness"] # "passed" -> "COLLECTING"
      [] \A g \in Required(stage) : gates[g] = "passed" -> ReadyDecision(stage)
      [] OTHER -> "REJECTED"

\* The identity of a report (_analysis_id): experiment, stage and cutoff.
AnalysisIds == UNION {{review} \X (0 .. MaxCutoff[review[1]]) : review \in Reviews}

\* What a report holds beside its identity is what the rows show when they are
\* read: two readings at one cutoff may differ.
Report(e, stage) ==
    [exp |-> e, version |-> experiment[e].version, policy |-> experiment[e].policy,
     stage |-> stage,
     gates |-> experiment[e].gates, decision |-> Decision(experiment[e].gates, stage)]

\* _verify_observation_experiment: the row still is the one of the report.
SameExperiment(report) ==
    /\ experiment[report.exp] # NoFile
    /\ experiment[report.exp].version = report.version
    /\ experiment[report.exp].policy = report.policy

(***************************************************************************)
(* Commands                                                                 *)
(***************************************************************************)
Idle(c) == command[c] = NoFile

At(c, place) == ~Idle(c) /\ command[c].at = place

Goto(c, place) == command' = [command EXCEPT ![c].at = place]

End(c) == command' = [command EXCEPT ![c] = NoFile]

\* What _publish_json finds at its path: the same content up to the timestamp
\* is the answer of a retry, other content is an error.
Published(store, key) == store[key] # NoFile

\* analyze: the report is built from one read of the databases.
Analyze(c) ==
    /\ Idle(c)
    /\ \E review \in Reviews :
          LET e == review[1] IN
          /\ experiment[e] # NoFile
          /\ command' = [command EXCEPT ![c] =
                [at |-> "analyses", key |-> <<review, experiment[e].cutoff>>,
                 doc |-> Report(e, review[2]), existed |-> FALSE, linking |-> FALSE]]
    /\ UNCHANGED <<experiment, published, candidates, files>>

\* propose_candidate up to the test of the candidate's path: a REJECTED report
\* of the parent, an unpublished version, no snapshot without its proposal.
Propose(c) ==
    /\ Idle(c)
    /\ \E id \in ProposalIds, key \in AnalysisIds, p \in Patches :
          LET report == analyses[key] IN
          /\ report # NoFile
          /\ report.decision = "REJECTED"
          /\ report.version = Parent /\ report.policy = BasePolicy
          /\ SameExperiment(report)
          /\ Candidate \notin published
          /\ candidates # NoFile => proposals[id] # NoFile
          /\ command' = [command EXCEPT ![c] =
                [at |-> "candidate", key |-> id, existed |-> candidates # NoFile,
                 linking |-> FALSE,
                 doc |-> [policy |-> p, analysis |-> key, report |-> report]]]
    /\ UNCHANGED <<experiment, published, candidates, files>>

\* write_policy: an equal snapshot is accepted, another one is an error before
\* anything is cleaned up.
WriteCandidate(c) ==
    /\ At(c, "candidate")
    /\ LET p == command[c].doc.policy IN
       IF candidates \in {NoFile, p}
       THEN candidates' = p /\ Goto(c, "proposals")
       ELSE UNCHANGED candidates /\ End(c)
    /\ UNCHANGED <<experiment, published, files>>

\* _verify_proposal: everything the proposal names is read again and compared.
ProposalHolds(proposal) ==
    /\ candidates = proposal.policy
    /\ Candidate \notin published
    /\ proposal.policy # BasePolicy
    /\ analyses[proposal.analysis] = proposal.report
    /\ proposal.report.decision = "REJECTED"
    /\ SameExperiment(proposal.report)

Validate(c) ==
    /\ Idle(c)
    /\ \E id \in ValidationIds, pid \in ProposalIds :
          /\ proposals[pid] # NoFile
          /\ ProposalHolds(proposals[pid])
          /\ command' = [command EXCEPT ![c] =
                [at |-> "validations", key |-> id, existed |-> FALSE, linking |-> FALSE,
                 doc |-> [proposal |-> pid, content |-> proposals[pid]]]]
    /\ UNCHANGED <<experiment, published, candidates, files>>

\* _verify_validation.
ValidationHolds(validation) ==
    /\ proposals[validation.proposal] = validation.content
    /\ ProposalHolds(validation.content)

\* Mutant: the report's configuration is not compared with the candidate's.
PromoteByVersion(c) ==
    /\ Idle(c)
    /\ \E id \in PromotionIds, vid \in ValidationIds, key \in AnalysisIds :
          LET report == analyses[key] IN
          /\ validations[vid] # NoFile /\ ValidationHolds(validations[vid])
          /\ report # NoFile /\ report.decision \in Ready
          /\ report.version = Candidate /\ SameExperiment(report)
          /\ command' = [command EXCEPT ![c] =
                [at |-> "promotions", key |-> id, existed |-> FALSE, linking |-> FALSE,
                 doc |-> [validation |-> vid, content |-> validations[vid],
                          analysis |-> key, report |-> report]]]
    /\ UNCHANGED <<experiment, published, candidates, files>>

\* prepare_paper_promotion: a verified validation and a ready report of the
\* candidate's own experiment, all of whose required gates passed.
Promote(c) ==
    /\ Idle(c)
    /\ \E id \in PromotionIds, vid \in ValidationIds, key \in AnalysisIds :
          LET report == analyses[key] IN
          /\ validations[vid] # NoFile /\ ValidationHolds(validations[vid])
          /\ report # NoFile /\ report.decision \in Ready
          /\ \A g \in Required(report.stage) : report.gates[g] = "passed"
          /\ report.version = Candidate /\ report.policy = validations[vid].content.policy
          /\ SameExperiment(report)
          /\ command' = [command EXCEPT ![c] =
                [at |-> "promotions", key |-> id, existed |-> FALSE, linking |-> FALSE,
                 doc |-> [validation |-> vid, content |-> validations[vid],
                          analysis |-> key, report |-> report]]]
    /\ UNCHANGED <<experiment, published, candidates, files>>

\* The except of propose_candidate removes the snapshot it did not find.
CleanUp(c) ==
    candidates' = IF command[c].at = "proposals" /\ ~command[c].existed
                  THEN NoFile ELSE candidates

\* _publish_json tests the path ...
TestPath(c, place, store) ==
    /\ At(c, place) /\ ~command[c].linking
    /\ LET key == command[c].key
           retried == Published(store, key) /\ store[key] = command[c].doc IN
       \/ /\ ~Published(store, key)
          /\ command' = [command EXCEPT ![c].linking = TRUE]
          /\ UNCHANGED candidates
       \/ retried /\ End(c) /\ UNCHANGED candidates
       \/ Published(store, key) /\ ~retried /\ End(c) /\ CleanUp(c)
    /\ UNCHANGED <<experiment, published, files>>

\* Mutant: the finished file replaces what is at the path.
LinkOver(c, place, store) ==
    /\ At(c, place) /\ command[c].linking
    /\ store' = [store EXCEPT ![command[c].key] = command[c].doc]
    /\ End(c)
    /\ UNCHANGED <<experiment, published, candidates>>

\* ... and links the finished file there, which fails on a file that has come
\* up meanwhile, of whatever content.
Link(c, place, store) ==
    /\ At(c, place) /\ command[c].linking
    /\ LET key == command[c].key IN
       IF Published(store, key)
       THEN store' = store /\ CleanUp(c)
       ELSE store' = [store EXCEPT ![key] = command[c].doc] /\ UNCHANGED candidates
    /\ End(c)
    /\ UNCHANGED <<experiment, published>>

Publish(c) ==
    \/ TestPath(c, "analyses", analyses)
    \/ TestPath(c, "proposals", proposals)
    \/ TestPath(c, "validations", validations)
    \/ TestPath(c, "promotions", promotions)
    \/ Link(c, "analyses", analyses) /\ UNCHANGED <<proposals, validations, promotions>>
    \/ Link(c, "proposals", proposals) /\ UNCHANGED <<analyses, validations, promotions>>
    \/ Link(c, "validations", validations) /\ UNCHANGED <<analyses, proposals, promotions>>
    \/ Link(c, "promotions", promotions) /\ UNCHANGED <<analyses, proposals, validations>>

\* The command is killed: what it has written stays.
Kill(c) ==
    /\ ~Idle(c) /\ End(c)
    /\ UNCHANGED <<experiment, published, candidates, files>>

(***************************************************************************)
(* What goes on around the workflow                                         *)
(***************************************************************************)
\* A decision becomes the newest one that both databases hold, with what the
\* outcomes settled by then show.
Observe(e) ==
    /\ experiment[e] # NoFile
    /\ experiment[e].cutoff < MaxCutoff[e]
    /\ \E gates \in GateResults : experiment' = [experiment EXCEPT
          ![e].cutoff = @ + 1, ![e].gates = gates]
    /\ UNCHANGED <<published, candidates, files, command>>

\* An outcome evaluated before the cutoff is committed after it.
OutcomeSettles(e) ==
    /\ experiment[e] # NoFile
    /\ \E gates \in GateResults : experiment' = [experiment EXCEPT ![e].gates = gates]
    /\ UNCHANGED <<published, candidates, files, command>>

\* A shadow lane starts observing the snapshot.
StartShadow ==
    /\ experiment[ShadowExp] = NoFile /\ candidates # NoFile
    /\ \E gates \in GateResults : experiment' = [experiment EXCEPT ![ShadowExp] =
          [version |-> Candidate, policy |-> candidates,
           cutoff |-> 0, gates |-> gates]]
    /\ UNCHANGED <<published, candidates, files, command>>

\* The version is added to the registry.
PublishVersion ==
    /\ published' = published \cup {Candidate} /\ candidates # NoFile
    /\ UNCHANGED <<experiment, candidates, files, command>>

Init ==
    /\ \E gates \in GateResults : experiment =
          [e \in Experiments |-> IF e = ShadowExp THEN NoFile ELSE
             [version |-> Parent, policy |-> BasePolicy,
              cutoff |-> 0, gates |-> gates]]
    /\ published = {Parent} /\ candidates = NoFile
    /\ analyses = [key \in AnalysisIds |-> NoFile]
    /\ proposals = [id \in ProposalIds |-> NoFile]
    /\ validations = [id \in ValidationIds |-> NoFile]
    /\ promotions = [id \in PromotionIds |-> NoFile]
    /\ command = [c \in Callers |-> NoFile]

Next ==
    \/ \E c \in Callers :
          \/ Analyze(c) \/ Propose(c) \/ WriteCandidate(c) \/ Validate(c)
          \/ Promote(c) \/ Publish(c) \/ Kill(c)
    \/ \E e \in Experiments : Observe(e) \/ OutcomeSettles(e)
    \/ StartShadow \/ PublishVersion

Spec == Init /\ [][Next]_vars

(***************************************************************************)
(* Properties                                                               *)
(***************************************************************************)
\* A promotion rests on a chain of artifacts that are all still what it saw:
\* its validation, the proposal that names the promoted policy, the REJECTED
\* report of the parent, and a ready report, with every required gate passed,
\* of an experiment that ran exactly the promoted policy, even if snapshots
\* were removed and proposed anew with another policy in between.
PromotionIsEarned ==
    \A id \in PromotionIds : promotions[id] # NoFile =>
        LET m == promotions[id]
            proposal == m.content.content IN
        /\ validations[m.validation] = m.content
        /\ proposals[m.content.proposal] = proposal
        /\ analyses[proposal.analysis] = proposal.report
        /\ proposal.report.decision = "REJECTED" /\ proposal.report.policy = BasePolicy
        /\ analyses[m.analysis] = m.report
        /\ m.report.exp = ShadowExp /\ m.report.policy = proposal.policy
        /\ experiment[ShadowExp].policy = proposal.policy
        /\ \A g \in Required(m.report.stage) : m.report.gates[g] = "passed"

Untouched(store, keys) == \A k \in keys : store[k] # NoFile => store'[k] = store[k]

\* No command ever changes or removes a published report, proposal, validation
\* or promotion, whoever publishes to the same path at the same time.
ArtifactsAreImmutable ==
    [][/\ Untouched(analyses, AnalysisIds) /\ Untouched(proposals, ProposalIds)
       /\ Untouched(validations, ValidationIds)
       /\ Untouched(promotions, PromotionIds)]_vars

=============================================================================
