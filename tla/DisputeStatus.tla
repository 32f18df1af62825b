--------------------------- MODULE DisputeStatus ---------------------------
(***************************************************************************)
(* The dispute-case status vocabulary (dispute-status.ts): the lifecycle   *)
(* graph, who may drive a case into a status, and the status sets the      *)
(* writers and the schedulers share.  A constant module, like its source.  *)
(***************************************************************************)
EXTENDS Naturals

\* Lifecycle order; for display and for the order of one dataflow pass only.
DISPUTE_STATUS_ORDER ==
  << "created", "tnc_agreed", "reports_uploaded", "analysed",
     "objection_submitted", "vg_response_received", "ai_further_submission",
     "vg_agreed", "case_closed" >>

DisputeStatuses ==
  { "created", "tnc_agreed", "reports_uploaded", "analysed",
    "objection_submitted", "vg_response_received", "ai_further_submission",
    "vg_agreed", "case_closed" }

OutcomeResult == {"upheld", "partially_upheld", "rejected", "withdrawn"}

-----------------------------------------------------------------------------
(* Status sets *)

CLOSED_STATUSES == {"case_closed"}

VG_EMAIL_MATCHABLE_STATUSES ==
  {"objection_submitted", "vg_response_received", "ai_further_submission"}

\* Lodged and still waiting: what the follow-up scheduler chases.
AWAITING_VG_RESPONSE_STATUSES == {"objection_submitted", "ai_further_submission"}

\* Where the analysis job may move a case to `analysed` from.
MARK_ANALYSED_SOURCE_STATUSES == {"created", "tnc_agreed", "reports_uploaded"}

POST_LODGEMENT_STATUSES ==
  {"objection_submitted", "vg_response_received", "ai_further_submission",
   "vg_agreed", "case_closed"}

\* Statuses only a lodged case may hold: case_closed is also reached without.
LodgedStatuses == POST_LODGEMENT_STATUSES \ CLOSED_STATUSES

-----------------------------------------------------------------------------
(* The lifecycle graph *)

\* Mutant: the VG's agreement may be entered without recording the response.
ShortcutTransitions ==
  [ created               |-> {"tnc_agreed", "case_closed"},
    tnc_agreed            |-> {"reports_uploaded", "case_closed"},
    reports_uploaded      |-> {"analysed", "case_closed"},
    analysed              |-> {"objection_submitted", "case_closed"},
    objection_submitted   |-> {"vg_response_received", "vg_agreed", "case_closed"},
    vg_response_received  |-> {"ai_further_submission", "vg_agreed", "case_closed"},
    ai_further_submission |-> {"vg_response_received", "vg_agreed", "case_closed"},
    vg_agreed             |-> {"case_closed"},
    case_closed           |-> {} ]

\* Every move of the table, keyed by the current status.
DISPUTE_STATUS_TRANSITIONS ==
  [ created               |-> {"tnc_agreed", "case_closed"},
    tnc_agreed            |-> {"reports_uploaded", "case_closed"},
    reports_uploaded      |-> {"analysed", "case_closed"},
    analysed              |-> {"objection_submitted", "case_closed"},
    objection_submitted   |-> {"vg_response_received", "case_closed"},
    vg_response_received  |-> {"ai_further_submission", "vg_agreed", "case_closed"},
    ai_further_submission |-> {"vg_response_received", "case_closed"},
    vg_agreed             |-> {"case_closed"},
    case_closed           |-> {} ]

CanTransition(from, to) == to \in DISPUTE_STATUS_TRANSITIONS[from]

\* Statuses a person may set; the other three are written by the system.
MANUAL_TRANSITION_TARGETS ==
  {"tnc_agreed", "objection_submitted", "vg_response_received",
   "ai_further_submission", "vg_agreed", "case_closed"}

ManualTransitionsFrom(from) ==
  DISPUTE_STATUS_TRANSITIONS[from] \cap MANUAL_TRANSITION_TARGETS

-----------------------------------------------------------------------------
(* What a status proves about the past *)

\* Mutant: the table alone, without the edges the analysis job writes.
TablePredecessors ==
  [ to \in DisputeStatuses |-> {from \in DisputeStatuses : CanTransition(from, to)} ]

\* The real edge set: the table plus the edges the analysis job writes.
DominatorPredecessors ==
  [ to \in DisputeStatuses |->
      {from \in DisputeStatuses : CanTransition(from, to)}
        \cup (IF to = "analysed" THEN MARK_ANALYSED_SOURCE_STATUSES ELSE {}) ]

\* `to` may follow `from` in the life of a case nobody forces.
LegalStep(from, to) == from \in DominatorPredecessors[to]

\* The table computeStatusDominators ends with (StatusDominators.tla runs the
\* dataflow on DominatorPredecessors and checks that this is its result).
STATUS_DOMINATORS ==
  LET lodged == {"created", "analysed", "objection_submitted"} IN
  [ created               |-> {"created"},
    tnc_agreed            |-> {"created", "tnc_agreed"},
    reports_uploaded      |-> {"created", "tnc_agreed", "reports_uploaded"},
    analysed              |-> {"created", "analysed"},
    objection_submitted   |-> lodged,
    vg_response_received  |-> lodged \cup {"vg_response_received"},
    ai_further_submission |-> lodged \cup {"vg_response_received", "ai_further_submission"},
    vg_agreed             |-> lodged \cup {"vg_response_received", "vg_agreed"},
    case_closed           |-> {"created", "case_closed"} ]

\* Statuses a case now on `status` must have held, `status` included.
StatusesImpliedBy(status) == STATUS_DOMINATORS[status]
=============================================================================
