--------------------------- MODULE MaterialStatus ---------------------------
(***************************************************************************)
(* The status vocabulary of the materials component and the pure functions *)
(* that HandleMaterialWebhookUseCase computes over the course rows of one  *)
(* MaterialRequest.                                                        *)
(***************************************************************************)
EXTENDS Naturals, FiniteSets

\* CourseMaterialStatus
Success       == {"COMPLETED", "COMPLETED_WITH_WARNINGS"}
Finished      == Success \cup {"EMPTY_BANK", "FAILED"}
CourseStatus  == Finished \cup {"PENDING", "PROCESSING"}

\* MaterialRequestStatus: one enum for MaterialRequest and for Material
RequestStatus == {"PENDING", "IN_REVIEW", "PROCESSING", "REVIEW_REQUIRED",
                  "COMPLETED", "COMPLETED_WITH_WARNINGS", "FAILED"}

\* The course statuses that the in-process producer reports through mapStatus;
\* 'processing' is part of the contract but nothing sends it.
Reported      == Finished

\* parentAlreadyFinalized: the roll-up results after which a merge was sent
RolledUp      == {"COMPLETED", "REVIEW_REQUIRED"}

\* allFinished, hasFailed, hasWarnings over the sibling rows
AllFinished(rows) == \A c \in DOMAIN rows : rows[c] \in Finished

HasFailed(rows)   == \E c \in DOMAIN rows : rows[c] = "FAILED"

HasWarnings(rows) ==
    \E c \in DOMAIN rows : rows[c] \in {"COMPLETED_WITH_WARNINGS", "EMPTY_BANK"}

\* Mutant: warnings roll up to the status the bypass of the review uses.
FinalStatusUnreviewed(rows) ==
    IF HasFailed(rows) THEN "FAILED"
    ELSE IF HasWarnings(rows) THEN "COMPLETED_WITH_WARNINGS"
    ELSE "COMPLETED"

\* finalStatus of the parent request
FinalStatus(rows) ==
    IF HasFailed(rows) THEN "FAILED"
    ELSE IF HasWarnings(rows) THEN "REVIEW_REQUIRED"
    ELSE "COMPLETED"
=============================================================================
