---------------------------- MODULE MaterialMerge ---------------------------
(***************************************************************************)
(* The completion callbacks composed with the consumer of the job they     *)
(* send, PdfGenerationProcessor.handleMergePdf.  materialsQueue.add is     *)
(* called inside the webhook transaction, so a job is in the queue from    *)
(* the step that sets sent[h] on, before the transaction commits and even  *)
(* if it rolls back.                                                       *)
(***************************************************************************)
EXTENDS MaterialWebhook

CONSTANT MaxMergeJobs      \* bound: merge-pdf jobs waiting in the queue

VARIABLES mergeQueue,      \* merge-pdf jobs waiting
          mergeFailed,     \* a merge-pdf job used up its attempts
          merged           \* courses in the combined PDF of the request

mergeVars == <<mergeQueue, mergeFailed, merged>>
allVars   == <<vars, mergeVars>>

MergeInit ==
    /\ Init
    /\ mergeQueue = 0
    /\ mergeFailed = FALSE
    /\ merged = {}

\* A step of a callback; the job it adds, if any, is visible at once.
Adds == \E h \in Handlers : sent'[h] /\ ~sent[h]

WebhookStep ==
    /\ Next
    /\ \/ /\ Adds
          /\ mergeQueue < MaxMergeJobs
          /\ mergeQueue' = mergeQueue + 1
       \/ /\ ~Adds
          /\ UNCHANGED mergeQueue
    /\ UNCHANGED <<mergeFailed, merged>>

\* handleMergePdf: only COMPLETED courses with a PDF take part, read from the
\* committed rows; fewer than two is a silent return.
Mergeable == {c \in Courses : course[c] = "COMPLETED" /\ pdf[c] # NoPdf}

NothingToMerge ==
    /\ mergeQueue > 0
    /\ Cardinality(Mergeable) < 2
    /\ mergeQueue' = mergeQueue - 1
    /\ UNCHANGED <<vars, mergeFailed, merged>>

\* mergeAndUpload: a PDF that cannot be loaded is left out of the combined one.
MergePdf(loaded) ==
    /\ mergeQueue > 0
    /\ Cardinality(Mergeable) >= 2
    /\ loaded # {}
    /\ mergeQueue' = mergeQueue - 1
    /\ merged' = loaded
    /\ UNCHANGED <<vars, mergeFailed>>

\* All attempts of the job threw, for instance because no PDF could be loaded.
MergePdfFails ==
    /\ mergeQueue > 0
    /\ mergeQueue' = mergeQueue - 1
    /\ mergeFailed' = TRUE
    /\ UNCHANGED <<vars, merged>>

MergeNext ==
    \/ WebhookStep
    \/ NothingToMerge
    \/ \E loaded \in SUBSET Mergeable : MergePdf(loaded)
    \/ MergePdfFails

MergeSpec == MergeInit /\ [][MergeNext]_allVars

\* "the webhook use case dispatches the 'merge-pdf' job exactly once ...;
\* handleMergePdf is the single merge path" (handleGeneratePdf): once
\* everything has settled and no merge job failed, a COMPLETED request of
\* several courses has a combined PDF.
CombinedPdfProduced ==
    (/\ \A h \in Handlers : pc[h] = "idle"
     /\ mergeQueue = 0
     /\ ~mergeFailed
     /\ request = "COMPLETED"
     /\ Cardinality(Courses) >= 2)
    => merged # {}
=============================================================================
