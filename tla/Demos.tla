------------------------------- MODULE Demos -------------------------------
(***************************************************************************)
(* The recording of one match: uploads by the node agent                   *)
(* (demo-ingestion-service.ts), its analysis (demo-analysis-worker.ts) and *)
(* its removal after the retention period (retention-service.ts).  The     *)
(* object store and the database are changed one after the other; uploads, *)
(* analyses and retention jobs overlap and may stop half way.              *)
(***************************************************************************)
EXTENDS Naturals

CONSTANTS
  Upload, Job,   \* requests of the agent, runs of the retention job
  Bytes          \* contents of a recording

ASSUME DemoAssumption == {"none", "reading", "missing"} \cap Bytes = {}

VARIABLES
  artifact,    \* the row in match_demo_artifacts
  object,      \* what the object store holds under the key of the match
  upload,      \* per request how far it is
  job,         \* per retention job how far it is
  analysis,    \* the contents an analysis works on, "reading" before it has them
  verdict,     \* the status of the match
  conflict,    \* a row in match_demo_conflicts
  report,      \* a pending report or appeal, "held" if filed before a removal began
  marred       \* the store and the row have come apart, in a way named below

demoVars == <<artifact, object, upload, job, analysis, verdict, conflict, report, marred>>

Waiting == [pc |-> "idle", says |-> "none", has |-> "none"]
Kept == {"uploaded", "analyzed"}

DemosInit ==
  /\ artifact = [status |-> "none", sha |-> "none", previous |-> "none"]
  /\ object = "none" /\ analysis = "none" /\ report = "none"
  /\ upload = [u \in Upload |-> Waiting]
  /\ job = [j \in Job |-> "idle"]
  /\ verdict \in {"completed", "cancelled"}
  /\ conflict = FALSE /\ marred = FALSE

Step(u, pc) == upload' = [upload EXCEPT ![u].pc = pc]
Disputed == IF verdict = "cancelled" THEN verdict ELSE "disputed"

-----------------------------------------------------------------------------
(* upload: the checksum it says, and the contents it brings.               *)

StartUpload(u, says, has) ==
  /\ upload[u].pc = "idle"
  /\ upload' = [upload EXCEPT ![u] =
       IF artifact.status = "none" THEN [pc |-> "put", says |-> says, has |-> has]
       ELSE IF artifact.sha = says THEN Waiting
       ELSE [pc |-> "conflict", says |-> says, has |-> has]]
  /\ UNCHANGED <<artifact, object, job, analysis, verdict, conflict, report, marred>>

\* objects.put: it succeeds, or throws and ends the request.
PutObject(u) ==
  /\ upload[u].pc = "put"
  /\ \/ object' = upload[u].has /\ Step(u, "verify")
     \/ object' = object /\ upload' = [upload EXCEPT ![u] = Waiting]
  /\ UNCHANGED <<artifact, job, analysis, verdict, conflict, report, marred>>

\* The contents are not those of the checksum: the object is deleted.
VerifyObject(u) ==
  /\ upload[u].pc = "verify"
  /\ \/ /\ upload[u].has = upload[u].says
        /\ Step(u, "commit") /\ UNCHANGED object
     \/ /\ upload[u].has # upload[u].says
        /\ Step(u, "conflict") /\ object' \in {"none", object}
  /\ UNCHANGED <<artifact, job, analysis, verdict, conflict, report, marred>>

\* Mutant: the row of another upload is taken for a duplicate.
CommitUploadMutant(u) ==
  /\ upload[u].pc = "commit"
  /\ artifact' = IF artifact.status # "none" THEN artifact
                 ELSE [status |-> "uploaded", sha |-> upload[u].says, previous |-> "none"]
  /\ upload' = [upload EXCEPT ![u] = Waiting]
  /\ UNCHANGED <<object, job, analysis, verdict, conflict, report, marred>>

\* The transaction: the canonical row, a duplicate of it, or a conflict with it.
CommitUpload(u) ==
  /\ upload[u].pc = "commit"
  /\ \/ /\ artifact.status = "none"
        /\ artifact' = [status |-> "uploaded", sha |-> upload[u].says, previous |-> "none"]
        /\ upload' = [upload EXCEPT ![u] = Waiting]
     \/ /\ artifact.status # "none"
        /\ upload' = [upload EXCEPT ![u] =
             IF artifact.sha = upload[u].says THEN Waiting ELSE [@ EXCEPT !.pc = "conflict"]]
        /\ UNCHANGED artifact
  /\ UNCHANGED <<object, job, analysis, verdict, conflict, report, marred>>

\* recordConflict.
RecordConflict(u) ==
  /\ upload[u].pc = "conflict"
  /\ conflict' = TRUE /\ verdict' = Disputed
  /\ upload' = [upload EXCEPT ![u] = Waiting]
  /\ UNCHANGED <<artifact, object, job, analysis, report, marred>>

\* A process stops: what its upload did to the object stays without a record.
UploadStops(u) ==
  /\ upload[u].pc # "idle"
  /\ upload' = [upload EXCEPT ![u] = Waiting]
  /\ marred' = (marred \/ upload[u].pc # "put")
  /\ UNCHANGED <<artifact, object, job, analysis, verdict, conflict, report>>

-----------------------------------------------------------------------------
(* analyzeDemoArtifact, started by hand or by a schedule.                  *)

\* The row is selected.
StartAnalysis ==
  /\ analysis = "none" /\ artifact.status \in Kept
  /\ analysis' = "reading"
  /\ UNCHANGED <<artifact, object, upload, job, verdict, conflict, report, marred>>

\* The object is downloaded, whatever has become of it since.
Download ==
  /\ analysis = "reading"
  /\ analysis' = IF object = "none" THEN "missing" ELSE object
  /\ UNCHANGED <<artifact, object, upload, job, verdict, conflict, report, marred>>

\* Analyzed, or invalid and then the match is disputed, also over the claim of a
\* retention job, and also when the download throws.  A check on the table
\* refuses both once the artifact is deleted.
EndAnalysis ==
  /\ analysis # "none" /\ analysis' = "none"
  /\ \/ /\ artifact.status # "deleted" /\ analysis = artifact.sha
        /\ artifact' = [artifact EXCEPT !.status = "analyzed"]
        /\ UNCHANGED verdict
     \/ /\ artifact.status # "deleted"
        /\ artifact' = [artifact EXCEPT !.status = "invalid"]
        /\ verdict' = Disputed
     \/ artifact.status = "deleted" /\ UNCHANGED <<artifact, verdict>>
  /\ marred' = (marred \/ (artifact.status = "deleting" /\ object = "none"))
  /\ UNCHANGED <<object, upload, job, conflict, report>>

\* The worker stops and leaves nothing behind.
AnalysisStops ==
  /\ analysis # "none" /\ analysis' = "none"
  /\ UNCHANGED <<artifact, object, upload, job, verdict, conflict, report, marred>>

-----------------------------------------------------------------------------
(* DemoRetentionService.run, at least thirty days after the upload, when   *)
(* no upload is under way any more.                                        *)

Removable ==
  /\ \/ artifact.status \in {"analyzed", "invalid"}
     \/ artifact.status = "deleting"   \* claimed fifteen minutes ago
  /\ verdict \in {"completed", "cancelled"} /\ report = "none"

ListCandidates(j) ==
  /\ job[j] = "idle" /\ Removable
  /\ \A u \in Upload : upload[u].pc = "idle"
  /\ job' = [job EXCEPT ![j] = "claim"]
  /\ UNCHANGED <<artifact, object, upload, analysis, verdict, conflict, report, marred>>

\* claim looks at everything once more.
Claim(j) ==
  /\ job[j] = "claim"
  /\ \/ /\ Removable
        /\ artifact' = [status |-> "deleting", sha |-> artifact.sha,
             previous |-> IF artifact.status = "deleting" THEN artifact.previous ELSE artifact.status]
        /\ job' = [job EXCEPT ![j] = "delete"]
     \/ /\ ~Removable
        /\ job' = [job EXCEPT ![j] = "idle"]
        /\ UNCHANGED artifact
  /\ UNCHANGED <<object, upload, analysis, verdict, conflict, report, marred>>

\* The object goes, also when the claim was lost in the meantime: an analysis
\* or another job has set the status, or a report has been filed since.
DeleteObject(j) ==
  /\ job[j] = "delete"
  /\ \/ /\ object' = "none"
        /\ job' = [job EXCEPT ![j] = "complete"]
        /\ marred' = (marred \/ artifact.status \in Kept \cup {"invalid"})
     \/ /\ job' = [job EXCEPT ![j] = "fail"]
        /\ UNCHANGED <<object, marred>>
  /\ UNCHANGED <<artifact, upload, analysis, verdict, conflict, report>>

\* complete, or an error after the object is gone.
Complete(j) ==
  /\ job[j] = "complete"
  /\ \/ /\ artifact.status = "deleting"
        /\ artifact' = [artifact EXCEPT !.status = "deleted"]
        /\ job' = [job EXCEPT ![j] = "idle"]
     \/ /\ job' = [job EXCEPT ![j] = "fail"]
        /\ UNCHANGED artifact
  /\ UNCHANGED <<object, upload, analysis, verdict, conflict, report, marred>>

\* fail puts the status back, whoever has claimed it and whatever is gone.
FailJob(j) ==
  /\ job[j] = "fail"
  /\ artifact' = IF artifact.status = "deleting"
                   THEN [status |-> artifact.previous, sha |-> artifact.sha, previous |-> "none"]
                   ELSE artifact
  /\ marred' = (marred \/ (artifact.status = "deleting" /\ object = "none"))
  /\ job' = [job EXCEPT ![j] = "idle"]
  /\ UNCHANGED <<object, upload, analysis, verdict, conflict, report>>

JobStops(j) ==
  /\ job[j] # "idle" /\ job' = [job EXCEPT ![j] = "idle"]
  /\ UNCHANGED <<artifact, object, upload, analysis, verdict, conflict, report, marred>>

\* A report or an appeal holds the recording until it is decided.
FileReport ==
  /\ report = "none"
  /\ report' = IF artifact.status \in Kept \cup {"invalid"} THEN "held" ELSE "late"
  /\ UNCHANGED <<artifact, object, upload, job, analysis, verdict, conflict, marred>>

DecideReport ==
  /\ report # "none" /\ report' = "none"
  /\ UNCHANGED <<artifact, object, upload, job, analysis, verdict, conflict, marred>>

DemosNext ==
  \/ \E u \in Upload :
       \/ \E says, has \in Bytes : StartUpload(u, says, has)
       \/ PutObject(u) \/ VerifyObject(u) \/ CommitUpload(u) \/ RecordConflict(u) \/ UploadStops(u)
  \/ \E j \in Job :
       \/ ListCandidates(j) \/ Claim(j) \/ DeleteObject(j) \/ Complete(j) \/ FailJob(j) \/ JobStops(j)
  \/ StartAnalysis \/ Download \/ EndAnalysis \/ AnalysisStops
  \/ FileReport \/ DecideReport

DemosSpec == DemosInit /\ [][DemosNext]_demoVars

-----------------------------------------------------------------------------
DemosTypeOK ==
  /\ artifact \in [status : {"none", "uploaded", "analyzed", "invalid", "deleting", "deleted"},
                   sha : Bytes \cup {"none"}, previous : {"none", "analyzed", "invalid"}]
  /\ object \in Bytes \cup {"none"} /\ analysis \in Bytes \cup {"none", "reading", "missing"}
  /\ upload \in [Upload -> [pc : {"idle", "put", "verify", "commit", "conflict"},
                            says : Bytes \cup {"none"}, has : Bytes \cup {"none"}]]
  /\ job \in [Job -> {"idle", "claim", "delete", "complete", "fail"}]
  /\ verdict \in {"completed", "cancelled", "disputed"} /\ report \in {"none", "held", "late"}
  /\ conflict \in BOOLEAN /\ marred \in BOOLEAN

\* Once the uploads have ended without a conflict, the recording of a match is
\* what its row says, a removed one is gone, and one that is held by a report is
\* there.  The store and the row do come apart, and marred says so, when an
\* upload stops after its put, when a job deletes the object under a claim it
\* has lost, and when an error or an analysis after the deletion changes the status.
DemoIsWhatItSays ==
  ~marred /\ ~conflict /\ (\A u \in Upload : upload[u].pc = "idle") =>
    /\ artifact.status \in Kept => object = artifact.sha
    /\ artifact.status = "deleted" => object = "none"
    /\ report = "held" => object # "none"
=============================================================================
