------------------------------- MODULE VideoJobs -------------------------------
(***************************************************************************)
(* Video generation jobs of the HTTP server: a job is an entry in the      *)
(* store, a background task, and a file that a thread writes.  DELETE      *)
(* cancels the task of a job under way, or removes the file of one that    *)
(* is completed.  The locks of the stores are never held across an await,  *)
(* so that their operations suspend nobody; only generation, storage and   *)
(* the wait for a cancelled task do.                                       *)
(***************************************************************************)
EXTENDS Naturals, FiniteSets

CONSTANTS
  Video,    \* jobs
  Deletes,  \* calls of DELETE
  MaxIo     \* VLLM_OMNI_STORAGE_MAX_CONCURRENCY

VARIABLES
  video_store,  \* the status of each job, or "absent"
  video_task,   \* the await each job's task is suspended in
  video_cancel, \* jobs whose task is cancelled but has not run since
  saving,       \* the thread that writes each job's file
  files,        \* files on disk
  deleting,     \* each call of DELETE: its job and where it is
  created       \* jobs there have been

video_vars == <<video_store, video_task, video_cancel, saving, files, deleting, created>>

NoCall == <<0, "none">>

VideoInit ==
  /\ video_store = [v \in Video |-> "absent"]
  /\ video_task = [v \in Video |-> "none"]
  /\ video_cancel = {}
  /\ saving = [v \in Video |-> "none"]
  /\ files = {}
  /\ deleting = [d \in Deletes |-> NoCall]
  /\ created = {}

(* The semaphore of the storage.                                           *)
Holders == Cardinality({v \in Video : video_task[v] = "saving"})
             + Cardinality({d \in Deletes : deleting[d][2] = "removing"})

CreateVideo(v) ==
  /\ v \notin created
  /\ created' = created \cup {v}
  /\ video_store' = [video_store EXCEPT ![v] = "queued"]
  /\ video_task' = [video_task EXCEPT ![v] = "created"]
  /\ UNCHANGED <<video_cancel, saving, files, deleting>>

-------------------------------------------------------------------------------
(* _run_video_generation_job.                                              *)

Runs(v, await) == video_task[v] = await /\ v \notin video_cancel

(* update_fields writes nothing for a job that is gone.                    *)
Updated(v, status) ==
  IF video_store[v] = "absent" THEN video_store ELSE [video_store EXCEPT ![v] = status]

Generate(v) ==
  /\ Runs(v, "created")
  /\ video_store' = Updated(v, "in_progress")
  /\ video_task' = [video_task EXCEPT ![v] = "generating"]
  /\ UNCHANGED <<video_cancel, saving, files, deleting, created>>

Generated(v) ==
  /\ Runs(v, "generating")
  /\ video_task' = [video_task EXCEPT ![v] = "slot"]
  /\ UNCHANGED <<video_store, video_cancel, saving, files, deleting, created>>

BeginSave(v) ==
  /\ Runs(v, "slot")
  /\ Holders < MaxIo
  /\ video_task' = [video_task EXCEPT ![v] = "saving"]
  /\ saving' = [saving EXCEPT ![v] = "queued"]
  /\ UNCHANGED <<video_store, video_cancel, files, deleting, created>>

Complete(v) ==
  /\ Runs(v, "saving")
  /\ saving[v] = "written"
  /\ video_store' = Updated(v, "completed")
  /\ video_task' = [video_task EXCEPT ![v] = "ended"]
  /\ UNCHANGED <<video_cancel, saving, files, deleting, created>>

(* No exception comes with a file: the write cleans up after itself.       *)
Fail(v) ==
  /\ Runs(v, "generating") \/ (Runs(v, "saving") /\ saving[v] = "failed")
  /\ video_store' = Updated(v, "failed")
  /\ video_task' = [video_task EXCEPT ![v] = "ended"]
  /\ UNCHANGED <<video_cancel, saving, files, deleting, created>>

(* A job that is cancelled knows no output path yet, so it removes no      *)
(* file.  A write that has begun goes on.  A task that never ran does not  *)
(* reach its handler.                                                      *)
CancelJob(v) ==
  /\ v \in video_cancel
  /\ video_cancel' = video_cancel \ {v}
  /\ video_task' = [video_task EXCEPT ![v] = "ended"]
  /\ video_store' = IF video_task[v] = "created" THEN video_store
                    ELSE [video_store EXCEPT ![v] = "absent"]
  /\ saving' = [saving EXCEPT ![v] = CASE @ = "queued" -> "none"
                                       [] @ \in {"writing", "written"} -> "abandoned"
                                       [] OTHER -> @]
  /\ UNCHANGED <<files, deleting, created>>

(* _save_sync, in a thread: a temporary file that is renamed.              *)
BeginWrite(v) ==
  /\ saving[v] = "queued"
  /\ saving' = [saving EXCEPT ![v] = "writing"]
  /\ UNCHANGED <<video_store, video_task, video_cancel, files, deleting, created>>

EndWrite(v) ==
  /\ saving[v] \in {"writing", "abandoned"} /\ v \notin files
  /\ \/ files' = files \cup {v}
        /\ saving' = [saving EXCEPT ![v] = IF @ = "writing" THEN "written" ELSE @]
     \/ saving[v] = "writing" /\ saving' = [saving EXCEPT ![v] = "failed"] /\ UNCHANGED files
  /\ UNCHANGED <<video_store, video_task, video_cancel, deleting, created>>

JobStep(v) ==
  \/ Generate(v) \/ Generated(v) \/ BeginSave(v) \/ Complete(v) \/ Fail(v) \/ CancelJob(v)
  \/ BeginWrite(v) \/ EndWrite(v)

-------------------------------------------------------------------------------
(* delete_video.                                                           *)

Goes(d, v, where) == deleting' = [deleting EXCEPT ![d] = <<v, where>>]

(* Mutant of CancelTask: the entry is removed and the task left alone.     *)
CancelTaskNot(v) == video_cancel
CancelTask(v) == IF video_task[v] = "ended" THEN video_cancel ELSE video_cancel \cup {v}

(* The registry forgets a task some time after it ended.                   *)
Delete(d, v) ==
  /\ deleting[d] = NoCall
  /\ v \in created
  /\ CASE video_store[v] \in {"queued", "in_progress"} ->
            \/ video_cancel' = CancelTask(v) /\ Goes(d, v, "cancelling") /\ UNCHANGED video_store
            \/ /\ video_task[v] = "ended"
               /\ Goes(d, v, "conflict")
               /\ UNCHANGED <<video_store, video_cancel>>
       [] video_store[v] = "failed" ->
            /\ video_store' = [video_store EXCEPT ![v] = "absent"]
            /\ Goes(d, v, "deleted")
            /\ UNCHANGED video_cancel
       [] video_store[v] = "completed" -> /\ Goes(d, v, "slot")
                                           /\ UNCHANGED <<video_store, video_cancel>>
       [] OTHER -> Goes(d, v, "not found") /\ UNCHANGED <<video_store, video_cancel>>
  /\ UNCHANGED <<video_task, saving, files, created>>

(* wait_for returns when the task has ended, even if its two seconds are   *)
(* over, which it then reports.                                            *)
Cancelled(d) ==
  /\ deleting[d][2] = "cancelling"
  /\ LET v == deleting[d][1] IN
       /\ v \notin video_cancel
       /\ \/ Goes(d, v, "deleted") /\ video_store' = [video_store EXCEPT ![v] = "absent"]
          \/ Goes(d, v, "conflict") /\ UNCHANGED video_store
  /\ UNCHANGED <<video_task, video_cancel, saving, files, created>>

BeginRemove(d) ==
  /\ deleting[d][2] = "slot"
  /\ Holders < MaxIo
  /\ Goes(d, deleting[d][1], "removing")
  /\ UNCHANGED <<video_store, video_task, video_cancel, saving, files, created>>

(* The thread removes the file, if it is there, ...                        *)
Remove(d) ==
  /\ deleting[d][2] = "removing"
  /\ files' = files \ {deleting[d][1]}
  /\ Goes(d, deleting[d][1], "removed")
  /\ UNCHANGED <<video_store, video_task, video_cancel, saving, created>>

(* ... and the loop then the entry.                                        *)
Removed(d) ==
  /\ deleting[d][2] = "removed"
  /\ video_store' = [video_store EXCEPT ![deleting[d][1]] = "absent"]
  /\ Goes(d, deleting[d][1], "deleted")
  /\ UNCHANGED <<video_task, video_cancel, saving, files, created>>

DeleteStep(d) == Cancelled(d) \/ BeginRemove(d) \/ Remove(d) \/ Removed(d)

VideoStep == (\E v \in Video : JobStep(v)) \/ (\E d \in Deletes : DeleteStep(d))

VideoNext ==
  \/ \E v \in Video : CreateVideo(v)
  \/ \E d \in Deletes, v \in Video : Delete(d, v)
  \/ VideoStep

-------------------------------------------------------------------------------
Being(v, states) == \E d \in Deletes : deleting[d][1] = v /\ deleting[d][2] \in states

(* A completed job has its file, until a DELETE is about to take the entry *)
(* away, too; a file belongs to a job under way or completed, but for one  *)
(* whose job was cancelled while a thread wrote it; and what was answered  *)
(* as deleted is gone for good.                                            *)
VideosSound ==
  \A v \in Video :
    /\ video_store[v] = "completed" => v \in files \/ Being(v, {"removed", "deleted"})
    /\ v \in files => \/ video_store[v] \in {"in_progress", "completed"}
                      \/ saving[v] = "abandoned"
    /\ Being(v, {"deleted"}) => video_store[v] = "absent" /\ video_task[v] = "ended"

TypeOK ==
  /\ video_store \in [Video -> {"absent", "queued", "in_progress", "completed", "failed"}]
  /\ video_task \in [Video -> {"none", "created", "generating", "slot", "saving", "ended"}]
  /\ video_cancel \in SUBSET Video
  /\ saving \in [Video -> {"none", "queued", "writing", "written", "failed", "abandoned"}]
  /\ files \in SUBSET Video
  /\ deleting \in [Deletes -> {NoCall} \cup (Video \X {"cancelling", "slot", "removing", "removed",
                                                    "deleted", "conflict", "not found"})]
  /\ created \in SUBSET Video

(* A job's entry follows its task, and only DELETE takes it away.          *)
EntryMatches(v) ==
  /\ v \notin created <=> video_task[v] = "none"
  /\ video_task[v] = "none" => video_store[v] = "absent"
  /\ video_task[v] = "created" => video_store[v] = "queued"
  /\ video_task[v] \in {"generating", "slot", "saving"} => video_store[v] = "in_progress"
  /\ video_task[v] = "ended" => video_store[v] # "in_progress"
  /\ v \in video_cancel => video_task[v] \notin {"none", "ended"}

(* A file is written for a task that saves, or that was cancelled then.    *)
FileMatches(v) ==
  /\ saving[v] \in CASE video_task[v] = "saving" -> {"queued", "writing", "written", "failed"}
                    [] video_task[v] = "ended" -> {"none", "written", "failed", "abandoned"}
                    [] OTHER -> {"none"}
  /\ video_task[v] = "saving" /\ saving[v] = "written" => v \in files
  /\ video_task[v] = "ended" =>
       CASE video_store[v] = "completed" -> saving[v] = "written"
         [] video_store[v] = "absent" -> saving[v] = "written" => v \notin files
         [] OTHER -> saving[v] \in {"none", "failed"}
  /\ v \in files => saving[v] \in {"written", "abandoned"}

(* What a DELETE that suspends found stays as it was.                      *)
DeleteMatches(d) ==
  deleting[d] # NoCall =>
    LET v == deleting[d][1] where == deleting[d][2] IN
      /\ v \in created
      /\ where = "cancelling" /\ v \notin video_cancel => video_task[v] = "ended" /\ saving[v] # "written"
      /\ where \in {"slot", "removing", "removed"} => video_task[v] = "ended" /\ saving[v] = "written"
      /\ where = "removed" => v \notin files

(* Inductive.                                                              *)
VideosInvariant ==
  /\ TypeOK
  /\ \A v \in Video : EntryMatches(v) /\ FileMatches(v)
  /\ \A d \in Deletes : DeleteMatches(d)
  /\ VideosSound

(* Every DELETE is answered.                                               *)
VideoWaits(d) == deleting[d] # NoCall
VideoOver(d) == deleting[d][2] \in {"deleted", "conflict", "not found"}
===============================================================================
