---------------------------- MODULE PendingImports ----------------------------
(***************************************************************************)
(* One upload for a whole file (core/pending_imports.py): a preview stores  *)
(* the file and a PendingImport row, Import starts a worker process that    *)
(* commits the file and stores what the page shows, the page polls for it,  *)
(* and cleanup removes uploads older than a day.                            *)
(*                                                                          *)
(* Each statement commits by itself, so two web requests, two workers, the  *)
(* polls and the cleanup interleave between any two of them.  What a file   *)
(* holds is one lump: a worker plans against what is on file, then writes   *)
(* what was not there.                                                      *)
(***************************************************************************)
EXTENDS Naturals

CONSTANTS
  Upload,      \* uploads, each with its row, its file and its page
  Session,     \* web requests in progress
  Worker,      \* run_pending_import processes
  NoUpload,
  MaxErrors,   \* bound: errors raised while importing
  MaxCrashes   \* bound: processes that die

ASSUME NoUploadAssumption == NoUpload \notin Upload
ASSUME ErrorBounds == MaxErrors \in Nat /\ MaxCrashes \in Nat

VARIABLES
  status,    \* the row's status; "none" before the upload, "gone" once deleted
  result,    \* what the row says of the import
  file,      \* the stored file is there
  expired,   \* the uploads older than EXPIRY
  written,   \* how many times the file's rows were written
  page,      \* what the person is shown
  session,   \* the press each web request is in
  worker,    \* where each worker stands
  raised,    \* history: uploads whose worker met an error after writing
  errors, crashes  \* what is left of the bounds

rowVars == <<status, result>>
importVars == <<rowVars, file, expired, written, page, session, worker, raised, errors, crashes>>

Status == {"none", "previewed", "waiting", "running", "finished", "failed", "gone"}
Live == Status \ {"none", "gone"}
Result == {"empty", "saved", "nothing"}
Page == {"none", "preview", "polling", "saved", "nothing", "refused"}
SessionPC == {"idle", "pressed", "launch"}
WorkerPC == {"off", "look", "mark", "read", "write", "after", "delete", "save"}

ImportTypeOK ==
  /\ status \in [Upload -> Status]
  /\ result \in [Upload -> Result]
  /\ file \in [Upload -> BOOLEAN]
  /\ expired \subseteq Upload
  /\ written \in [Upload -> Nat]
  /\ page \in [Upload -> Page]
  /\ session \in [Session -> [pc : SessionPC, upload : Upload \cup {NoUpload}]]
  /\ worker \in [Worker -> [pc : WorkerPC, upload : Upload \cup {NoUpload},
                            fresh : BOOLEAN, outcome : Result]]
  /\ raised \subseteq Upload
  /\ errors \in 0 .. MaxErrors
  /\ crashes \in 0 .. MaxCrashes

Idle == [pc |-> "idle", upload |-> NoUpload]
Off == [pc |-> "off", upload |-> NoUpload, fresh |-> FALSE, outcome |-> "empty"]

ImportInit ==
  /\ status = [u \in Upload |-> "none"]
  /\ result = [u \in Upload |-> "empty"]
  /\ file = [u \in Upload |-> FALSE]
  /\ expired = {}
  /\ written = [u \in Upload |-> 0]
  /\ page = [u \in Upload |-> "none"]
  /\ session = [s \in Session |-> Idle]
  /\ worker = [w \in Worker |-> Off]
  /\ raised = {}
  /\ errors = MaxErrors
  /\ crashes = MaxCrashes

-----------------------------------------------------------------------------
(* The person: preview, Import, the polls *)

\* lookup: the upload's row, unless it is older than EXPIRY.
Found(u) == status[u] \in Live /\ u \notin expired

\* purge_expired: uploads older than EXPIRY go, files and rows, whatever their
\* status.
FilesKept == [u \in Upload |-> file[u] /\ u \notin expired]
RowsKept == [u \in Upload |-> IF u \in expired THEN "gone" ELSE status[u]]

\* receive: old uploads are cleaned up, the file is stored and parsed.  (One that
\* does not parse is removed again with its row: nothing else changes.)
Preview(u) ==
  /\ status[u] = "none"
  /\ ~file[u]
  /\ file' = [FilesKept EXCEPT ![u] = TRUE]
  /\ status' = [RowsKept EXCEPT ![u] = "previewed"]
  /\ page' = [page EXCEPT ![u] = "preview"]
  /\ UNCHANGED <<result, expired, written, session, worker, raised, errors, crashes>>

\* The web worker dies after storing the file and before the row is there.
PreviewDies(u) ==
  /\ status[u] = "none"
  /\ ~file[u]
  /\ crashes > 0
  /\ crashes' = crashes - 1
  /\ file' = [FilesKept EXCEPT ![u] = TRUE]
  /\ status' = RowsKept
  /\ UNCHANGED <<result, expired, written, page, session, worker, raised, errors>>

\* start_import looks at the upload: refused, already started, or previewed.
PressAnyStatus(s, u) ==
  /\ session[s] = Idle
  /\ page[u] \in {"preview", "polling"}
  /\ page' = [page EXCEPT ![u] = IF Found(u) THEN "polling" ELSE "refused"]
  /\ session' = [session EXCEPT ![s] =
       IF Found(u) THEN [pc |-> "pressed", upload |-> u] ELSE Idle]
  /\ UNCHANGED <<rowVars, file, expired, written, worker, raised, errors, crashes>>
PressImport(s, u) ==
  /\ session[s] = Idle
  /\ page[u] \in {"preview", "polling"}
  /\ page' = [page EXCEPT ![u] = IF Found(u) THEN "polling" ELSE "refused"]
  /\ session' = [session EXCEPT ![s] =
       IF Found(u) /\ status[u] = "previewed" THEN [pc |-> "pressed", upload |-> u]
       ELSE Idle]
  /\ UNCHANGED <<rowVars, file, expired, written, worker, raised, errors, crashes>>

\* A save(update_fields=...) of a row that is gone raises.
Saves(u, st, res) ==
  /\ status' = [status EXCEPT ![u] = st]
  /\ result' = [result EXCEPT ![u] = res]

\* The row is marked waiting, whatever it says by now ...
MarkWaiting(s) ==
  LET u == session[s].upload IN
  /\ session[s].pc = "pressed"
  /\ IF status[u] \in Live
     THEN /\ Saves(u, "waiting", result[u])
          /\ session' = [session EXCEPT ![s].pc = "launch"]
     ELSE /\ session' = [session EXCEPT ![s] = Idle]
          /\ UNCHANGED rowVars
  /\ UNCHANGED <<file, expired, written, page, worker, raised, errors, crashes>>

\* ... and a worker is started for it.
LaunchImport(s, w) ==
  /\ session[s].pc = "launch"
  /\ worker[w] = Off
  /\ worker' = [worker EXCEPT ![w] = [Off EXCEPT !.pc = "look",
                                                 !.upload = session[s].upload]]
  /\ session' = [session EXCEPT ![s] = Idle]
  /\ UNCHANGED <<rowVars, file, expired, written, page, raised, errors, crashes>>

\* No process can be started: the upload is failed at once.
LaunchFails(s) ==
  LET u == session[s].upload IN
  /\ session[s].pc = "launch"
  /\ errors > 0
  /\ errors' = errors - 1
  /\ session' = [session EXCEPT ![s] = Idle]
  /\ IF status[u] \in Live
     THEN /\ file' = [file EXCEPT ![u] = FALSE]
          /\ Saves(u, "failed", "nothing")
     ELSE UNCHANGED <<rowVars, file>>
  /\ UNCHANGED <<expired, written, page, worker, raised, crashes>>

PressDies(s) ==
  /\ session[s].pc # "idle"
  /\ crashes > 0
  /\ crashes' = crashes - 1
  /\ session' = [session EXCEPT ![s] = Idle]
  /\ UNCHANGED <<rowVars, file, expired, written, page, worker, raised, errors>>

\* status_response: the stored result is shown once and its row deleted; an
\* upload that cannot be found ends the polling; otherwise the page polls on.
PollFindsOld(u) ==
  /\ page[u] = "polling"
  /\ status[u] \in {"finished", "failed"}
  /\ page' = [page EXCEPT ![u] = result[u]]
  /\ status' = [status EXCEPT ![u] = "gone"]
  /\ UNCHANGED <<result, file, expired, written, session, worker, raised, errors, crashes>>
Poll(u) ==
  /\ page[u] = "polling"
  /\ IF ~Found(u)
     THEN /\ page' = [page EXCEPT ![u] = "refused"]
          /\ UNCHANGED status
     ELSE /\ status[u] \in {"finished", "failed"}
          /\ page' = [page EXCEPT ![u] = result[u]]
          /\ status' = [status EXCEPT ![u] = "gone"]
  /\ UNCHANGED <<result, file, expired, written, session, worker, raised, errors, crashes>>

-----------------------------------------------------------------------------
(* The worker *)

At(w, pc) == worker[w].pc = pc
Goes(w, pc) == worker' = [worker EXCEPT ![w].pc = pc]
Ends(w) == worker' = [worker EXCEPT ![w] = Off]

\* run: only an upload that is waiting is imported.
Look(w) ==
  /\ At(w, "look")
  /\ IF status[worker[w].upload] = "waiting" THEN Goes(w, "mark") ELSE Ends(w)
  /\ UNCHANGED <<rowVars, file, expired, written, page, session, raised, errors, crashes>>

MarkRunning(w) ==
  LET u == worker[w].upload IN
  /\ At(w, "mark")
  /\ IF status[u] \in Live
     THEN Saves(u, "running", result[u]) /\ Goes(w, "read")
     ELSE Ends(w) /\ UNCHANGED rowVars
  /\ UNCHANGED <<file, expired, written, page, session, raised, errors, crashes>>

\* The commit function reads the stored file again, and what is on file.  A
\* file that is gone is an unexpected error.
Plan(w) ==
  LET u == worker[w].upload IN
  /\ At(w, "read")
  /\ worker' = [worker EXCEPT ![w] =
       IF file[u] THEN [worker[w] EXCEPT !.pc = "write", !.fresh = written[u] = 0]
       ELSE [worker[w] EXCEPT !.pc = "delete", !.outcome = "nothing"]]
  /\ UNCHANGED <<rowVars, file, expired, written, page, session, raised, errors, crashes>>

\* Its rows that were not on file are written in one transaction.
Write(w) ==
  LET u == worker[w].upload IN
  /\ At(w, "write")
  /\ written' = [written EXCEPT ![u] = @ + IF worker[w].fresh THEN 1 ELSE 0]
  /\ Goes(w, "after")
  /\ UNCHANGED <<rowVars, file, expired, page, session, raised, errors, crashes>>

\* Then some kinds save a setting, ask for a recalculation or record an agency.
Done(w) ==
  /\ At(w, "after")
  /\ worker' = [worker EXCEPT ![w].pc = "delete", ![w].outcome = "saved"]
  /\ UNCHANGED <<rowVars, file, expired, written, page, session, raised, errors, crashes>>

\* Any error is told as "saved nothing from this file".
Raises(w) ==
  /\ worker[w].pc \in {"read", "write", "after"}
  /\ errors > 0
  /\ errors' = errors - 1
  /\ worker' = [worker EXCEPT ![w].pc = "delete", ![w].outcome = "nothing"]
  /\ raised' = IF At(w, "after") THEN raised \cup {worker[w].upload} ELSE raised
  /\ UNCHANGED <<rowVars, file, expired, written, page, session, crashes>>

\* _finish: the file goes first, then the row says what the page shows.
DeleteNothing(w) ==
  /\ At(w, "delete")
  /\ Goes(w, "save")
  /\ UNCHANGED <<rowVars, file, expired, written, page, session, raised, errors, crashes>>
DeleteFile(w) ==
  /\ At(w, "delete")
  /\ file' = [file EXCEPT ![worker[w].upload] = FALSE]
  /\ Goes(w, "save")
  /\ UNCHANGED <<rowVars, expired, written, page, session, raised, errors, crashes>>

SaveResult(w) ==
  LET u == worker[w].upload IN
  /\ At(w, "save")
  /\ IF status[u] \in Live
     THEN Saves(u, IF worker[w].outcome = "saved" THEN "finished" ELSE "failed",
                worker[w].outcome)
     ELSE UNCHANGED rowVars
  /\ Ends(w)
  /\ UNCHANGED <<file, expired, written, page, session, raised, errors, crashes>>

WorkerDies(w) ==
  /\ ~At(w, "off")
  /\ crashes > 0
  /\ crashes' = crashes - 1
  /\ Ends(w)
  /\ UNCHANGED <<rowVars, file, expired, written, page, session, raised, errors>>

-----------------------------------------------------------------------------
(* Time *)

Expires(u) ==
  /\ status[u] \in Live
  /\ u \notin expired
  /\ expired' = expired \cup {u}
  /\ UNCHANGED <<rowVars, file, written, page, session, worker, raised, errors, crashes>>

\* The monthly cleanup (prune_old_data --confirm).
Purge ==
  /\ \E u \in expired : status[u] \in Live
  /\ file' = FilesKept
  /\ status' = RowsKept
  /\ UNCHANGED <<result, expired, written, page, session, worker, raised, errors, crashes>>

WorkerStep(w) ==
  \/ Look(w) \/ MarkRunning(w) \/ Plan(w) \/ Write(w) \/ Done(w) \/ Raises(w)
  \/ DeleteFile(w) \/ SaveResult(w)

ImportNext ==
  \/ \E u \in Upload : Preview(u) \/ PreviewDies(u) \/ Poll(u) \/ Expires(u)
  \/ \E s \in Session : \/ \E u \in Upload : PressImport(s, u)
                        \/ MarkWaiting(s) \/ LaunchFails(s) \/ PressDies(s)
                        \/ \E w \in Worker : LaunchImport(s, w)
  \/ \E w \in Worker : WorkerStep(w) \/ WorkerDies(w)
  \/ Purge

ImportSpec == ImportInit /\ [][ImportNext]_importVars

\* The page polls every two seconds and a day passes.  No process has to run.
PolledSpec == ImportSpec /\ \A u \in Upload : WF_importVars(Poll(u)) /\ WF_importVars(Expires(u))

-----------------------------------------------------------------------------
(* Properties *)

\* What the page says of an import is what became of it: a result is shown only
\* of a file whose rows were written once, however often Import is pressed, and
\* "saved nothing from this file" only of a file nothing was written from, unless
\* its worker met an error after writing (start_import, run, _finish).
ToldAsSaved ==
  \A u \in Upload :
    /\ page[u] = "saved" => written[u] = 1
    /\ page[u] = "nothing" => written[u] = 0 \/ u \in raised

\* Uploads are private files in transit: once its row is gone the file is gone,
\* and it stays gone (_finish, purge_expired).
NoFileLeft == \A u \in Upload : status[u] = "gone" => ~file[u]

\* The person is told something, whichever process dies: the page does not poll
\* for longer than the upload is kept (lookup, status_response).
PollingEnds == \A u \in Upload : page[u] = "polling" ~> page[u] # "polling"
=============================================================================
