---------------------------- MODULE LatestFrame -----------------------------
(***************************************************************************)
(* What CRingBuffer promises to the one thread that reads it, without      *)
(* slots and indices: a register that holds the newest frame the camera    *)
(* published.  A read returns a frame that was the newest one at some      *)
(* moment of the call, and never an older one than the read before it did. *)
(* It may fail only if nothing was published before it was called, or if   *)
(* a publication was going on during the call.                             *)
(***************************************************************************)
EXTENDS Integers

VARIABLES
  latest,     (* Number of the newest published frame, 0 if there is none. *)
  publishing, (* The camera thread is inside a publication.                *)
  calling,    (* The detection thread is inside readData.                  *)
  floor,      (* latest when the last call started.                        *)
  contended,  (* A publication overlapped the last call.                   *)
  got,        (* The frame returned by the last successful call.           *)
  rc          (* The last return code.                                     *)

vars == <<latest, publishing, calling, floor, contended, got, rc>>

Init ==
  /\ latest = 0 /\ publishing = FALSE
  /\ calling = FALSE /\ floor = 0 /\ contended = FALSE
  /\ got = 0 /\ rc = "none"

PublishBegin ==
  /\ ~publishing
  /\ publishing' = TRUE
  /\ latest' = latest + 1
  /\ contended' = (contended \/ calling)
  /\ UNCHANGED <<calling, floor, got, rc>>

PublishEnd ==
  /\ publishing
  /\ publishing' = FALSE
  /\ UNCHANGED <<latest, calling, floor, contended, got, rc>>

Call ==
  /\ ~calling
  /\ calling' = TRUE
  /\ floor' = latest
  /\ contended' = publishing
  /\ UNCHANGED <<latest, publishing, got, rc>>

ReturnFrame ==
  /\ calling
  /\ calling' = FALSE
  /\ rc' = "RC_SUCCESS"
  /\ got' \in floor .. latest
  /\ got' >= got /\ got' > 0
  /\ UNCHANGED <<latest, publishing, floor, contended>>

ReturnEmpty ==
  /\ calling
  /\ floor = 0 \/ contended
  /\ calling' = FALSE
  /\ rc' = "RC_ERROR_BUFFER_EMTPY"
  /\ UNCHANGED <<latest, publishing, floor, contended, got>>

Return == ReturnFrame \/ ReturnEmpty
Next   == PublishBegin \/ PublishEnd \/ Call \/ Return

(* A publication ends and a call returns.                                  *)
Fairness == WF_vars(PublishEnd) /\ WF_vars(Return)

Spec == Init /\ [][Next]_vars /\ Fairness
=============================================================================
