---------------------------- MODULE MediaQueue ------------------------------
(***************************************************************************)
(* Photographs and recordings on the handset (sync/media.ts) and what the  *)
(* office makes of them (storeMbosMedia, bindMbosMedia of                  *)
(* actions/mbos.ts).  A file is captured before the record it belongs to   *)
(* is saved, so it is queued under the name "pending"; saving the record   *)
(* renames it; the drain sends it under the name it had when the drain     *)
(* read it; and the record's own handler at the office binds what already  *)
(* went up.  Each file here belongs to one record of its own.              *)
(***************************************************************************)
EXTENDS Naturals, Sequences, FiniteSets

CONSTANTS
  Files,          \* photographs and recordings
  MediaAttempts,  \* MAX_ATTEMPTS
  DrainSize,      \* rows one drain reads: 5
  SavesOverlap    \* whether a record may be saved while a drain has its
                  \* file in hand under "pending"

ASSUME MediaAssumption ==
  /\ IsFiniteSet(Files) /\ MediaAttempts \in Nat \ {0} /\ DrainSize \in Nat \ {0}
  /\ SavesOverlap \in BOOLEAN

VARIABLES
  media,     \* media_queue
  bytes,     \* files whose bytes are still on the handset
  record,    \* the record each file belongs to: open, saved, ingested, dropped
  stale,     \* files waiting longer than PENDING_PARENT_HOLD_MS
  drain,     \* the rows the drain read and has yet to deal with, as it read them
  upload,    \* the first of them: none, sent, landed, refused
  discard,   \* files a discard has read and not yet deleted
  attached      \* attachments at the office: absent, pending or named

mediaVars == <<media, bytes, record, stale, drain, upload, discard, attached>>

NoFile == [state |-> "none", parent |-> "pending", attempts |-> 0]
Waiting == {"queued", "syncing", "failed"}
Settled == {"ingested", "dropped"}

MediaInit ==
  /\ media = [f \in Files |-> NoFile]
  /\ bytes = {}
  /\ record = [f \in Files |-> "open"]
  /\ stale = {}
  /\ drain = << >>
  /\ upload = "none"
  /\ discard = {}
  /\ attached = [f \in Files |-> "absent"]
-----------------------------------------------------------------------------
HasRow(f) == media[f].state # "none"
InHand(f) == \E n \in DOMAIN drain : drain[n].file = f
SetMedia(f, x) == media' = [media EXCEPT ![f] = x]

(* captureImage, queueFile, queueAudio.                                    *)
Capture(f) ==
  /\ record[f] = "open" /\ ~HasRow(f) /\ f \notin bytes
  /\ SetMedia(f, [NoFile EXCEPT !.state = "queued"])
  /\ bytes' = bytes \union {f}
  /\ UNCHANGED <<record, stale, drain, upload, discard, attached>>

(* Six hours go by.                                                        *)
GrowsOld(f) ==
  /\ HasRow(f) /\ f \notin stale
  /\ stale' = stale \union {f}
  /\ UNCHANGED <<media, bytes, record, drain, upload, discard, attached>>

(* Mutant: the saved record claims nothing.                                *)
SaveUnclaimed(f) ==
  /\ record[f] = "open" /\ HasRow(f) /\ f \notin discard
  /\ SavesOverlap \/ ~InHand(f)
  /\ record' = [record EXCEPT ![f] = "saved"]
  /\ UNCHANGED <<media, bytes, stale, drain, upload, discard, attached>>

(* The record is saved and claims its file, if that has not gone up.       *)
SaveRecord(f) ==
  /\ record[f] = "open" /\ HasRow(f) /\ f \notin discard
  /\ SavesOverlap \/ ~InHand(f)
  /\ record' = [record EXCEPT ![f] = "saved"]
  /\ IF media[f].state = "synced" THEN UNCHANGED media
     ELSE SetMedia(f, [media[f] EXCEPT !.parent = "named"])
  /\ UNCHANGED <<bytes, stale, drain, upload, discard, attached>>

(* Mutant: the handler leaves what went up before it as it is.             *)
RecordIngestedUnbound(f) ==
  /\ record[f] = "saved"
  /\ record' = [record EXCEPT ![f] = "ingested"]
  /\ UNCHANGED <<media, bytes, stale, drain, upload, discard, attached>>

(* The record reaches the office, whose handler binds the file if it is    *)
(* there (bindMbosMedia).                                                  *)
RecordIngested(f) ==
  /\ record[f] = "saved"
  /\ record' = [record EXCEPT ![f] = "ingested"]
  /\ attached' = [attached EXCEPT ![f] = IF @ = "absent" THEN @ ELSE "named"]
  /\ UNCHANGED <<media, bytes, stale, drain, upload, discard>>

(* The form is left; some forms then discard what they had captured.       *)
Abandon(f) ==
  /\ record[f] = "open"
  /\ record' = [record EXCEPT ![f] = "dropped"]
  /\ UNCHANGED <<media, bytes, stale, drain, upload, discard, attached>>

ReadDiscard(f) ==
  /\ record[f] \in {"open", "dropped"} /\ media[f].state = "queued" /\ f \notin discard
  /\ discard' = discard \union {f}
  /\ UNCHANGED <<media, bytes, record, stale, drain, upload, attached>>

Delete(f) ==
  /\ f \in discard
  /\ SetMedia(f, NoFile)
  /\ bytes' = bytes \ {f}
  /\ record' = [record EXCEPT ![f] = "dropped"]
  /\ discard' = discard \ {f}
  /\ UNCHANGED <<stale, drain, upload, attached>>
-----------------------------------------------------------------------------
Ready == {f \in Files : media[f].state = "queued"
                          /\ (media[f].parent # "pending" \/ f \in stale)}

(* A drain reads the first rows that are ready.  One at a time.            *)
StartDrain ==
  /\ drain = << >>
  /\ \E S \in SUBSET Ready :
       /\ S # {} /\ Cardinality(S) <= DrainSize
       /\ Cardinality(S) < DrainSize => S = Ready
       /\ \E order \in [1 .. Cardinality(S) -> S] :
            /\ \A f \in S : \E n \in DOMAIN order : order[n] = f
            /\ drain' = [n \in DOMAIN order |->
                 [file |-> order[n], parent |-> media[order[n]].parent,
                  attempts |-> media[order[n]].attempts]]
  /\ UNCHANGED <<media, bytes, record, stale, upload, discard, attached>>

First == Head(drain)
SetState(f, state) ==
  IF HasRow(f) THEN SetMedia(f, [media[f] EXCEPT !.state = state]) ELSE UNCHANGED media

(* The row is marked, and the request goes out if the bytes are there.     *)
Send ==
  /\ drain # << >> /\ upload = "none"
  /\ SetState(First.file, "syncing")
  /\ upload' = IF First.file \in bytes THEN "sent" ELSE "refused"
  /\ UNCHANGED <<bytes, record, stale, drain, discard, attached>>

(* storeMbosMedia.  A file already here is only renamed, from "pending" to *)
(* its record.                                                             *)
Land ==
  /\ upload = "sent"
  /\ upload' = "landed"
  /\ attached' = [attached EXCEPT ![First.file] =
       IF @ = "absent" \/ @ = "pending" THEN First.parent ELSE @]
  /\ UNCHANGED <<media, bytes, record, stale, drain, discard>>

(* The request is refused, times out, or its answer is lost.               *)
Fail ==
  /\ upload \in {"sent", "landed"}
  /\ upload' = "refused"
  /\ UNCHANGED <<media, bytes, record, stale, drain, discard, attached>>

(* Mutant: an upload that failed is done with.                             *)
AnsweredAnyhow ==
  /\ upload \in {"landed", "refused"}
  /\ SetState(First.file, "synced")
  /\ bytes' \in {bytes, bytes \ {First.file}}
  /\ drain' = Tail(drain) /\ upload' = "none"
  /\ UNCHANGED <<record, stale, discard, attached>>

(* Mutant: the bytes go whatever the answer was.                           *)
AnsweredTidy ==
  /\ upload \in {"landed", "refused"}
  /\ IF upload = "landed" THEN SetState(First.file, "synced")
     ELSE SetState(First.file, "queued")
  /\ bytes' = bytes \ {First.file}
  /\ drain' = Tail(drain) /\ upload' = "none"
  /\ UNCHANGED <<record, stale, discard, attached>>

(* Answered: the row is done and its bytes may go, or it waits for another *)
(* try, or it has had its tries.  A recording's bytes wait for its         *)
(* transcript, so they may also stay.                                      *)
Answered ==
  /\ upload \in {"landed", "refused"}
  /\ LET f     == First.file
         tries == First.attempts + 1
     IN IF upload = "landed"
        THEN /\ SetState(f, "synced")
             /\ bytes' \in {bytes, bytes \ {f}}
        ELSE /\ IF HasRow(f)
                THEN SetMedia(f, [media[f] EXCEPT !.attempts = tries,
                       !.state = IF tries >= MediaAttempts THEN "failed" ELSE "queued"])
                ELSE UNCHANGED media
             /\ UNCHANGED bytes
  /\ drain' = Tail(drain) /\ upload' = "none"
  /\ UNCHANGED <<record, stale, discard, attached>>

(* He presses Retry: retryFailedMedia.                                     *)
RetryFailed ==
  /\ \E f \in Files : media[f].state = "failed"
  /\ media' = [f \in Files |-> IF media[f].state = "failed"
                 THEN [media[f] EXCEPT !.state = "queued", !.attempts = 0] ELSE media[f]]
  /\ UNCHANGED <<bytes, record, stale, drain, upload, discard, attached>>

(* Mutant: a cold start leaves what was going up as it is.                 *)
RestartAsIs ==
  /\ drain # << >> \/ discard # {}
  /\ drain' = << >> /\ upload' = "none" /\ discard' = {}
  /\ UNCHANGED <<media, bytes, record, stale, attached>>

(* The app is killed and started: what was going up is queued again.       *)
Restart ==
  /\ drain # << >> \/ discard # {}
  /\ drain' = << >> /\ upload' = "none" /\ discard' = {}
  /\ media' = [f \in Files |-> IF media[f].state = "syncing"
                 THEN [media[f] EXCEPT !.state = "queued"] ELSE media[f]]
  /\ UNCHANGED <<bytes, record, stale, attached>>

MediaNext ==
  \/ \E f \in Files :
       \/ Capture(f) \/ GrowsOld(f) \/ SaveRecord(f) \/ RecordIngested(f) \/ Abandon(f)
       \/ ReadDiscard(f) \/ Delete(f)
  \/ StartDrain \/ Send \/ Land \/ Fail \/ Answered
  \/ RetryFailed \/ Restart

MediaSpec == MediaInit /\ [][MediaNext]_mediaVars

(* A pass ends by draining what is ready, and an upload ends (120 s).      *)
MediaFair ==
  /\ WF_mediaVars(StartDrain) /\ WF_mediaVars(Send) /\ WF_mediaVars(Answered)
  /\ WF_mediaVars(Land \/ Fail)
-----------------------------------------------------------------------------
MediaTypeOK ==
  /\ media \in [Files -> [state : Waiting \union {"none", "synced"},
                          parent : {"pending", "named"}, attempts : 0 .. MediaAttempts]]
  /\ bytes \subseteq Files /\ stale \subseteq Files /\ discard \subseteq Files
  /\ record \in [Files -> {"open", "saved"} \union Settled]
  /\ drain \in Seq([file : Files, parent : {"pending", "named"}, attempts : Nat])
  /\ upload \in {"none", "sent", "landed", "refused"}
  /\ attached \in [Files -> {"absent", "pending", "named"}]

(* The bytes of a file whose row still waits, or whose record was saved,   *)
(* are on the handset or at the office: a sent file is deleted from the    *)
(* handset only once the office has it.                                    *)
NoBytesLost ==
  \A f \in Files : HasRow(f) => f \in bytes \/ attached[f] # "absent"

(* A row drawn as sent is at the office.                                   *)
SyncedIsFiled == \A f \in Files : media[f].state = "synced" => attached[f] # "absent"

(* Once a record and its file are both at the office, in whichever order   *)
(* they came and however often the file was sent, the file is under it.    *)
FiledUnderItsRecord ==
  \A f \in Files :
    record[f] = "ingested" /\ media[f].state = "synced" => attached[f] = "named"

(* A row is syncing only while the drain has it in hand: none is left      *)
(* where neither the drain nor Retry would ever look for it.               *)
SyncingIsInHand ==
  \A f \in Files : media[f].state = "syncing" => InHand(f)

(* A file is on the handset, in hand or at the office, and never in        *)
(* between, through kills, lost answers and discards (media.ts).           *)
NoFileLost == NoBytesLost /\ SyncedIsFiled /\ SyncingIsInHand

(* The app is not killed again and again.                                  *)
MediaCalm == <>[][~Restart]_mediaVars

(* Every file of a saved record goes up or is shown as failed.             *)
FilesSettle ==
  MediaCalm => \A f \in Files :
    record[f] = "saved" /\ HasRow(f) ~> media[f].state \in {"synced", "failed"}
=============================================================================
