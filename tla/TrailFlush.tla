----------------------------- MODULE TrailFlush ------------------------------
(***************************************************************************)
(* The location trail on its way to the office: fixes taken by the native  *)
(* recorder (FixStore.kt) or by the app's own task, the recorder sending   *)
(* for itself (Uploader.kt), the app draining the recorder's buffer and    *)
(* flushing its own table (sync/trail.ts), and /api/mbos/positions.  The   *)
(* two senders work at once, share the fixes and lose their answers; the   *)
(* process may be killed between any two steps.  A fix is its reading: it  *)
(* is named by its instant, so storing it twice is storing it once.  A     *)
(* request that outlives its sender files what the handset still holds:    *)
(* it is as if filed later, and is left out.                               *)
(***************************************************************************)
EXTENDS Naturals, FiniteSets

CONSTANTS
  LastFix,        \* bound: fixes taken
  Days, DayOf,    \* the working day each fix was taken in
  Batch,          \* BATCH: fixes posted at once
  DrainBatch,     \* DRAIN_BATCH: rows moved from the buffer at once
  BufferCap,      \* serviceBufferCap
  MaxHeldSkips    \* MAX_HELD_SKIPS: held batches one flush steps past

Fixes == 1 .. LastFix

ASSUME TrailAssumption ==
  /\ LastFix \in Nat /\ DayOf \in [Fixes -> Days]
  /\ {Batch, DrainBatch, BufferCap} \subseteq Nat \ {0} /\ MaxHeldSkips \in Nat

VARIABLES
  taken,      \* the latest fix taken
  buffer,     \* the recorder's fixes table
  positions,  \* the app's positions table
  aged,       \* fixes up to this one are older than the retention
  believes,   \* the recorder says it is sending (uploads())
  silent,     \* it has had nothing accepted for longer than WEDGED_MS
  post,       \* the recorder's request
  flush,      \* the app's flush
  known,      \* days whose check-in the office has
  tracking,   \* trackWhileWorking, the office's switch
  trail       \* fixes on file at the office

trailVars == <<taken, buffer, positions, aged, believes, silent, post, flush,
               known, tracking, trail>>

NoPost == [at |-> "idle"]
NoFlush == [at |-> "idle"]

TrailInit ==
  /\ taken = 0 /\ buffer = {} /\ positions = {} /\ aged = 0
  /\ believes \in BOOLEAN /\ silent = TRUE
  /\ post = NoPost /\ flush = NoFlush
  /\ known = {} /\ tracking = TRUE /\ trail = {}

Oldest(S, n) == {f \in S : Cardinality({g \in S : g < f}) < n}
Newest(S, n) == {f \in S : Cardinality({g \in S : g > f}) < n}
Old(S) == {f \in S : f <= aged}
-----------------------------------------------------------------------------
(* FixStore.keep, with the cap on the buffer: the oldest go first.  Android*)
(* delivers a fix again when a delivery did not complete, whatever has     *)
(* become of the first.  Mutant: the cap is left out.                      *)
KeepEvery(f) ==
  /\ f \in 1 .. taken + 1 /\ f \in Fixes
  /\ taken' = IF f > taken THEN f ELSE taken
  /\ buffer' = buffer \cup {f}
  /\ UNCHANGED <<positions, aged, believes, silent, post, flush, known, tracking, trail>>

Keep(f) ==
  /\ f \in 1 .. taken + 1 /\ f \in Fixes
  /\ taken' = IF f > taken THEN f ELSE taken
  /\ buffer' = Newest(buffer \cup {f}, BufferCap)
  /\ UNCHANGED <<positions, aged, believes, silent, post, flush, known, tracking, trail>>

(* store(), from the background task where there is no recorder.           *)
Store(f) ==
  /\ f \in 1 .. taken + 1 /\ f \in Fixes
  /\ taken' = IF f > taken THEN f ELSE taken
  /\ positions' = positions \cup {f}
  /\ UNCHANGED <<buffer, aged, believes, silent, post, flush, known, tracking, trail>>

(* A week goes by over the oldest fixes.                                   *)
GrowOld ==
  /\ aged < taken /\ aged' = aged + 1
  /\ UNCHANGED <<taken, buffer, positions, believes, silent, post, flush, known, tracking, trail>>

(* The credential, the cadence and the day as the recorder sees them.      *)
Believe ==
  /\ believes' = ~believes
  /\ UNCHANGED <<taken, buffer, positions, aged, silent, post, flush, known, tracking, trail>>

GoSilent ==
  /\ silent' = TRUE
  /\ UNCHANGED <<taken, buffer, positions, aged, believes, post, flush, known, tracking, trail>>

(* A check-in comes up with the outbox; the office turns tracking off, on. *)
CheckIn(d) ==
  /\ known' = known \cup {d}
  /\ UNCHANGED <<taken, buffer, positions, aged, believes, silent, post, flush, tracking, trail>>

SwitchTracking ==
  /\ tracking' = ~tracking
  /\ UNCHANGED <<taken, buffer, positions, aged, believes, silent, post, flush, known, trail>>
-----------------------------------------------------------------------------
(* What /positions makes of a batch: it files the fixes of days it knows,  *)
(* and says which when there are others among them.                        *)
Fileable(S) == IF tracking THEN {f \in S : DayOf[f] \in known} ELSE {}

Word(S) ==
  CASE ~tracking -> "off"
    [] tracking /\ Fileable(S) = {} -> "no-session-yet"
    [] tracking /\ Fileable(S) = S -> "delivered"
    [] OTHER -> "partial"

AnswerTo(req) == [req EXCEPT !.at = "answered", !.word = Word(req.rows), !.filed = Fileable(req.rows)]

(* What landed, by the answer.  Mutant: a batch partly filed is taken for  *)
(* delivered.                                                              *)
LandedAll(req) == IF req.word \in {"delivered", "partial"} THEN req.rows ELSE {}

Landed(req) ==
  CASE req.word = "delivered" -> req.rows
    [] req.word = "partial" -> req.rows \cap req.filed
    [] OTHER -> {}

(* And what a sender deletes of its table: all of it when tracking is off, *)
(* what is old where no day is known, otherwise what landed.               *)
Deleted(req, table) ==
  CASE req.word = "off" -> table
    [] req.word = "no-session-yet" -> Old(table)
    [] OTHER -> Landed(req)

(* Uploader.attempt: the oldest of the buffer, one post at a time.         *)
Upload ==
  /\ post = NoPost /\ believes /\ buffer # {}
  /\ post' = [at |-> "sent", rows |-> Oldest(buffer, Batch), word |-> "", filed |-> {}]
  /\ UNCHANGED <<taken, buffer, positions, aged, believes, silent, flush, known, tracking, trail>>

UploadFiled ==
  /\ post.at = "sent"
  /\ post' = AnswerTo(post) /\ trail' = trail \cup Fileable(post.rows)
  /\ UNCHANGED <<taken, buffer, positions, aged, believes, silent, flush, known, tracking>>

(* applyAnswer; off stops the recorder as well.                            *)
UploadAnswered ==
  /\ post.at = "answered" /\ post' = NoPost
  /\ buffer' = buffer \ Deleted(post, buffer)
  /\ believes' = (believes /\ post.word # "off")
  /\ silent' = (silent /\ Landed(post) = {})
  /\ UNCHANGED <<taken, positions, aged, flush, known, tracking, trail>>

UploadLost ==
  /\ post # NoPost /\ post' = NoPost
  /\ UNCHANGED <<taken, buffer, positions, aged, believes, silent, flush, known, tracking, trail>>
-----------------------------------------------------------------------------
(* chooseSender: the recorder sends unless it says it does not, or has had *)
(* nothing accepted for too long with fixes held.  Mutant: its word is     *)
(* taken for it.                                                           *)
AppSendsWhenTold == ~believes
AppSends == ~believes \/ (silent /\ buffer # {})

(* flush, and drainService inside it: a page of the buffer is stored, then *)
(* forgotten, until a short one.                                           *)
Reading(offset, skips) == [at |-> "read", offset |-> offset, skips |-> skips]

BeginFlush ==
  /\ flush = NoFlush
  /\ flush' = IF AppSends /\ buffer # {} THEN [at |-> "drain"] ELSE Reading(0, 0)
  /\ UNCHANGED <<taken, buffer, positions, aged, believes, silent, post, known, tracking, trail>>

StoreDrained ==
  /\ flush.at = "drain"
  /\ LET rows == Oldest(buffer, DrainBatch) IN
       /\ flush' = IF rows = {} THEN Reading(0, 0) ELSE [at |-> "forget", rows |-> rows]
       /\ positions' = positions \cup rows
  /\ UNCHANGED <<taken, buffer, aged, believes, silent, post, known, tracking, trail>>

ForgetDrained ==
  /\ flush.at = "forget"
  /\ buffer' = buffer \ flush.rows
  /\ flush' = IF Cardinality(flush.rows) < DrainBatch THEN Reading(0, 0) ELSE [at |-> "drain"]
  /\ UNCHANGED <<taken, positions, aged, believes, silent, post, known, tracking, trail>>

PostBatch ==
  /\ flush.at = "read"
  /\ LET rows == Oldest(positions \ Oldest(positions, flush.offset), Batch) IN
       flush' = IF rows = {} THEN NoFlush
                ELSE [at |-> "sent", rows |-> rows, word |-> "", filed |-> {},
                      offset |-> flush.offset, skips |-> flush.skips]
  /\ UNCHANGED <<taken, buffer, positions, aged, believes, silent, post, known, tracking, trail>>

BatchFiled ==
  /\ flush.at = "sent"
  /\ flush' = AnswerTo(flush) /\ trail' = trail \cup Fileable(flush.rows)
  /\ UNCHANGED <<taken, buffer, positions, aged, believes, silent, post, known, tracking>>

(* decideFlush: whether the flush goes round again, and from where.  A     *)
(* full batch of no known day is stepped past, so often.  Mutant: it holds *)
(* up what is behind it.                                                   *)
OnwardsNeverPast(req) ==
  IF req.word \in {"delivered", "partial"} /\ Landed(req) # {} /\ Cardinality(req.rows) = Batch
  THEN Reading(req.offset, req.skips) ELSE NoFlush

Onwards(req) ==
  LET full == Cardinality(req.rows) = Batch IN
  CASE req.word = "no-session-yet" /\ full /\ req.skips < MaxHeldSkips ->
         Reading(req.offset + Batch, req.skips + 1)
    [] req.word \in {"delivered", "partial"} /\ full /\ Landed(req) # {} ->
         Reading(req.offset, req.skips)
    [] OTHER -> NoFlush

BatchAnswered ==
  /\ flush.at = "answered" /\ flush' = Onwards(flush)
  /\ positions' = positions \ Deleted(flush, positions)
  /\ believes' = (believes /\ flush.word # "off")
  /\ UNCHANGED <<taken, buffer, aged, silent, post, known, tracking, trail>>

BatchLost ==
  /\ flush.at \in {"sent", "answered"} /\ flush' = NoFlush
  /\ UNCHANGED <<taken, buffer, positions, aged, believes, silent, post, known, tracking, trail>>

TrailKilled ==
  /\ post # NoPost \/ flush # NoFlush
  /\ post' = NoPost /\ flush' = NoFlush
  /\ UNCHANGED <<taken, buffer, positions, aged, believes, silent, known, tracking, trail>>
-----------------------------------------------------------------------------
FlushStep ==
  \/ BeginFlush \/ StoreDrained \/ ForgetDrained
  \/ PostBatch \/ BatchFiled \/ BatchAnswered
SendStep == FlushStep \/ Upload \/ UploadFiled \/ UploadAnswered \/ GoSilent

TrailNext ==
  \/ SendStep
  \/ \E f \in Fixes : Keep(f) \/ Store(f)
  \/ GrowOld \/ Believe \/ SwitchTracking \/ \E d \in Days : CheckIn(d)
  \/ UploadLost \/ BatchLost \/ TrailKilled

(* Every sync pass flushes, and the recorder's silence grows with time.    *)
(* Nothing is asked of the recorder.                                       *)
TrailFair == WF_trailVars(FlushStep) /\ WF_trailVars(GoSilent)

TrailSpec == TrailInit /\ [][TrailNext]_trailVars /\ TrailFair

Request == [at : {"sent", "answered"}, rows : SUBSET Fixes, filed : SUBSET Fixes,
            word : {"", "off", "no-session-yet", "partial", "delivered"}]

TrailTypeOK ==
  /\ taken \in 0 .. LastFix /\ aged \in 0 .. taken
  /\ UNION {buffer, positions, trail} \subseteq 1 .. taken
  /\ Cardinality(buffer) <= BufferCap /\ known \subseteq Days
  /\ {believes, silent, tracking} \subseteq BOOLEAN
  /\ post = NoPost \/ post \in Request
  /\ flush.at \in {"idle", "drain", "forget", "read", "sent", "answered"}

(* Whatever two senders, lost answers, kills and redeliveries do, a fix    *)
(* leaves the handset only when it is on file, unless a newer one pushes   *)
(* it out of a full buffer, or an answer in hand says that tracking is off,*)
(* or that no day is known and it is past the retention (flush-answer.ts). *)
Held == buffer \cup positions
Told(word) == word \in {r.word : r \in {x \in {post, flush} : x.at = "answered"}}

NoFixLost ==
  [][\A f \in Held \ Held' :
       \/ f \in trail
       \/ f \in buffer /\ Cardinality(buffer) = BufferCap /\ ~(buffer' \subseteq buffer)
       \/ Told("off")
       \/ Told("no-session-yet") /\ f <= aged]_trailVars

(* Once nothing goes wrong any more, every fix of a day the office knows   *)
(* leaves the handset, past older fixes that no day will ever claim and    *)
(* past a recorder that only believes it is sending.                       *)
TrailCalm == <>[][SendStep]_trailVars

TrailArrives == TrailCalm => <>[](\A f \in Held : DayOf[f] \notin known)
=============================================================================
