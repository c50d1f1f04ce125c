--------------------------- MODULE HandsetProofs ---------------------------
(***************************************************************************)
(* Four parts of the handset, each for any constants: its files            *)
(* (MediaQueue), whose it is (FieldSession), what comes down with a pass   *)
(* (FieldPull) and the trail (TrailFlush). They share no state; a section  *)
(* is of one of them, and the last of the whole handset (MCHandset).       *)
(***************************************************************************)
EXTENDS MCHandset, SequenceTheorems, FiniteSetTheorems, WellFoundedInduction, TLAPS

(***************************************************************************)
(* The files. A row leaves the states in which the reaper may take it for  *)
(* lost only in the hands of a drain, and a drain reads many rows and      *)
(* works on one: DrainInv says of each row still in hand that it stands as *)
(* it was read or is deleted, that no row is in hand twice and that it has *)
(* tries left. UploadInv says what an answer still unread means. ClaimInv  *)
(* is what the parent's name rests on: a drain started before the record   *)
(* was saved would send its file under no name, which is what SavesOverlap *)
(* lets happen.                                                            *)
(***************************************************************************)
FileRow == [state : Waiting \cup {"none", "synced"}, parent : {"pending", "named"},
            attempts : 0 .. MediaAttempts]
Drained == [file : Files, parent : {"pending", "named"}, attempts : Nat]

(* A row the drain has in hand is as the drain read it, or syncing, or     *)
(* deleted; it has tries left; and no row is in hand twice.                *)
DrainInv ==
  /\ \A m, n \in DOMAIN drain : drain[m].file = drain[n].file => m = n
  /\ \A n \in DOMAIN drain :
       /\ media[drain[n].file].state \in {"none", "queued", "syncing"}
       /\ drain[n].attempts < MediaAttempts
  /\ \A f \in Files : media[f].state \in {"queued", "syncing"} => media[f].attempts < MediaAttempts

(* What an answer says landed is at the office.                            *)
UploadInv ==
  /\ upload # "none" => drain # << >>
  /\ upload = "landed" => attached[First.file] # "absent"

MediaInv == MediaTypeOK /\ DrainInv /\ UploadInv /\ NoFileLost

(* Once a record is saved its file goes up under it, unless it had gone up *)
(* before.                                                                 *)
Claimed(f) == record[f] \in {"saved", "ingested"}

ClaimInv ==
  /\ \A f \in Files : Claimed(f) /\ media[f].state \notin {"none", "synced"} => media[f].parent = "named"
  /\ \A n \in DOMAIN drain : Claimed(drain[n].file) => drain[n].parent = "named"
  /\ upload = "landed" /\ record[First.file] = "ingested" => attached[First.file] = "named"
  /\ FiledUnderItsRecord
-----------------------------------------------------------------------------
LEMMA MediaInitInv == MediaInit => MediaInv /\ ClaimInv
  BY MediaAssumption DEF MediaInit, MediaInv, ClaimInv, MediaTypeOK, DrainInv, UploadInv, NoFileLost,
     NoBytesLost, SyncedIsFiled, SyncingIsInHand, HasRow, NoFile, Waiting, Settled, FiledUnderItsRecord,
     Claimed

LEMMA InFront ==
  ASSUME MediaTypeOK, drain # << >>
  PROVE  /\ First = drain[1] /\ 1 \in DOMAIN drain /\ First \in Drained
         /\ Tail(drain) \in Seq(Drained)
         /\ \A n \in DOMAIN Tail(drain) : n + 1 \in DOMAIN drain /\ n + 1 # 1 /\ Tail(drain)[n] = drain[n + 1]
         /\ \A n \in DOMAIN drain : n = 1 \/ (n - 1 \in DOMAIN Tail(drain) /\ Tail(drain)[n - 1] = drain[n])
<1>1. drain \in Seq(Drained)
  BY DEF MediaTypeOK, Drained
<1> HIDE DEF Drained
<1>2. QED
  BY <1>1 DEF First

LEMMA Typed ==
  ASSUME MediaTypeOK
  PROVE  /\ \A f \in Files : media[f] \in FileRow
         /\ \A n \in DOMAIN drain : drain[n] \in Drained /\ drain[n].file \in Files
<1>1. drain \in Seq(Drained)
  BY DEF MediaTypeOK, Drained
<1>2. \A x \in Drained : x.file \in Files
  BY DEF Drained
<1> HIDE DEF Drained
<1>3. \A n \in DOMAIN drain : drain[n] \in Drained
  BY <1>1
<1>4. QED
  BY <1>2, <1>3 DEF MediaTypeOK, FileRow

(* Row f comes to be in state s, under p, after n tries; no other moves.   *)
Becomes(f, s, p, n) ==
  /\ media' \in [Files -> FileRow]
  /\ media'[f].state = s /\ media'[f].parent = p /\ media'[f].attempts = n
  /\ \A g \in Files : g # f => media'[g] = media[g]

LEMMA OneRow ==
  ASSUME MediaTypeOK, NEW f \in Files, NEW k \in FileRow, media' = [media EXCEPT ![f] = k]
  PROVE  Becomes(f, k.state, k.parent, k.attempts)
BY DEF MediaTypeOK, FileRow, Becomes

LEMMA StateTo ==
  ASSUME MediaTypeOK, NEW f \in Files, NEW s \in Waiting \cup {"synced"},
         media' = [media EXCEPT ![f] = [media[f] EXCEPT !.state = s]]
  PROVE  Becomes(f, s, media[f].parent, media[f].attempts)
<1>1. PICK k : k = [media[f] EXCEPT !.state = s]
  OBVIOUS
<1>2. k \in FileRow /\ k.state = s /\ k.parent = media[f].parent /\ k.attempts = media[f].attempts
  BY <1>1, Typed DEF FileRow
<1>3. media' = [media EXCEPT ![f] = k]
  BY <1>1
<1>4. QED
  BY <1>2, <1>3, OneRow

LEMMA NamedTo ==
  ASSUME MediaTypeOK, NEW f \in Files, media' = [media EXCEPT ![f] = [media[f] EXCEPT !.parent = "named"]]
  PROVE  Becomes(f, media[f].state, "named", media[f].attempts)
<1>1. PICK k : k = [media[f] EXCEPT !.parent = "named"]
  OBVIOUS
<1>2. k \in FileRow /\ k.state = media[f].state /\ k.parent = "named" /\ k.attempts = media[f].attempts
  BY <1>1, Typed DEF FileRow
<1>3. media' = [media EXCEPT ![f] = k]
  BY <1>1
<1>4. QED
  BY <1>2, <1>3, OneRow

LEMMA TriedTo ==
  ASSUME MediaTypeOK, NEW f \in Files, NEW s \in Waiting, NEW n \in 0 .. MediaAttempts,
         media' = [media EXCEPT ![f] = [media[f] EXCEPT !.attempts = n, !.state = s]]
  PROVE  Becomes(f, s, media[f].parent, n)
<1>1. PICK k : k = [media[f] EXCEPT !.attempts = n, !.state = s]
  OBVIOUS
<1>2. k \in FileRow /\ k.state = s /\ k.parent = media[f].parent /\ k.attempts = n
  BY <1>1, Typed DEF FileRow
<1>3. media' = [media EXCEPT ![f] = k]
  BY <1>1
<1>4. QED
  BY <1>2, <1>3, OneRow
-----------------------------------------------------------------------------
LEMMA CaptureInv == ASSUME MediaInv, NEW f \in Files, Capture(f) PROVE MediaInv' /\ (ClaimInv => ClaimInv')
<1>1. PICK k : k = [NoFile EXCEPT !.state = "queued"]
  OBVIOUS
<1>2. k \in FileRow /\ k.state = "queued" /\ k.parent = "pending" /\ k.attempts = 0
  BY <1>1, MediaAssumption DEF NoFile, FileRow, Waiting
<1>3. Becomes(f, "queued", "pending", 0)
  BY <1>1, <1>2, OneRow DEF Capture, SetMedia, MediaInv
<1>4. MediaTypeOK'
  BY <1>3 DEF Capture, MediaInv, MediaTypeOK, FileRow, Becomes
<1>5. DrainInv'
  BY <1>3, Typed, MediaAssumption DEF Capture, MediaInv, DrainInv, Becomes
<1>6. UploadInv'
  BY DEF Capture, MediaInv, UploadInv, First
<1>7. NoFileLost'
  BY <1>3 DEF Capture, MediaInv, NoFileLost, NoBytesLost, SyncedIsFiled, SyncingIsInHand, InHand, HasRow, Becomes
<1>8. ClaimInv => ClaimInv'
  BY <1>3 DEF Capture, ClaimInv, Claimed, FiledUnderItsRecord, First, Becomes
<1>9. QED
  BY <1>4, <1>5, <1>6, <1>7, <1>8 DEF MediaInv

LEMMA SaveInv == ASSUME MediaInv, NEW f \in Files, SaveRecord(f)
                 PROVE  MediaInv' /\ (ClaimInv /\ ~SavesOverlap => ClaimInv')
<1>1. media[f].state \in Waiting \cup {"none", "synced"}
  BY DEF MediaInv, MediaTypeOK
<1>2. CASE media[f].state = "synced"
  <2>1. media' = media
    BY <1>2 DEF SaveRecord
  <2>2. MediaTypeOK'
    BY <2>1 DEF SaveRecord, MediaInv, MediaTypeOK
  <2>3. DrainInv' /\ UploadInv'
    BY <2>1 DEF SaveRecord, MediaInv, DrainInv, UploadInv, First
  <2>4. NoFileLost'
    BY <2>1 DEF SaveRecord, MediaInv, NoFileLost, NoBytesLost, SyncedIsFiled, SyncingIsInHand, InHand, HasRow
  <2>5. ClaimInv /\ ~SavesOverlap => ClaimInv'
    BY <1>2, <2>1, Typed DEF SaveRecord, ClaimInv, Claimed, FiledUnderItsRecord, First, InHand, MediaInv, MediaTypeOK
  <2>6. QED
    BY <2>2, <2>3, <2>4, <2>5 DEF MediaInv
<1>3. CASE media[f].state # "synced"
  <2>1. Becomes(f, media[f].state, "named", media[f].attempts)
    BY <1>3, NamedTo DEF SaveRecord, SetMedia, MediaInv
  <2>2. MediaTypeOK'
    BY <2>1 DEF SaveRecord, MediaInv, MediaTypeOK, FileRow, Becomes
  <2>3. DrainInv' /\ UploadInv'
    BY <2>1, Typed DEF SaveRecord, MediaInv, DrainInv, UploadInv, First, Becomes
  <2>4. NoFileLost'
    BY <2>1 DEF SaveRecord, MediaInv, NoFileLost, NoBytesLost, SyncedIsFiled, SyncingIsInHand, InHand, HasRow, Becomes
  <2>5. ClaimInv /\ ~SavesOverlap => ClaimInv'
    BY <1>3, <2>1, Typed DEF SaveRecord, ClaimInv, Claimed, FiledUnderItsRecord, First, InHand, Becomes, MediaInv, MediaTypeOK
  <2>6. QED
    BY <2>2, <2>3, <2>4, <2>5 DEF MediaInv
<1>4. QED
  BY <1>2, <1>3

LEMMA DeleteInv == ASSUME MediaInv, NEW f \in Files, Delete(f) PROVE MediaInv' /\ (ClaimInv => ClaimInv')
<1>1. NoFile \in FileRow /\ NoFile.state = "none" /\ NoFile.parent = "pending" /\ NoFile.attempts = 0
  BY MediaAssumption DEF NoFile, FileRow
<1>2. Becomes(f, "none", "pending", 0)
  BY <1>1, OneRow DEF Delete, SetMedia, MediaInv
<1>3. MediaTypeOK'
  BY <1>2 DEF Delete, MediaInv, MediaTypeOK, FileRow, Becomes, Settled
<1>4. DrainInv' /\ UploadInv'
  BY <1>2, Typed DEF Delete, MediaInv, DrainInv, UploadInv, First, Becomes
<1>5. NoFileLost'
  BY <1>2 DEF Delete, MediaInv, NoFileLost, NoBytesLost, SyncedIsFiled, SyncingIsInHand, InHand, HasRow, Becomes
<1>6. ClaimInv => ClaimInv'
  BY <1>2, Typed, InFront DEF Delete, ClaimInv, Claimed, FiledUnderItsRecord, First, Becomes, MediaInv, MediaTypeOK
<1>7. QED
  BY <1>3, <1>4, <1>5, <1>6 DEF MediaInv

(* What happens to a record or to its age moves no row.                    *)
LEMMA RecordInv ==
  ASSUME MediaInv, NEW f \in Files, RecordIngested(f) \/ Abandon(f) \/ GrowsOld(f) \/ ReadDiscard(f)
  PROVE  MediaInv' /\ (ClaimInv => ClaimInv')
<1>1. UNCHANGED <<media, bytes, drain, upload>>
  BY DEF RecordIngested, Abandon, GrowsOld, ReadDiscard
<1>2. MediaTypeOK'
  BY DEF RecordIngested, Abandon, GrowsOld, ReadDiscard, MediaInv, MediaTypeOK, Settled
<1>3. DrainInv'
  BY <1>1 DEF MediaInv, DrainInv
<1>4. \A g \in Files : attached[g] # "absent" => attached'[g] # "absent"
  BY DEF RecordIngested, Abandon, GrowsOld, ReadDiscard, MediaInv, MediaTypeOK
<1>5. UploadInv'
  BY <1>1, <1>4, InFront DEF MediaInv, UploadInv, First, Drained
<1>6. NoFileLost'
  BY <1>1, <1>4 DEF MediaInv, NoFileLost, NoBytesLost, SyncedIsFiled, SyncingIsInHand, InHand, HasRow
<1>7. ASSUME ClaimInv PROVE ClaimInv'
  <2>1. CASE RecordIngested(f)
    <3>1. \A g \in Files : Claimed(g)' => Claimed(g)
      BY <2>1 DEF RecordIngested, Claimed, MediaInv, MediaTypeOK
    <3>2. upload' = "landed" /\ record'[First.file] = "ingested" => attached'[First.file] = "named"
      BY <1>1, <2>1, <1>7, InFront DEF RecordIngested, ClaimInv, MediaInv, MediaTypeOK, UploadInv, Drained
    <3>3. FiledUnderItsRecord'
      BY <1>1, <2>1, <1>7 DEF RecordIngested, ClaimInv, FiledUnderItsRecord, MediaInv, MediaTypeOK, NoFileLost, SyncedIsFiled
    <3>4. QED
      BY <1>1, <1>7, <3>1, <3>2, <3>3, Typed DEF ClaimInv, First, Claimed, MediaInv
  <2>2. CASE ~RecordIngested(f)
    <3>1. /\ attached' = attached
          /\ \A g \in Files : record'[g] = record[g] \/ record'[g] = "dropped"
      BY <2>2 DEF Abandon, GrowsOld, ReadDiscard, MediaInv, MediaTypeOK
    <3>2. QED
      BY <1>1, <1>7, <3>1, Typed, InFront DEF ClaimInv, First, Claimed, FiledUnderItsRecord, MediaInv, Drained, UploadInv
  <2>3. QED
    BY <2>1, <2>2
<1>8. QED
  BY <1>2, <1>3, <1>5, <1>6, <1>7 DEF MediaInv

LEMMA DrainStarts ==
  ASSUME MediaInv, StartDrain
  PROVE  MediaInv' /\ (ClaimInv => ClaimInv')
<1>1. /\ drain = << >> /\ upload = "none"
      /\ UNCHANGED <<media, bytes, record, stale, upload, discard, attached>>
  BY DEF StartDrain, MediaInv, UploadInv, MediaTypeOK
<1> DEFINE Reads(S, order) ==
      /\ \A f \in S : \E n \in DOMAIN order : order[n] = f
      /\ drain' = [n \in DOMAIN order |->
           [file |-> order[n], parent |-> media[order[n]].parent, attempts |-> media[order[n]].attempts]]
<1>20. PICK S \in SUBSET Ready : \E order \in [1 .. Cardinality(S) -> S] : Reads(S, order)
  BY DEF StartDrain
<1>2. PICK order \in [1 .. Cardinality(S) -> S] : Reads(S, order)
  BY <1>20
<1>3. IsFiniteSet(S) /\ Cardinality(S) \in Nat
  <2>1. S \in SUBSET Files
    BY DEF Ready
  <2>2. IsFiniteSet(S)
    BY <2>1, MediaAssumption, FS_Subset
  <2>3. QED
    BY <2>2, FS_CardinalityType
<1>4. \A m, n \in 1 .. Cardinality(S) : order[m] = order[n] => m = n
  <2>1. order \in Surjection(1 .. Cardinality(S), S)
    BY <1>2 DEF Surjection
  <2>2. IsFiniteSet(1 .. Cardinality(S)) /\ Cardinality(1 .. Cardinality(S)) = Cardinality(S)
    BY <1>3, FS_Interval
  <2>3. order \in Injection(1 .. Cardinality(S), S)
    BY <2>1, <2>2, FS_Surjection
  <2>4. QED
    BY <2>3 DEF Injection, IsInjective
<1>5. DOMAIN drain' = 1 .. Cardinality(S)
  BY <1>2
<1>6. ASSUME NEW n \in DOMAIN drain'
      PROVE  /\ drain'[n] \in Drained /\ drain'[n].file = order[n]
             /\ order[n] \in Files /\ media[order[n]].state = "queued"
             /\ drain'[n].parent = media[order[n]].parent /\ drain'[n].attempts = media[order[n]].attempts
  <2>1. order[n] \in S
    BY <1>2, <1>5
  <2>2. order[n] \in Files /\ media[order[n]].state = "queued" /\ media[order[n]] \in FileRow
    <3>1. order[n] \in Ready
      BY <2>1
    <3>2. order[n] \in Files /\ media[order[n]].state = "queued"
      BY <3>1 DEF Ready
    <3>3. QED
      BY <3>2, Typed DEF MediaInv
  <2>3. drain'[n] = [file |-> order[n], parent |-> media[order[n]].parent, attempts |-> media[order[n]].attempts]
    BY <1>2, <1>5
  <2>4. media[order[n]].parent \in {"pending", "named"} /\ media[order[n]].attempts \in Nat
    BY <2>2, MediaAssumption DEF FileRow
  <2>5. QED
    BY <2>2, <2>3, <2>4 DEF Drained
<1>7. drain' \in Seq(Drained)
  <2>1. drain' \in [1 .. Cardinality(S) -> Drained]
    <3>1. \A n \in 1 .. Cardinality(S) : drain'[n] \in Drained
      BY <1>5, <1>6
    <3>2. drain' = [n \in DOMAIN drain' |-> drain'[n]]
      BY <1>2
    <3>3. QED
      BY <1>5, <3>1, <3>2
  <2> HIDE DEF Drained
  <2>2. QED
    BY <1>3, <2>1, SeqDef
<1>8. MediaTypeOK'
  BY <1>1, <1>7 DEF MediaInv, MediaTypeOK, Drained
<1>9. DrainInv'
  <2>1. \A m, n \in DOMAIN drain' : drain'[m].file = drain'[n].file => m = n
    BY <1>4, <1>5, <1>6
  <2>2. \A n \in DOMAIN drain' :
          /\ media[drain'[n].file].state \in {"none", "queued", "syncing"}
          /\ drain'[n].attempts < MediaAttempts
    BY <1>6 DEF MediaInv, DrainInv
  <2>3. QED
    BY <1>1, <2>1, <2>2 DEF MediaInv, DrainInv
<1>10. UploadInv'
  BY <1>1 DEF UploadInv
<1>11. NoFileLost'
  <2>1. \A f \in Files : ~InHand(f)
    BY <1>1 DEF InHand
  <2>2. QED
    BY <1>1, <2>1 DEF MediaInv, NoFileLost, NoBytesLost, SyncedIsFiled, SyncingIsInHand, HasRow
<1>12. ClaimInv => ClaimInv'
  BY <1>1, <1>6 DEF ClaimInv, Claimed, FiledUnderItsRecord
<1>13. QED
  BY <1>8, <1>9, <1>10, <1>11, <1>12 DEF MediaInv

LEMMA Sends ==
  ASSUME MediaInv, Send
  PROVE  MediaInv' /\ (ClaimInv => ClaimInv')
<1>1. drain # << >> /\ upload = "none" /\ UNCHANGED <<bytes, record, stale, drain, discard, attached>>
  BY DEF Send
<1>2. /\ First = drain[1] /\ 1 \in DOMAIN drain /\ First.file \in Files
  BY <1>1, InFront, Typed DEF MediaInv
<1>3. upload' \in {"sent", "refused"}
  BY DEF Send
<1>4. MediaTypeOK' /\ DrainInv' /\ NoFileLost' /\ (ClaimInv => ClaimInv')
  <2>1. CASE ~HasRow(First.file)
    <3>1. media' = media
      BY <2>1 DEF Send, SetState
    <3>2. MediaTypeOK'
      BY <1>1, <1>3, <3>1 DEF MediaInv, MediaTypeOK
    <3>3. DrainInv'
      BY <1>1, <3>1 DEF MediaInv, DrainInv
    <3>4. NoFileLost'
      BY <1>1, <3>1 DEF MediaInv, NoFileLost, NoBytesLost, SyncedIsFiled, SyncingIsInHand, InHand, HasRow
    <3>5. ClaimInv => ClaimInv'
      BY <1>1, <1>3, <3>1 DEF ClaimInv, Claimed, FiledUnderItsRecord
    <3>6. QED
      BY <3>2, <3>3, <3>4, <3>5
  <2>2. CASE HasRow(First.file)
    <3>1. Becomes(First.file, "syncing", media[First.file].parent, media[First.file].attempts)
      BY <1>2, <2>2, StateTo DEF Send, SetState, SetMedia, MediaInv, Waiting
    <3>2. media[First.file].state \in {"queued", "syncing"}
      BY <1>2, <2>2 DEF MediaInv, DrainInv, HasRow
    <3>3. MediaTypeOK'
      BY <1>1, <1>3, <3>1 DEF MediaInv, MediaTypeOK, FileRow, Becomes
    <3>4. DrainInv'
      BY <1>1, <1>2, <3>1, <3>2, Typed DEF MediaInv, DrainInv, Becomes
    <3>5. NoFileLost'
      <4>1. InHand(First.file)
        BY <1>2 DEF InHand
      <4>2. QED
        BY <1>1, <1>2, <2>2, <3>1, <4>1 DEF MediaInv, NoFileLost, NoBytesLost, SyncedIsFiled, SyncingIsInHand, InHand, HasRow, Becomes
    <3>6. ClaimInv => ClaimInv'
      BY <1>1, <1>2, <1>3, <3>1, <3>2, Typed DEF ClaimInv, Claimed, FiledUnderItsRecord, Becomes
    <3>7. QED
      BY <3>3, <3>4, <3>5, <3>6
  <2>3. QED
    BY <2>1, <2>2
<1>5. UploadInv'
  BY <1>1, <1>3 DEF UploadInv
<1>6. QED
  BY <1>4, <1>5 DEF MediaInv

LEMMA Lands ==
  ASSUME MediaInv, Land
  PROVE  MediaInv' /\ (ClaimInv => ClaimInv')
<1>1. /\ upload = "sent" /\ upload' = "landed" /\ drain # << >>
      /\ UNCHANGED <<media, bytes, record, stale, drain, discard>>
  BY DEF Land, MediaInv, UploadInv
<1>2. /\ First = drain[1] /\ 1 \in DOMAIN drain /\ First.file \in Files
      /\ First.parent \in {"pending", "named"}
  BY <1>1, InFront, Typed DEF MediaInv, Drained
<1>3. /\ attached' \in [Files -> {"absent", "pending", "named"}]
      /\ attached'[First.file] # "absent"
      /\ First.parent = "named" => attached'[First.file] = "named"
      /\ \A f \in Files : /\ f # First.file => attached'[f] = attached[f]
                          /\ attached[f] # "absent" => attached'[f] # "absent"
                          /\ attached[f] = "named" => attached'[f] = "named"
  BY <1>2 DEF Land, MediaInv, MediaTypeOK
<1>4. MediaTypeOK'
  BY <1>1, <1>3 DEF MediaInv, MediaTypeOK
<1>5. DrainInv'
  BY <1>1 DEF MediaInv, DrainInv
<1>6. UploadInv'
  BY <1>1, <1>3 DEF UploadInv, First
<1>7. NoFileLost'
  BY <1>1, <1>3 DEF MediaInv, NoFileLost, NoBytesLost, SyncedIsFiled, SyncingIsInHand, InHand, HasRow
<1>8. ClaimInv => ClaimInv'
  BY <1>1, <1>2, <1>3 DEF ClaimInv, Claimed, FiledUnderItsRecord, First
<1>9. QED
  BY <1>4, <1>5, <1>6, <1>7, <1>8 DEF MediaInv

LEMMA Answers ==
  ASSUME MediaInv, Answered
  PROVE  MediaInv' /\ (ClaimInv => ClaimInv')
<1>1. /\ upload \in {"landed", "refused"} /\ upload' = "none" /\ drain # << >>
      /\ drain' = Tail(drain) /\ UNCHANGED <<record, stale, discard, attached>>
  BY DEF Answered, MediaInv, UploadInv
<1>2. /\ First = drain[1] /\ 1 \in DOMAIN drain /\ First \in Drained /\ First.file \in Files
      /\ First.attempts \in Nat /\ First.attempts < MediaAttempts
  BY <1>1, InFront, Typed DEF MediaInv, Drained, DrainInv
<1>3. /\ drain' \in Seq(Drained)
      /\ \A n \in DOMAIN drain' : n + 1 \in DOMAIN drain /\ n + 1 # 1 /\ drain'[n] = drain[n + 1]
      /\ \A n \in DOMAIN drain : n = 1 \/ (n - 1 \in DOMAIN drain' /\ drain'[n - 1] = drain[n])
  BY <1>1, InFront DEF MediaInv
<1>4. \A n \in DOMAIN drain' : drain'[n].file \in Files /\ drain'[n].file # First.file
  BY <1>2, <1>3, Typed DEF MediaInv, DrainInv
<1>5. \A f \in Files : f # First.file /\ InHand(f) => InHand(f)'
  BY <1>2, <1>3 DEF InHand
<1>6. bytes' \subseteq bytes /\ \A f \in Files : f # First.file /\ f \in bytes => f \in bytes'
  BY <1>1 DEF Answered
<1>7. upload # "landed" => bytes' = bytes
  BY DEF Answered
(* What has become of the row.                                             *)
<1>8. \/ media' = media /\ ~HasRow(First.file)
      \/ /\ upload = "landed" /\ HasRow(First.file)
         /\ Becomes(First.file, "synced", media[First.file].parent, media[First.file].attempts)
      \/ /\ HasRow(First.file)
         /\ \E s \in {"failed", "queued"}, n \in 0 .. MediaAttempts :
              /\ s = "queued" => n < MediaAttempts
              /\ Becomes(First.file, s, media[First.file].parent, n)
  <2>1. CASE ~HasRow(First.file)
    BY <2>1 DEF Answered, SetState
  <2>2. CASE HasRow(First.file) /\ upload = "landed"
    BY <1>2, <2>2, StateTo DEF Answered, SetState, SetMedia, MediaInv
  <2>3. CASE HasRow(First.file) /\ upload # "landed"
    <3>1. PICK s, n : /\ n = First.attempts + 1
                      /\ s = IF n >= MediaAttempts THEN "failed" ELSE "queued"
      OBVIOUS
    <3>2. n \in 0 .. MediaAttempts /\ s \in {"failed", "queued"} /\ (s = "queued" => n < MediaAttempts)
      BY <1>2, <3>1, MediaAssumption
    <3>3. media' = [media EXCEPT ![First.file] = [media[First.file] EXCEPT !.attempts = n, !.state = s]]
      BY <2>3, <3>1 DEF Answered, SetMedia
    <3>4. Becomes(First.file, s, media[First.file].parent, n)
      BY <1>2, <3>2, <3>3, TriedTo DEF MediaInv, Waiting
    <3>5. QED
      BY <2>3, <3>2, <3>4
  <2>4. QED
    BY <2>1, <2>2, <2>3
<1>9. /\ media' \in [Files -> FileRow]
      /\ \A f \in Files : f # First.file => media'[f] = media[f]
      /\ media'[First.file].state \in {"none", "synced", "failed", "queued"}
      /\ media'[First.file].state = "queued" => media'[First.file].attempts < MediaAttempts
      /\ media'[First.file].state = "synced" => upload = "landed"
      /\ media'[First.file].parent = media[First.file].parent
      /\ media'[First.file].state = "none" <=> media[First.file].state = "none"
  <2>1. CASE media' = media /\ ~HasRow(First.file)
    BY <1>2, <2>1 DEF HasRow, MediaInv, MediaTypeOK, FileRow
  <2>2. CASE /\ upload = "landed" /\ HasRow(First.file)
             /\ Becomes(First.file, "synced", media[First.file].parent, media[First.file].attempts)
    BY <2>2 DEF HasRow, Becomes
  <2>3. CASE /\ HasRow(First.file)
             /\ \E s \in {"failed", "queued"}, n \in 0 .. MediaAttempts :
                  /\ s = "queued" => n < MediaAttempts
                  /\ Becomes(First.file, s, media[First.file].parent, n)
    BY <2>3 DEF HasRow, Becomes
  <2>4. QED
    BY <1>8, <2>1, <2>2, <2>3
<1>10. MediaTypeOK'
  BY <1>1, <1>3, <1>6, <1>9 DEF MediaInv, MediaTypeOK, FileRow, Drained
<1>11. DrainInv'
  <2>1. ASSUME NEW m \in DOMAIN drain', NEW n \in DOMAIN drain', drain'[m].file = drain'[n].file
        PROVE  m = n
    <3>1. m + 1 = n + 1
      BY <1>3, <2>1 DEF MediaInv, DrainInv
    <3>2. m \in Nat /\ n \in Nat
      BY <1>3
    <3>3. QED
      BY <3>1, <3>2
  <2>2. \A n \in DOMAIN drain' :
          /\ media'[drain'[n].file].state \in {"none", "queued", "syncing"}
          /\ drain'[n].attempts < MediaAttempts
    BY <1>3, <1>4, <1>9 DEF MediaInv, DrainInv
  <2>3. \A f \in Files : media'[f].state \in {"queued", "syncing"} => media'[f].attempts < MediaAttempts
    BY <1>9 DEF MediaInv, DrainInv
  <2>4. QED
    BY <2>1, <2>2, <2>3 DEF DrainInv
<1>12. UploadInv'
  BY <1>1 DEF UploadInv
<1>13. upload = "landed" => attached[First.file] # "absent"
  BY DEF MediaInv, UploadInv
<1>14. NoFileLost'
  <2>1. NoBytesLost'
    BY <1>1, <1>6, <1>7, <1>9, <1>13 DEF MediaInv, NoFileLost, NoBytesLost, HasRow
  <2>2. SyncedIsFiled'
    BY <1>1, <1>9, <1>13 DEF MediaInv, NoFileLost, SyncedIsFiled
  <2>3. SyncingIsInHand'
    BY <1>5, <1>9 DEF MediaInv, NoFileLost, SyncingIsInHand
  <2>4. QED
    BY <2>1, <2>2, <2>3 DEF NoFileLost
<1>15. ASSUME ClaimInv PROVE ClaimInv'
  <2>1. \A f \in Files : Claimed(f)' /\ media'[f].state \notin {"none", "synced"} => media'[f].parent = "named"
    <3>1. media[First.file].state \in {"none", "queued", "syncing"}
      BY <1>2 DEF MediaInv, DrainInv
    <3>2. QED
      BY <1>1, <1>9, <1>15, <3>1 DEF ClaimInv, Claimed
  <2>2. \A n \in DOMAIN drain' :
          record'[drain'[n].file] \in {"saved", "ingested"} => drain'[n].parent = "named"
    BY <1>1, <1>3, <1>15 DEF ClaimInv, Claimed
  <2>3. FiledUnderItsRecord'
    BY <1>1, <1>9, <1>15 DEF ClaimInv, FiledUnderItsRecord
  <2>4. QED
    BY <1>1, <2>1, <2>2, <2>3 DEF ClaimInv, Claimed
<1>16. QED
  BY <1>10, <1>11, <1>12, <1>14, <1>15 DEF MediaInv

LEMMA RetriesAll ==
  ASSUME MediaInv, RetryFailed
  PROVE  MediaInv' /\ (ClaimInv => ClaimInv')
<1>1. UNCHANGED <<bytes, record, stale, drain, upload, discard, attached>>
  BY DEF RetryFailed
<1>2. ASSUME NEW f \in Files
      PROVE  /\ media'[f] \in FileRow /\ media'[f].parent = media[f].parent
             /\ media[f].state # "failed" => media'[f] = media[f]
             /\ media[f].state = "failed" => media'[f].state = "queued" /\ media'[f].attempts = 0
  <2>1. PICK k : k = [media[f] EXCEPT !.state = "queued", !.attempts = 0]
    OBVIOUS
  <2>2. media[f] \in FileRow
    BY Typed DEF MediaInv
  <2>3. k \in FileRow /\ k.parent = media[f].parent /\ k.state = "queued" /\ k.attempts = 0
    <3>1. 0 \in 0 .. MediaAttempts
      BY MediaAssumption
    <3>2. QED
      BY <2>1, <2>2, <3>1 DEF FileRow, Waiting
  <2>4. media'[f] = IF media[f].state = "failed" THEN k ELSE media[f]
    BY <2>1 DEF RetryFailed
  <2>5. QED
    BY <2>2, <2>3, <2>4
<1>3. media' \in [Files -> FileRow]
  <2>1. media' = [f \in Files |-> media'[f]]
    BY DEF RetryFailed
  <2>2. QED
    BY <1>2, <2>1
<1>4. MediaTypeOK'
  BY <1>1, <1>3 DEF MediaInv, MediaTypeOK, FileRow
<1>5. DrainInv' /\ UploadInv'
  BY <1>1, <1>2, Typed, MediaAssumption DEF MediaInv, DrainInv, UploadInv, First
<1>6. NoFileLost'
  BY <1>1, <1>2 DEF MediaInv, NoFileLost, NoBytesLost, SyncedIsFiled, SyncingIsInHand, InHand, HasRow
<1>7. ClaimInv => ClaimInv'
  BY <1>1, <1>2 DEF ClaimInv, Claimed, FiledUnderItsRecord, First
<1>8. QED
  BY <1>4, <1>5, <1>6, <1>7 DEF MediaInv

LEMMA Restarts ==
  ASSUME MediaInv, Restart
  PROVE  MediaInv' /\ (ClaimInv => ClaimInv')
<1>1. drain' = << >> /\ upload' = "none" /\ discard' = {} /\ UNCHANGED <<bytes, record, stale, attached>>
  BY DEF Restart
<1>2. ASSUME NEW f \in Files
      PROVE  /\ media'[f] \in FileRow /\ media'[f].parent = media[f].parent
             /\ media'[f].attempts = media[f].attempts
             /\ media'[f].state = IF media[f].state = "syncing" THEN "queued" ELSE media[f].state
  <2>1. PICK k : k = [media[f] EXCEPT !.state = "queued"]
    OBVIOUS
  <2>2. media[f] \in FileRow
    BY Typed DEF MediaInv
  <2>3. k \in FileRow /\ k.parent = media[f].parent /\ k.state = "queued" /\ k.attempts = media[f].attempts
    BY <2>1, <2>2 DEF FileRow, Waiting
  <2>4. media'[f] = IF media[f].state = "syncing" THEN k ELSE media[f]
    BY <2>1 DEF Restart
  <2>5. QED
    BY <2>2, <2>3, <2>4
<1>3. media' \in [Files -> FileRow]
  <2>1. media' = [f \in Files |-> media'[f]]
    BY DEF Restart
  <2>2. QED
    BY <1>2, <2>1
<1>4. MediaTypeOK'
  BY <1>1, <1>3 DEF MediaInv, MediaTypeOK, FileRow
<1>5. DrainInv' /\ UploadInv'
  BY <1>1, <1>2 DEF MediaInv, DrainInv, UploadInv
<1>6. NoFileLost'
  BY <1>1, <1>2 DEF MediaInv, NoFileLost, NoBytesLost, SyncedIsFiled, SyncingIsInHand, HasRow
<1>7. ClaimInv => ClaimInv'
  BY <1>1, <1>2 DEF ClaimInv, Claimed, FiledUnderItsRecord
<1>8. QED
  BY <1>4, <1>5, <1>6, <1>7 DEF MediaInv

LEMMA MediaStep ==
  MediaInv /\ [MediaNext]_mediaVars => MediaInv' /\ (ClaimInv /\ ~SavesOverlap => ClaimInv')
<1> SUFFICES ASSUME MediaInv, [MediaNext]_mediaVars
             PROVE  MediaInv' /\ (ClaimInv /\ ~SavesOverlap => ClaimInv')
  OBVIOUS
<1>1. ASSUME NEW f \in Files,
             \/ Capture(f) \/ GrowsOld(f) \/ SaveRecord(f) \/ RecordIngested(f) \/ Abandon(f)
             \/ ReadDiscard(f) \/ Delete(f)
      PROVE  MediaInv' /\ (ClaimInv /\ ~SavesOverlap => ClaimInv')
  BY <1>1, CaptureInv, SaveInv, RecordInv, DeleteInv
<1>2. ASSUME Fail PROVE MediaInv' /\ (ClaimInv => ClaimInv')
  <2>1. upload' = "refused" /\ UNCHANGED <<media, bytes, record, stale, drain, discard, attached>>
    BY <1>2 DEF Fail
  <2>2. UploadInv'
    BY <1>2, <2>1 DEF Fail, UploadInv, MediaInv
  <2>3. MediaTypeOK' /\ DrainInv' /\ NoFileLost'
    BY <2>1 DEF MediaInv, MediaTypeOK, DrainInv, NoFileLost, NoBytesLost, SyncedIsFiled, SyncingIsInHand, HasRow, InHand
  <2>4. ClaimInv => ClaimInv'
    BY <2>1 DEF ClaimInv, Claimed, FiledUnderItsRecord
  <2>5. QED
    BY <2>2, <2>3, <2>4 DEF MediaInv
<1>3. ASSUME UNCHANGED mediaVars PROVE MediaInv' /\ (ClaimInv => ClaimInv')
  BY <1>3 DEF mediaVars, MediaInv, MediaTypeOK, DrainInv, UploadInv, NoFileLost, NoBytesLost, SyncedIsFiled,
     SyncingIsInHand, HasRow, InHand, ClaimInv, Claimed, FiledUnderItsRecord, First
<1>4. QED
  BY <1>1, <1>2, <1>3, DrainStarts, Sends, Lands, Answers, RetriesAll, Restarts DEF MediaNext
-----------------------------------------------------------------------------
(* The inductive invariant of the files holds of every behaviour.          *)
THEOREM MediaInvariance == MediaSpec => []MediaInv
  BY MediaInitInv, MediaStep, PTL DEF MediaSpec

(* The rows, the drains and the answers out keep their types.              *)
THEOREM MediaTypeCorrect == MediaSpec => []MediaTypeOK
<1>1. MediaInv => MediaTypeOK
  BY DEF MediaInv
<1> QED
  BY <1>1, MediaInvariance, PTL

(* A photograph is on the handset, in hand or at the office through kills, *)
(* lost answers, retries and discards (media.ts).                          *)
THEOREM EveryFileKept == MediaSpec => []NoFileLost
<1>1. MediaInv => NoFileLost
  BY DEF MediaInv
<1> QED
  BY <1>1, MediaInvariance, PTL

(* Where no record is saved while a drain has its file in hand, a file ends *)
(* under its record, in whichever order they came.                         *)
THEOREM EveryFileFiled == ASSUME ~SavesOverlap PROVE MediaSpec => []FiledUnderItsRecord
<1>1. MediaInit => ClaimInv
  BY MediaInitInv
<1>2. MediaInv /\ ClaimInv /\ [MediaNext]_mediaVars => ClaimInv'
  BY MediaStep
<1>3. ClaimInv => FiledUnderItsRecord
  BY DEF ClaimInv
<1> QED
  BY <1>1, <1>2, <1>3, MediaInvariance, PTL DEF MediaSpec
-----------------------------------------------------------------------------
(***************************************************************************)
(* The session. That the handset is one person's is disturbed half-way     *)
(* through a sign-in, where the pair is already the new one's and the      *)
(* session is not: SigningInv says at each step of it whose each thing is, *)
(* LastPersons between sign-ins, and RequestInv of a request that is out.  *)
(* What outlives a sign-out (Lingers) and a sign-in cut short after the    *)
(* book (KilledSigningIn) break it, and are left out here.                 *)
(***************************************************************************)
Steps == {"none", "asked", "named", "paired", "book", "persisted"}

(* What lies on the handset is the last person's, and so is the session,   *)
(* the cached credential, and a pair that one of them could be used with.  *)
LastPersons ==
  /\ unsent \subseteq {last} /\ offline \in {Nobody, last}
  /\ signing = NoSigning =>
       /\ books \subseteq {last} /\ session \in {Nobody, last}
       /\ pair # Nobody /\ (session # Nobody \/ offline # Nobody) => pair = last

(* A sign-in under way: until it has the pair the handset is as it was.    *)
SigningInv ==
  signing # NoSigning =>
    /\ signing.who \in People /\ signing.step # "none"
    /\ signing.step \in {"asked", "named"} =>
         /\ session = Nobody /\ books \subseteq {last}
         /\ pair # Nobody /\ offline # Nobody => pair = last
    /\ signing.step \in {"paired", "book", "persisted"} =>
         /\ pair = signing.who /\ books \subseteq {signing.who} /\ unsent \subseteq {signing.who}
         /\ offline # Nobody => last = signing.who
    /\ signing.step = "paired" => books \subseteq {last}
    /\ session = IF signing.step = "persisted" THEN signing.who ELSE Nobody

(* A request is of the person who is signed in, under his token and with   *)
(* his work; one the office has taken is not made again.                   *)
RequestInv ==
  /\ carrying # NoRequest =>
       /\ session # Nobody /\ signing = NoSigning
       /\ carrying.as = session /\ carrying.work \subseteq {session}
  /\ renewing # NoRenewal =>
       /\ carrying # NoRequest /\ ~carrying.taken
       /\ renewing.of = session

SessionInv == SessionTypeOK /\ LastPersons /\ SigningInv /\ RequestInv /\ FiledUnderItsAuthor
-----------------------------------------------------------------------------
LEMMA SessionInitInv == SessionInit => SessionInv
BY DEF SessionInit, SessionInv, SessionTypeOK, LastPersons, SigningInv, RequestInv, FiledUnderItsAuthor,
       NoSigning, NoRequest, NoRenewal

LEMMA SessionSays ==
  ASSUME SessionTypeOK
  PROVE  /\ bound \in People \cup {Nobody} /\ pair \in People \cup {Nobody}
         /\ session \in People \cup {Nobody} /\ last \in People \cup {Nobody}
         /\ offline \in People \cup {Nobody}
         /\ signing.who \in People \cup {Nobody} /\ signing.step \in Steps
         /\ signing = [who |-> signing.who, step |-> signing.step]
         /\ carrying.as \in People \cup {Nobody} /\ carrying.work \subseteq People /\ carrying.taken \in BOOLEAN
         /\ renewing.of \in People \cup {Nobody} /\ renewing.given \in BOOLEAN
BY DEF SessionTypeOK, Steps

LEMMA SessionStep ==
  ASSUME ~Lingers, ~KilledSigningIn
  PROVE  SessionInv /\ [SessionNext]_sessionVars => SessionInv'
<1> SUFFICES ASSUME SessionInv, [SessionNext]_sessionVars PROVE SessionInv'
  OBVIOUS
<1> USE FieldSessionAssumption DEF SessionInv, SessionTypeOK, LastPersons, SigningInv, RequestInv,
      FiledUnderItsAuthor, NoSigning, NoRequest, NoRenewal, holderVars, requestVars
<1>1. ASSUME NEW who \in People, NEW same \in BOOLEAN, BeginSignIn(who, same) PROVE SessionInv'
  BY <1>1, SessionSays DEF BeginSignIn
<1>2. CASE LetIn
  BY <1>2, SessionSays DEF LetIn
<1>3. CASE TurnedAway
  BY <1>3, SessionSays DEF TurnedAway
<1>4. CASE TakeOver
  BY <1>4, SessionSays DEF TakeOver, MayTakeOver
<1>5. CASE Cancel
  BY <1>5, SessionSays DEF Cancel
<1>6. CASE TakeBook
  BY <1>6, SessionSays DEF TakeBook
<1>7. CASE Persist
  BY <1>7, SessionSays DEF Persist
<1>8. CASE RememberHim
  BY <1>8, SessionSays DEF RememberHim
<1>9. CASE SignInDies
  BY <1>9, SessionSays DEF SignInDies
<1>10. CASE SignInOffline
  BY <1>10, SessionSays DEF SignInOffline
<1>11. CASE SignOut
  BY <1>11, SessionSays DEF SignOut
<1>12. CASE Release
  BY <1>12, SessionSays DEF Release
<1>13. CASE Work
  BY <1>13, SessionSays DEF Work
<1>14. CASE SendPass
  BY <1>14, SessionSays DEF SendPass
<1>15. CASE OfficeTakes
  <2>1. PICK k : k = [carrying EXCEPT !.taken = TRUE]
    OBVIOUS
  <2>2. /\ carrying.as \in People /\ carrying.work \subseteq {carrying.as} /\ carrying.as = session
        /\ session # Nobody /\ signing = NoSigning /\ renewing = NoRenewal
    BY <1>15, SessionSays DEF OfficeTakes
  <2>3. filed' = filed \cup {[by |-> p, under |-> carrying.as] : p \in carrying.work}
    BY <1>15 DEF OfficeTakes
  <2>4. ASSUME NEW f \in filed' PROVE f \in [by : People, under : People] /\ f.by = f.under
    BY <2>2, <2>3
  <2>5. /\ k \in [as : People \cup {Nobody}, work : SUBSET People, taken : BOOLEAN]
        /\ k.as = carrying.as /\ k.work = carrying.work
    BY <2>1
  <2>6. carrying' = k /\ UNCHANGED <<bound, pair, session, last, offline, books, unsent, signing, renewing>>
    BY <1>15, <2>1 DEF OfficeTakes
  <2>7. SessionTypeOK' /\ FiledUnderItsAuthor'
    BY <2>4, <2>5, <2>6
  <2>8. RequestInv'
    BY <2>2, <2>5, <2>6
  <2>9. LastPersons' /\ SigningInv'
    BY <2>6
  <2>10. QED
    BY <2>7, <2>8, <2>9
<1>16. CASE PassAnswered
  BY <1>16, SessionSays DEF PassAnswered
<1>17. CASE PassFails
  BY <1>17, SessionSays DEF PassFails
<1>18. CASE Lapsed
  BY <1>18, SessionSays DEF Lapsed
<1>19. CASE OfficeRenews
  BY <1>19, SessionSays DEF OfficeRenews
<1>20. CASE Refreshed
  BY <1>20, SessionSays DEF Refreshed
<1>21. CASE NotRefreshed
  BY <1>21, SessionSays DEF NotRefreshed
<1>22. CASE UNCHANGED sessionVars
  BY <1>22 DEF sessionVars
<1> HIDE DEF SessionInv
<1>23. CASE \/ \E who \in People, same \in BOOLEAN : BeginSignIn(who, same)
            \/ LetIn \/ TurnedAway \/ TakeOver \/ Cancel \/ TakeBook \/ Persist \/ RememberHim
  BY <1>1, <1>2, <1>3, <1>4, <1>5, <1>6, <1>7, <1>8, <1>23
<1>24. CASE \/ SignInDies \/ SignInOffline \/ SignOut \/ Release
            \/ Work \/ SendPass \/ OfficeTakes \/ PassAnswered \/ PassFails
            \/ Lapsed \/ OfficeRenews \/ Refreshed \/ NotRefreshed
  BY <1>9, <1>10, <1>11, <1>12, <1>13, <1>14, <1>15, <1>16, <1>17, <1>18, <1>19, <1>20, <1>21, <1>24
<1>25. QED
  BY <1>22, <1>23, <1>24 DEF SessionNext
-----------------------------------------------------------------------------
(* Where a request does not outlive its session and a sign-in is not cut   *)
(* short once it has stored the book, the handset is one person's at a     *)
(* time (session.ts, handoverVerdict).                                     *)
THEOREM OneAtATime ==
  ASSUME ~Lingers, ~KilledSigningIn
  PROVE  SessionSpec => []OnePersonAtATime
<1>1. SessionInit => SessionInv
  BY SessionInitInv
<1>2. SessionInv /\ [SessionNext]_sessionVars => SessionInv'
  BY SessionStep
<1>3. SessionInv => OnePersonAtATime
  BY DEF SessionInv, OnePersonAtATime, BookIsHis, WaitingIsTheLastPersons, LastPersons, SigningInv, SessionTypeOK
<1> QED
  BY <1>1, <1>2, <1>3, PTL DEF SessionSpec
-----------------------------------------------------------------------------
(* Instants have a first, and up to a bound a final.                        *)
LEMMA Earliest ==
  ASSUME NEW T, T \subseteq Nat, T # {}
  PROVE  \E x \in T : \A y \in T : x <= y
<1> DEFINE R == {ss \in Nat \X Nat : ss[1] < ss[2]}
<1>1. IsWellFoundedOn(R, Nat)
  BY NatLessThanWellFounded DEF OpToRel
<1>2. PICK x \in T : \A y \in T : ~ (<<y, x>> \in R)
  <2> HIDE DEF R
  <2> QED
    BY <1>1, WFMin
<1>3. ASSUME NEW y \in T PROVE x <= y
  <2>1. x \in Nat /\ y \in Nat
    OBVIOUS
  <2>2. ~(y < x)
    <3>1. y < x => <<y, x>> \in R
      BY <2>1
    <3> QED
      BY <1>2, <3>1
  <2> QED
    BY <2>1, <2>2
<1> QED
  BY <1>3

LEMMA Latest ==
  ASSUME NEW m \in Nat, NEW T, T \subseteq 0 .. m, T # {}
  PROVE  \E x \in T : \A y \in T : y <= x
<1>1. PICK U : U = {w \in 0 .. m : m - w \in T}
  OBVIOUS
<1>2. ASSUME NEW x \in T PROVE m - x \in U /\ x = m - (m - x)
  <2>1. x \in 0 .. m
    OBVIOUS
  <2>2. m - x \in 0 .. m /\ m - (m - x) = x
    BY <2>1
  <2>3. m - (m - x) \in T
    BY <2>2
  <2>4. QED
    BY <1>1, <2>2, <2>3
<1>3. U \subseteq Nat /\ U # {}
  <2>1. PICK x \in T : TRUE
    OBVIOUS
  <2>2. m - x \in U
    BY <1>2
  <2>3. U \subseteq Nat
    BY <1>1
  <2>4. QED
    BY <2>2, <2>3
<1>4. PICK u \in U : \A w \in U : u <= w
  BY <1>3, Earliest
<1>5. ASSUME NEW y \in T PROVE y <= m - u
  <2>1. u <= m - y
    BY <1>2, <1>4
  <2>2. QED
    BY <1>1, <2>1
<1>6. QED
  BY <1>1, <1>5
-----------------------------------------------------------------------------
(***************************************************************************)
(* The pull. A cursor is stored after the rows, and what it leaves behind  *)
(* is never asked for again: UpTo(c) says that all stamped up to c is on   *)
(* the handset, of the cursor and, once a pull is applied, of the cursor   *)
(* it came with. Between, RowsRead and GoneRead say that what was read is  *)
(* all there is between the two, a full page having held the later one     *)
(* back (PageEnds). It rests on no open transaction being as old as a      *)
(* cursor (TimingInv, from TxLife < Overlap), and on an edit leaving with  *)
(* the pass that answered it (EditInv): hence no edit that sits out a      *)
(* pass, none refused, and no book taken with work outstanding.            *)
(***************************************************************************)
(* A row stamped up to instant c, and a tombstone of up to then, is on the *)
(* handset; a shop, whether or not it is still in the book.                *)
UpTo(c) ==
  /\ \A r \in Rows :
       /\ at[r] <= c /\ r \notin edited
       /\ r \in Shops => held[r] # NoInstant
       /\ r \in Leads => trash[r] = NoInstant
       => held[r] = at[r]
  /\ \A l \in Leads : trash[l] # NoInstant /\ trash[l] <= c => held[l] = NoInstant

Shape ==
  pull = [phase |-> pull.phase, since |-> pull.since, asked |-> pull.asked, items |-> pull.items,
          left |-> pull.left, rows |-> pull.rows, gone |-> pull.gone, book |-> pull.book,
          next |-> pull.next]

PullTypes ==
  /\ clock \in Overlap .. MaxTime /\ cursor \in 0 .. MaxTime
  /\ at \in [Rows -> 0 .. MaxTime] /\ held \in [Rows -> Instants]
  /\ book \subseteq Shops /\ missing \subseteq Shops /\ edited \subseteq Leads
  /\ trash \in [Leads -> Instants] /\ writing \in [Rows -> Instants]
  /\ verdict \in [Leads -> {"none", "taken"}]
  /\ pull.phase \in {"idle", "sent", "read", "applied"}
  /\ pull.asked \subseteq Shops /\ pull.book \subseteq Shops /\ pull.items \subseteq Leads
  /\ pull.gone \subseteq Leads /\ pull.left \subseteq {"rows", "gone"} /\ DOMAIN pull.rows \subseteq Rows
  /\ Shape

(* No stamp still to be seen is as old as a cursor may be.                 *)
TimingInv ==
  /\ \A r \in Rows : writing[r] # NoInstant => writing[r] >= 0 /\ writing[r] <= clock /\ clock <= writing[r] + TxLife
  /\ cursor <= clock - Overlap
  /\ pull.phase \in {"read", "applied"} => pull.next \in cursor .. (clock - Overlap)
  /\ pull.phase = "sent" \/ (pull.phase = "read" /\ pull.left # {}) => pull.since = cursor

(* An edit that was taken stamped its row behind no cursor, and goes with  *)
(* this pass.                                                              *)
EditInv ==
  /\ \A l \in edited : verdict[l] = "taken" =>
       /\ at[l] > cursor /\ pull.phase # "applied"
       /\ pull.phase \in {"sent", "read"} => l \in pull.items
  /\ pull.phase \in {"sent", "read"} => pull.items \subseteq edited
  /\ pull.phase = "read" => \A l \in pull.items : verdict[l] = "taken"
  /\ pull.phase = "sent" => pull.gone = {} /\ DOMAIN pull.rows = {}

(* What was read is what stands up to the cursor the pull comes with, and  *)
(* is all there is between the two cursors.                                *)
RowsRead ==
  /\ \A r \in DOMAIN pull.rows :
       /\ at[r] <= pull.next => pull.rows[r] = at[r]
       /\ pull.rows[r] \in 0 .. MaxTime
       /\ r \in Leads /\ trash[r] # NoInstant => trash[r] > pull.next
  /\ "rows" \notin pull.left =>
       \A r \in Rows :
         /\ at[r] > cursor /\ at[r] <= pull.next
         /\ r \in Shops => r \in pull.book
         /\ r \in Leads => trash[r] = NoInstant
         => r \in DOMAIN pull.rows

GoneRead ==
  /\ "gone" \notin pull.left =>
       \A l \in Leads : trash[l] > cursor /\ trash[l] <= pull.next => l \in pull.gone
  /\ \A l \in pull.gone : trash[l] = NoInstant => at[l] > pull.next

PullInv ==
  /\ PullTypes /\ TimingInv /\ EditInv /\ UpTo(cursor)
  /\ pull.phase = "read" => RowsRead /\ GoneRead
  /\ pull.phase = "applied" => UpTo(pull.next)

(* The office's own steps stamp nothing as old as a cursor.                *)
Behind(t) == t <= cursor \/ (pull.phase \in {"read", "applied"} /\ t <= pull.next)
Stamped ==
  /\ \A r \in Rows : at'[r] = at[r] \/ ~Behind(at'[r])
  /\ \A l \in Leads : trash'[l] = trash[l] \/ (trash[l] = NoInstant /\ ~Behind(trash'[l]))
                        \/ (trash'[l] = NoInstant /\ ~Behind(at'[l]))
-----------------------------------------------------------------------------
LEMMA PullInitInv == PullInit => PullInv
BY FieldPullAssumption DEF Shape, PullInit, PullInv, PullTypes, TimingInv, EditInv, UpTo, NoPull, Rows, NoInstant, Instants

(* A page that is full ends before what it leaves out.                     *)
LEMMA PageEnds ==
  ASSUME NEW S, IsFiniteSet(S), NEW when, NEW P \in SUBSET S, IsPage(P, S, when),
         NEW c \in 0 .. MaxTime, NEW next \in Int, c <= next,
         \A s \in S : when[s] \in 0 .. MaxTime /\ when[s] > c
  PROVE  /\ HeldAt(next, P, when) \in c .. next
         /\ \A s \in S \ P : when[s] > HeldAt(next, P, when)
<1>1. CASE Cardinality(P) < PageSize
  <2>1. Cardinality(S) \in Nat /\ IsFiniteSet(P) /\ Cardinality(P) \in Nat
    BY FS_Subset, FS_CardinalityType
  <2>2. Cardinality(P) = Cardinality(S)
    BY <1>1, <2>1, FieldPullAssumption DEF IsPage
  <2>3. P = S
    BY <2>2, FS_Subset
  <2>4. QED
    BY <1>1, <2>3 DEF HeldAt
<1>2. CASE ~(Cardinality(P) < PageSize)
  <2>1. P # {}
    BY <1>2, FS_EmptySet, FieldPullAssumption
  <2>2. PICK T : T = {when[p] : p \in P}
    OBVIOUS
  <2>3. T \subseteq 0 .. MaxTime /\ T # {}
    BY <2>1, <2>2
  <2>4. PICK t \in T : \A u \in T : u <= t
    BY <2>3, Latest, FieldPullAssumption
  <2>5. PICK final : final = (CHOOSE t1 \in T : \A u \in T : u <= t1)
    OBVIOUS
  <2>6. final \in T /\ \A u \in T : u <= final
    BY <2>4, <2>5
  <2>7. final = CHOOSE t1 \in {when[p] : p \in P} : \A p \in P : when[p] <= t1
    BY <2>2, <2>5
  <2>8. HeldAt(next, P, when) = IF final - 1 < next THEN final - 1 ELSE next
    BY <1>2, <2>7 DEF HeldAt
  <2>9. final \in 0 .. MaxTime /\ final > c
    BY <2>2, <2>6, <2>3
  <2>10. ASSUME NEW s \in S \ P PROVE when[s] >= final
    BY <2>2, <2>6, <2>10 DEF IsPage
  <2>11. QED
    BY <2>8, <2>9, <2>10
<1>3. QED
  BY <1>1, <1>2

LEMMA MonotoneUpTo ==
  ASSUME PullTypes, NEW c \in Int, NEW d \in Int, c <= d, UpTo(d)
  PROVE  UpTo(c)
BY DEF UpTo, PullTypes, Instants

(* A step that only stamps behind no cursor, edits, and hands shops over.  *)
LEMMA OthersStep ==
  ASSUME PullInv, Stamped, PullTypes', TimingInv', EditInv',
         UNCHANGED <<cursor, held, pull>>, edited \subseteq edited'
  PROVE  PullInv'
<1> USE DEF PullInv
<1>1. \A c \in Int : UpTo(c) /\ (\A t \in Int : t <= c => Behind(t)) => UpTo(c)'
  <2> SUFFICES ASSUME NEW c \in Int, UpTo(c), \A t \in Int : t <= c => Behind(t) PROVE UpTo(c)'
    OBVIOUS
  <2>1. \A r \in Rows : at'[r] \in Int /\ (at'[r] <= c => at'[r] = at[r])
    BY DEF Stamped, PullTypes
  <2>2. \A l \in Leads : l \in Rows /\ trash'[l] \in Int /\ (trash'[l] # NoInstant /\ trash'[l] <= c => trash'[l] = trash[l])
    BY DEF Stamped, PullTypes, Rows, Instants, NoInstant
  <2>3. \A l \in Leads : trash'[l] = NoInstant /\ at'[l] <= c => trash[l] = NoInstant
    BY <2>1, <2>2 DEF Stamped
  <2>4. QED
    BY <2>1, <2>2, <2>3 DEF UpTo
<1>2. cursor \in Int /\ UpTo(cursor)'
  BY <1>1 DEF PullTypes, Behind
<1>3. pull.phase = "applied" => UpTo(pull.next)'
  BY <1>1 DEF PullTypes, TimingInv, Behind
<1>4. pull.phase = "read" => RowsRead'
  <2> SUFFICES ASSUME pull.phase = "read" PROVE RowsRead'
    OBVIOUS
  <2>1. RowsRead /\ pull.next \in Int /\ cursor \in Int /\ \A t \in Int : t <= pull.next => Behind(t)
    BY DEF TimingInv, PullTypes, Behind
  <2>2. \A r \in Rows : at'[r] \in Int /\ (at'[r] <= pull.next => at'[r] = at[r])
    BY <2>1 DEF Stamped, PullTypes
  <2>3. \A l \in Leads : l \in Rows /\ trash'[l] \in Int /\ (trash'[l] # NoInstant /\ trash'[l] <= pull.next => trash'[l] = trash[l])
    BY <2>1 DEF Stamped, PullTypes, Rows, Instants, NoInstant
  <2>4. \A l \in Leads : trash'[l] = NoInstant /\ at'[l] <= pull.next => trash[l] = NoInstant
    BY <2>1, <2>2, <2>3 DEF Stamped
  <2>5. QED
    BY <2>1, <2>2, <2>3, <2>4 DEF RowsRead, PullTypes
<1>5. pull.phase = "read" => GoneRead'
  <2> SUFFICES ASSUME pull.phase = "read" PROVE GoneRead'
    OBVIOUS
  <2>1. GoneRead /\ pull.next \in Int /\ cursor \in Int /\ \A t \in Int : t <= pull.next => Behind(t)
    BY DEF TimingInv, PullTypes, Behind
  <2>2. \A l \in Leads : l \in Rows /\ at'[l] \in Int /\ (at'[l] <= pull.next => at'[l] = at[l])
    BY <2>1 DEF Stamped, PullTypes, Rows
  <2>3. \A l \in Leads : trash'[l] \in Int /\ (trash'[l] # NoInstant /\ trash'[l] <= pull.next => trash'[l] = trash[l])
    BY <2>1 DEF Stamped, PullTypes, Instants, NoInstant
  <2>4. \A l \in Leads : trash'[l] = NoInstant /\ at'[l] <= pull.next => trash[l] = NoInstant
    BY <2>1, <2>2, <2>3 DEF Stamped
  <2>5. cursor >= 0
    BY DEF PullTypes
  <2>6. QED
    BY <2>1, <2>2, <2>3, <2>4, <2>5 DEF GoneRead, PullTypes, NoInstant
<1>6. QED
  BY <1>2, <1>3, <1>4, <1>5

LEMMA StampLate ==
  ASSUME TxLife < Overlap, PullInv
  PROVE  /\ ~Behind(clock) /\ clock \in Nat /\ clock > 0 /\ clock <= MaxTime
         /\ \A r \in Rows : writing[r] # NoInstant => ~Behind(writing[r])
<1>1. /\ clock \in Nat /\ cursor \in Nat /\ cursor <= clock - Overlap /\ clock <= MaxTime
      /\ pull.phase \in {"read", "applied"} => pull.next \in Int /\ pull.next <= clock - Overlap
      /\ TxLife \in Nat /\ Overlap \in Nat
  BY FieldPullAssumption DEF PullInv, PullTypes, TimingInv
<1>2. \A r \in Rows : writing[r] # NoInstant => writing[r] \in Int /\ clock <= writing[r] + TxLife
  BY DEF PullInv, PullTypes, TimingInv, Instants
<1>3. QED
  BY <1>1, <1>2 DEF Behind

LEMMA OfficeStep ==
  ASSUME TxLife < Overlap, PullInv,
         \/ Tick \/ (\E r \in Rows : BeginWrite(r) \/ CommitWrite(r))
         \/ (\E s \in Shops : Reassign(s)) \/ (\E l \in Leads : Trash(l) \/ Restore(l) \/ Edit(l))
  PROVE  PullInv'
<1>0. PullTypes /\ TimingInv /\ EditInv
  BY DEF PullInv
<1>1. CASE Tick
  <2>1. clock' = clock + 1 /\ clock < MaxTime /\ UNCHANGED <<at, book, trash, writing, verdict, pulledVars, pull>>
    BY <1>1 DEF Tick
  <2>2. PullTypes'
    BY <1>0, <2>1, FieldPullAssumption DEF Shape, PullTypes, pulledVars
  <2>3. TimingInv'
    BY <1>0, <1>1, <2>1, FieldPullAssumption DEF TimingInv, PullTypes, Tick, pulledVars, Instants
  <2>4. EditInv' /\ Stamped
    BY <1>0, <2>1 DEF EditInv, Stamped, pulledVars
  <2>5. QED
    BY <2>1, <2>2, <2>3, <2>4, OthersStep DEF pulledVars
<1>2. ASSUME NEW r \in Rows, BeginWrite(r) PROVE PullInv'
  <2>1. writing' = [writing EXCEPT ![r] = clock] /\ UNCHANGED <<clock, at, book, trash, verdict, pulledVars, pull>>
    BY <1>2 DEF BeginWrite
  <2>2. PullTypes'
    BY <1>0, <2>1, StampLate DEF Shape, PullTypes, pulledVars, Instants, NoInstant
  <2>3. \A q \in Rows : q # r => writing'[q] = writing[q]
    BY <1>0, <2>1 DEF PullTypes
  <2>4. writing'[r] = clock /\ clock \in Nat /\ clock <= clock + TxLife
    BY <1>0, <2>1, StampLate, FieldPullAssumption DEF PullTypes
  <2>5. TimingInv'
    BY <1>0, <2>1, <2>3, <2>4 DEF TimingInv, pulledVars
  <2>6. EditInv' /\ Stamped
    BY <1>0, <2>1 DEF EditInv, Stamped, pulledVars
  <2>7. QED
    BY <2>1, <2>2, <2>5, <2>6, OthersStep DEF pulledVars
<1>3. ASSUME NEW r \in Rows, CommitWrite(r) PROVE PullInv'
  <2>1. /\ at' = [at EXCEPT ![r] = writing[r]] /\ writing[r] # NoInstant
        /\ writing' = [writing EXCEPT ![r] = NoInstant] /\ UNCHANGED <<clock, book, trash, verdict, pulledVars, pull>>
    BY <1>3 DEF CommitWrite
  <2>2. writing[r] \in 0 .. MaxTime /\ ~Behind(writing[r])
    BY <1>0, <2>1, StampLate DEF PullTypes, TimingInv, Instants
  <2>3. PullTypes'
    BY <1>0, <2>1, <2>2, FieldPullAssumption DEF Shape, PullTypes, pulledVars, Instants, NoInstant
  <2>4. /\ \A q \in Rows : q # r => writing'[q] = writing[q] /\ at'[q] = at[q]
        /\ writing'[r] = NoInstant /\ at'[r] = writing[r]
    BY <1>0, <2>1 DEF PullTypes
  <2>5. TimingInv'
    BY <1>0, <2>1, <2>4 DEF TimingInv, pulledVars
  <2>6. at'[r] > cursor
    BY <1>0, <2>2, <2>4 DEF Behind, PullTypes
  <2>7. EditInv'
    BY <1>0, <2>1, <2>4, <2>6 DEF EditInv, pulledVars, PullTypes, Rows
  <2>8. Stamped
    BY <2>1, <2>2, <2>4 DEF Stamped
  <2>9. QED
    BY <2>1, <2>3, <2>5, <2>7, <2>8, OthersStep DEF pulledVars
<1>4. ASSUME NEW s \in Shops, Reassign(s) PROVE PullInv'
  <2>1. book' \subseteq Shops /\ UNCHANGED <<clock, at, trash, writing, verdict, pulledVars, pull>>
    BY <1>0, <1>4 DEF Reassign, PullTypes
  <2>2. PullTypes' /\ TimingInv' /\ EditInv' /\ Stamped
    BY <1>0, <2>1 DEF Shape, PullTypes, TimingInv, EditInv, Stamped, pulledVars
  <2>3. QED
    BY <2>1, <2>2, OthersStep DEF pulledVars
<1>5. ASSUME NEW l \in Leads, Trash(l) PROVE PullInv'
  <2>1. trash[l] = NoInstant /\ trash' = [trash EXCEPT ![l] = clock] /\ UNCHANGED <<clock, at, book, writing, verdict, pulledVars, pull>>
    BY <1>5 DEF Trash
  <2>2. PullTypes'
    BY <1>0, <2>1, StampLate DEF Shape, PullTypes, pulledVars, Instants, NoInstant
  <2>3. TimingInv' /\ EditInv'
    BY <1>0, <2>1 DEF TimingInv, EditInv, pulledVars
  <2>4. (\A k \in Leads : k # l => trash'[k] = trash[k]) /\ trash'[l] = clock /\ ~Behind(clock)
    BY <1>0, <2>1, StampLate DEF PullTypes
  <2>5. Stamped
    BY <2>1, <2>4 DEF Stamped
  <2>6. QED
    BY <2>1, <2>2, <2>3, <2>5, OthersStep DEF pulledVars
<1>6. ASSUME NEW l \in Leads, Restore(l) PROVE PullInv'
  <2>1. /\ at' = [at EXCEPT ![l] = clock] /\ trash' = [trash EXCEPT ![l] = NoInstant] /\ l \in Rows
        /\ UNCHANGED <<clock, book, writing, verdict, pulledVars, pull>>
    BY <1>6 DEF Restore, Rows
  <2>2. PullTypes'
    BY <1>0, <2>1, StampLate, FieldPullAssumption DEF Shape, PullTypes, pulledVars, Instants, NoInstant
  <2>3. /\ \A q \in Rows : q # l => at'[q] = at[q]
        /\ \A k \in Leads : k # l => trash'[k] = trash[k]
        /\ at'[l] = clock /\ trash'[l] = NoInstant /\ ~Behind(clock)
    BY <1>0, <2>1, StampLate DEF PullTypes
  <2>4. TimingInv'
    BY <1>0, <2>1 DEF TimingInv, pulledVars
  <2>5. clock > cursor
    BY <1>0, <2>3 DEF Behind, PullTypes
  <2>6. EditInv'
    BY <1>0, <2>1, <2>3, <2>5 DEF EditInv, pulledVars, PullTypes, Rows
  <2>7. Stamped
    BY <2>1, <2>3 DEF Stamped
  <2>8. QED
    BY <2>1, <2>2, <2>4, <2>6, <2>7, OthersStep DEF pulledVars
<1>7. ASSUME NEW l \in Leads, Edit(l) PROVE PullInv'
  <2>1. /\ edited' = edited \union {l} /\ l \notin edited /\ verdict' = [verdict EXCEPT ![l] = "none"]
        /\ UNCHANGED <<clock, at, book, trash, writing, held, missing, cursor, pull>>
    BY <1>7 DEF Edit
  <2>2. PullTypes' /\ TimingInv'
    BY <1>0, <2>1 DEF Shape, PullTypes, TimingInv
  <2>3. (\A k \in Leads : k # l => verdict'[k] = verdict[k]) /\ verdict'[l] = "none"
    BY <1>0, <2>1 DEF PullTypes
  <2>4. EditInv'
    BY <1>0, <2>1, <2>3 DEF EditInv, PullTypes
  <2>5. Stamped
    BY <2>1 DEF Stamped
  <2>6. QED
    BY <2>1, <2>2, <2>4, <2>5, OthersStep
<1>8. QED
  BY <1>1, <1>2, <1>3, <1>4, <1>5, <1>6, <1>7

LEMMA PassBegins ==
  ASSUME ~EditsWait, PullInv, StartPass
  PROVE  PullInv'
<1>0. PullTypes /\ TimingInv /\ EditInv /\ UpTo(cursor) /\ pull.phase = "idle"
  BY DEF PullInv, StartPass
<1>1. UNCHANGED <<clock, at, book, trash, writing, verdict, held, edited, missing, cursor>>
  BY DEF StartPass, officeVars, pulledVars
<1>2. pull' = [phase |-> "sent", since |-> cursor, asked |-> missing, items |-> edited,
               left |-> {}, rows |-> << >>, gone |-> {}, book |-> {}, next |-> NoInstant]
  BY DEF StartPass, NoPull
<1>3. /\ pull'.phase = "sent" /\ pull'.since = cursor /\ pull'.asked = missing /\ pull'.items = edited
      /\ pull'.left = {} /\ DOMAIN pull'.rows = {} /\ pull'.gone = {} /\ pull'.book = {} /\ Shape'
  BY <1>2 DEF Shape
<1>4. PullTypes'
  BY <1>0, <1>1, <1>3 DEF PullTypes
<1>5. TimingInv'
  BY <1>0, <1>1, <1>3 DEF TimingInv
<1>6. EditInv'
  BY <1>0, <1>1, <1>3 DEF EditInv
<1>7. UpTo(cursor)'
  BY <1>0, <1>1 DEF UpTo
<1>8. QED
  BY <1>3, <1>4, <1>5, <1>6, <1>7 DEF PullInv

LEMMA PassStops ==
  ASSUME PullInv, Interrupted
  PROVE  PullInv'
<1>0. PullTypes /\ TimingInv /\ EditInv /\ UpTo(cursor)
  BY DEF PullInv
<1>1. pull' = NoPull /\ UNCHANGED <<clock, at, book, trash, writing, verdict, held, edited, missing, cursor>>
  BY DEF Interrupted, officeVars, pulledVars
<1>2. DOMAIN pull'.rows = {} /\ pull'.phase = "idle"
  BY <1>1 DEF NoPull
<1>3. PullTypes'
  BY <1>0, <1>1, <1>2 DEF PullTypes, NoPull, Shape
<1>4. TimingInv'
  BY <1>0, <1>1, <1>2 DEF TimingInv
<1>5. EditInv'
  BY <1>0, <1>1, <1>2 DEF EditInv
<1>6. UpTo(cursor)'
  BY <1>0, <1>1 DEF UpTo
<1>7. QED
  BY <1>2, <1>3, <1>4, <1>5, <1>6 DEF PullInv

LEMMA CursorStored ==
  ASSUME PullInv, StoreCursor
  PROVE  PullInv'
<1>0. PullTypes /\ TimingInv /\ EditInv /\ UpTo(pull.next) /\ pull.phase = "applied"
  BY DEF PullInv, StoreCursor
<1>1. /\ pull' = NoPull /\ cursor' = pull.next
      /\ UNCHANGED <<clock, at, book, trash, writing, verdict, held, edited, missing>>
  BY DEF StoreCursor, officeVars
<1>2. DOMAIN pull'.rows = {} /\ pull'.phase = "idle"
  BY <1>1 DEF NoPull
<1>3. cursor' \in 0 .. MaxTime /\ cursor' <= clock - Overlap
  BY <1>0, <1>1, FieldPullAssumption DEF PullTypes, TimingInv
<1>4. PullTypes'
  BY <1>0, <1>1, <1>2, <1>3 DEF PullTypes, NoPull, Shape
<1>5. TimingInv'
  BY <1>0, <1>1, <1>2, <1>3 DEF TimingInv
<1>6. EditInv'
  BY <1>0, <1>1, <1>2 DEF EditInv
<1>7. UpTo(cursor)'
  BY <1>0, <1>1 DEF UpTo
<1>8. QED
  BY <1>2, <1>4, <1>5, <1>6, <1>7 DEF PullInv

LEMMA BookTaken ==
  ASSUME ~AnySnapshot, TxLife < Overlap, PullInv, TakeSnapshot
  PROVE  PullInv'
<1>0. PullTypes /\ TimingInv /\ EditInv /\ UpTo(cursor)
  BY DEF PullInv
<1>1. PICK rows : rows = [r \in book \union {l \in Leads : trash[l] = NoInstant} |-> at[r]]
  OBVIOUS
<1>2. /\ edited = {} /\ \A l \in Leads : trash[l] <= cursor
      /\ UNCHANGED <<clock, at, book, trash, writing, verdict, held, edited, missing, cursor>>
  BY <1>1 DEF TakeSnapshot, officeVars, pulledVars
<1>3. pull' = [phase |-> "read", since |-> NoInstant, asked |-> {}, items |-> {}, left |-> {}, rows |-> rows,
               gone |-> {}, book |-> book, next |-> clock - Overlap]
  BY <1>1 DEF TakeSnapshot, NoPull
<1>4. /\ pull'.phase = "read" /\ pull'.asked = {} /\ pull'.items = {} /\ pull'.left = {}
       /\ pull'.rows = rows /\ pull'.gone = {} /\ pull'.book = book /\ pull'.next = clock - Overlap /\ Shape'
  BY <1>3 DEF Shape
<1>5. DOMAIN rows \subseteq Rows /\ \A r \in DOMAIN rows : rows[r] = at[r]
  BY <1>0, <1>1 DEF PullTypes, Rows
<1>6. PullTypes'
  BY <1>0, <1>2, <1>4, <1>5 DEF PullTypes
<1>7. TimingInv'
  BY <1>0, <1>2, <1>4, FieldPullAssumption DEF TimingInv, PullTypes
<1>8. EditInv'
  BY <1>0, <1>2, <1>4 DEF EditInv
<1>9. UpTo(cursor)'
  BY <1>0, <1>2 DEF UpTo
<1>10. RowsRead'
  <2>1. \A r \in Rows : (r \in Shops => r \in book) /\ (r \in Leads => trash[r] = NoInstant) => r \in DOMAIN rows
    BY <1>1 DEF Rows
  <2>2. \A r \in DOMAIN rows : r \in Leads => trash[r] = NoInstant
    BY <1>0, <1>1, FieldPullAssumption DEF PullTypes
  <2>3. \A r \in DOMAIN rows : rows[r] \in 0 .. MaxTime
    BY <1>0, <1>5 DEF PullTypes
  <2>4. QED
    BY <1>2, <1>4, <1>5, <2>1, <2>2, <2>3 DEF RowsRead
<1>11. GoneRead'
  <2>1. \A l \in Leads : ~(trash[l] > cursor)
    BY <1>0, <1>2 DEF PullTypes, Instants, NoInstant
  <2>2. QED
    BY <1>2, <1>4, <2>1 DEF GoneRead
<1>12. QED
  BY <1>4, <1>6, <1>7, <1>8, <1>9, <1>10, <1>11 DEF PullInv

LEMMA Ingested ==
  ASSUME ~MayRefuse, TxLife < Overlap, PullInv, OfficeIngests
  PROVE  PullInv'
<1>0. PullTypes /\ TimingInv /\ EditInv /\ UpTo(cursor) /\ pull.phase = "sent"
  BY DEF PullInv, OfficeIngests
<1>1. PICK answered \in SUBSET Unanswered : \E refused \in SUBSET (Unanswered \ answered) :
        /\ refused # {} => MayRefuse
        /\ verdict' = [l \in Leads |-> IF l \in answered THEN "taken"
                                      ELSE IF l \in refused THEN "refused" ELSE verdict[l]]
        /\ at' = [r \in Rows |-> IF r \in answered THEN clock ELSE at[r]]
  BY DEF OfficeIngests
<1>2. /\ verdict' = [l \in Leads |-> IF l \in answered THEN "taken" ELSE verdict[l]]
      /\ at' = [r \in Rows |-> IF r \in answered THEN clock ELSE at[r]]
  BY <1>1
<1>3. UNCHANGED <<clock, book, trash, writing, held, edited, missing, cursor>>
  BY DEF OfficeIngests, pulledVars
<1>4. PICK items : items = {l \in pull.items : verdict'[l] # "none"}
  OBVIOUS
<1>5. pull' = [pull EXCEPT !.phase = "read", !.left = {"rows", "gone"}, !.book = book,
                           !.next = clock - Overlap, !.items = items]
  BY <1>4 DEF OfficeIngests
<1>6. /\ pull'.phase = "read" /\ pull'.since = pull.since /\ pull'.asked = pull.asked /\ pull'.items = items
      /\ pull'.left = {"rows", "gone"} /\ pull'.rows = pull.rows /\ pull'.gone = pull.gone
      /\ pull'.book = book /\ pull'.next = clock - Overlap /\ Shape'
  <2>1. Shape
    BY <1>0 DEF PullTypes
  <2>2. pull' = [phase |-> "read", since |-> pull.since, asked |-> pull.asked, items |-> items,
                 left |-> {"rows", "gone"}, rows |-> pull.rows, gone |-> pull.gone, book |-> book,
                 next |-> clock - Overlap]
    BY <1>5, <2>1 DEF Shape
  <2>3. QED
    BY <2>2 DEF Shape
<1>7. /\ \A r \in Rows : at'[r] \in 0 .. MaxTime /\ (at'[r] = at[r] \/ at'[r] = clock)
      /\ \A l \in answered : at'[l] = clock /\ verdict'[l] = "taken" /\ l \in pull.items
      /\ \A l \in Leads : verdict'[l] \in {"none", "taken"} /\ (l \notin answered => verdict'[l] = verdict[l] /\ at'[l] = at[l])
  <2>1. \A l \in answered : l \in Leads /\ l \in pull.items
    BY <1>0 DEF PullTypes, Unanswered
  <2>2. QED
    BY <1>0, <1>2, <2>1, StampLate DEF PullTypes, Rows
<1>8. clock > cursor /\ cursor \in Nat /\ clock \in Nat /\ clock - Overlap \in cursor .. (clock - Overlap) /\ clock > clock - Overlap
      /\ clock <= MaxTime
  BY <1>0, StampLate, FieldPullAssumption DEF Behind, PullTypes, TimingInv
<1>9. PullTypes'
  <2>1. at' \in [Rows -> 0 .. MaxTime]
    BY <1>2, <1>7
  <2>2. verdict' \in [Leads -> {"none", "taken"}]
    BY <1>2, <1>7
  <2>3. items \subseteq Leads
    BY <1>0, <1>4 DEF PullTypes
  <2>4. QED
    BY <1>0, <1>3, <1>6, <2>1, <2>2, <2>3 DEF PullTypes
<1>10. TimingInv'
  BY <1>0, <1>3, <1>6, <1>8 DEF TimingInv
<1>11. EditInv'
  <2>1. ASSUME NEW l \in edited, verdict'[l] = "taken" PROVE at'[l] > cursor /\ l \in items
    BY <1>0, <1>4, <1>7, <1>8, <2>1 DEF EditInv, PullTypes
  <2>2. items \subseteq edited /\ \A l \in items : verdict'[l] = "taken"
    BY <1>0, <1>4, <1>7 DEF EditInv, PullTypes
  <2>3. QED
    BY <1>3, <1>6, <2>1, <2>2 DEF EditInv
<1>12. UpTo(cursor)'
  BY <1>0, <1>3, <1>7, <1>8 DEF UpTo
<1>13. RowsRead' /\ GoneRead'
  <2>1. pull.gone = {} /\ DOMAIN pull.rows = {}
    BY <1>0 DEF EditInv
  <2>2. QED
    BY <1>6, <2>1 DEF RowsRead, GoneRead
<1>14. QED
  BY <1>6, <1>9, <1>10, <1>11, <1>12, <1>13 DEF PullInv

LEMMA TombstonesCome ==
  ASSUME PullInv, ReadTombstones
  PROVE  PullInv'
<1>0. PullTypes /\ TimingInv /\ EditInv /\ UpTo(cursor) /\ pull.phase = "read" /\ "gone" \in pull.left
      /\ RowsRead /\ GoneRead
  BY DEF PullInv, ReadTombstones
<1>1. UNCHANGED <<clock, at, book, trash, writing, verdict, held, edited, missing, cursor>>
  BY DEF ReadTombstones, officeVars, pulledVars
<1>2. PICK gone : gone = {l \in Leads : trash[l] > pull.since}
  OBVIOUS
<1>3. PICK page \in SUBSET gone : /\ IsPage(page, gone, trash)
                                 /\ pull' = [pull EXCEPT !.left = @ \ {"gone"}, !.gone = page, !.next = HeldAt(@, page, trash)]
  BY <1>2 DEF ReadTombstones
<1>4. PICK next : next = HeldAt(pull.next, page, trash)
  OBVIOUS
<1>5. /\ pull'.phase = "read" /\ pull'.since = pull.since /\ pull'.asked = pull.asked /\ pull'.items = pull.items
      /\ pull'.left = pull.left \ {"gone"} /\ pull'.rows = pull.rows /\ pull'.gone = page
      /\ pull'.book = pull.book /\ pull'.next = next /\ Shape'
  <2>1. Shape
    BY <1>0 DEF PullTypes
  <2>2. pull' = [phase |-> "read", since |-> pull.since, asked |-> pull.asked, items |-> pull.items,
                 left |-> pull.left \ {"gone"}, rows |-> pull.rows, gone |-> page, book |-> pull.book,
                 next |-> next]
    BY <1>0, <1>3, <1>4, <2>1 DEF Shape
  <2>3. QED
    BY <2>2 DEF Shape
<1>6. pull.since = cursor /\ cursor \in 0 .. MaxTime /\ pull.next \in cursor .. (clock - Overlap) /\ clock \in Nat
  BY <1>0, FieldPullAssumption DEF PullTypes, TimingInv
<1>7. next \in cursor .. pull.next /\ \A l \in gone \ page : trash[l] > next
  <2>1. IsFiniteSet(gone)
    BY <1>2, FieldPullAssumption, FS_Subset
  <2>2. \A l \in gone : trash[l] \in 0 .. MaxTime /\ trash[l] > cursor
    BY <1>0, <1>2, <1>6 DEF PullTypes, Instants, NoInstant
  <2>3. QED
    BY <1>3, <1>4, <1>6, <2>1, <2>2, PageEnds, FieldPullAssumption
<1>8. PullTypes'
  BY <1>0, <1>1, <1>2, <1>5 DEF PullTypes
<1>9. TimingInv'
  BY <1>0, <1>1, <1>5, <1>6, <1>7, FieldPullAssumption DEF TimingInv
<1>10. EditInv'
  BY <1>0, <1>1, <1>5 DEF EditInv
<1>11. UpTo(cursor)'
  BY <1>0, <1>1 DEF UpTo
<1>12. \A t \in Int : t <= next => t <= pull.next
  BY <1>6, <1>7
<1>13. /\ \A r \in Rows : at[r] \in Int
       /\ \A l \in Leads : trash[l] \in Int /\ (trash[l] > cursor => trash[l] # NoInstant)
  BY <1>0, <1>6 DEF PullTypes, Instants, NoInstant
<1>14. RowsRead'
  <2>1. \A l \in Leads : trash[l] > pull.next => trash[l] > next
    BY <1>6, <1>7, <1>13
  <2>2. QED
    BY <1>0, <1>1, <1>5, <1>12, <1>13, <2>1 DEF RowsRead, PullTypes
<1>15. GoneRead'
  <2>1. ASSUME NEW l \in Leads, trash[l] > cursor, trash[l] <= next PROVE l \in page
    BY <1>2, <1>6, <1>7, <1>13, <2>1
  <2>2. \A l \in page : trash[l] # NoInstant
    BY <1>2, <1>6, <1>13
  <2>3. QED
    BY <1>1, <1>5, <2>1, <2>2 DEF GoneRead
<1>16. QED
  BY <1>5, <1>8, <1>9, <1>10, <1>11, <1>14, <1>15 DEF PullInv

LEMMA RowsCome ==
  ASSUME PullInv, ReadRows
  PROVE  PullInv'
<1>0. PullTypes /\ TimingInv /\ EditInv /\ UpTo(cursor) /\ pull.phase = "read" /\ "rows" \in pull.left
      /\ RowsRead /\ GoneRead
  BY DEF PullInv, ReadRows
<1>1. UNCHANGED <<clock, at, book, trash, writing, verdict, held, edited, missing, cursor>>
  BY DEF ReadRows, officeVars, pulledVars
<1>2. PICK changed : changed = {s \in pull.book : at[s] > pull.since}
  OBVIOUS
<1>3. PICK others : others = {l \in Leads : trash[l] = NoInstant /\ at[l] > pull.since} \union (pull.asked \intersect pull.book)
  OBVIOUS
<1>4. PICK page \in SUBSET changed :
        /\ IsPage(page, changed, at)
        /\ pull' = [pull EXCEPT !.left = @ \ {"rows"}, !.rows = [r \in page \union others |-> at[r]],
                                !.next = HeldAt(@, page, at)]
  <2>1. PICK page \in SUBSET changed :
        /\ IsPage(page, changed, at)
        /\ pull' = [pull EXCEPT !.left = @ \ {"rows"},
              !.rows = [r \in page \union {l \in Leads : trash[l] = NoInstant /\ at[l] > pull.since}
                              \union (pull.asked \intersect pull.book) |-> at[r]],
              !.next = HeldAt(@, page, at)]
    BY <1>2 DEF ReadRows
  <2>2. page \union {l \in Leads : trash[l] = NoInstant /\ at[l] > pull.since}
                              \union (pull.asked \intersect pull.book) = page \union others
    BY <1>3
  <2>3. QED
    BY <2>1, <2>2
<1>5. PICK next : next = HeldAt(pull.next, page, at)
  OBVIOUS
<1>6. PICK rows : rows = [r \in page \union others |-> at[r]]
  OBVIOUS
<1>7. /\ pull'.phase = "read" /\ pull'.since = pull.since /\ pull'.asked = pull.asked /\ pull'.items = pull.items
      /\ pull'.left = pull.left \ {"rows"} /\ pull'.rows = rows /\ pull'.gone = pull.gone
      /\ pull'.book = pull.book /\ pull'.next = next /\ Shape'
  <2>1. Shape
    BY <1>0 DEF PullTypes
  <2>2. pull' = [phase |-> "read", since |-> pull.since, asked |-> pull.asked, items |-> pull.items,
                 left |-> pull.left \ {"rows"}, rows |-> rows, gone |-> pull.gone, book |-> pull.book,
                 next |-> next]
    BY <1>0, <1>4, <1>5, <1>6, <2>1 DEF Shape
  <2>3. QED
    BY <2>2 DEF Shape
<1>8. pull.since = cursor /\ cursor \in 0 .. MaxTime /\ pull.next \in cursor .. (clock - Overlap) /\ clock \in Nat
  BY <1>0, FieldPullAssumption DEF PullTypes, TimingInv
<1>9. /\ changed \subseteq Shops /\ Shops \subseteq Rows /\ Leads \subseteq Rows
      /\ others \subseteq Rows /\ \A l \in Leads : l \in page \union others => trash[l] = NoInstant
  BY <1>0, <1>2, <1>3, FieldPullAssumption DEF PullTypes, Rows
<1>10. next \in cursor .. pull.next /\ \A s \in changed \ page : at[s] > next
  <2>1. IsFiniteSet(changed)
    BY <1>9, FieldPullAssumption, FS_Subset
  <2>2. \A s \in changed : at[s] \in 0 .. MaxTime /\ at[s] > cursor
    BY <1>0, <1>2, <1>8, <1>9 DEF PullTypes
  <2>3. QED
    BY <1>4, <1>5, <1>8, <2>1, <2>2, PageEnds
<1>11. DOMAIN rows = page \union others /\ DOMAIN rows \subseteq Rows /\ \A r \in DOMAIN rows : rows[r] = at[r]
  BY <1>4, <1>6, <1>9
<1>12. PullTypes'
  <2>1. pull'.left \subseteq {"rows", "gone"} /\ DOMAIN pull'.rows \subseteq Rows
    BY <1>0, <1>7, <1>11 DEF PullTypes
  <2>2. QED
    BY <1>0, <1>1, <1>7, <2>1 DEF PullTypes
<1>13. TimingInv'
  BY <1>0, <1>1, <1>7, <1>8, <1>10, FieldPullAssumption DEF TimingInv
<1>14. EditInv'
  BY <1>0, <1>1, <1>7 DEF EditInv
<1>15. UpTo(cursor)'
  BY <1>0, <1>1 DEF UpTo
<1>16. /\ \A t \in Int : t <= next => t <= pull.next
       /\ \A r \in Rows : at[r] \in 0 .. MaxTime /\ at[r] \in Int
       /\ \A l \in Leads : trash[l] \in Int
  BY <1>0, <1>8, <1>10 DEF PullTypes, Instants, NoInstant
<1>17. RowsRead'
  <2>1. ASSUME NEW r \in Rows, at[r] > cursor, at[r] <= next, r \in Shops => r \in pull.book,
               r \in Leads => trash[r] = NoInstant
        PROVE  r \in page \union others
    <3>1. CASE r \in Shops
      BY <1>2, <1>8, <1>10, <1>16, <2>1, <3>1
    <3>2. CASE r \in Leads
      BY <1>3, <1>8, <2>1, <3>2
    <3>3. QED
      BY <3>1, <3>2 DEF Rows
  <2>2. QED
    BY <1>1, <1>7, <1>9, <1>11, <1>16, <2>1 DEF RowsRead
<1>18. GoneRead'
  <2>1. \A l \in Leads : l \in Rows
    BY <1>9
  <2>2. \A l \in pull.gone : l \in Leads
    BY <1>0 DEF PullTypes
  <2>3. \A t \in Int : t > pull.next => t > next
    BY <1>8, <1>10
  <2>4. QED
    BY <1>0, <1>1, <1>7, <1>16, <2>1, <2>2, <2>3 DEF GoneRead
<1>19. QED
  BY <1>7, <1>12, <1>13, <1>14, <1>15, <1>17, <1>18 DEF PullInv

LEMMA Applied ==
  ASSUME PullInv, Apply
  PROVE  PullInv'
<1>0. PullTypes /\ TimingInv /\ EditInv /\ UpTo(cursor) /\ pull.phase = "read" /\ pull.left = {}
      /\ RowsRead /\ GoneRead
  BY DEF PullInv, Apply
<1>1. UNCHANGED <<clock, at, book, trash, writing, verdict, cursor>> /\ edited' = edited \ pull.items
  BY DEF Apply, officeVars
<1>2. /\ pull'.phase = "applied" /\ pull'.since = pull.since /\ pull'.asked = pull.asked /\ pull'.items = pull.items
      /\ pull'.left = pull.left /\ pull'.rows = pull.rows /\ pull'.gone = pull.gone
      /\ pull'.book = pull.book /\ pull'.next = pull.next /\ Shape'
  <2>1. Shape
    BY <1>0 DEF PullTypes
  <2>2. pull' = [phase |-> "applied", since |-> pull.since, asked |-> pull.asked, items |-> pull.items,
                 left |-> pull.left, rows |-> pull.rows, gone |-> pull.gone, book |-> pull.book,
                 next |-> pull.next]
    BY <1>0, <2>1 DEF Shape, Apply
  <2>3. QED
    BY <2>2 DEF Shape
<1>3. PICK rows : rows = [r \in Rows |-> IF r \in DOMAIN pull.rows \ edited' THEN pull.rows[r] ELSE held[r]]
  OBVIOUS
<1>4. PICK dropped : dropped = pull.gone \union (Shops \ pull.book)
  OBVIOUS
<1>5. /\ held' = [r \in Rows |-> IF r \in dropped THEN NoInstant ELSE rows[r]]
      /\ missing' = {s \in pull.book : rows[s] = NoInstant}
  BY <1>3, <1>4 DEF Apply
<1>6. /\ \A r \in Rows : rows[r] \in Instants
      /\ \A r \in Rows : held'[r] = IF r \in dropped THEN NoInstant ELSE rows[r]
      /\ \A r \in Rows : rows[r] = IF r \in DOMAIN pull.rows \ edited' THEN pull.rows[r] ELSE held[r]
  <2>1. \A r \in DOMAIN pull.rows : pull.rows[r] \in Instants
    BY <1>0, FieldPullAssumption DEF RowsRead, Instants, NoInstant
  <2>2. \A r \in Rows : held[r] \in Instants
    BY <1>0 DEF PullTypes
  <2>3. QED
    BY <1>3, <1>5, <2>1, <2>2
<1>7. PullTypes'
  <2>1. held' \in [Rows -> Instants]
    BY <1>5, <1>6, FieldPullAssumption DEF Instants, NoInstant
  <2>2. missing' \subseteq Shops /\ edited' \subseteq Leads
    BY <1>0, <1>1, <1>5 DEF PullTypes
  <2>3. QED
    BY <1>0, <1>1, <1>2, <2>1, <2>2 DEF PullTypes
<1>8. TimingInv'
  BY <1>0, <1>1, <1>2 DEF TimingInv
<1>9. EditInv'
  BY <1>0, <1>1, <1>2 DEF EditInv
<1>10. cursor \in Int /\ pull.next \in Int /\ cursor <= pull.next /\ pull.next <= MaxTime
       /\ (\A r \in Rows : at[r] \in Int) /\ (\A l \in Leads : trash[l] \in Int /\ l \in Rows /\ l \notin Shops)
  BY <1>0, FieldPullAssumption DEF PullTypes, TimingInv, Instants, NoInstant, Rows
<1>11. UpTo(pull.next)'
  <2>1. ASSUME NEW r \in Rows, at[r] <= pull.next, r \notin edited', r \in Shops => held'[r] # NoInstant,
               r \in Leads => trash[r] = NoInstant
        PROVE  held'[r] = at[r]
    <3>1. r \notin dropped
      <4>1. CASE r \in Leads
        BY <1>0, <1>4, <1>10, <2>1, <4>1 DEF GoneRead
      <4>2. CASE r \in Shops
        BY <1>6, <2>1, <4>2
      <4>3. QED
        BY <4>1, <4>2 DEF Rows
    <3>2. CASE r \in DOMAIN pull.rows
      BY <1>0, <1>6, <2>1, <3>1, <3>2 DEF RowsRead
    <3>3. CASE r \notin DOMAIN pull.rows
      <4>1. r \in Shops => r \in pull.book
        BY <1>4, <3>1
      <4>2. at[r] <= cursor
        BY <1>0, <1>10, <2>1, <3>3, <4>1 DEF RowsRead
      <4>3. r \notin edited
        <5>1. \A l \in pull.items : l \in edited /\ ~(at[l] <= cursor)
          BY <1>0, <1>10 DEF EditInv, PullTypes
        <5>2. QED
          BY <1>1, <2>1, <4>2, <5>1
      <4>4. held'[r] = held[r]
        BY <1>6, <3>1, <3>3
      <4>5. QED
        BY <1>0, <2>1, <4>2, <4>3, <4>4 DEF UpTo
    <3>4. QED
      BY <3>2, <3>3
  <2>2. ASSUME NEW l \in Leads, trash[l] # NoInstant, trash[l] <= pull.next PROVE held'[l] = NoInstant
    <3>1. l \notin DOMAIN pull.rows
      BY <1>0, <1>10, <2>2 DEF RowsRead
    <3>2. CASE trash[l] > cursor
      BY <1>0, <1>4, <1>6, <1>10, <2>2, <3>2 DEF GoneRead
    <3>3. CASE ~(trash[l] > cursor)
      BY <1>0, <1>6, <1>10, <2>2, <3>1, <3>3 DEF UpTo
    <3>4. QED
      BY <3>2, <3>3
  <2>3. QED
    BY <1>1, <1>2, <2>1, <2>2 DEF UpTo
<1>12. UpTo(cursor)'
  <2>1. \A t \in Int : t <= cursor => t <= pull.next
    BY <1>10
  <2>2. QED
    BY <1>1, <1>2, <1>10, <1>11, <2>1 DEF UpTo
<1>13. QED
  BY <1>2, <1>7, <1>8, <1>9, <1>11, <1>12 DEF PullInv

LEMMA PullStep ==
  ASSUME ~AnySnapshot, ~EditsWait, ~MayRefuse, TxLife < Overlap
  PROVE  PullInv /\ [PullNext]_pullVars => PullInv'
<1> SUFFICES ASSUME PullInv, [PullNext]_pullVars PROVE PullInv'
  OBVIOUS
<1>1. CASE UNCHANGED pullVars
  <2>1. UNCHANGED <<clock, at, book, trash, writing, verdict, held, edited, missing, cursor, pull>>
    BY <1>1 DEF pullVars
  <2>2. PullTypes' /\ TimingInv' /\ EditInv' /\ Stamped
    BY <2>1 DEF PullInv, PullTypes, Shape, TimingInv, EditInv, Stamped
  <2>3. QED
    BY <2>1, <2>2, OthersStep
<1>2. QED
  BY <1>1, OfficeStep, PassBegins, Ingested, RowsCome, TombstonesCome, Applied, CursorStored, BookTaken, PassStops
     DEF PullNext, PassStep
-----------------------------------------------------------------------------
(* No change and no tombstone up to the handset's cursor is missing from   *)
(* it, for any rows, pages and edits, while no transaction is open as long *)
(* as the overlap a pull reads back (pull.ts, pull-cursor.ts, buildPull of *)
(* mbos-service.ts).                                                       *)
THEOREM NothingLeftBehind ==
  ASSUME ~AnySnapshot, ~EditsWait, ~MayRefuse, TxLife < Overlap
  PROVE  PullSpec => []NothingFallsBehind
<1>1. PullInv => NothingFallsBehind
  <2> SUFFICES ASSUME PullInv PROVE NothingFallsBehind
    OBVIOUS
  <2>1. book \subseteq Shops /\ Shops \intersect Leads = {} /\ UpTo(cursor)
    BY FieldPullAssumption DEF PullInv, PullTypes
  <2>2. \A r \in Rows : Shown(r) => (r \in Leads => trash[r] = NoInstant)
    BY <2>1 DEF Shown
  <2>3. QED
    BY <2>1, <2>2 DEF UpTo, NothingFallsBehind, RowsKeepUp, TombstonesKeepUp
<1>2. QED
  BY <1>1, PullInitInv, PullStep, PTL DEF PullSpec
-----------------------------------------------------------------------------
(***************************************************************************)
(* The trail. That a fix deleted is on file rests on the answer its sender *)
(* holds: AnswersInv says that what an answer says has landed is on file,  *)
(* and InHandsInv that what a drain is about to forget is stored. What the *)
(* cap throws away needs counting: the lemmas on Newest.                   *)
(***************************************************************************)
(* A set less one of its members is smaller by one.                        *)
LEMMA Fewer ==
  ASSUME NEW S, IsFiniteSet(S), NEW x \in S, NEW T, T \subseteq S \ {x}
  PROVE  /\ IsFiniteSet(T) /\ Cardinality(S) \in Nat /\ Cardinality(T) \in Nat
         /\ Cardinality(T) < Cardinality(S)
         /\ Cardinality(T) = Cardinality(S) - 1 => T = S \ {x}
<1>1. IsFiniteSet(S \ {x}) /\ Cardinality(S \ {x}) = Cardinality(S) - 1
  BY FS_RemoveElement
<1>2. /\ IsFiniteSet(T) /\ Cardinality(T) <= Cardinality(S \ {x})
      /\ Cardinality(S \ {x}) = Cardinality(T) => S \ {x} = T
  BY <1>1, FS_Subset
<1>3. Cardinality(S) \in Nat /\ Cardinality(T) \in Nat
  BY <1>2, FS_CardinalityType
<1> QED
  BY <1>1, <1>2, <1>3

(* Keeping the newest n of n + 1 keeps n at most.                          *)
LEMMA NewestFit ==
  ASSUME NEW B, B \subseteq Nat, IsFiniteSet(B), NEW n \in Nat, Cardinality(B) <= n, NEW k \in Nat
  PROVE  Cardinality(Newest(B \cup {k}, n)) <= n
<1> DEFINE S == B \cup {k}
           N == Newest(S, n)
<1>1. /\ IsFiniteSet(S) /\ Cardinality(B) \in Nat /\ Cardinality(S) \in Nat
      /\ Cardinality(S) <= Cardinality(B) + 1
  BY FS_AddElement, FS_CardinalityType
<1>2. PICK x \in S : \A y \in S : x <= y
  <2>1. S \subseteq Nat /\ S # {}
    OBVIOUS
  <2> HIDE DEF S
  <2> QED
    BY <2>1, Earliest
<1>3. N \subseteq S /\ IsFiniteSet(N) /\ Cardinality(N) <= Cardinality(S) /\ Cardinality(N) \in Nat
  <2>1. N \subseteq S
    BY DEF Newest
  <2> HIDE DEF N, S
  <2> QED
    BY <1>1, <2>1, FS_Subset, FS_CardinalityType
<1>4. CASE Cardinality(S) <= n
  BY <1>1, <1>3, <1>4
<1>5. CASE Cardinality(S) > n
  <2>1. {g \in S : g > x} = S \ {x}
    <3>1. \A g \in S : x \in Nat /\ g \in Nat /\ (g > x <=> g # x)
      BY <1>2
    <3> HIDE DEF S
    <3> QED
      BY <3>1
  <2>2. Cardinality(S \ {x}) = Cardinality(S) - 1
    BY <1>1, <1>2, FS_RemoveElement
  <2>3. Cardinality(S) = n + 1
    BY <1>1, <1>5
  <2>4. Cardinality({g \in S : g > x}) = n
    BY <2>1, <2>2, <2>3
  <2>5. x \notin N
    BY <2>4 DEF Newest
  <2>6. N \subseteq S \ {x}
    BY <1>3, <2>5
  <2>7. Cardinality(N) < Cardinality(S)
    <3> HIDE DEF N, S
    <3> QED
      BY <1>1, <1>2, <2>6, Fewer
  <2> QED
    BY <1>3, <2>3, <2>7
<1> QED
  BY <1>1, <1>3, <1>4, <1>5

(* What a new fix pushes out of a buffer was the oldest of a full one, and *)
(* the new fix is kept.                                                    *)
LEMMA PushedOut ==
  ASSUME NEW B, B \subseteq Nat, IsFiniteSet(B), NEW n \in Nat \ {0}, Cardinality(B) <= n,
         NEW k \in Nat, NEW f \in B, f \notin Newest(B \cup {k}, n)
  PROVE  Cardinality(B) = n /\ k \notin B /\ k \in Newest(B \cup {k}, n)
<1> DEFINE S == B \cup {k}
           Later(g) == {h \in S : h > g}
<1>1. /\ IsFiniteSet(S) /\ Cardinality(B) \in Nat /\ Cardinality(S) \in Nat
      /\ Cardinality(S) = IF k \in B THEN Cardinality(B) ELSE Cardinality(B) + 1
  BY FS_AddElement, FS_CardinalityType
<1>2. ASSUME NEW g \in S
      PROVE  /\ IsFiniteSet(Later(g)) /\ Cardinality(Later(g)) \in Nat
             /\ Cardinality(Later(g)) < Cardinality(S)
             /\ Cardinality(Later(g)) = Cardinality(S) - 1 => Later(g) = S \ {g}
  <2>1. Later(g) \subseteq S \ {g}
    OBVIOUS
  <2> HIDE DEF Later, S
  <2> QED
    BY <1>1, <2>1, Fewer
<1>3. ~(Cardinality(Later(f)) < n)
  BY DEF Newest
<1>4. Cardinality(S) = n + 1 /\ Cardinality(B) = n /\ k \notin B
  <2> HIDE DEF S, Later
  <2>1. f \in S
    BY DEF S
  <2>2. Cardinality(Later(f)) \in Nat /\ Cardinality(Later(f)) < Cardinality(S)
    BY <1>2, <2>1
  <2> QED
    BY <1>1, <1>3, <2>2
<1>5. Later(f) = S \ {f}
  <2> HIDE DEF S, Later
  <2>1. f \in S
    BY DEF S
  <2> QED
    BY <1>2, <1>3, <1>4, <2>1
<1>6. k > f /\ f \notin Later(k) /\ f \in S
  BY <1>4, <1>5
<1>7. Cardinality(Later(k)) < n
  <2>1. Later(k) \subseteq Later(f) \ {k} /\ k \in Later(f)
    <3>1. k \in S /\ k \in Nat /\ f \in Nat /\ k > f /\ \A h \in S : h \in Nat
      BY <1>6
    <3>2. \A h \in S : h > k => h > f /\ h # k
      <4> HIDE DEF S
      <4> QED
        BY <3>1
    <3> HIDE DEF S
    <3> QED
      BY <3>1, <3>2
  <2>2. IsFiniteSet(Later(f)) /\ Cardinality(Later(f)) = n
    <3> HIDE DEF S, Later
    <3>1. IsFiniteSet(Later(f)) /\ Cardinality(Later(f)) \in Nat
      BY <1>2, <1>6
    <3>2. Cardinality(Later(f)) < n + 1
      BY <1>2, <1>4, <1>6
    <3> QED
      BY <1>3, <3>1, <3>2
  <2> HIDE DEF S, Later
  <2> QED
    BY <2>1, <2>2, Fewer
<1>8. k \in Newest(S, n)
  BY <1>7 DEF Newest
<1> QED
  BY <1>4, <1>8
-----------------------------------------------------------------------------
(* A request of the flush knows from where it was read, besides.           *)
Flushing == [at : {"sent", "answered"}, rows : SUBSET Fixes, filed : SUBSET Fixes,
             word : {"", "off", "no-session-yet", "partial", "delivered"},
             offset : Nat, skips : Nat]

(* What each step of a flush has in hand; what is sent was taken, and what *)
(* is to be forgotten is stored.                                           *)
InHandsInv ==
  /\ post.at # "idle" => post.rows \subseteq 1 .. taken
  /\ flush.at \in {"sent", "answered"} => flush \in Flushing /\ flush.rows \subseteq 1 .. taken
  /\ flush.at = "read" => flush.offset \in Nat /\ flush.skips \in Nat
  /\ flush.at = "forget" => flush.rows \subseteq positions

(* What a sender is told has landed is on file.                            *)
AnswersInv ==
  /\ post.at = "answered" => Landed(post) \subseteq trail
  /\ flush.at = "answered" => Landed(flush) \subseteq trail

TrailInv == TrailTypeOK /\ InHandsInv /\ AnswersInv

LEMMA InstantsFinite ==
  ASSUME NEW m \in Nat, NEW S, S \subseteq 1 .. m
  PROVE  S \subseteq Nat /\ IsFiniteSet(S) /\ Cardinality(S) \in Nat
<1>1. IsFiniteSet(1 .. m) /\ 1 .. m \subseteq Nat
  BY FS_Interval
<1>2. IsFiniteSet(S)
  BY <1>1, FS_Subset
<1> QED
  BY <1>1, <1>2, FS_CardinalityType

(* What the office answers is what it files.                               *)
LEMMA AnswerHolds ==
  ASSUME NEW req \in Request \cup Flushing
  PROVE  /\ req \in Request => AnswerTo(req) \in Request
         /\ req \in Flushing => AnswerTo(req) \in Flushing
         /\ AnswerTo(req).at = "answered" /\ AnswerTo(req).rows = req.rows
         /\ Landed(AnswerTo(req)) \subseteq Fileable(req.rows)
         /\ Fileable(req.rows) \subseteq req.rows
<1>1. Word(req.rows) \in {"off", "no-session-yet", "partial", "delivered"}
  BY DEF Word
<1>2. Fileable(req.rows) \subseteq req.rows
  BY DEF Fileable
<1>3. /\ req \in Request => AnswerTo(req) \in Request
      /\ req \in Flushing => AnswerTo(req) \in Flushing
      /\ AnswerTo(req).at = "answered"
      /\ AnswerTo(req).rows = req.rows /\ AnswerTo(req).word = Word(req.rows)
      /\ AnswerTo(req).filed = Fileable(req.rows)
  BY <1>1, <1>2 DEF AnswerTo, Flushing, Request
<1>4. Landed(AnswerTo(req)) \subseteq Fileable(req.rows)
  <2>1. CASE Word(req.rows) = "delivered"
    <3>1. Fileable(req.rows) = req.rows
      BY <2>1 DEF Word
    <3> QED
      BY <1>3, <2>1, <3>1 DEF Landed
  <2>2. CASE Word(req.rows) # "delivered"
    BY <1>3, <2>2 DEF Landed
  <2> QED
    BY <2>1, <2>2
<1> QED
  BY <1>2, <1>3, <1>4

(* Nothing is kept, filed or in hand at first.                             *)
LEMMA TrailInitInv == TrailInit => TrailInv
<1> SUFFICES ASSUME TrailInit PROVE TrailInv
  OBVIOUS
<1>1. Cardinality({}) = 0
  BY FS_EmptySet
<1> QED
  BY <1>1, TrailAssumption DEF TrailInit, TrailInv, TrailTypeOK, InHandsInv, AnswersInv, NoPost, NoFlush

(* A buffer that loses fixes is within its cap still.                      *)
LEMMA SmallerBuffer ==
  ASSUME TrailTypeOK, NEW B, B \subseteq buffer
  PROVE  B \subseteq 1 .. taken /\ Cardinality(B) <= BufferCap
<1>1. taken \in Nat /\ buffer \subseteq 1 .. taken /\ Cardinality(buffer) <= BufferCap
  BY TrailAssumption DEF TrailTypeOK
<1>2. IsFiniteSet(buffer) /\ Cardinality(buffer) \in Nat
  BY <1>1, InstantsFinite
<1>3. IsFiniteSet(B) /\ Cardinality(B) <= Cardinality(buffer)
  BY <1>2, FS_Subset
<1>4. Cardinality(B) \in Nat
  BY <1>3, FS_CardinalityType
<1> QED
  BY <1>1, <1>2, <1>3, <1>4, TrailAssumption

(* A new fix is in the buffer with the newest of the others.               *)
LEMMA TrailKeeps ==
  ASSUME TrailInv, NEW f \in Fixes, Keep(f)
  PROVE  TrailInv'
<1>1. /\ taken \in Nat /\ buffer \subseteq 1 .. taken /\ Cardinality(buffer) <= BufferCap
      /\ BufferCap \in Nat /\ f \in Nat /\ LastFix \in Nat
  BY TrailAssumption DEF TrailInv, TrailTypeOK, Fixes
<1>2. /\ taken' \in Nat /\ taken <= taken' /\ f \in 1 .. taken' /\ taken' \in 0 .. LastFix
      /\ buffer' \subseteq buffer \cup {f}
  BY <1>1 DEF Keep, Newest, Fixes, TrailInv, TrailTypeOK
<1>3. Cardinality(buffer') <= BufferCap
  <2>1. buffer \subseteq Nat /\ IsFiniteSet(buffer)
    BY <1>1, InstantsFinite
  <2> QED
    BY <1>1, <2>1, NewestFit DEF Keep
<1>4. UNCHANGED <<positions, aged, believes, silent, post, flush, known, tracking, trail>>
  BY DEF Keep
<1>5. 1 .. taken \subseteq 1 .. taken' /\ 0 .. taken \subseteq 0 .. taken'
  BY <1>1, <1>2
<1>6. /\ positions \subseteq 1 .. taken /\ trail \subseteq 1 .. taken /\ aged \in 0 .. taken
  BY DEF TrailInv, TrailTypeOK
<1>7. UNION {buffer', positions', trail'} \subseteq 1 .. taken' /\ aged' \in 0 .. taken'
  BY <1>1, <1>2, <1>4, <1>5, <1>6
<1>8. TrailTypeOK'
  BY <1>2, <1>3, <1>4, <1>7 DEF TrailInv, TrailTypeOK
<1>9. InHandsInv'
  BY <1>4, <1>5 DEF TrailInv, InHandsInv
<1> QED
  BY <1>4, <1>8, <1>9 DEF TrailInv, AnswersInv, Landed

(* The steps of time, of the office and of the app's own task.             *)
LEMMA TrailWorld ==
  ASSUME TrailInv,
         \/ \E f \in Fixes : Store(f)
         \/ GrowOld \/ Believe \/ GoSilent \/ SwitchTracking \/ \E d \in Days : CheckIn(d)
  PROVE  TrailInv'
<1> USE TrailAssumption DEF TrailInv, TrailTypeOK
<1>1. ASSUME NEW f \in Fixes, Store(f) PROVE TrailInv'
  <2>1. TrailTypeOK' /\ 1 .. taken \subseteq 1 .. taken'
    BY <1>1 DEF Store, Fixes
  <2> QED
    BY <1>1, <2>1 DEF Store, InHandsInv, AnswersInv, Landed
<1>2. CASE GrowOld
  BY <1>2 DEF GrowOld, InHandsInv, AnswersInv, Landed
<1>3. CASE Believe
  BY <1>3 DEF Believe, InHandsInv, AnswersInv, Landed
<1>4. CASE GoSilent
  BY <1>4 DEF GoSilent, InHandsInv, AnswersInv, Landed
<1>5. CASE SwitchTracking
  BY <1>5 DEF SwitchTracking, InHandsInv, AnswersInv, Landed
<1>6. ASSUME NEW d \in Days, CheckIn(d) PROVE TrailInv'
  BY <1>6 DEF CheckIn, InHandsInv, AnswersInv, Landed
<1> QED
  BY <1>1, <1>2, <1>3, <1>4, <1>5, <1>6

(* The recorder's request, from the post to its answer.                    *)
LEMMA TrailUploads ==
  ASSUME TrailInv, Upload \/ UploadFiled \/ UploadAnswered \/ UploadLost
  PROVE  TrailInv'
<1>1. CASE Upload
  <2>1. Oldest(buffer, Batch) \subseteq 1 .. taken /\ Oldest(buffer, Batch) \subseteq Fixes
    BY TrailAssumption DEF Oldest, TrailInv, TrailTypeOK, Fixes
  <2>2. post'.at = "sent" /\ post' \in Request /\ post'.rows \subseteq 1 .. taken
    BY <1>1, <2>1 DEF Upload, Request
  <2>3. UNCHANGED <<taken, buffer, positions, aged, believes, silent, flush, known, tracking, trail>>
    BY <1>1 DEF Upload
  <2> QED
    BY <2>2, <2>3 DEF TrailInv, TrailTypeOK, InHandsInv, AnswersInv, Landed
<1>2. CASE UploadFiled
  <2>1. post \in Request
    BY <1>2 DEF UploadFiled, TrailInv, TrailTypeOK, NoPost
  <2>2. post.rows \subseteq 1 .. taken
    BY <1>2, <2>1 DEF UploadFiled, TrailInv, InHandsInv, Request
  <2>3. /\ post' \in Request /\ post'.at = "answered" /\ post'.rows = post.rows
        /\ Landed(post') \subseteq Fileable(post.rows) /\ Fileable(post.rows) \subseteq post.rows
    BY <1>2, <2>1, AnswerHolds DEF UploadFiled
  <2>4. /\ UNCHANGED <<taken, buffer, positions, aged, believes, silent, flush, known, tracking>>
        /\ trail' = trail \cup Fileable(post.rows)
    BY <1>2 DEF UploadFiled
  <2> QED
    BY <2>2, <2>3, <2>4 DEF TrailInv, TrailTypeOK, InHandsInv, AnswersInv, Landed
<1>3. CASE UploadAnswered
  <2>1. buffer' \subseteq buffer
    BY <1>3 DEF UploadAnswered
  <2>2. buffer' \subseteq 1 .. taken /\ Cardinality(buffer') <= BufferCap
    BY <2>1, SmallerBuffer DEF TrailInv
  <2>3. /\ UNCHANGED <<taken, positions, aged, flush, known, tracking, trail>>
        /\ post' = NoPost /\ believes' \in BOOLEAN /\ silent' \in BOOLEAN
    BY <1>3 DEF UploadAnswered
  <2> QED
    BY <2>2, <2>3 DEF TrailInv, TrailTypeOK, InHandsInv, AnswersInv, Landed, NoPost
<1>4. CASE UploadLost
  BY <1>4 DEF UploadLost, TrailInv, TrailTypeOK, InHandsInv, AnswersInv, Landed, NoPost
<1> QED
  BY <1>1, <1>2, <1>3, <1>4

(* The app's flush, from the recorder's buffer to the last answer.         *)
LEMMA TrailFlushes ==
  ASSUME TrailInv, FlushStep \/ BatchLost
  PROVE  TrailInv'
<1>1. CASE BeginFlush
  <2>1. flush' \in {[at |-> "drain"], Reading(0, 0)}
    BY <1>1 DEF BeginFlush
  <2>2. UNCHANGED <<taken, buffer, positions, aged, believes, silent, post, known, tracking, trail>>
    BY <1>1 DEF BeginFlush
  <2> QED
    BY <2>1, <2>2 DEF TrailInv, TrailTypeOK, InHandsInv, AnswersInv, Landed, Reading
<1>2. CASE StoreDrained
  <2> DEFINE rows == Oldest(buffer, DrainBatch)
  <2>1. rows \subseteq buffer
    BY DEF Oldest
  <2>2. /\ flush' \in {Reading(0, 0), [at |-> "forget", rows |-> rows]}
        /\ positions' = positions \cup rows
        /\ UNCHANGED <<taken, buffer, aged, believes, silent, post, known, tracking, trail>>
    BY <1>2 DEF StoreDrained
  <2> HIDE DEF rows
  <2> QED
    BY <2>1, <2>2 DEF TrailInv, TrailTypeOK, InHandsInv, AnswersInv, Landed, Reading
<1>3. CASE ForgetDrained
  <2>1. /\ flush' \in {Reading(0, 0), [at |-> "drain"]} /\ buffer' \subseteq buffer
        /\ UNCHANGED <<taken, positions, aged, believes, silent, post, known, tracking, trail>>
    BY <1>3 DEF ForgetDrained
  <2>2. buffer' \subseteq 1 .. taken /\ Cardinality(buffer') <= BufferCap
    BY <2>1, SmallerBuffer DEF TrailInv
  <2> QED
    BY <2>1, <2>2 DEF TrailInv, TrailTypeOK, InHandsInv, AnswersInv, Landed, Reading
<1>4. CASE PostBatch
  <2> DEFINE rows == Oldest(positions \ Oldest(positions, flush.offset), Batch)
  <2>1. rows \subseteq Fixes /\ rows \subseteq 1 .. taken
    BY TrailAssumption DEF Oldest, TrailInv, TrailTypeOK, Fixes
  <2>2. UNCHANGED <<taken, buffer, positions, aged, believes, silent, post, known, tracking, trail>>
    BY <1>4 DEF PostBatch
  <2>3. flush.offset \in Nat /\ flush.skips \in Nat
    BY <1>4 DEF PostBatch, TrailInv, InHandsInv
  <2>4. \/ flush' = NoFlush
        \/ flush' = [at |-> "sent", rows |-> rows, word |-> "", filed |-> {},
                     offset |-> flush.offset, skips |-> flush.skips]
    BY <1>4 DEF PostBatch
  <2> HIDE DEF rows
  <2>5. CASE flush' = NoFlush
    BY <2>2, <2>5 DEF TrailInv, TrailTypeOK, InHandsInv, AnswersInv, Landed, NoFlush
  <2>6. CASE flush' # NoFlush
    <3>1. flush' = [at |-> "sent", rows |-> rows, word |-> "", filed |-> {},
                    offset |-> flush.offset, skips |-> flush.skips]
      BY <2>4, <2>6
    <3>2. flush'.at = "sent" /\ flush'.rows = rows
      BY <3>1
    <3>3. flush' \in Flushing
      BY <2>1, <2>3, <3>1 DEF Flushing
    <3> QED
      BY <2>1, <2>2, <3>2, <3>3 DEF TrailInv, TrailTypeOK, InHandsInv, AnswersInv, Landed
  <2> QED
    BY <2>5, <2>6
<1>5. CASE BatchFiled
  <2>1. flush \in Flushing /\ flush.rows \subseteq 1 .. taken
    BY <1>5 DEF BatchFiled, TrailInv, InHandsInv
  <2>2. /\ flush' \in Flushing /\ flush'.at = "answered" /\ flush'.rows = flush.rows
        /\ Landed(flush') \subseteq Fileable(flush.rows) /\ Fileable(flush.rows) \subseteq flush.rows
    BY <1>5, <2>1, AnswerHolds DEF BatchFiled
  <2>3. /\ UNCHANGED <<taken, buffer, positions, aged, believes, silent, post, known, tracking>>
        /\ trail' = trail \cup Fileable(flush.rows)
    BY <1>5 DEF BatchFiled
  <2> QED
    BY <2>1, <2>2, <2>3 DEF TrailInv, TrailTypeOK, InHandsInv, AnswersInv, Landed
<1>6. CASE BatchAnswered
  <2>1. flush.offset \in Nat /\ flush.skips \in Nat
    BY <1>6 DEF BatchAnswered, TrailInv, InHandsInv, Flushing
  <2>2. flush' \in {Reading(flush.offset + Batch, flush.skips + 1),
                    Reading(flush.offset, flush.skips), NoFlush}
    BY <1>6 DEF BatchAnswered, Onwards
  <2>3. /\ flush'.at \in {"idle", "read"}
        /\ flush'.at = "read" => flush'.offset \in Nat /\ flush'.skips \in Nat
    BY <2>1, <2>2, TrailAssumption DEF Reading, NoFlush
  <2>4. /\ UNCHANGED <<taken, buffer, aged, silent, post, known, tracking, trail>>
        /\ positions' \subseteq positions /\ believes' \in BOOLEAN
    BY <1>6 DEF BatchAnswered
  <2> QED
    BY <2>3, <2>4 DEF TrailInv, TrailTypeOK, InHandsInv, AnswersInv, Landed
<1>7. CASE BatchLost
  BY <1>7 DEF BatchLost, TrailInv, TrailTypeOK, InHandsInv, AnswersInv, Landed, NoFlush
<1> QED
  BY <1>1, <1>2, <1>3, <1>4, <1>5, <1>6, <1>7 DEF FlushStep

(* Step by step.                                                           *)
LEMMA TrailStep == TrailInv /\ [TrailNext]_trailVars => TrailInv'
<1> SUFFICES ASSUME TrailInv, [TrailNext]_trailVars PROVE TrailInv'
  OBVIOUS
<1>1. ASSUME NEW f \in Fixes, Keep(f) PROVE TrailInv'
  BY <1>1, TrailKeeps
<1>2. CASE TrailKilled
  BY <1>2 DEF TrailKilled, TrailInv, TrailTypeOK, InHandsInv, AnswersInv, Landed, NoPost, NoFlush
<1>3. CASE UNCHANGED trailVars
  BY <1>3 DEF trailVars, TrailInv, TrailTypeOK, InHandsInv, AnswersInv, Landed
<1> QED
  BY <1>1, <1>2, <1>3, TrailWorld, TrailUploads, TrailFlushes DEF TrailNext, SendStep

(* A reason the code has for letting a fix go.                             *)
Reason(f) ==
  \/ f \in trail
  \/ f \in buffer /\ Cardinality(buffer) = BufferCap /\ ~(buffer' \subseteq buffer)
  \/ Told("off")
  \/ Told("no-session-yet") /\ f <= aged

(* A sender that deletes has one.                                          *)
LEMMA DeletedRightly ==
  ASSUME NEW req \in {post, flush}, req.at = "answered", Landed(req) \subseteq trail,
         NEW table, NEW f \in Deleted(req, table)
  PROVE  Reason(f)
<1>1. Told(req.word)
  BY DEF Told
<1>2. CASE req.word = "off"
  BY <1>1, <1>2 DEF Reason
<1>3. CASE req.word = "no-session-yet"
  BY <1>1, <1>3 DEF Deleted, Old, Reason
<1>4. CASE req.word \notin {"off", "no-session-yet"}
  BY <1>4 DEF Deleted, Reason
<1> QED
  BY <1>2, <1>3, <1>4

(* A full buffer has one as well.                                          *)
LEMMA PushedOutRightly ==
  ASSUME TrailInv, NEW k \in Fixes, Keep(k), NEW f \in Held \ Held'
  PROVE  Reason(f)
<1>1. /\ buffer \subseteq Nat /\ IsFiniteSet(buffer) /\ Cardinality(buffer) <= BufferCap
      /\ BufferCap \in Nat \ {0} /\ k \in Nat
  <2>1. taken \in Nat /\ buffer \subseteq 1 .. taken
    BY TrailAssumption DEF TrailInv, TrailTypeOK
  <2> QED
    BY <2>1, InstantsFinite, TrailAssumption DEF TrailInv, TrailTypeOK, Fixes
<1>2. f \in buffer /\ f \notin Newest(buffer \cup {k}, BufferCap)
  BY DEF Keep, Held
<1>3. /\ Cardinality(buffer) = BufferCap /\ k \notin buffer
      /\ k \in Newest(buffer \cup {k}, BufferCap)
  BY <1>1, <1>2, PushedOut
<1>4. ~(buffer' \subseteq buffer)
  BY <1>3 DEF Keep
<1> QED
  BY <1>2, <1>3, <1>4 DEF Reason

(* No other step lets one go.                                              *)
LEMMA LetGoRightly ==
  ASSUME TrailInv, [TrailNext]_trailVars, NEW f \in Held \ Held'
  PROVE  Reason(f)
<1>1. ASSUME NEW k \in Fixes, Keep(k) PROVE Reason(f)
  BY <1>1, PushedOutRightly
<1>2. CASE UploadAnswered
  <2>1. f \in Deleted(post, buffer)
    BY <1>2 DEF UploadAnswered, Held
  <2> QED
    BY <1>2, <2>1, DeletedRightly DEF UploadAnswered, TrailInv, AnswersInv
<1>3. CASE BatchAnswered
  <2>1. f \in Deleted(flush, positions)
    BY <1>3 DEF BatchAnswered, Held
  <2> QED
    BY <1>3, <2>1, DeletedRightly DEF BatchAnswered, TrailInv, AnswersInv
<1>4. CASE ForgetDrained
  BY <1>4 DEF ForgetDrained, Held, TrailInv, InHandsInv
<1>5. CASE StoreDrained \/ \E k \in Fixes : Store(k)
  BY <1>5 DEF StoreDrained, Store, Held
<1>6. CASE UNCHANGED <<buffer, positions>>
  BY <1>6 DEF Held
<1>7. \/ UNCHANGED <<buffer, positions>>
      \/ \E k \in Fixes : Keep(k) \/ Store(k)
      \/ UploadAnswered \/ BatchAnswered \/ ForgetDrained \/ StoreDrained
  BY DEF TrailNext, SendStep, FlushStep, BeginFlush, PostBatch, BatchFiled, Upload, UploadFiled,
     GoSilent, GrowOld, Believe, SwitchTracking, CheckIn, UploadLost, BatchLost, TrailKilled, trailVars
<1> QED
  BY <1>1, <1>2, <1>3, <1>4, <1>5, <1>6, <1>7
-----------------------------------------------------------------------------
(* The inductive invariant holds of every behaviour of the trail, whatever *)
(* of its steps is ever taken (sync/trail.ts, Uploader.kt and the          *)
(* positions route).                                                       *)
THEOREM TrailInvariance == TrailInit /\ [][TrailNext]_trailVars => []TrailInv
  BY TrailInitInv, TrailStep, PTL

(* The fixes, the senders and the buffer's cap keep their types.           *)
THEOREM TrailTypeCorrect == TrailInit /\ [][TrailNext]_trailVars => []TrailTypeOK
<1>1. TrailInv => TrailTypeOK
  BY DEF TrailInv
<1> QED
  BY <1>1, TrailInvariance, PTL

(* Whatever two senders, lost answers, kills and redeliveries do, a fix    *)
(* leaves the handset only for a reason of flush-answer.ts or of the cap.  *)
THEOREM EveryFixAccountedFor == TrailInit /\ [][TrailNext]_trailVars => NoFixLost
<1>1. TrailInv /\ [TrailNext]_trailVars => \A f \in Held \ Held' : Reason(f)
  BY LetGoRightly
<1>2. TrailInv /\ [TrailNext]_trailVars =>
      [\A f \in Held \ Held' :
         \/ f \in trail
         \/ f \in buffer /\ Cardinality(buffer) = BufferCap /\ ~(buffer' \subseteq buffer)
         \/ Told("off")
         \/ Told("no-session-yet") /\ f <= aged]_trailVars
  BY <1>1 DEF Reason
<1> QED
  BY <1>2, TrailInvariance, PTL DEF NoFixLost
-----------------------------------------------------------------------------
(***************************************************************************)
(* The handset of MCHandset: the four parts side by side.  Each is still   *)
(* itself there (PartsStayThemselves), so that whatever was proved of it   *)
(* alone is so of the whole.  That the rows stay well formed needs nothing *)
(* of what a session or a pull may not do, only what is known of the       *)
(* requests and the pass in hand (SessionShape, PullShape).                *)
(***************************************************************************)

(* Whoever is signing in, and whose a request is, is somebody.             *)
SessionShape ==
  /\ SessionTypeOK
  /\ signing # NoSigning => signing.who \in People
  /\ carrying # NoRequest => carrying.as \in People
  /\ renewing # NoRenewal => renewing.of \in People /\ carrying # NoRequest /\ ~carrying.taken

(* Step by step, whatever outlives a sign-out or is cut short.             *)
LEMMA SessionStepShape == SessionShape /\ [SessionNext]_sessionVars => SessionShape'
<1> SUFFICES ASSUME SessionShape, [SessionNext]_sessionVars PROVE SessionShape'
  OBVIOUS
<1> USE FieldSessionAssumption DEF SessionShape, SessionTypeOK, NoSigning, NoRequest, NoRenewal, holderVars, requestVars
<1>1. ASSUME NEW who \in People, NEW same \in BOOLEAN, BeginSignIn(who, same) PROVE SessionShape'
  BY <1>1, SessionSays DEF BeginSignIn
<1>2. CASE LetIn \/ TurnedAway \/ TakeOver
  BY <1>2, SessionSays DEF LetIn, TurnedAway, TakeOver
<1>3. CASE Cancel \/ TakeBook \/ Persist
  BY <1>3, SessionSays DEF Cancel, TakeBook, Persist
<1>4. CASE RememberHim \/ SignInDies \/ SignInOffline
  BY <1>4, SessionSays DEF RememberHim, SignInDies, SignInOffline
<1>5. CASE SignOut \/ Release \/ Work
  BY <1>5, SessionSays DEF SignOut, Release, Work
<1>6. CASE SendPass
  BY <1>6, SessionSays DEF SendPass
<1>7. CASE OfficeTakes
  <2>1. PICK k : k = [carrying EXCEPT !.taken = TRUE]
    OBVIOUS
  <2>2. carrying.as \in People /\ carrying.work \subseteq People /\ renewing = NoRenewal
    BY <1>7, SessionSays DEF OfficeTakes
  <2>3. filed' = filed \cup {[by |-> p, under |-> carrying.as] : p \in carrying.work}
    BY <1>7 DEF OfficeTakes
  <2>4. ASSUME NEW f \in filed' PROVE f \in [by : People, under : People]
    BY <2>2, <2>3
  <2>5. k \in [as : People \cup {Nobody}, work : SUBSET People, taken : BOOLEAN] /\ k.as = carrying.as
    BY <2>1
  <2>6. carrying' = k /\ UNCHANGED <<bound, pair, session, last, offline, books, unsent, signing, renewing>>
    BY <1>7, <2>1 DEF OfficeTakes
  <2>7. QED
    BY <2>2, <2>4, <2>5, <2>6
<1>8. CASE PassAnswered
  BY <1>8, SessionSays DEF PassAnswered
<1>9. CASE PassFails
  BY <1>9, SessionSays DEF PassFails
<1>10. CASE Lapsed
  BY <1>10, SessionSays DEF Lapsed
<1>11. CASE OfficeRenews
  BY <1>11, SessionSays DEF OfficeRenews
<1>12. CASE Refreshed
  BY <1>12, SessionSays DEF Refreshed
<1>13. CASE NotRefreshed
  BY <1>13, SessionSays DEF NotRefreshed
<1>14. CASE UNCHANGED sessionVars
  BY <1>14 DEF sessionVars
<1> HIDE DEF SessionShape
<1>15. QED
  BY <1>1, <1>2, <1>3, <1>4, <1>5, <1>6, <1>7, <1>8, <1>9, <1>10, <1>11, <1>12, <1>13, <1>14 DEF SessionNext

(* Whose the session, the pair, the book and the outbox are is always      *)
(* somebody or nobody (session.ts, api.ts), however a sign-in ends.        *)
THEOREM SessionTypeCorrect == SessionSpec => []SessionTypeOK
<1>1. SessionInit => SessionShape
  BY DEF SessionInit, SessionShape, SessionTypeOK, NoSigning, NoRequest, NoRenewal
<1>2. SessionShape => SessionTypeOK
  BY DEF SessionShape
<1>3. QED
  BY <1>1, <1>2, SessionStepShape, PTL DEF SessionSpec
-----------------------------------------------------------------------------
(* The office's rows; what the handset shows of them.                      *)
OfficeShape ==
  /\ clock \in Overlap .. MaxTime /\ at \in [Rows -> 0 .. MaxTime] /\ book \subseteq Shops
  /\ trash \in [Leads -> Instants] /\ writing \in [Rows -> {NoInstant} \union 0 .. MaxTime]
  /\ verdict \in [Leads -> {"none", "taken", "refused"}]

ShownShape ==
  /\ cursor \in 0 .. MaxTime /\ held \in [Rows -> Instants] /\ missing \subseteq Shops /\ edited \subseteq Leads

(* A pass still to read asks from an instant; one that has read has a      *)
(* cursor to store and rows that were stamped.                             *)
PassShape ==
  /\ Shape /\ pull.phase \in {"idle", "sent", "read", "applied"}
  /\ pull.asked \subseteq Shops /\ pull.book \subseteq Shops /\ pull.gone \subseteq Leads
  /\ pull.left \subseteq {"rows", "gone"} /\ DOMAIN pull.rows \subseteq Rows
  /\ \A r \in DOMAIN pull.rows : pull.rows[r] \in 0 .. MaxTime
  /\ pull.phase \in {"read", "applied"} => pull.next \in 0 .. MaxTime
  /\ pull.phase = "sent" \/ (pull.phase = "read" /\ pull.left # {}) => pull.since \in 0 .. MaxTime

PullShape == OfficeShape /\ ShownShape /\ PassShape

(* Nothing has happened yet.                                               *)
LEMMA PullInitShape == PullInit => PullShape
BY FieldPullAssumption
   DEF Shape, PullInit, PullShape, OfficeShape, ShownShape, PassShape, NoPull, Rows, NoInstant, Instants

(* The clock, and what of it is an instant.                                *)
LEMMA Clocked ==
  ASSUME OfficeShape
  PROVE  clock \in 0 .. MaxTime /\ clock \in Nat /\ clock - Overlap \in 0 .. MaxTime /\ 0 .. MaxTime \subseteq Instants
         /\ NoInstant \in Instants /\ Overlap \in Nat /\ MaxTime \in Nat
BY FieldPullAssumption DEF OfficeShape, Instants, NoInstant

(* The office's steps, and an edit.                                        *)
LEMMA OfficeKeepsShape ==
  ASSUME PullShape,
         \/ Tick \/ (\E r \in Rows : BeginWrite(r) \/ CommitWrite(r))
         \/ (\E s \in Shops : Reassign(s)) \/ (\E l \in Leads : Trash(l) \/ Restore(l) \/ Edit(l))
  PROVE  PullShape'
<1>0. OfficeShape /\ ShownShape /\ PassShape
  BY DEF PullShape
<1>1. ASSUME OfficeShape', UNCHANGED <<held, missing, cursor, pull>>, edited' \subseteq Leads PROVE PullShape'
  BY <1>0, <1>1 DEF PullShape, ShownShape, PassShape, Shape
<1>2. edited \subseteq Leads
  BY <1>0 DEF ShownShape
<1>3. CASE Tick
  <2>1. OfficeShape'
    BY <1>0, <1>3, Clocked DEF Tick, OfficeShape
  <2>2. QED
    BY <1>1, <1>2, <1>3, <2>1 DEF Tick, pulledVars
<1>4. ASSUME NEW r \in Rows, BeginWrite(r) PROVE PullShape'
  <2>1. OfficeShape'
    BY <1>0, <1>4, Clocked DEF BeginWrite, OfficeShape
  <2>2. QED
    BY <1>1, <1>2, <1>4, <2>1 DEF BeginWrite, pulledVars
<1>5. ASSUME NEW r \in Rows, CommitWrite(r) PROVE PullShape'
  <2>1. writing[r] \in 0 .. MaxTime
    BY <1>0, <1>5 DEF CommitWrite, OfficeShape
  <2>2. OfficeShape'
    BY <1>0, <1>5, <2>1 DEF CommitWrite, OfficeShape
  <2>3. QED
    BY <1>1, <1>2, <1>5, <2>2 DEF CommitWrite, pulledVars
<1>6. ASSUME NEW s \in Shops, Reassign(s) PROVE PullShape'
  <2>1. OfficeShape'
    BY <1>0, <1>6 DEF Reassign, OfficeShape
  <2>2. QED
    BY <1>1, <1>2, <1>6, <2>1 DEF Reassign, pulledVars
<1>7. ASSUME NEW l \in Leads, Trash(l) PROVE PullShape'
  <2>1. OfficeShape'
    BY <1>0, <1>7, Clocked DEF Trash, OfficeShape
  <2>2. QED
    BY <1>1, <1>2, <1>7, <2>1 DEF Trash, pulledVars
<1>8. ASSUME NEW l \in Leads, Restore(l) PROVE PullShape'
  <2>1. OfficeShape'
    BY <1>0, <1>8, Clocked DEF Restore, OfficeShape
  <2>2. QED
    BY <1>1, <1>2, <1>8, <2>1 DEF Restore, pulledVars
<1>9. ASSUME NEW l \in Leads, Edit(l) PROVE PullShape'
  <2>1. OfficeShape'
    BY <1>0, <1>9 DEF Edit, OfficeShape
  <2>2. QED
    BY <1>1, <1>2, <1>9, <2>1 DEF Edit
<1>10. QED
  BY <1>3, <1>4, <1>5, <1>6, <1>7, <1>8, <1>9

(* A full page holds the cursor to an instant there is.                    *)
LEMMA HeldAtInstant ==
  ASSUME NEW when, NEW P, \A p \in P : when[p] \in 0 .. MaxTime /\ when[p] > 0, NEW next \in 0 .. MaxTime
  PROVE  HeldAt(next, P, when) \in 0 .. MaxTime
<1>1. CASE Cardinality(P) < PageSize
  BY <1>1 DEF HeldAt
<1>2. CASE ~(Cardinality(P) < PageSize)
  <2>1. P # {}
    BY <1>2, FS_EmptySet, FieldPullAssumption
  <2>2. PICK T : T = {when[p] : p \in P}
    OBVIOUS
  <2>3. T \subseteq 0 .. MaxTime /\ T # {} /\ \A t \in T : t > 0
    BY <2>1, <2>2
  <2>4. PICK t \in T : \A u \in T : u <= t
    BY <2>3, Latest, FieldPullAssumption
  <2>5. PICK final : final = (CHOOSE t1 \in T : \A u \in T : u <= t1)
    OBVIOUS
  <2>6. final \in T
    BY <2>4, <2>5
  <2>7. final = CHOOSE t1 \in {when[p] : p \in P} : \A p \in P : when[p] <= t1
    BY <2>2, <2>5
  <2>8. HeldAt(next, P, when) = IF final - 1 < next THEN final - 1 ELSE next
    BY <1>2, <2>7 DEF HeldAt
  <2>9. final \in 0 .. MaxTime /\ final > 0
    BY <2>3, <2>6
  <2>10. QED
    BY <2>8, <2>9, FieldPullAssumption
<1>3. QED
  BY <1>1, <1>2

(* The steps of a pass.                                                    *)
LEMMA PassKeepsShape ==
  ASSUME PullShape, PassStep \/ TakeSnapshot \/ Interrupted
  PROVE  PullShape'
<1>0. OfficeShape /\ ShownShape /\ PassShape /\ Shape
  BY DEF PullShape, PassShape
<1>1. ASSUME PassShape', UNCHANGED <<officeVars, pulledVars>> PROVE PullShape'
  BY <1>0, <1>1 DEF PullShape, OfficeShape, ShownShape, officeVars, pulledVars
<1>2. CASE StartPass
  <2>1. PICK items : pull' = [phase |-> "sent", since |-> cursor, asked |-> missing, items |-> items,
               left |-> {}, rows |-> << >>, gone |-> {}, book |-> {}, next |-> NoInstant]
    BY <1>2 DEF StartPass, NoPull
  <2>2. DOMAIN << >> = {}
    OBVIOUS
  <2>3. PassShape'
    BY <1>0, <2>1, <2>2 DEF PassShape, ShownShape, Shape
  <2>4. QED
    BY <1>1, <1>2, <2>3 DEF StartPass
<1>3. CASE OfficeIngests
  <2>1. PICK answered \in SUBSET Unanswered : \E refused \in SUBSET (Unanswered \ answered) :
          /\ verdict' = [l \in Leads |-> IF l \in answered THEN "taken"
                                        ELSE IF l \in refused THEN "refused" ELSE verdict[l]]
          /\ at' = [r \in Rows |-> IF r \in answered THEN clock ELSE at[r]]
    BY <1>3 DEF OfficeIngests
  <2>2. /\ UNCHANGED <<clock, book, trash, writing, pulledVars>> /\ pull.phase = "sent"
        /\ pull' = [pull EXCEPT !.phase = "read", !.left = {"rows", "gone"}, !.book = book,
                                !.next = clock - Overlap, !.items = {l \in @ : verdict'[l] # "none"}]
    BY <1>3 DEF OfficeIngests
  <2>3. OfficeShape'
    BY <1>0, <2>1, <2>2, Clocked DEF OfficeShape
  <2>4. PICK items : items = {l \in pull.items : verdict'[l] # "none"}
    OBVIOUS
  <2>5. pull' = [phase |-> "read", since |-> pull.since, asked |-> pull.asked, items |-> items,
                 left |-> {"rows", "gone"}, rows |-> pull.rows, gone |-> pull.gone, book |-> book,
                 next |-> clock - Overlap]
    BY <1>0, <2>2, <2>4 DEF Shape
  <2>6. book \subseteq Shops
    BY <1>0 DEF OfficeShape
  <2>7. PassShape'
    BY <1>0, <2>2, <2>5, <2>6, Clocked DEF PassShape, Shape
  <2>8. ShownShape'
    BY <1>0, <2>2 DEF ShownShape, pulledVars
  <2>9. QED
    BY <2>3, <2>7, <2>8 DEF PullShape
<1>4. CASE ReadRows
  <2>1. PICK changed : changed = {s \in pull.book : at[s] > pull.since}
    OBVIOUS
  <2>2. PICK page \in SUBSET changed :
          pull' = [pull EXCEPT !.left = @ \ {"rows"},
             !.rows = [r \in page \union {l \in Leads : trash[l] = NoInstant /\ at[l] > pull.since}
                             \union (pull.asked \intersect pull.book) |-> at[r]],
             !.next = HeldAt(@, page, at)]
    BY <1>4, <2>1 DEF ReadRows
  <2>3. PICK rows : rows = [r \in page \union {l \in Leads : trash[l] = NoInstant /\ at[l] > pull.since}
                             \union (pull.asked \intersect pull.book) |-> at[r]]
    OBVIOUS
  <2>4. PICK next : next = HeldAt(pull.next, page, at)
    OBVIOUS
  <2>5. pull' = [phase |-> pull.phase, since |-> pull.since, asked |-> pull.asked, items |-> pull.items,
                 left |-> pull.left \ {"rows"}, rows |-> rows, gone |-> pull.gone, book |-> pull.book, next |-> next]
    BY <1>0, <2>2, <2>3, <2>4 DEF Shape
  <2>6. pull.phase = "read" /\ "rows" \in pull.left /\ UNCHANGED <<officeVars, pulledVars>>
    BY <1>4 DEF ReadRows
  <2>7. pull.since \in 0 .. MaxTime /\ pull.next \in 0 .. MaxTime /\ pull.book \subseteq Shops
    BY <1>0, <2>6 DEF PassShape
  <2>8. changed \subseteq Rows /\ DOMAIN rows \subseteq Rows /\ \A r \in Rows : at[r] \in 0 .. MaxTime
    BY <1>0, <2>1, <2>3, <2>7 DEF OfficeShape, Rows
  <2>9. next \in 0 .. MaxTime
    <3>1. \A s \in page : at[s] \in 0 .. MaxTime /\ at[s] > 0
      BY <2>1, <2>7, <2>8
    <3>2. QED
      BY <2>4, <2>7, <3>1, HeldAtInstant
  <2>10. \A r \in DOMAIN rows : rows[r] \in 0 .. MaxTime
    BY <2>3, <2>8
  <2>11. PassShape'
    BY <1>0, <2>5, <2>6, <2>8, <2>9, <2>10 DEF PassShape, Shape
  <2>12. QED
    BY <1>1, <2>6, <2>11
<1>5. CASE ReadTombstones
  <2>1. PICK page \in SUBSET {l \in Leads : trash[l] > pull.since} :
          pull' = [pull EXCEPT !.left = @ \ {"gone"}, !.gone = page, !.next = HeldAt(@, page, trash)]
    BY <1>5 DEF ReadTombstones
  <2>2. PICK next : next = HeldAt(pull.next, page, trash)
    OBVIOUS
  <2>3. pull' = [phase |-> pull.phase, since |-> pull.since, asked |-> pull.asked, items |-> pull.items,
                 left |-> pull.left \ {"gone"}, rows |-> pull.rows, gone |-> page, book |-> pull.book, next |-> next]
    BY <1>0, <2>1, <2>2 DEF Shape
  <2>4. pull.phase = "read" /\ "gone" \in pull.left /\ UNCHANGED <<officeVars, pulledVars>>
    BY <1>5 DEF ReadTombstones
  <2>5. pull.since \in 0 .. MaxTime /\ pull.next \in 0 .. MaxTime
    BY <1>0, <2>4 DEF PassShape
  <2>6. \A l \in page : trash[l] \in 0 .. MaxTime /\ trash[l] > 0
    BY <1>0, <2>1, <2>5, Clocked DEF OfficeShape, Instants, NoInstant
  <2>7. next \in 0 .. MaxTime /\ page \subseteq Leads
    BY <2>1, <2>2, <2>5, <2>6, HeldAtInstant
  <2>8. PassShape'
    BY <1>0, <2>3, <2>4, <2>7 DEF PassShape, Shape
  <2>9. QED
    BY <1>1, <2>4, <2>8
<1>6. CASE Apply
  <2>1. pull' = [phase |-> "applied", since |-> pull.since, asked |-> pull.asked, items |-> pull.items,
                 left |-> pull.left, rows |-> pull.rows, gone |-> pull.gone, book |-> pull.book, next |-> pull.next]
    BY <1>0, <1>6 DEF Shape, Apply
  <2>2. pull.phase = "read" /\ edited' = edited \ pull.items /\ UNCHANGED <<officeVars, cursor>>
    BY <1>6 DEF Apply
  <2>3. PICK rows : rows = [r \in Rows |-> IF r \in DOMAIN pull.rows \ edited' THEN pull.rows[r] ELSE held[r]]
    OBVIOUS
  <2>4. PICK dropped : dropped = pull.gone \union (Shops \ pull.book)
    OBVIOUS
  <2>5. /\ held' = [r \in Rows |-> IF r \in dropped THEN NoInstant ELSE rows[r]]
        /\ missing' = {s \in pull.book : rows[s] = NoInstant}
    BY <1>6, <2>3, <2>4 DEF Apply
  <2>6. PassShape' /\ OfficeShape'
    BY <1>0, <2>1, <2>2 DEF PassShape, Shape, OfficeShape, officeVars
  <2>7. \A r \in Rows : rows[r] \in Instants
    BY <1>0, <2>3, Clocked DEF PassShape, ShownShape
  <2>8. ShownShape'
    BY <1>0, <2>2, <2>5, <2>7, Clocked DEF PassShape, ShownShape
  <2>9. QED
    BY <2>6, <2>8 DEF PullShape
<1>7. CASE StoreCursor
  <2>1. pull.phase = "applied" /\ pull' = NoPull /\ cursor' = pull.next /\ UNCHANGED <<officeVars, held, edited, missing>>
    BY <1>7 DEF StoreCursor
  <2>2. PassShape'
    BY <2>1 DEF PassShape, Shape, NoPull
  <2>3. ShownShape' /\ OfficeShape'
    BY <1>0, <2>1 DEF PassShape, ShownShape, OfficeShape, officeVars
  <2>4. QED
    BY <2>2, <2>3 DEF PullShape
<1>8. CASE TakeSnapshot
  <2>1. PICK rows : rows = [r \in book \union {l \in Leads : trash[l] = NoInstant} |-> at[r]]
    OBVIOUS
  <2>2. pull' = [phase |-> "read", since |-> NoInstant, asked |-> {}, items |-> {}, left |-> {}, rows |-> rows,
                 gone |-> {}, book |-> book, next |-> clock - Overlap]
    BY <1>8, <2>1 DEF TakeSnapshot, NoPull
  <2>3. DOMAIN rows \subseteq Rows /\ (\A r \in DOMAIN rows : rows[r] \in 0 .. MaxTime) /\ book \subseteq Shops
    BY <1>0, <2>1 DEF OfficeShape, Rows
  <2>4. PassShape'
    BY <1>0, <2>2, <2>3, Clocked DEF PassShape, Shape
  <2>5. QED
    BY <1>1, <1>8, <2>4 DEF TakeSnapshot
<1>9. CASE Interrupted
  <2>1. PassShape'
    BY <1>9 DEF Interrupted, PassShape, Shape, NoPull
  <2>2. QED
    BY <1>1, <1>9, <2>1 DEF Interrupted
<1>10. QED
  BY <1>2, <1>3, <1>4, <1>5, <1>6, <1>7, <1>8, <1>9 DEF PassStep

(* Step by step, whatever waits, is refused or is open for long.           *)
LEMMA PullStepShape == PullShape /\ [PullNext]_pullVars => PullShape'
<1>1. ASSUME PullShape, UNCHANGED pullVars PROVE PullShape'
  BY <1>1 DEF pullVars, PullShape, OfficeShape, ShownShape, PassShape, Shape
<1>2. QED
  BY <1>1, OfficeKeepsShape, PassKeepsShape DEF PullNext

(* The rows, the tombstones and the cursor stay well formed (pull.ts,      *)
(* pull-cursor.ts), however long a transaction is open and whatever sits   *)
(* out a pass: no page ever stores a cursor that is no instant.            *)
THEOREM PullTypeCorrect == PullSpec => []PullTypeOK
<1>1. PullShape => PullTypeOK
  <2>1. {NoInstant} \union 0 .. MaxTime \subseteq Instants /\ 0 .. MaxTime \subseteq -1 .. MaxTime
    BY FieldPullAssumption DEF Instants, NoInstant
  <2>2. QED
    BY <2>1 DEF PullShape, OfficeShape, ShownShape, PassShape, PullTypeOK
<1>2. QED
  BY <1>1, PullInitShape, PullStepShape, PTL DEF PullSpec
-----------------------------------------------------------------------------
(* A step of the handset is a step of one part, and none of the others.    *)
LEMMA HandsetMoves ==
  [HandsetNext]_handsetVars =>
    [MediaNext]_mediaVars /\ [PullNext]_pullVars /\ [SessionNext]_sessionVars /\ [TrailNext]_trailVars
BY DEF HandsetNext, handsetVars

HandsetParts ==
  /\ MediaSpec /\ PullSpec /\ SessionSpec
  /\ TrailInit /\ [][TrailNext]_trailVars

(* Side by side, and with what the instances leave out, every part does    *)
(* only what it does alone.                                                *)
THEOREM PartsStayThemselves == HandsetSpec => HandsetParts
<1>1. HandsetInit => MediaInit /\ PullInit /\ SessionInit /\ TrailInit
  BY DEF HandsetInit
<1>2. QED
  BY <1>1, HandsetMoves, PTL DEF HandsetSpec, HandsetParts, MediaSpec, PullSpec, SessionSpec

(* Every row the handset keeps stays well formed, whichever part is at     *)
(* work and whatever is killed, cut short or refused.                      *)
THEOREM HandsetTypeCorrect == HandsetSpec => []HandsetTypeOK
<1>1. MediaTypeOK /\ PullTypeOK /\ SessionTypeOK /\ TrailTypeOK => HandsetTypeOK
  BY DEF HandsetTypeOK
<1>2. QED
  BY <1>1, PartsStayThemselves, MediaTypeCorrect, PullTypeCorrect, SessionTypeCorrect, TrailTypeCorrect, PTL DEF HandsetParts

(* What the handset promises, of all its parts side by side: no file lost  *)
(* and each under its record, nothing behind the cursor, one person's at a *)
(* time, and every fix accounted for.                                      *)
THEOREM HandsetKeepsItsPromises ==
  ASSUME ~SavesOverlap, ~Lingers, ~KilledSigningIn, ~AnySnapshot, ~EditsWait, ~MayRefuse, TxLife < Overlap
  PROVE  HandsetSpec =>
           /\ [](NoFileLost /\ FiledUnderItsRecord /\ NothingFallsBehind /\ OnePersonAtATime)
           /\ NoFixLost
BY PartsStayThemselves, EveryFileKept, EveryFileFiled, NothingLeftBehind, OneAtATime, EveryFixAccountedFor, PTL
   DEF HandsetParts
=============================================================================
