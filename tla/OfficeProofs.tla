---------------------------- MODULE OfficeProofs ----------------------------
(***************************************************************************)
(* Parts of the office, each for any constants: what is cached             *)
(* (ReferenceCache), the code somebody signs in with (SignInCode), a       *)
(* lead's place on the ladder (LeadLadder), a message (WhatsAppMessage),   *)
(* the map keys (OlaKeyPool) and what is owed to suppliers                 *)
(* (VendorPayouts).  They share no state; a section is of one of them, and *)
(* the last of the whole office (MCOffice), with the splits, the ledger    *)
(* and the dispatch desk of StockAndMoneyProofs.                           *)
(***************************************************************************)
EXTENDS MCOffice, StockAndMoneyProofs, SequenceTheorems

(***************************************************************************)
(* ReferenceCache, for any lives of an entry and of a load, and as many    *)
(* saves as one likes.                                                     *)
(*                                                                         *)
(* AgeIsBounded is not inductive: how old an answer may be depends on when *)
(* the load that brought it began, which the entry no longer says.         *)
(* CacheInv follows a version from the load that read it (LoadInv) to the  *)
(* entry (EntryInv): it was current when its load began, so it was saved   *)
(* over after that if at all, and a load is never older than LoadLife.     *)
(***************************************************************************)

(* A load under way began no longer ago than a load takes, and what it has *)
(* read was stored after it began, and after anybody was promised more.    *)
LoadInv ==
  /\ load.phase # "none" => load.since <= second /\ second <= load.since + LoadLife
  /\ load.phase = "read" =>
       /\ promised <= load.version /\ load.version <= stored
       /\ load.version = stored \/ load.since <= replaced[load.version]

(* What is kept was stored a load's time before it was put there.          *)
EntryInv ==
  entry.has =>
    /\ promised <= entry.version /\ entry.version <= stored
    /\ entry.readAt <= second
    /\ entry.version = stored \/ entry.readAt <= replaced[entry.version] + LoadLife

CacheInv == CacheTypeOK /\ promised <= stored /\ LoadInv /\ EntryInv

(* A process begins with an empty cache.                                   *)
LEMMA CacheInitInv == CacheInit => CacheInv
  BY CacheAssumption DEF CacheInit, CacheInv, CacheTypeOK, LoadInv, EntryInv, NoEntry, NoLoad, Versions

(* Every step keeps the types.                                             *)
LEMMA CacheStepTypeOK == CacheTypeOK /\ [CacheNext]_cacheVars => CacheTypeOK'
<1> SUFFICES ASSUME CacheTypeOK, [CacheNext]_cacheVars PROVE CacheTypeOK'
  OBVIOUS
<1> USE CacheAssumption DEF CacheTypeOK, Versions
<1>1. CASE CacheTick
  BY <1>1 DEF CacheTick
<1>2. CASE SaveReference
  BY <1>2 DEF SaveReference
<1>3. CASE Forget
  BY <1>3 DEF Forget, NoEntry
<1>4. CASE BeginLoad
  BY <1>4 DEF BeginLoad
<1>5. CASE DatabaseReads
  BY <1>5 DEF DatabaseReads
<1>6. CASE LoadDone
  BY <1>6 DEF LoadDone, NoLoad
<1>7. CASE LoadFails
  BY <1>7 DEF LoadFails, NoLoad
<1>8. CASE UNCHANGED cacheVars
  BY <1>8 DEF cacheVars
<1> QED
  BY <1>1, <1>2, <1>3, <1>4, <1>5, <1>6, <1>7, <1>8 DEF CacheNext

(* Every step keeps what is known of the load, of the entry and of the     *)
(* promise.                                                                *)
LEMMA CacheStepInv == CacheInv /\ [CacheNext]_cacheVars => CacheInv'
<1> SUFFICES ASSUME CacheInv, [CacheNext]_cacheVars PROVE CacheInv'
  OBVIOUS
<1>t. CacheTypeOK'
  BY CacheStepTypeOK DEF CacheInv
<1> SUFFICES (promised <= stored)' /\ LoadInv' /\ EntryInv'
  BY <1>t DEF CacheInv
<1> USE CacheAssumption DEF CacheInv, CacheTypeOK, Versions, LoadInv, EntryInv
<1>1. CASE CacheTick
  BY <1>1, SMTT(30) DEF CacheTick
<1>2. CASE SaveReference
  BY <1>2, SMTT(30) DEF SaveReference
<1>3. CASE Forget
  BY <1>3 DEF Forget, NoEntry
<1>4. CASE BeginLoad
  BY <1>4 DEF BeginLoad
<1>5. CASE DatabaseReads
  BY <1>5 DEF DatabaseReads
<1>6. CASE LoadDone
  BY <1>6, SMTT(30) DEF LoadDone, NoLoad
<1>7. CASE LoadFails
  BY <1>7 DEF LoadFails, NoLoad
<1>8. CASE UNCHANGED cacheVars
  BY <1>8 DEF cacheVars
<1> QED
  BY <1>1, <1>2, <1>3, <1>4, <1>5, <1>6, <1>7, <1>8 DEF CacheNext

(* What is given out while it is fresh is no older than a load and a life. *)
LEMMA InvIsEnough == CacheInv => AgeIsBounded
<1> SUFFICES ASSUME CacheInv PROVE StaleForSoLong /\ ForgottenStaysForgotten
  BY DEF AgeIsBounded
<1> USE CacheAssumption DEF CacheInv, CacheTypeOK, Versions, LoadInv, EntryInv
<1>1. ASSUME StillFresh PROVE CurrentWithin(entry.version, CacheLife + LoadLife)
  <2>1. entry.version \in 0 .. MaxSaves /\ replaced[entry.version] \in Nat
    OBVIOUS
  <2> QED
    BY <1>1, <2>1, SMTT(30) DEF StillFresh, CurrentWithin
<1>2. ASSUME load.phase = "read" PROVE CurrentWithin(load.version, LoadLife)
  <2>1. load.version \in 0 .. MaxSaves /\ replaced[load.version] \in Nat
    OBVIOUS
  <2> QED
    BY <1>2, <2>1 DEF CurrentWithin
<1>3. ForgottenStaysForgotten
  BY DEF ForgottenStaysForgotten, StillFresh
<1> QED
  BY <1>1, <1>2, <1>3 DEF StaleForSoLong
-----------------------------------------------------------------------------
(* The inductive invariant holds of every behaviour of the cache           *)
(* (cached and forget of reference-cache.ts).                              *)
THEOREM CacheInvariance == CacheSpec => []CacheInv
  BY CacheInitInv, CacheStepInv, PTL DEF CacheSpec

(* The cache's state keeps its type.                                       *)
THEOREM CacheTypeCorrect == CacheSpec => []CacheTypeOK
<1>1. CacheInv => CacheTypeOK
  BY DEF CacheInv
<1> QED
  BY <1>1, CacheInvariance, PTL

(* Nobody is given reference data that had been saved over for longer than *)
(* an entry's life and a load, nor, where nobody was loading as the key    *)
(* was forgotten, anything older than what was stored then.                *)
THEOREM NothingStaler == CacheSpec => []AgeIsBounded
  BY CacheInvariance, InvIsEnough, PTL
-----------------------------------------------------------------------------
(***************************************************************************)
(* SignInCode, for any number of submissions, codes and tries.             *)
(*                                                                         *)
(* CodesAreUsedUp says what is so of every row; that a row used was one    *)
(* sent rests on the submissions, which write long after they read:        *)
(* CodeInv adds that what a submission has in hand is a row that is there  *)
(* and was sent (CodeInHand), and rows are never taken away nor unsent.    *)
(***************************************************************************)

(* A row of the codes.                                                     *)
CodeRows == [refused : BOOLEAN, sent : BOOLEAN, expired : BOOLEAN, attempts : Nat, used : BOOLEAN]

(* What CodesAreUsedUp says of one row.                                    *)
UsedUp(n) ==
  /\ signedIn[n] <= 1 /\ (signedIn[n] = 1 <=> codes[n].used)
  /\ codes[n].used => codes[n].sent
  /\ codes[n].attempts = wrong[n]

CodeInHand ==
  \A s \in Submissions :
    trying[s] # NotTrying => trying[s].row \in DOMAIN codes /\ codes[trying[s].row].sent

CodeInv == CodeTypeOK /\ Len(codes) <= MaxCodes /\ CodeInHand /\ CodesAreUsedUp

(* CodesAreUsedUp is about each row by itself.                             *)
LEMMA RowByRow == CodesAreUsedUp <=> \A n \in DOMAIN codes : UsedUp(n)
  BY DEF CodesAreUsedUp, CodeSignsInOnce, WrongTriesCount, UsedUp

(* Every row is one.                                                       *)
LEMMA RowsTyped ==
  CodeTypeOK => codes \in Seq(CodeRows) /\ \A n \in DOMAIN codes : codes[n] \in CodeRows
<1> SUFFICES ASSUME CodeTypeOK
             PROVE  codes \in Seq(CodeRows) /\ \A n \in DOMAIN codes : codes[n] \in CodeRows
  OBVIOUS
<1>1. codes \in Seq(CodeRows)
  BY DEF CodeTypeOK, CodeRows
<1> QED
  BY <1>1

(* A row sent or run out.                                                  *)
LEMMA RowMarked ==
  ASSUME NEW row \in CodeRows, NEW new,
         new \in {[row EXCEPT !.sent = TRUE], [row EXCEPT !.expired = TRUE]}
  PROVE  /\ new \in CodeRows
         /\ new.used <=> row.used
         /\ new.attempts = row.attempts
         /\ row.sent => new.sent
  BY DEF CodeRows

(* A row tried in vain.                                                    *)
LEMMA RowTried ==
  ASSUME NEW row \in CodeRows, NEW new, new = [row EXCEPT !.attempts = row.attempts + 1]
  PROVE  /\ new \in CodeRows
         /\ new.used <=> row.used
         /\ new.attempts = row.attempts + 1
         /\ new.sent <=> row.sent
  BY DEF CodeRows

(* A row used.                                                             *)
LEMMA RowTaken ==
  ASSUME NEW row \in CodeRows, NEW new, new = [row EXCEPT !.used = TRUE]
  PROVE  /\ new \in CodeRows /\ new.used
         /\ new.attempts = row.attempts
         /\ new.sent <=> row.sent
  BY DEF CodeRows

(* A sequence with one entry replaced.                                     *)
LEMMA Replaced ==
  ASSUME NEW S, NEW seq \in Seq(S), NEW n \in DOMAIN seq, NEW e \in S,
         NEW new, new = [seq EXCEPT ![n] = e]
  PROVE  /\ new \in Seq(S) /\ Len(new) = Len(seq) /\ DOMAIN new = DOMAIN seq
         /\ \A k \in DOMAIN seq : new[k] = IF k = n THEN e ELSE seq[k]
  OBVIOUS

(* An account begins without codes.                                        *)
LEMMA CodeInitInv == CodeInit => CodeInv
  BY CodeAssumption DEF CodeInit, CodeInv, CodeTypeOK, CodeInHand, NotTrying, CodesAreUsedUp,
     CodeSignsInOnce, WrongTriesCount

(* A new row is unused, has let nobody in and has no tries against it.     *)
LEMMA InsertInv ==
  ASSUME CodeInv, NEW row \in CodeRows, ~row.used, row.attempts = 0, Insert(row)
  PROVE  CodeInv'
<1> USE CodeAssumption DEF CodeInv, CodeTypeOK, CodeRows
<1>1. /\ Len(codes') = Len(codes) + 1 /\ Len(wrong') = Len(codes') /\ Len(signedIn') = Len(codes')
      /\ codes' \in Seq(CodeRows) /\ wrong' \in Seq(Nat) /\ signedIn' \in Seq(Nat)
  BY DEF Insert
<1>2. \A n \in DOMAIN codes :
        /\ n \in DOMAIN codes' /\ codes'[n] = codes[n]
        /\ wrong'[n] = wrong[n] /\ signedIn'[n] = signedIn[n]
  BY DEF Insert
<1>3. \A n \in DOMAIN codes' : n \in DOMAIN codes \/ n = Len(codes) + 1
  BY <1>1
<1>4. LET n == Len(codes) + 1 IN codes'[n] = row /\ wrong'[n] = 0 /\ signedIn'[n] = 0
  BY DEF Insert
<1>5. CodeTypeOK' /\ (Len(codes) <= MaxCodes)'
  BY <1>1 DEF Insert
<1>6. CodeInHand'
  BY <1>2 DEF Insert, CodeInHand
<1>7. ASSUME NEW n \in DOMAIN codes' PROVE UsedUp(n)'
  <2>1. CASE n \in DOMAIN codes
    <3>1. UsedUp(n)
      BY <2>1, RowByRow
    <3> QED
      BY <1>2, <2>1, <3>1 DEF UsedUp
  <2>2. CASE n = Len(codes) + 1
    BY <1>4, <2>2 DEF UsedUp
  <2> QED
    BY <1>3, <2>1, <2>2
<1>8. CodesAreUsedUp'
  BY <1>7 DEF CodesAreUsedUp, CodeSignsInOnce, WrongTriesCount, UsedUp
<1> QED
  BY <1>5, <1>6, <1>8

(* A row that changes in its sending or its age only.                      *)
LEMMA MarkInv ==
  ASSUME CodeInv, NEW n \in DOMAIN codes, MarkSent(n) \/ Expire(n)
  PROVE  CodeInv'
<1>1. codes \in Seq(CodeRows) /\ codes[n] \in CodeRows
  BY RowsTyped DEF CodeInv
<1>2. PICK row : /\ row \in {[codes[n] EXCEPT !.sent = TRUE], [codes[n] EXCEPT !.expired = TRUE]}
                 /\ codes' = [codes EXCEPT ![n] = row]
                 /\ UNCHANGED <<trying, wrong, signedIn>>
  BY DEF MarkSent, Expire
<1>3. /\ row \in CodeRows
      /\ row.used <=> codes[n].used
      /\ row.attempts = codes[n].attempts
      /\ codes[n].sent => row.sent
  BY <1>1, <1>2, RowMarked
<1>4. /\ codes' \in Seq(CodeRows) /\ Len(codes') = Len(codes) /\ DOMAIN codes' = DOMAIN codes
      /\ \A k \in DOMAIN codes : codes'[k] = IF k = n THEN row ELSE codes[k]
  BY <1>1, <1>2, <1>3, Replaced
<1>5. CodeTypeOK' /\ (Len(codes) <= MaxCodes)'
  BY <1>2, <1>4 DEF CodeInv, CodeTypeOK, CodeRows
<1>6. CodeInHand'
  BY <1>2, <1>3, <1>4 DEF CodeInv, CodeInHand
<1>7. ASSUME NEW k \in DOMAIN codes PROVE UsedUp(k)'
  <2>1. UsedUp(k)
    BY RowByRow DEF CodeInv
  <2> QED
    BY <1>2, <1>3, <1>4, <2>1 DEF UsedUp
<1>8. CodesAreUsedUp'
  BY <1>4, <1>7 DEF CodesAreUsedUp, CodeSignsInOnce, WrongTriesCount, UsedUp
<1> QED
  BY <1>5, <1>6, <1>8 DEF CodeInv

(* A submission reads a row that was sent, or lets go of it.               *)
LEMMA HandInv ==
  ASSUME CodeInv, NEW s \in Submissions,
         (\E right \in BOOLEAN : SubmitCode(s, right)) \/ Unchecked(s)
  PROVE  CodeInv'
<1> USE CodeAssumption DEF CodeInv, CodeTypeOK
<1>1. CASE Unchecked(s)
  <2>1. NotTrying \in [row : 0 .. MaxCodes, right : BOOLEAN]
    BY DEF NotTrying
  <2>2. CodeTypeOK' /\ CodeInHand' /\ (Len(codes) <= MaxCodes)'
    BY <1>1, <2>1 DEF Unchecked, CodeInHand
  <2>3. CodesAreUsedUp'
    BY <1>1 DEF Unchecked, CodesAreUsedUp, CodeSignsInOnce, WrongTriesCount
  <2> QED
    BY <2>2, <2>3
<1>2. ASSUME NEW right \in BOOLEAN, SubmitCode(s, right) PROVE CodeInv'
  <2>1. PICK n \in DOMAIN codes :
          codes[n].sent /\ trying' = [trying EXCEPT ![s] = [row |-> n, right |-> right]]
    BY <1>2 DEF SubmitCode
  <2>2. UNCHANGED <<codes, wrong, signedIn>>
    BY <1>2 DEF SubmitCode
  <2>3. [row |-> n, right |-> right] \in [row : 0 .. MaxCodes, right : BOOLEAN]
    OBVIOUS
  <2>4. CodeTypeOK' /\ CodeInHand' /\ (Len(codes) <= MaxCodes)'
    BY <2>1, <2>2, <2>3 DEF CodeInHand
  <2>5. CodesAreUsedUp'
    BY <2>2 DEF CodesAreUsedUp, CodeSignsInOnce, WrongTriesCount
  <2> QED
    BY <2>4, <2>5
<1> QED
  BY <1>1, <1>2

(* A wrong try is counted in the statement that writes it.                 *)
LEMMA WrongInv ==
  ASSUME CodeInv, NEW s \in Submissions, WriteWrong(s)
  PROVE  CodeInv'
<1>1. PICK n \in DOMAIN codes : n = trying[s].row
  BY DEF CodeInv, CodeInHand, WriteWrong
<1>2. codes \in Seq(CodeRows) /\ codes[n] \in CodeRows
  BY RowsTyped DEF CodeInv
<1>3. PICK row : /\ row = [codes[n] EXCEPT !.attempts = codes[n].attempts + 1]
                 /\ codes' = [codes EXCEPT ![n] = row]
  BY <1>1 DEF WriteWrong, CountOneMore
<1>4. /\ row \in CodeRows
      /\ row.used <=> codes[n].used
      /\ row.attempts = codes[n].attempts + 1
      /\ row.sent <=> codes[n].sent
  BY <1>2, <1>3, RowTried
<1>5. /\ codes' \in Seq(CodeRows) /\ Len(codes') = Len(codes) /\ DOMAIN codes' = DOMAIN codes
      /\ \A k \in DOMAIN codes : codes'[k] = IF k = n THEN row ELSE codes[k]
  BY <1>2, <1>3, <1>4, Replaced
<1>6. /\ n \in DOMAIN wrong /\ wrong \in Seq(Nat) /\ wrong[n] + 1 \in Nat
      /\ DOMAIN wrong = DOMAIN codes
      /\ wrong' = [wrong EXCEPT ![n] = wrong[n] + 1]
  BY <1>1 DEF CodeInv, CodeTypeOK, WriteWrong, CountOneMore
<1>7. /\ wrong' \in Seq(Nat) /\ Len(wrong') = Len(wrong)
      /\ \A k \in DOMAIN codes : wrong'[k] = IF k = n THEN wrong[n] + 1 ELSE wrong[k]
  BY <1>6, Replaced
<1>8. UNCHANGED signedIn /\ trying' = [trying EXCEPT ![s] = NotTrying]
  BY DEF WriteWrong
<1>9. CodeTypeOK' /\ (Len(codes) <= MaxCodes)'
  <2>1. NotTrying \in [row : 0 .. MaxCodes, right : BOOLEAN]
    BY CodeAssumption DEF NotTrying
  <2> QED
    BY <1>5, <1>7, <1>8, <2>1 DEF CodeInv, CodeTypeOK, CodeRows
<1>10. CodeInHand'
  BY <1>4, <1>5, <1>8 DEF CodeInv, CodeTypeOK, CodeInHand
<1>11. ASSUME NEW k \in DOMAIN codes PROVE UsedUp(k)'
  <2>1. UsedUp(k)
    BY RowByRow DEF CodeInv
  <2> QED
    BY <1>4, <1>5, <1>7, <1>8, <2>1 DEF UsedUp
<1>12. CodesAreUsedUp'
  BY <1>5, <1>11 DEF CodesAreUsedUp, CodeSignsInOnce, WrongTriesCount, UsedUp
<1> QED
  BY <1>9, <1>10, <1>12 DEF CodeInv

(* A right one lets in if the row is unused as it is written, not as it    *)
(* was read.                                                               *)
LEMMA RightInv ==
  ASSUME CodeInv, NEW s \in Submissions, WriteRight(s)
  PROVE  CodeInv'
<1>1. PICK n \in DOMAIN codes : n = trying[s].row /\ codes[n].sent
  BY DEF CodeInv, CodeInHand, WriteRight
<1>2. UNCHANGED wrong /\ trying' = [trying EXCEPT ![s] = NotTrying]
  BY DEF WriteRight
<1>3. NotTrying \in [row : 0 .. MaxCodes, right : BOOLEAN]
  BY CodeAssumption DEF NotTrying
<1>4. CASE codes[n].used
  <2>1. UNCHANGED <<codes, signedIn>>
    BY <1>1, <1>4 DEF WriteRight
  <2>2. CodeTypeOK' /\ CodeInHand' /\ (Len(codes) <= MaxCodes)'
    BY <1>2, <1>3, <2>1 DEF CodeInv, CodeTypeOK, CodeInHand
  <2>3. CodesAreUsedUp'
    BY <1>2, <2>1 DEF CodeInv, CodesAreUsedUp, CodeSignsInOnce, WrongTriesCount
  <2> QED
    BY <2>2, <2>3 DEF CodeInv
<1>5. CASE ~codes[n].used
  <2>1. codes \in Seq(CodeRows) /\ codes[n] \in CodeRows
    BY RowsTyped DEF CodeInv
  <2>2. PICK row : row = [codes[n] EXCEPT !.used = TRUE] /\ codes' = [codes EXCEPT ![n] = row]
    BY <1>1, <1>5 DEF WriteRight
  <2>3. /\ row \in CodeRows /\ row.used
        /\ row.attempts = codes[n].attempts
        /\ row.sent <=> codes[n].sent
    BY <2>1, <2>2, RowTaken
  <2>4. /\ codes' \in Seq(CodeRows) /\ Len(codes') = Len(codes) /\ DOMAIN codes' = DOMAIN codes
        /\ \A k \in DOMAIN codes : codes'[k] = IF k = n THEN row ELSE codes[k]
    BY <2>1, <2>2, <2>3, Replaced
  <2>5. /\ n \in DOMAIN signedIn /\ signedIn \in Seq(Nat) /\ signedIn[n] + 1 \in Nat
        /\ DOMAIN signedIn = DOMAIN codes
        /\ signedIn' = [signedIn EXCEPT ![n] = signedIn[n] + 1]
    BY <1>1, <1>5 DEF CodeInv, CodeTypeOK, WriteRight
  <2>6. /\ signedIn' \in Seq(Nat) /\ Len(signedIn') = Len(signedIn)
        /\ \A k \in DOMAIN codes : signedIn'[k] = IF k = n THEN signedIn[n] + 1 ELSE signedIn[k]
    BY <2>5, Replaced
  <2>7. CodeTypeOK' /\ (Len(codes) <= MaxCodes)'
    BY <1>2, <1>3, <2>4, <2>6 DEF CodeInv, CodeTypeOK, CodeRows
  <2>8. CodeInHand'
    BY <1>2, <2>3, <2>4 DEF CodeInv, CodeTypeOK, CodeInHand
  <2>9. ASSUME NEW k \in DOMAIN codes PROVE UsedUp(k)'
    <3>1. UsedUp(k) /\ signedIn[k] \in Nat
      BY <2>5, RowByRow DEF CodeInv
    <3>2. CASE k = n
      <4>1. signedIn[n] = 0
        BY <1>5, <3>1, <3>2 DEF UsedUp
      <4> QED
        BY <1>1, <1>2, <2>3, <2>4, <2>6, <3>1, <3>2, <4>1 DEF UsedUp
    <3>3. CASE k # n
      BY <1>2, <2>4, <2>6, <3>1, <3>3 DEF UsedUp
    <3> QED
      BY <3>2, <3>3
  <2>10. CodesAreUsedUp'
    BY <2>4, <2>9 DEF CodesAreUsedUp, CodeSignsInOnce, WrongTriesCount, UsedUp
  <2> QED
    BY <2>7, <2>8, <2>10 DEF CodeInv
<1> QED
  BY <1>4, <1>5

(* The invariant, action by action.                                        *)
LEMMA CodeStepInv == CodeInv /\ [CodeNext]_codeVars => CodeInv'
<1> SUFFICES ASSUME CodeInv, [CodeNext]_codeVars PROVE CodeInv'
  OBVIOUS
<1>1. CASE InsertCode
  <2>1. PICK sent \in BOOLEAN : Insert([NewCode EXCEPT !.sent = sent])
    BY <1>1 DEF InsertCode
  <2>2. LET row == [NewCode EXCEPT !.sent = sent] IN row \in CodeRows /\ ~row.used /\ row.attempts = 0
    BY DEF NewCode, CodeRows
  <2> QED
    BY <2>1, <2>2, InsertInv
<1>2. CASE InsertRefused
  <2>1. LET row == [NewCode EXCEPT !.refused = TRUE, !.expired = TRUE]
        IN row \in CodeRows /\ ~row.used /\ row.attempts = 0
    BY DEF NewCode, CodeRows
  <2> QED
    BY <1>2, <2>1, InsertInv DEF InsertRefused
<1>3. ASSUME NEW n \in DOMAIN codes, MarkSent(n) \/ Expire(n) PROVE CodeInv'
  BY <1>3, MarkInv
<1>4. ASSUME NEW s \in Submissions,
             (\E right \in BOOLEAN : SubmitCode(s, right)) \/ Unchecked(s)
      PROVE  CodeInv'
  BY <1>4, HandInv
<1>5. ASSUME NEW s \in Submissions, WriteWrong(s) PROVE CodeInv'
  BY <1>5, WrongInv
<1>6. ASSUME NEW s \in Submissions, WriteRight(s) PROVE CodeInv'
  BY <1>6, RightInv
<1>7. CASE UNCHANGED codeVars
  BY <1>7 DEF codeVars, CodeInv, CodeTypeOK, CodeInHand, CodesAreUsedUp, CodeSignsInOnce, WrongTriesCount
<1> QED
  BY <1>1, <1>2, <1>3, <1>4, <1>5, <1>6, <1>7 DEF CodeNext
-----------------------------------------------------------------------------
(* The inductive invariant holds of every behaviour of the codes           *)
(* (sendOtp and verifyOtp of otp-service.ts).                              *)
THEOREM CodeInvariance == CodeSpec => []CodeInv
  BY CodeInitInv, CodeStepInv, PTL DEF CodeSpec

(* The rows and the submissions keep their types.                          *)
THEOREM CodeTypeCorrect == CodeSpec => []CodeTypeOK
<1>1. CodeInv => CodeTypeOK
  BY DEF CodeInv
<1> QED
  BY <1>1, CodeInvariance, PTL

(* However many submissions race with one code, it lets in once, only if   *)
(* it was sent, and every wrong try counts against it.                     *)
THEOREM UsedUpByUse == CodeSpec => []CodesAreUsedUp
<1>1. CodeInv => CodesAreUsedUp
  BY DEF CodeInv
<1> QED
  BY <1>1, CodeInvariance, PTL
-----------------------------------------------------------------------------
(***************************************************************************)
(* That a lead comes back from Lost to where it had stood rests on the     *)
(* newest loss on record being the loss of the row: LeadInv adds that what *)
(* is known of where it stood is on record (StoodIsRecorded), and what a   *)
(* request still knows of a row nobody has written since (StillKnows): the *)
(* stage it read, and an instant later than the newest loss.               *)
(***************************************************************************)

(* What a request knows of the row it read.                                *)
StillKnows(a) ==
  /\ a.tick <= ticks
  /\ a.kind = "customer" => lead.kind = "customer"
  /\ a.how \in {"move", "guarded"} =>
       /\ a.from \in Stages \ {"lost"} /\ a.kind \in {"lead", "customer"} /\ a.to \in Stages
       /\ ~a.stale => a.from = lead.stage /\ (a.at = "begun" => a.tick > loss.at)
  /\ a.how \in {"order", "visit", "by hand"} => a.to \in Stages

StoodIsRecorded ==
  stood # "unknown" => stood # "lost" /\ lead.stage = "lost" /\ loss.from = stood

LeadInv ==
  /\ LeadTypeOK
  /\ loss.at <= ticks
  /\ StoodIsRecorded
  /\ \A p \in Movers : StillKnows(asked[p])
-----------------------------------------------------------------------------
(* Where each rung is.                                                     *)
LEMMA RungsAre ==
  /\ Rung("suspect") = 1 /\ Rung("prospect") = 2 /\ Rung("qualification") = 3
  /\ Rung("second_order") = 4 /\ Rung("customer") = 5
  /\ Rungs = {"suspect", "prospect", "qualification", "second_order", "customer"}
<1>1. DOMAIN Ladder = 1 .. 5 /\ Len(Ladder) = 5
  BY DEF Ladder
<1>2. /\ Ladder[1] = "suspect" /\ Ladder[2] = "prospect" /\ Ladder[3] = "qualification"
      /\ Ladder[4] = "second_order" /\ Ladder[5] = "customer"
  BY DEF Ladder
<1>3. \A i \in 1 .. 5 : i = 1 \/ i = 2 \/ i = 3 \/ i = 4 \/ i = 5
  OBVIOUS
<1>4. \A i \in 1 .. 5 : Rung(Ladder[i]) \in 1 .. 5 /\ Ladder[Rung(Ladder[i])] = Ladder[i]
  BY <1>1 DEF Rung
<1>5. \A i, j \in 1 .. 5 : Ladder[i] = Ladder[j] => i = j
  BY <1>2, <1>3
<1>6. \A i \in 1 .. 5 : Rung(Ladder[i]) = i
  BY <1>4, <1>5
<1>7. Rungs = {Ladder[i] : i \in 1 .. 5}
  BY <1>1 DEF Rungs
<1> QED
  BY <1>2, <1>3, <1>6, <1>7

(* What the ladder says of a stage.                                        *)
LEMMA LadderIs ==
  /\ Foot = "suspect" /\ Ladder[3] = "qualification"
  /\ Stages = {"suspect", "prospect", "qualification", "second_order", "customer", "on_hold", "lost", "won"}
  /\ \A s : OnTheBook(s) <=> s \in {"second_order", "customer", "won"}
  /\ \A s : NextStage(s) \in Rungs
<1>1. Foot = "suspect" /\ Ladder[3] = "qualification"
  BY DEF Foot, Ladder
<1>2. Stages = {"suspect", "prospect", "qualification", "second_order", "customer", "on_hold", "lost", "won"}
  BY RungsAre DEF Stages
<1>3. ASSUME NEW s PROVE OnTheBook(s) <=> s \in {"second_order", "customer", "won"}
  BY RungsAre DEF OnTheBook, PromotesAt
<1>4. ASSUME NEW s PROVE NextStage(s) \in Rungs
  <2>1. CASE s \notin Rungs
    BY <2>1, <1>1, RungsAre DEF NextStage
  <2>2. CASE s \in Rungs
    BY <2>2, RungsAre DEF NextStage, Ladder
  <2> QED
    BY <2>1, <2>2
<1> QED
  BY <1>1, <1>2, <1>3, <1>4

(* Where a lost lead is brought back to.                                   *)
LEMMA BackTo ==
  ASSUME NEW from, NEW why
  PROVE  /\ ReopenTarget(from, why) \in {"suspect", "prospect", "qualification"}
         /\ why = "failed" => ReopenTarget(from, why) = "prospect"
         /\ why # "failed" /\ from \in Rungs /\ ~OnTheBook(from) => ReopenTarget(from, why) = from
         /\ why # "failed" /\ from \notin Rungs => ReopenTarget(from, why) = Foot
<1>1. PromotesAt = "second_order" /\ Rung(PromotesAt) - 1 = 3
  BY RungsAre DEF PromotesAt
<1> QED
  BY <1>1, RungsAre, LadderIs DEF ReopenTarget
-----------------------------------------------------------------------------
Rows == [stage : Stages, kind : {"lead", "customer"}, verified : BOOLEAN, why : {"none", "said", "failed"}]

(* What the invariant says of the row and of the clock.                    *)
LEMMA RequestTyped ==
  ASSUME LeadInv
  PROVE  /\ lead.stage \in Stages /\ lead.kind \in {"lead", "customer"} /\ lead.verified \in BOOLEAN
         /\ lead.why \in {"none", "said", "failed"}
         /\ 0 \in 0 .. MaxTicks /\ ticks \in 0 .. MaxTicks /\ ticks \in Nat /\ ticks >= 0
         /\ loss.at \in 0 .. MaxTicks /\ loss.at \in Nat /\ loss.at <= ticks
         /\ \A q \in Movers : asked[q] \in Requests /\ StillKnows(asked[q])
  BY LeadAssumption DEF LeadInv, LeadTypeOK

LEMMA Clock ==
  ASSUME LeadInv PROVE ticks \in Nat /\ ticks <= ticks
  BY RequestTyped

(* A request at rest is one, and knows nothing.                            *)
LEMMA LeadAtRest ==
  /\ NotAsking.at = "idle" /\ NotAsking.how = "none" /\ NotAsking.from = "none" /\ NotAsking.kind = "none"
  /\ NotAsking.to = "none" /\ NotAsking.why = "none" /\ NotAsking.tick = 0 /\ ~NotAsking.stale
  /\ NotAsking \in Requests
  /\ LeadInv => StillKnows(NotAsking)
<1>1. /\ NotAsking.at = "idle" /\ NotAsking.how = "none" /\ NotAsking.from = "none" /\ NotAsking.kind = "none"
      /\ NotAsking.to = "none" /\ NotAsking.why = "none" /\ NotAsking.tick = 0 /\ NotAsking.stale = FALSE
  BY DEF NotAsking, NeverYet
<1>2. 0 \in 0 .. MaxTicks
  BY LeadAssumption
<1>3. NotAsking \in Requests
  BY <1>2 DEF NotAsking, NeverYet, Requests
<1>4. ASSUME LeadInv PROVE StillKnows(NotAsking)
  BY <1>1, <1>4, RequestTyped DEF StillKnows
<1> QED
  BY <1>1, <1>3, <1>4

(* One request becomes another; the rest know what they knew.              *)
LEMMA BecomesKeeps ==
  ASSUME LeadInv, NEW p \in Movers, NEW k \in Requests, asked' = [asked EXCEPT ![p] = k],
         lead' = lead, loss' = loss, ticks' \in Nat, ticks <= ticks', StillKnows(k)'
  PROVE  asked' \in [Movers -> Requests] /\ \A q \in Movers : StillKnows(asked[q])'
<1>1. asked \in [Movers -> Requests]
  BY DEF LeadInv, LeadTypeOK
<1>2. ASSUME NEW q \in Movers PROVE StillKnows(asked[q])'
  <2>1. CASE q = p
    BY <1>1, <2>1 DEF StillKnows
  <2>2. CASE q # p
    <3>1. PICK c : c = asked[q]
      OBVIOUS
    <3>2. asked'[q] = c
      BY <1>1, <2>2, <3>1
    <3>3. c \in Requests /\ StillKnows(c)
      BY <3>1, RequestTyped
    <3>4. c.tick \in 0 .. MaxTicks
      BY <3>3 DEF Requests
    <3>5. c.tick \in Nat /\ ticks \in Nat
      BY <3>4, Clock, LeadAssumption
    <3>6. c.tick <= ticks
      BY <3>3 DEF StillKnows
    <3>7. c.tick <= ticks'
      BY <3>5, <3>6
    <3>8. StillKnows(c)'
      BY <3>3, <3>7 DEF StillKnows
    <3> QED
      BY <3>2, <3>8 DEF StillKnows
  <2> QED
    BY <2>1, <2>2
<1> QED
  BY <1>1, <1>2

(* Whoever has read knows what it read, if nobody writes.                  *)
LEMMA ReadsKeep ==
  ASSUME LeadInv, NEW p \in Movers, NEW door \in {"move", "guarded", "order", "visit", "by hand"},
         NEW rung \in Stages, NEW cause \in {"none", "said", "failed"}, Reads(p, door, rung, cause),
         door \in {"move", "guarded"} => lead.stage # "lost",
         lead' = lead, loss' = loss, ticks' = ticks
  PROVE  asked' \in [Movers -> Requests] /\ \A q \in Movers : StillKnows(asked[q])'
<1>1. PICK k : k = [NotAsking EXCEPT !.at = "read", !.how = door, !.from = lead.stage, !.kind = lead.kind,
                                     !.to = rung, !.why = cause]
  OBVIOUS
<1>2. asked' = [asked EXCEPT ![p] = k]
  BY <1>1 DEF Reads
<1>3. k \in Requests
  <2>1. PICK b \in Requests : b = NotAsking
    BY LeadAtRest
  <2>2. PICK from \in Stages, kind \in {"lead", "customer"} : from = lead.stage /\ kind = lead.kind
    BY RequestTyped
  <2>3. k = [b EXCEPT !.at = "read", !.how = door, !.from = from, !.kind = kind, !.to = rung, !.why = cause]
    BY <1>1, <2>1, <2>2
  <2>4. [b EXCEPT !.at = "read", !.how = door, !.from = from, !.kind = kind, !.to = rung, !.why = cause] \in Requests
    BY DEF Requests
  <2> QED
    BY <2>3, <2>4
<1>4. /\ k.at = "read" /\ k.how = door /\ k.from = lead.stage /\ k.kind = lead.kind /\ k.to = rung /\ k.tick = 0
  BY <1>1, LeadAtRest DEF Requests
<1>5. StillKnows(k)'
  BY <1>4, RequestTyped DEF StillKnows
<1>6. ticks' \in Nat /\ ticks <= ticks'
  <2>1. ticks \in Nat /\ ticks <= ticks
    BY Clock, Zenon
  <2> QED
    BY <2>1, Zenon
<1> QED
  BY <1>2, <1>3, <1>5, <1>6, BecomesKeeps

(* A request that gives up knows nothing.                                  *)
LEMMA DropKeeps ==
  ASSUME LeadInv, NEW p \in Movers, asked' = [asked EXCEPT ![p] = NotAsking], lead' = lead, loss' = loss, ticks' = ticks
  PROVE  asked' \in [Movers -> Requests] /\ \A q \in Movers : StillKnows(asked[q])'
<1>1. PICK k : k = NotAsking
  OBVIOUS
<1>2. k \in Requests /\ StillKnows(k)'
  BY <1>1, LeadAtRest, RequestTyped DEF StillKnows
<1>3. asked' = [asked EXCEPT ![p] = k] /\ ticks' \in Nat /\ ticks <= ticks'
  BY <1>1, RequestTyped
<1> QED
  BY <1>2, <1>3, BecomesKeeps

(* A transaction begins later than any loss on record.                     *)
LEMMA BeginKeeps ==
  ASSUME LeadInv, NEW p \in Movers, BeginMove(p) \/ BeginReopen(p)
  PROVE  /\ asked' \in [Movers -> Requests] /\ \A q \in Movers : StillKnows(asked[q])'
         /\ ticks' \in 0 .. MaxTicks /\ ticks <= ticks'
<1>1. ticks' \in 0 .. MaxTicks /\ ticks' \in Nat /\ ticks <= ticks' /\ ticks' > loss.at
      /\ lead' = lead /\ loss' = loss
  BY RequestTyped, LeadAssumption DEF BeginMove, BeginReopen, Tick
<1>2. CASE BeginMove(p)
  <2>1. PICK k : k = [asked[p] EXCEPT !.at = "begun", !.tick = ticks']
    OBVIOUS
  <2>2. asked' = [asked EXCEPT ![p] = k]
    BY <1>2, <2>1 DEF BeginMove, LeadInv, LeadTypeOK
  <2>3. k \in Requests
    BY <1>1, <2>1, RequestTyped DEF Requests
  <2>4. /\ k.how = asked[p].how /\ k.from = asked[p].from /\ k.kind = asked[p].kind /\ k.to = asked[p].to
        /\ k.tick = ticks' /\ k.stale = asked[p].stale
    BY <2>1, RequestTyped DEF Requests
  <2>5. StillKnows(asked[p])
    BY RequestTyped
  <2>6. k.how \in {"move", "guarded"} /\ k.at = "begun"
    BY <1>2, <2>1, RequestTyped DEF BeginMove, Requests
  <2>7. k.tick <= ticks' /\ k.tick > loss'.at
    BY <1>1, <2>4
  <2>8. StillKnows(k)'
    BY <1>1, <2>4, <2>5, <2>6, <2>7 DEF StillKnows
  <2> QED
    BY <1>1, <2>2, <2>3, <2>8, BecomesKeeps
<1>3. CASE BeginReopen(p)
  <2>1. PICK k : k = [NotAsking EXCEPT !.at = "begun", !.how = "reopen", !.tick = ticks']
    OBVIOUS
  <2>2. asked' = [asked EXCEPT ![p] = k]
    BY <1>3, <2>1 DEF BeginReopen
  <2>3. k \in Requests
    BY <1>1, <2>1, LeadAtRest DEF Requests
  <2>4. k.how = "reopen" /\ k.tick = ticks' /\ k.kind = "none"
    BY <2>1, LeadAtRest DEF Requests
  <2>5. StillKnows(k)'
    BY <1>1, <2>4 DEF StillKnows
  <2> QED
    BY <1>1, <2>2, <2>3, <2>5, BecomesKeeps
<1> QED
  BY <1>1, <1>2, <1>3

(* A write makes what all others read stale.                               *)
LEMMA WritesKeep ==
  ASSUME LeadInv, NEW p \in Movers, NEW row \in Rows, Writes(p, row), ticks' = ticks,
         lead.kind = "customer" => row.kind = "customer"
  PROVE  /\ lead' \in Rows /\ crossed' \in BOOLEAN
         /\ asked' \in [Movers -> Requests] /\ \A q \in Movers : StillKnows(asked[q])'
<1> DEFINE a(q) == IF q = p THEN NotAsking ELSE [asked[q] EXCEPT !.stale = asked[q] # NotAsking]
<1>1. lead' = row /\ asked' = [q \in Movers |-> a(q)]
  BY DEF Writes
<1>2. lead.kind = "customer" => lead'.kind = "customer"
  BY <1>1
<1>3. ASSUME NEW q \in Movers PROVE asked'[q] \in Requests /\ StillKnows(asked[q])'
  <2>1. PICK k : k = a(q)
    OBVIOUS
  <2>2. asked'[q] = k
    BY <1>1, <2>1
  <2>3. CASE q = p
    <3>1. k = NotAsking
      BY <2>1, <2>3
    <3>2. k \in Requests /\ StillKnows(k)'
      BY <3>1, LeadAtRest, RequestTyped DEF StillKnows
    <3> QED
      BY <2>2, <3>2 DEF StillKnows
  <2>4. CASE q # p
    <3>1. PICK b \in BOOLEAN : (b <=> asked[q] # NotAsking) /\ k = [asked[q] EXCEPT !.stale = b]
      <4>1. (asked[q] # NotAsking) \in BOOLEAN
        OBVIOUS
      <4> QED
        BY <2>1, <2>4, <4>1
    <3>2. asked[q] \in Requests /\ StillKnows(asked[q])
      BY RequestTyped
    <3>3. k \in Requests
      BY <3>1, <3>2 DEF Requests
    <3>4. /\ k.tick = asked[q].tick /\ k.kind = asked[q].kind /\ k.how = asked[q].how
          /\ k.from = asked[q].from /\ k.to = asked[q].to /\ k.stale = b
      BY <3>1, <3>2 DEF Requests
    <3>5. b \/ k.how = "none"
      BY <3>1, <3>4, LeadAtRest
    <3>6. StillKnows(k)'
      BY <1>2, <3>2, <3>4, <3>5 DEF StillKnows
    <3> QED
      BY <2>2, <3>3, <3>6 DEF StillKnows
  <2> QED
    BY <2>3, <2>4
<1>4. crossed' \in BOOLEAN
  <2>1. crossed \in BOOLEAN /\ asked[p].stale \in BOOLEAN
    BY RequestTyped DEF LeadInv, LeadTypeOK, Requests
  <2> QED
    BY <2>1 DEF Writes
<1> HIDE DEF a
<1> QED
  BY <1>1, <1>3, <1>4
-----------------------------------------------------------------------------
LEMMA LeadInitInv == LeadInit => LeadInv
<1> SUFFICES ASSUME LeadInit PROVE LeadInv
  OBVIOUS
<1>1. lead \in Rows /\ lead.stage = "suspect"
  BY LadderIs DEF LeadInit, Rows
<1>2. /\ last \in [odd : BOOLEAN, from : Stages \cup {"none"}, how : {"none", "move", "guarded", "reopen"}]
      /\ loss \in [at : 0 .. MaxTicks, from : Stages \cup {"none"}] /\ loss.at = 0
  BY LeadAssumption DEF LeadInit, NoMove, NoLoss, NeverYet
<1>3. queued \in [says : {"nothing"} \cup SaidOfASuspect \cup SaidOfAProspect, tick : 0 .. MaxTicks]
  BY LeadAssumption DEF LeadInit, NotQueued, NeverYet
<1>4. reopened \in 0 .. MaxTicks /\ ticks = 0 /\ ticks \in 0 .. MaxTicks /\ stood = "unknown" /\ crossed \in BOOLEAN
  <2>1. reopened = 0 /\ ticks = 0 /\ stood = "unknown" /\ crossed = FALSE
    BY DEF LeadInit, NeverYet
  <2>2. 0 \in 0 .. MaxTicks
    BY LeadAssumption
  <2> QED
    BY <2>1, <2>2
<1>5. asked = [q \in Movers |-> NotAsking] /\ asked \in [Movers -> Requests]
  BY LeadAtRest DEF LeadInit
<1>6. StillKnows(NotAsking)
  BY <1>4, LeadAtRest DEF StillKnows
<1>7. \A q \in Movers : StillKnows(asked[q])
  BY <1>5, <1>6
<1> QED
  BY <1>1, <1>2, <1>3, <1>4, <1>5, <1>7 DEF LeadInv, LeadTypeOK, StoodIsRecorded, Rows

(* A request that only reads, or begins, or gives up, leaves the lead be.  *)
LEMMA AsksInv ==
  ASSUME LeadInv, UNCHANGED <<lead, last, loss, reopened, stood, crossed>>,
         asked' \in [Movers -> Requests], \A q \in Movers : StillKnows(asked[q])',
         queued' \in [says : {"nothing"} \cup SaidOfASuspect \cup SaidOfAProspect, tick : 0 .. MaxTicks],
         ticks' \in 0 .. MaxTicks, ticks <= ticks'
  PROVE  LeadInv'
<1>1. loss.at \in Nat /\ ticks \in Nat /\ ticks' \in Nat /\ loss.at <= ticks
  BY RequestTyped, Clock, LeadAssumption
<1>2. loss'.at <= ticks'
  BY <1>1
<1> QED
  BY <1>2 DEF LeadInv, LeadTypeOK, StoodIsRecorded

(* Whoever reads, reads of a lead that may be moved.                       *)
LEMMA ReadsInv ==
  ASSUME LeadInv, NEW p \in Movers,
         \/ \E to \in Stages, why \in {"none", "said"} : ReadForMove(p, to, why)
         \/ \E to \in Rungs : ReadToSelect(p, to)
         \/ ReadForOrder(p) \/ ReadForVisit(p) \/ ReadToFail(p)
  PROVE  LeadInv'
<1>1. /\ UNCHANGED <<lead, last, loss, reopened, ticks, stood, crossed>>
      /\ lead' = lead /\ loss' = loss /\ ticks' = ticks
      /\ queued' = queued \/ queued' = NotQueued
  BY DEF ReadForMove, ReadToSelect, ReadForOrder, ReadForVisit, ReadToFail
<1>2. queued' \in [says : {"nothing"} \cup SaidOfASuspect \cup SaidOfAProspect, tick : 0 .. MaxTicks]
  BY <1>1, LeadAssumption DEF LeadInv, LeadTypeOK, NotQueued, NeverYet
<1>3. ticks' \in 0 .. MaxTicks /\ ticks <= ticks'
  BY <1>1, RequestTyped, Clock
<1>4. \E door \in {"move", "guarded", "order", "visit", "by hand"}, rung \in Stages,
         cause \in {"none", "said", "failed"} :
        /\ Reads(p, door, rung, cause)
        /\ door \in {"move", "guarded"} => lead.stage # "lost"
  <2>1. ASSUME NEW to \in Stages, NEW why \in {"none", "said"}, ReadForMove(p, to, why)
        PROVE  Reads(p, "move", to, why) /\ lead.stage # "lost"
    BY <2>1, RungsAre DEF ReadForMove, MayMove, Ended
  <2>2. ASSUME NEW to \in Rungs, ReadToSelect(p, to)
        PROVE  Reads(p, "guarded", to, "none") /\ lead.stage # "lost" /\ to \in Stages
    BY <2>2 DEF ReadToSelect, MaySelect, Stages
  <2>3. CASE ReadForOrder(p)
    BY <2>3, LadderIs DEF ReadForOrder
  <2>4. CASE ReadForVisit(p)
    <3>1. SuspectDecisionRung(queued.says, lead.stage) \in Stages
      BY LadderIs DEF SuspectDecisionRung, Stages
    <3> QED
      BY <2>4, <3>1 DEF ReadForVisit
  <2>5. CASE ReadToFail(p)
    <3>1. "lost" \in Stages /\ (MayMove(lead.stage, "lost") => lead.stage # "lost")
      BY LadderIs, RungsAre DEF MayMove
    <3> QED
      BY <2>5, <3>1 DEF ReadToFail
  <2> QED
    BY <2>1, <2>2, <2>3, <2>4, <2>5
<1>5. asked' \in [Movers -> Requests] /\ \A q \in Movers : StillKnows(asked[q])'
  <2>1. PICK door \in {"move", "guarded", "order", "visit", "by hand"}, rung \in Stages,
             cause \in {"none", "said", "failed"} :
          /\ Reads(p, door, rung, cause)
          /\ door \in {"move", "guarded"} => lead.stage # "lost"
    BY <1>4
  <2>2. lead' = lead /\ loss' = loss /\ ticks' = ticks
    BY <1>1
  <2> QED
    BY <2>1, <2>2, ReadsKeep
<1> QED
  BY <1>1, <1>2, <1>3, <1>5, AsksInv

(* Beginning, giving up, and what a phone queues.                          *)
LEMMA WaitsInv ==
  ASSUME LeadInv,
         \/ \E p \in Movers : BeginMove(p) \/ BeginReopen(p) \/ StageAlreadyMoved(p) \/ NoLongerLost(p)
         \/ \E says \in SaidOfASuspect \cup SaidOfAProspect : Queue(says)
  PROVE  LeadInv'
<1>1. ASSUME NEW p \in Movers, BeginMove(p) \/ BeginReopen(p) PROVE LeadInv'
  <2>1. UNCHANGED <<lead, last, loss, reopened, queued, stood, crossed>>
    BY <1>1 DEF BeginMove, BeginReopen
  <2>2. queued' \in [says : {"nothing"} \cup SaidOfASuspect \cup SaidOfAProspect, tick : 0 .. MaxTicks]
    BY <2>1 DEF LeadInv, LeadTypeOK
  <2> QED
    BY <1>1, <2>1, <2>2, BeginKeeps, AsksInv
<1>2. ASSUME NEW p \in Movers, StageAlreadyMoved(p) \/ NoLongerLost(p) PROVE LeadInv'
  <2>1. /\ UNCHANGED <<lead, last, loss, reopened, queued, ticks, stood, crossed>>
        /\ lead' = lead /\ loss' = loss /\ ticks' = ticks /\ asked' = [asked EXCEPT ![p] = NotAsking]
    BY <1>2 DEF StageAlreadyMoved, NoLongerLost
  <2>2. queued' \in [says : {"nothing"} \cup SaidOfASuspect \cup SaidOfAProspect, tick : 0 .. MaxTicks]
    BY <2>1 DEF LeadInv, LeadTypeOK
  <2>3. ticks' \in 0 .. MaxTicks /\ ticks <= ticks'
    BY <2>1, RequestTyped, Clock
  <2> QED
    BY <2>1, <2>2, <2>3, DropKeeps, AsksInv
<1>3. ASSUME NEW says \in SaidOfASuspect \cup SaidOfAProspect, Queue(says) PROVE LeadInv'
  <2>1. /\ UNCHANGED <<lead, last, loss, reopened, asked, stood, crossed>>
        /\ ticks' \in 0 .. MaxTicks /\ ticks' \in Nat /\ ticks <= ticks' /\ queued' = [says |-> says, tick |-> ticks']
    BY <1>3, RequestTyped, LeadAssumption DEF Queue, Tick
  <2>2. queued' \in [says : {"nothing"} \cup SaidOfASuspect \cup SaidOfAProspect, tick : 0 .. MaxTicks]
    BY <2>1
  <2>3. asked \in [Movers -> Requests]
    BY DEF LeadInv, LeadTypeOK
  <2>4. ASSUME NEW q \in Movers PROVE StillKnows(asked[q])'
    <3>1. PICK c : c = asked[q]
      OBVIOUS
    <3>2. c \in Requests /\ StillKnows(c)
      BY <3>1, RequestTyped
    <3>3. c.tick \in Nat /\ ticks \in Nat
      <4>1. c.tick \in 0 .. MaxTicks
        BY <3>2 DEF Requests
      <4> QED
        BY <4>1, Clock, LeadAssumption
    <3>4. c.tick <= ticks
      BY <3>2 DEF StillKnows
    <3>5. c.tick <= ticks'
      BY <2>1, <3>3, <3>4
    <3>6. StillKnows(c)'
      BY <2>1, <3>2, <3>5 DEF StillKnows
    <3> QED
      BY <2>1, <3>1, <3>6 DEF StillKnows
  <2> QED
    BY <2>1, <2>2, <2>3, <2>4, AsksInv
<1> QED
  BY <1>1, <1>2, <1>3
-----------------------------------------------------------------------------
(* What is recorded, and of which loss.                                    *)
LEMMA RecordKeeps ==
  ASSUME LeadInv, NEW p \in Movers, asked[p].how \in {"move", "reopen", "guarded"},
         NEW from \in Stages, NEW to, Record(p, from, to)
  PROVE  /\ last' = [odd |-> ~last.odd, from |-> from, how |-> asked[p].how]
         /\ last' \in [odd : BOOLEAN, from : Stages \cup {"none"}, how : {"none", "move", "guarded", "reopen"}]
         /\ loss' \in [at : 0 .. MaxTicks, from : Stages \cup {"none"}] /\ loss'.at <= ticks
         /\ to # "lost" => loss' = loss
         /\ to = "lost" /\ asked[p].tick > loss.at => loss'.from = from
<1>1. asked[p] \in Requests /\ StillKnows(asked[p])
  BY RequestTyped
<1>2. asked[p].tick \in 0 .. MaxTicks /\ asked[p].tick <= ticks
  BY <1>1 DEF Requests, StillKnows
<1>3. last.odd \in BOOLEAN /\ loss \in [at : 0 .. MaxTicks, from : Stages \cup {"none"}] /\ loss.at <= ticks
  BY DEF LeadInv, LeadTypeOK
<1>4. last' = [odd |-> ~last.odd, from |-> from, how |-> asked[p].how]
  BY DEF Record
<1>5. last' \in [odd : BOOLEAN, from : Stages \cup {"none"}, how : {"none", "move", "guarded", "reopen"}]
  BY <1>4
<1>6. PICK e : e = [at |-> asked[p].tick, from |-> from]
  OBVIOUS
<1>7. loss' = IF to = "lost" /\ e.at > loss.at THEN e ELSE loss
  BY <1>6 DEF Record, Newer
<1>8. e \in [at : 0 .. MaxTicks, from : Stages \cup {"none"}] /\ e.at = asked[p].tick /\ e.from = from
  BY <1>2, <1>6
<1> QED
  BY <1>2, <1>3, <1>4, <1>5, <1>7, <1>8

(* A move by hand or by its door, written from what was read.              *)
LEMMA CommitIs ==
  ASSUME LeadInv, NEW p \in Movers, CommitMove(p)
  PROVE  /\ asked[p] \in Requests /\ StillKnows(asked[p]) /\ asked[p].how \in {"move", "guarded"}
         /\ asked[p].at = "begun" /\ asked[p].from \in Stages \ {"lost"} /\ asked[p].to \in Stages
         /\ asked[p].stale \in BOOLEAN /\ Record(p, asked[p].from, asked[p].to)
         /\ UNCHANGED <<reopened, queued, ticks>>
         /\ \E row \in Rows :
              /\ Writes(p, row) /\ Lose(row, ~asked[p].stale) /\ row.stage = asked[p].to
              /\ row.kind = IF Promoted(asked[p].kind, asked[p].to) THEN "customer" ELSE lead.kind
<1>1. asked[p] \in Requests /\ StillKnows(asked[p]) /\ asked[p].how \in {"move", "guarded"} /\ asked[p].at = "begun"
  BY RequestTyped DEF CommitMove
<1>2. /\ asked[p].from \in Stages \ {"lost"} /\ asked[p].to \in Stages /\ asked[p].stale \in BOOLEAN
      /\ asked[p].why \in {"none", "said", "failed"}
  BY <1>1 DEF StillKnows, Requests
<1>3. lead \in Rows
  BY DEF LeadInv, LeadTypeOK, Rows
<1>4. PICK row : row = [lead EXCEPT !.stage = asked[p].to,
                          !.kind = IF Promoted(asked[p].kind, asked[p].to) THEN "customer" ELSE @,
                          !.why = IF asked[p].to = "lost" THEN asked[p].why ELSE @]
  OBVIOUS
<1>5. row \in Rows /\ row.stage = asked[p].to
      /\ row.kind = IF Promoted(asked[p].kind, asked[p].to) THEN "customer" ELSE lead.kind
  BY <1>2, <1>3, <1>4 DEF Rows
<1>6. /\ Writes(p, row) /\ Lose(row, ~asked[p].stale) /\ Record(p, asked[p].from, asked[p].to)
      /\ UNCHANGED <<reopened, queued, ticks>>
  BY <1>4 DEF CommitMove
<1> QED
  BY <1>1, <1>2, <1>5, <1>6

LEMMA CommitInv ==
  ASSUME LeadInv, NEW p \in Movers, CommitMove(p) PROVE LeadInv'
<1>1. PICK c : c = asked[p]
  OBVIOUS
<1>2. PICK row \in Rows :
        /\ Writes(p, row) /\ Lose(row, ~c.stale) /\ row.stage = c.to
        /\ row.kind = IF Promoted(c.kind, c.to) THEN "customer" ELSE lead.kind
  BY <1>1, CommitIs
<1>3. /\ c \in Requests /\ StillKnows(c) /\ c.how \in {"move", "guarded"} /\ c.at = "begun"
      /\ c.from \in Stages \ {"lost"} /\ c.to \in Stages /\ c.stale \in BOOLEAN /\ Record(p, c.from, c.to)
      /\ UNCHANGED <<reopened, queued, ticks>> /\ ticks' = ticks
  BY <1>1, CommitIs
<1>4. /\ lead' \in Rows /\ crossed' \in BOOLEAN /\ asked' \in [Movers -> Requests]
      /\ \A q \in Movers : StillKnows(asked[q])'
  BY <1>2, <1>3, WritesKeep
<1>5. /\ last' \in [odd : BOOLEAN, from : Stages \cup {"none"}, how : {"none", "move", "guarded", "reopen"}]
      /\ loss' \in [at : 0 .. MaxTicks, from : Stages \cup {"none"}] /\ loss'.at <= ticks
      /\ c.to = "lost" /\ c.tick > loss.at => loss'.from = c.from
  BY <1>1, <1>3, RecordKeeps
<1>6. lead' = row /\ stood' = IF row.stage # "lost" THEN "unknown" ELSE IF ~c.stale THEN lead.stage ELSE "unknown"
  BY <1>2 DEF Writes, Lose
<1>7. stood' # "unknown" => c.to = "lost" /\ ~c.stale /\ stood' = lead.stage
  BY <1>2, <1>6
<1>8. ~c.stale => c.from = lead.stage /\ c.tick > loss.at
  BY <1>3 DEF StillKnows
<1>9. StoodIsRecorded'
  BY <1>2, <1>3, <1>5, <1>6, <1>7, <1>8 DEF StoodIsRecorded
<1>10. stood' \in Stages \cup {"unknown"}
  BY <1>6, RequestTyped
<1> QED
  BY <1>3, <1>4, <1>5, <1>9, <1>10 DEF LeadInv, LeadTypeOK, Rows

(* A lost lead brought back is where it stood, on no book.                 *)
LEMMA ReopenIs ==
  ASSUME LeadInv, NEW p \in Movers, Reopen(p)
  PROVE  /\ asked[p].how = "reopen" /\ lead.stage = "lost" /\ stood' = "unknown"
         /\ UNCHANGED <<queued, ticks>> /\ reopened' \in 0 .. MaxTicks
         /\ \E row \in Rows :
              /\ Writes(p, row) /\ Record(p, "lost", row.stage)
              /\ row.stage = ReopenTarget(loss.from, lead.why) /\ row.kind = lead.kind /\ row.why = "none"
              /\ row.verified <=> lead.verified /\ lead.why # "failed"
<1>1. lead \in Rows
  BY DEF LeadInv, LeadTypeOK, Rows
<1>2. PICK row : row = [lead EXCEPT !.stage = ReopenTarget(loss.from, lead.why), !.why = "none",
                                    !.verified = lead.verified /\ lead.why # "failed"]
  OBVIOUS
<1>3. (lead.verified /\ lead.why # "failed") \in BOOLEAN
  BY <1>1 DEF Rows
<1>4. ReopenTarget(loss.from, lead.why) \in Stages
  BY BackTo, LadderIs
<1>5. row \in Rows /\ row.stage = ReopenTarget(loss.from, lead.why) /\ row.kind = lead.kind /\ row.why = "none"
  BY <1>1, <1>2, <1>3, <1>4 DEF Rows
<1>6. row.verified <=> lead.verified /\ lead.why # "failed"
  BY <1>1, <1>2, <1>3 DEF Rows
<1>7. Writes(p, row) /\ Record(p, "lost", row.stage)
  BY <1>2 DEF Reopen
<1>8. asked[p].tick \in 0 .. MaxTicks /\ reopened \in 0 .. MaxTicks
  BY RequestTyped DEF LeadInv, LeadTypeOK, Requests
<1>9. reopened' \in 0 .. MaxTicks
  BY <1>8 DEF Reopen
<1> QED
  BY <1>5, <1>6, <1>7, <1>9 DEF Reopen

LEMMA ReopenInv ==
  ASSUME LeadInv, NEW p \in Movers, Reopen(p) PROVE LeadInv'
<1>1. PICK row \in Rows :
        Writes(p, row) /\ Record(p, "lost", row.stage) /\ row.kind = lead.kind
  BY ReopenIs
<1>2. /\ asked[p].how = "reopen" /\ stood' = "unknown" /\ UNCHANGED <<queued, ticks>> /\ ticks' = ticks
      /\ reopened' \in 0 .. MaxTicks
  BY ReopenIs
<1>3. /\ lead' \in Rows /\ crossed' \in BOOLEAN /\ asked' \in [Movers -> Requests]
      /\ \A q \in Movers : StillKnows(asked[q])'
  BY <1>1, <1>2, WritesKeep
<1>4. /\ last' \in [odd : BOOLEAN, from : Stages \cup {"none"}, how : {"none", "move", "guarded", "reopen"}]
      /\ loss' \in [at : 0 .. MaxTicks, from : Stages \cup {"none"}] /\ loss'.at <= ticks
  <2>1. "lost" \in Stages
    BY LadderIs
  <2> QED
    BY <1>1, <1>2, <2>1, RecordKeeps
<1> QED
  BY <1>2, <1>3, <1>4 DEF LeadInv, LeadTypeOK, StoodIsRecorded, Rows

(* The writes that leave no transition.                                    *)
LEMMA UnrecordedInv ==
  ASSUME LeadInv, NEW p \in Movers, Convert(p) \/ WriteVisit(p) \/ Stamp(p) \/ FailByHand(p) PROVE LeadInv'
<1>1. lead \in Rows /\ asked[p] \in Requests /\ StillKnows(asked[p])
  BY RequestTyped DEF LeadInv, LeadTypeOK, Rows
<1>2. /\ UNCHANGED <<last, loss, reopened, ticks>> /\ ticks' = ticks /\ loss' = loss
      /\ queued' = queued \/ queued' = NotQueued
  BY DEF Convert, WriteVisit, Stamp, FailByHand
<1>3. \E row \in Rows :
        /\ Writes(p, row)
        /\ lead.kind = "customer" => row.kind = "customer"
        /\ stood' = "unknown" \/ (stood' = stood /\ row.stage = lead.stage)
  <2>1. CASE Convert(p)
    <3>1. PICK row : row = [lead EXCEPT !.stage = "won", !.kind = "customer"]
      OBVIOUS
    <3>2. row \in Rows /\ row.kind = "customer"
      BY <1>1, <3>1, LadderIs DEF Rows
    <3> QED
      BY <2>1, <3>1, <3>2 DEF Convert
  <2>2. CASE WriteVisit(p)
    <3>1. asked[p].to \in Stages
      BY <1>1, <2>2 DEF WriteVisit, StillKnows
    <3>2. PICK row : row = IF StaleLoss(p) THEN lead
                ELSE [lead EXCEPT !.stage = asked[p].to, !.why = IF asked[p].to = "lost" THEN "said" ELSE @]
      OBVIOUS
    <3>3. Writes(p, row) /\ IF StaleLoss(p) THEN stood' = stood ELSE Lose(row, FALSE)
      BY <2>2, <3>2 DEF WriteVisit
    <3>4. row \in Rows /\ row.kind = lead.kind /\ (StaleLoss(p) => row.stage = lead.stage)
      BY <1>1, <3>1, <3>2 DEF Rows
    <3> QED
      BY <3>3, <3>4 DEF Lose
  <2>3. CASE Stamp(p)
    <3>1. PICK row : row = IF queued.says = "confirmed" THEN [lead EXCEPT !.verified = TRUE]
                           ELSE [lead EXCEPT !.stage = "on_hold"]
      OBVIOUS
    <3>2. Writes(p, row) /\ IF queued.says = "confirmed" THEN stood' = stood ELSE Lose(row, FALSE)
      BY <2>3, <3>1 DEF Stamp
    <3>3. row \in Rows /\ row.kind = lead.kind /\ (queued.says = "confirmed" => row.stage = lead.stage)
      BY <1>1, <3>1, LadderIs DEF Rows
    <3> QED
      BY <3>2, <3>3 DEF Lose
  <2>4. CASE FailByHand(p)
    <3>1. PICK row : row = [lead EXCEPT !.stage = "lost", !.why = "said"]
      OBVIOUS
    <3>2. row \in Rows /\ row.kind = lead.kind
      BY <1>1, <3>1, LadderIs DEF Rows
    <3> QED
      BY <2>4, <3>1, <3>2 DEF FailByHand, Lose
  <2> QED
    BY <2>1, <2>2, <2>3, <2>4
<1>4. PICK row \in Rows :
        /\ Writes(p, row)
        /\ lead.kind = "customer" => row.kind = "customer"
        /\ stood' = "unknown" \/ (stood' = stood /\ row.stage = lead.stage)
  BY <1>3
<1>5. /\ lead' \in Rows /\ crossed' \in BOOLEAN /\ asked' \in [Movers -> Requests]
      /\ \A q \in Movers : StillKnows(asked[q])'
  BY <1>2, <1>4, WritesKeep
<1>6. queued' \in [says : {"nothing"} \cup SaidOfASuspect \cup SaidOfAProspect, tick : 0 .. MaxTicks]
  BY <1>2, LeadAssumption DEF LeadInv, LeadTypeOK, NotQueued, NeverYet
<1>7. lead' = row
  BY <1>4 DEF Writes
<1>8. StoodIsRecorded' /\ stood' \in Stages \cup {"unknown"}
  BY <1>2, <1>4, <1>7 DEF LeadInv, LeadTypeOK, StoodIsRecorded
<1> QED
  BY <1>2, <1>5, <1>6, <1>8 DEF LeadInv, LeadTypeOK, Rows

(* Step by step.                                                           *)
LEMMA LeadStepInv == LeadInv /\ [LeadNext]_leadVars => LeadInv'
<1> SUFFICES ASSUME LeadInv, [LeadNext]_leadVars PROVE LeadInv'
  OBVIOUS
<1>1. CASE UNCHANGED leadVars
  <2>1. /\ UNCHANGED <<lead, last, loss, reopened, queued, stood, crossed>>
        /\ lead' = lead /\ loss' = loss /\ ticks' = ticks /\ asked' = asked /\ queued' = queued
    BY <1>1 DEF leadVars
  <2>2. \A q \in Movers : StillKnows(asked[q])'
    BY <2>1, RequestTyped DEF StillKnows
  <2>3. ticks' \in 0 .. MaxTicks /\ ticks <= ticks'
    BY <2>1, RequestTyped, Clock
  <2>4. /\ asked' \in [Movers -> Requests]
        /\ queued' \in [says : {"nothing"} \cup SaidOfASuspect \cup SaidOfAProspect, tick : 0 .. MaxTicks]
    BY <2>1 DEF LeadInv, LeadTypeOK
  <2> QED
    BY <2>1, <2>2, <2>3, <2>4, AsksInv
<1>2. CASE LeadNext
  BY <1>2, ReadsInv, WaitsInv, CommitInv, ReopenInv, UnrecordedInv DEF LeadNext
<1> QED
  BY <1>1, <1>2
-----------------------------------------------------------------------------
(* Only a move and a reopening are recorded.                               *)
LEMMA OnlyTheseRecord ==
  ASSUME [LeadNext]_leadVars, last' # last
  PROVE  \E p \in Movers : CommitMove(p) \/ Reopen(p)
<1>1. LeadNext
  BY DEF leadVars
<1>2. ASSUME NEW p \in Movers,
             \/ \E to \in Stages, why \in {"none", "said"} : ReadForMove(p, to, why)
             \/ \E to \in Rungs : ReadToSelect(p, to)
             \/ BeginMove(p) \/ StageAlreadyMoved(p) \/ BeginReopen(p) \/ NoLongerLost(p)
             \/ ReadForOrder(p) \/ Convert(p) \/ ReadForVisit(p) \/ WriteVisit(p)
             \/ Stamp(p) \/ ReadToFail(p) \/ FailByHand(p)
      PROVE  FALSE
  BY <1>2 DEF ReadForMove, ReadToSelect, BeginMove, StageAlreadyMoved, BeginReopen, NoLongerLost,
     ReadForOrder, Convert, ReadForVisit, WriteVisit, Stamp, ReadToFail, FailByHand
<1>3. ASSUME NEW says \in SaidOfASuspect \cup SaidOfAProspect, Queue(says) PROVE FALSE
  BY <1>3 DEF Queue
<1> QED
  BY <1>1, <1>2, <1>3 DEF LeadNext

(* A move is made from where the lead is, if it names its rung or nobody   *)
(* has written since, and never from Lost; it makes a customer.            *)
LEMMA MoveIsSound ==
  ASSUME LeadInv, NEW p \in Movers, CommitMove(p)
  PROVE  /\ last'.how = "guarded" => last'.from = lead.stage
         /\ last'.from # "lost"
         /\ lead.stage = "lost" => crossed'
         /\ OnTheBook(lead'.stage) => lead'.kind = "customer"
<1>1. PICK c : c = asked[p]
  OBVIOUS
<1>2. PICK row \in Rows :
        /\ Writes(p, row) /\ row.stage = c.to
        /\ row.kind = IF Promoted(c.kind, c.to) THEN "customer" ELSE lead.kind
  BY <1>1, CommitIs
<1>3. /\ StillKnows(c) /\ c.how \in {"move", "guarded"} /\ c.from \in Stages \ {"lost"} /\ c.stale \in BOOLEAN
      /\ Record(p, c.from, c.to)
  BY <1>1, CommitIs
<1>4. last' = [odd |-> ~last.odd, from |-> c.from, how |-> c.how]
  BY <1>1, <1>3 DEF Record
<1>5. c.how = "guarded" => lead.stage = c.from
  BY <1>1 DEF CommitMove, StillThere
<1>6. lead.stage = "lost" => c.stale
  BY <1>3 DEF StillKnows
<1>7. lead' = row /\ (c.stale => crossed')
  BY <1>1, <1>2 DEF Writes
<1>8. OnTheBook(c.to) => row.kind = "customer"
  BY <1>2, <1>3 DEF Promoted, StillKnows
<1> QED
  BY <1>2, <1>3, <1>4, <1>5, <1>6, <1>7, <1>8

(* A reopening takes a lead out of Lost, to where it had stood.            *)
LEMMA ReopenIsSound ==
  ASSUME LeadInv, NEW p \in Movers, Reopen(p)
  PROVE  /\ last'.how # "guarded" /\ last'.from = "lost"
         /\ BroughtBack
         /\ ~OnTheBook(lead'.stage)
<1>1. PICK row \in Rows :
        /\ Writes(p, row) /\ Record(p, "lost", row.stage)
        /\ row.stage = ReopenTarget(loss.from, lead.why) /\ row.why = "none"
        /\ row.verified <=> lead.verified /\ lead.why # "failed"
  BY ReopenIs
<1>2. lead' = row
  BY <1>1 DEF Writes
<1>3. last' = [odd |-> ~last.odd, from |-> "lost", how |-> "reopen"]
  BY <1>1, ReopenIs DEF Record
<1>4. lead.stage = "lost"
  BY ReopenIs
<1>5. /\ row.stage \in {"suspect", "prospect", "qualification"}
      /\ lead.why = "failed" => row.stage = "prospect"
      /\ lead.why # "failed" /\ loss.from \in Rungs /\ ~OnTheBook(loss.from) => row.stage = loss.from
      /\ lead.why # "failed" /\ loss.from \notin Rungs => row.stage = Foot
  BY <1>1, BackTo
<1>6. ~OnTheBook(lead'.stage)
  BY <1>2, <1>5, LadderIs
<1>7. lead.why = "failed" => lead'.stage = "prospect" /\ ~lead'.verified
  BY <1>1, <1>2, <1>5
<1>8. stood # "unknown" => loss.from = stood
  BY DEF LeadInv, StoodIsRecorded
<1>9. BroughtBack
  BY <1>1, <1>2, <1>4, <1>5, <1>6, <1>7, <1>8, RungsAre DEF BroughtBack
<1> QED
  BY <1>3, <1>6, <1>9
-----------------------------------------------------------------------------
(* The inductive invariant holds of every behaviour of a lead              *)
(* (lead-service.ts, lead-reopen-service.ts and the doors beside them).    *)
THEOREM LeadInvariance == LeadSpec => []LeadInv
  BY LeadInitInv, LeadStepInv, PTL DEF LeadSpec

(* The lead, its record and what each request has in hand keep their types.*)
THEOREM LeadTypeCorrect == LeadSpec => []LeadTypeOK
<1>1. LeadInv => LeadTypeOK
  BY DEF LeadInv
<1> QED
  BY <1>1, LeadInvariance, PTL

(* However many requests are at the lead's doors at once: a move that      *)
(* names its rung is made from it, a lead that leaves Lost by the record   *)
(* comes back to where it stood, and one moved onto the book is a customer *)
(* (applyLeadStageMove and reopenLostLead).                                *)
THEOREM MovesKept == LeadSpec => MovesAreSound
<1> DEFINE Sound ==
      /\ last'.how = "guarded" => last'.from = lead.stage
      /\ last'.from = "lost" => BroughtBack
      /\ lead.stage = "lost" /\ lead'.stage # "lost" /\ ~crossed' => last'.from = "lost"
      /\ OnTheBook(lead'.stage) => lead'.kind = "customer"
<1>1. LeadInv /\ [LeadNext]_leadVars => (last' # last => Sound)
  <2> SUFFICES ASSUME LeadInv, [LeadNext]_leadVars, last' # last PROVE Sound
    OBVIOUS
  <2>1. PICK p \in Movers : CommitMove(p) \/ Reopen(p)
    BY OnlyTheseRecord
  <2>2. CASE CommitMove(p)
    BY <2>2, MoveIsSound
  <2>3. CASE Reopen(p)
    BY <2>3, ReopenIsSound
  <2> QED
    BY <2>1, <2>2, <2>3
<1>2. LeadInv /\ [LeadNext]_leadVars => [last' # last => Sound]_leadVars
  BY <1>1
<1> QED
  BY <1>2, LeadInvariance, PTL DEF LeadSpec, MovesAreSound
-----------------------------------------------------------------------------
(***************************************************************************)
(* The message. It goes onward alone, and as sent only if the provider     *)
(* took it: a claim is what keeps two workers off one message              *)
(* (ClaimedInv), and what a worker holds of it between the claim and the   *)
(* answer is what the row still says (InHandInv). SendsInv is why it may   *)
(* be tried again: of all the sends so far, the last one apart, every one  *)
(* failed. A write by the row's id between another's read and its write    *)
(* (TicksOverlap) would undo either, and is left out here.                 *)
(***************************************************************************)
Active(s) == sending[s] \in {"claimed", "accepted", "refused"}
AllFailed == \A n \in DOMAIN sends : sends[n] = "failed"
Unsent == {"prepared", "copied", "failed"}

(* One sender at a time has the message claimed, and while he has, it is   *)
(* queued and nobody else is about to write it.                            *)
ClaimedInv ==
  /\ \A s, t \in Senders : Active(s) /\ Active(t) => s = t
  /\ \A s \in Senders : Active(s) => status = "queued" /\ event = Nobody /\ act = Nobody

(* An event, or a person, writes over the status that was read.            *)
InHandInv ==
  /\ event # Nobody =>
       /\ event.seen = status /\ act = Nobody /\ event.kind \in Fates
       /\ event.kind = "failed" => AllFailed
  /\ act # Nobody =>
       /\ act.seen = status /\ act.kind \in {"copied", "sent_manually", "cancelled"}
       /\ MayAct(act.kind, act.seen)
  /\ refresh # Nobody => refresh.kind \in Ticks /\ refresh.seen \in {"queued", "sent", "delivered"}

(* It is sent, or shown as something to send, only where all sends failed. *)
SendsInv ==
  /\ \A n \in DOMAIN sends : n < Len(sends) => sends[n] = "failed"
  /\ status \in Unsent => AllFailed
  /\ \A s \in Senders : sending[s] \in {"claimed", "refused"} => AllFailed

MessageInv == MessageTypeOK /\ ClaimedInv /\ InHandInv /\ SendsInv
-----------------------------------------------------------------------------
LEMMA MessageInitInv == MessageInit => MessageInv
BY DEF MessageInit, MessageInv, MessageTypeOK, ClaimedInv, InHandInv, SendsInv, Active, AllFailed, Nobody,
       MessageStatuses, Unsent, Fates

LEMMA OutcomeOf ==
  ASSUME NEW current \in MessageStatuses, NEW what \in Fates
  PROVE  /\ Advanced(current, what) \in {current, what}
         /\ Advanced(current, what) # current =>
              /\ what = "failed" => current \notin {"delivered", "read"}
              /\ what # "failed" => Rank[what] > Rank[current]
<1>1. CASE what = "failed"
  BY <1>1 DEF Advanced
<1>2. CASE what # "failed" /\ current \in {"failed", "cancelled", "sent_manually"}
  BY <1>2 DEF Advanced
<1>3. CASE what # "failed" /\ current \notin {"failed", "cancelled", "sent_manually"}
  <2>1. Advanced(current, what) = IF Rank[what] > Rank[current] THEN what ELSE current
    BY <1>3 DEF Advanced
  <2>2. QED
    BY <1>3, <2>1
<1>4. QED
  BY <1>1, <1>2, <1>3

LEMMA Ranks ==
  Rank["sent"] = 2 /\ Rank["delivered"] = 3 /\ Rank["read"] = 4
BY DEF Rank, MessageStatuses

LEMMA NobodyWrites ==
  ASSUME ~TicksOverlap, MessageInv, Undisturbed
  PROVE  /\ \A s \in Senders : ~Active(s)
         /\ event = Nobody /\ act = Nobody
BY DEF Undisturbed, Active

LEMMA MessageStep ==
  ASSUME ~TicksOverlap
  PROVE  MessageInv /\ [MessageNext]_messageVars => MessageInv'
<1> SUFFICES ASSUME MessageInv, [MessageNext]_messageVars PROVE MessageInv'
  OBVIOUS
<1> USE DEF MessageInv, ClaimedInv, InHandInv, SendsInv, Active
<1>1. ASSUME NEW s \in Senders, BeginSend(s) PROVE MessageInv'
  BY <1>1 DEF BeginSend, MessageTypeOK, AllFailed
<1>2. ASSUME NEW s \in Senders, NotToBeSent(s) PROVE MessageInv'
  BY <1>2 DEF NotToBeSent, MessageTypeOK, AllFailed
<1>3. ASSUME NEW s \in Senders, Claim(s) PROVE MessageInv'
  <2>1. (\A t \in Senders : ~Active(t)) /\ event = Nobody /\ act = Nobody
    BY <1>3, NobodyWrites DEF Claim
  <2>2. CASE status \in Unsent
    <3>1. status' = "queued" /\ sending' = [sending EXCEPT ![s] = "claimed"]
          /\ UNCHANGED <<sends, event, act, refresh>>
      BY <1>3, <2>2 DEF Claim, Unsent
    <3>2. MessageTypeOK'
      BY <3>1 DEF MessageTypeOK, MessageStatuses
    <3>3. \A t \in Senders : t # s => sending'[t] = sending[t]
      BY <3>1 DEF MessageTypeOK
    <3>4. ClaimedInv' /\ InHandInv'
      BY <2>1, <3>1, <3>3 DEF AllFailed
    <3>5. SendsInv'
      BY <2>1, <2>2, <3>1, <3>3 DEF AllFailed, Unsent
    <3>6. QED
      BY <3>2, <3>4, <3>5
  <2>3. CASE status \notin Unsent
    BY <1>3, <2>3 DEF Claim, Unsent, MessageTypeOK, AllFailed
  <2>4. QED
    BY <2>2, <2>3
<1>4. ASSUME NEW s \in Senders, WatiAccepts(s) PROVE MessageInv'
  <2>1. /\ sends' = Append(sends, "sent") /\ sending' = [sending EXCEPT ![s] = "accepted"]
        /\ UNCHANGED <<status, event, act, refresh>> /\ Active(s)
    BY <1>4 DEF WatiAccepts
  <2>2. AllFailed /\ status = "queued" /\ event = Nobody
    BY <1>4 DEF WatiAccepts
  <2>3. /\ sends \in Seq(Fates) /\ sends' \in Seq(Fates) /\ Len(sends) \in Nat
        /\ Len(sends') = Len(sends) + 1 /\ DOMAIN sends' = 1 .. Len(sends')
        /\ \A n \in 1 .. Len(sends) : sends'[n] = sends[n]
    BY <2>1 DEF MessageTypeOK, Fates, Ticks
  <2>4. MessageTypeOK'
    BY <2>1, <2>3 DEF MessageTypeOK
  <2>5. ClaimedInv' /\ InHandInv'
    BY <2>1, <2>2 DEF AllFailed, MessageTypeOK
  <2>6. \A n \in DOMAIN sends' : n < Len(sends') => sends'[n] = "failed"
    BY <2>2, <2>3 DEF AllFailed
  <2>7. \A t \in Senders : sending'[t] \notin {"claimed", "refused"}
    BY <2>1 DEF MessageTypeOK
  <2>8. QED
    BY <2>1, <2>2, <2>4, <2>5, <2>6, <2>7 DEF Unsent
<1>5. ASSUME NEW s \in Senders, WatiRefuses(s) PROVE MessageInv'
  BY <1>5 DEF WatiRefuses, MessageTypeOK, AllFailed
<1>6. ASSUME NEW s \in Senders, RecordSend(s) PROVE MessageInv'
  <2>1. Active(s) /\ status' \in {"sent", "failed"} /\ (status' = "failed" => sending[s] = "refused")
        /\ sending' = [sending EXCEPT ![s] = "idle"] /\ UNCHANGED <<sends, event, act, refresh>>
    BY <1>6 DEF RecordSend
  <2>2. (\A t \in Senders : sending'[t] \notin {"claimed", "accepted", "refused"}) /\ event = Nobody /\ act = Nobody
    BY <2>1 DEF MessageTypeOK
  <2>3. MessageTypeOK'
    BY <2>1 DEF MessageTypeOK, MessageStatuses
  <2>4. status' \in Unsent => AllFailed
    BY <2>1 DEF Unsent
  <2>5. QED
    BY <2>1, <2>2, <2>3, <2>4 DEF AllFailed
<1>7. ASSUME NEW s \in Senders, SenderDies(s) PROVE MessageInv'
  BY <1>7 DEF SenderDies, MessageTypeOK, AllFailed
<1>8. ASSUME NEW n \in DOMAIN sends, NEW to \in Fates, Reaches(n, to) PROVE MessageInv'
  <2>1. /\ sends' = [sends EXCEPT ![n] = to] /\ sends[n] # "failed"
        /\ UNCHANGED <<status, sending, event, act, refresh>>
    BY <1>8 DEF Reaches
  <2>2. sends \in Seq(Fates) /\ sends' \in Seq(Fates) /\ Len(sends') = Len(sends) /\ DOMAIN sends' = DOMAIN sends
        /\ Len(sends) \in Nat /\ DOMAIN sends = 1 .. Len(sends)
    BY <2>1 DEF MessageTypeOK
  <2>3. ~AllFailed
    BY <2>1 DEF AllFailed
  <2>4. \A m \in DOMAIN sends : m # n => sends'[m] = sends[m]
    BY <2>1, <2>2
  <2>5. SendsInv'
    BY <2>1, <2>2, <2>3, <2>4 DEF AllFailed
  <2>6. MessageTypeOK'
    BY <2>1, <2>2 DEF MessageTypeOK
  <2>7. QED
    BY <2>1, <2>3, <2>5, <2>6 DEF AllFailed
<1>9. ASSUME NEW n \in DOMAIN sends, NEW what \in Fates, EventRead(n, what) PROVE MessageInv'
  <2>1. (\A s \in Senders : ~Active(s)) /\ event = Nobody /\ act = Nobody
    BY <1>9, NobodyWrites DEF EventRead
  <2>2. event' = [kind |-> what, seen |-> status] /\ n = Len(sends) /\ UNCHANGED <<status, sends, sending, act, refresh>>
    BY <1>9 DEF EventRead
  <2>3. what = "failed" => sends[n] = "failed"
    BY <1>9 DEF EventRead, Told, Ticks
  <2>4. what = "failed" => AllFailed
    <3>1. DOMAIN sends = 1 .. Len(sends) /\ Len(sends) \in Nat
      BY DEF MessageTypeOK
    <3>2. QED
      BY <2>2, <2>3, <3>1 DEF AllFailed
  <2>5. MessageTypeOK'
    BY <2>2 DEF MessageTypeOK, Fates, Ticks, MessageStatuses
  <2>6. QED
    BY <2>1, <2>2, <2>4, <2>5 DEF AllFailed, MessageTypeOK
<1>10. CASE EventWritten
  <2>1. /\ event # Nobody /\ event.seen = status /\ event.kind \in Fates /\ act = Nobody
        /\ status \in MessageStatuses
    BY <1>10 DEF EventWritten, MessageTypeOK
  <2>2. event' = Nobody /\ UNCHANGED <<sends, sending, act, refresh>>
    BY <1>10 DEF EventWritten
  <2>3. status' \in {status, event.kind}
    BY <1>10, <2>1, OutcomeOf DEF EventWritten
  <2>4. status' # status => status' = event.kind
    BY <2>3
  <2>5. MessageTypeOK'
    BY <2>1, <2>2, <2>3 DEF MessageTypeOK, Nobody, MessageStatuses, Fates, Ticks
  <2>6. \A s \in Senders : ~Active(s)
    BY <2>1
  <2>7. status' \in Unsent => AllFailed
    BY <2>1, <2>3 DEF Unsent, Fates, Ticks
  <2>8. QED
    BY <2>1, <2>2, <2>5, <2>6, <2>7 DEF AllFailed
<1>11. CASE ActWritten
  <2>1. /\ act # Nobody /\ act.kind \in {"copied", "sent_manually", "cancelled"} /\ act.seen = status
        /\ event = Nobody
    BY <1>11 DEF ActWritten
  <2>2. status' = act.kind /\ act' = Nobody /\ UNCHANGED <<sends, sending, event, refresh>>
    BY <1>11 DEF ActWritten
  <2>3. status' \in Unsent => AllFailed
    BY <2>1, <2>2 DEF MayAct, Unsent
  <2>4. \A s \in Senders : ~Active(s)
    BY <2>1
  <2>5. MessageTypeOK'
    BY <2>1, <2>2 DEF MessageTypeOK, Nobody, MessageStatuses
  <2>6. QED
    BY <2>1, <2>2, <2>3, <2>4, <2>5 DEF AllFailed
<1>12. CASE RefreshRead
  <2>1. UNCHANGED <<status, sends, sending, event, act>> /\ status \in {"queued", "sent", "delivered"}
    BY <1>12 DEF RefreshRead
  <2>2. PICK n \in DOMAIN sends : sends[n] # "failed" /\ refresh' = [kind |-> sends[n], seen |-> status]
    BY <1>12 DEF RefreshRead
  <2>3. sends[n] \in Ticks
    BY <2>2 DEF MessageTypeOK, Fates
  <2>4. MessageTypeOK'
    BY <2>1, <2>2, <2>3 DEF MessageTypeOK, MessageStatuses, Ticks
  <2>5. QED
    BY <2>1, <2>2, <2>3, <2>4 DEF AllFailed
<1>13. CASE RefreshWritten
  <2>1. (\A s \in Senders : ~Active(s)) /\ event = Nobody /\ act = Nobody
    BY <1>13, NobodyWrites DEF RefreshWritten
  <2>2. refresh # Nobody /\ refresh' = Nobody /\ UNCHANGED <<sends, sending, event, act>>
    BY <1>13 DEF RefreshWritten
  <2>3. /\ refresh.kind \in Ticks /\ refresh.kind \in Fates /\ refresh.seen \in MessageStatuses
    BY <2>2 DEF Fates, MessageStatuses
  <2>4. status' \in {status, refresh.kind}
    BY <1>13, <2>3, OutcomeOf DEF RefreshWritten, TickIfUnchanged
  <2>5. MessageTypeOK'
    BY <2>2, <2>3, <2>4 DEF MessageTypeOK, Nobody, MessageStatuses, Ticks
  <2>6. status' \in Unsent => AllFailed
    BY <2>3, <2>4 DEF Unsent, Ticks
  <2>7. QED
    BY <2>1, <2>2, <2>5, <2>6 DEF AllFailed
<1>14. ASSUME NEW kind \in {"copied", "sent_manually", "cancelled"}, ActRead(kind) PROVE MessageInv'
  <2>1. (\A s \in Senders : ~Active(s)) /\ event = Nobody /\ act = Nobody
    BY <1>14, NobodyWrites DEF ActRead
  <2>2. act' = [kind |-> kind, seen |-> status] /\ MayAct(kind, status) /\ UNCHANGED <<status, sends, sending, event, refresh>>
    BY <1>14 DEF ActRead
  <2>3. MessageTypeOK'
    BY <2>2 DEF MessageTypeOK, MessageStatuses
  <2>4. MayAct(act'.kind, act'.seen)
    BY <2>2
  <2>5. QED
    BY <2>1, <2>2, <2>3, <2>4 DEF AllFailed, MayAct
<1>15. CASE UNCHANGED messageVars
  BY <1>15 DEF messageVars, MessageTypeOK, AllFailed, MayAct
<1>16. QED
  BY <1>1, <1>2, <1>3, <1>4, <1>5, <1>6, <1>7, <1>8, <1>9, <1>10, <1>11, <1>12, <1>13, <1>14, <1>15
     DEF MessageNext
-----------------------------------------------------------------------------
LEMMA OneStands == MessageInv => SentOnce
<1> SUFFICES ASSUME MessageInv PROVE SentOnce
  OBVIOUS
<1>1. Len(sends) \in Nat /\ DOMAIN sends = 1 .. Len(sends)
  BY DEF MessageInv, MessageTypeOK
<1>2. PICK S : S = {n \in DOMAIN sends : sends[n] # "failed"}
  OBVIOUS
<1>3. S \subseteq {Len(sends)}
  BY <1>1, <1>2 DEF MessageInv, SendsInv
<1>4. S = {} \/ S = {Len(sends)}
  BY <1>3
<1>5. Cardinality({}) = 0 /\ Cardinality({Len(sends)}) = 1
  BY FS_EmptySet, FS_Singleton
<1>6. Cardinality(S) \in {0, 1}
  BY <1>4, <1>5
<1>7. QED
  BY <1>2, <1>6 DEF SentOnce

LEMMA Forward ==
  ASSUME ~TicksOverlap, MessageInv, [MessageNext]_messageVars, status \in Ticks, status' \in Fates
  PROVE  Rank[status'] >= Rank[status] \/ (status' = "failed" /\ status = "sent")
<1> USE DEF MessageInv, ClaimedInv, InHandInv, Active
<1>0. Rank[status] \in Nat
  BY Ranks DEF Ticks
<1>1. CASE status' = status
  BY <1>0, <1>1
<1>2. CASE EventWritten
  <2>1. event.seen = status /\ event.kind \in Fates /\ status \in MessageStatuses
    BY <1>2 DEF EventWritten, MessageTypeOK
  <2>2. status' = Advanced(status, event.kind)
    BY <1>2, <2>1 DEF EventWritten
  <2>3. QED
    BY <1>0, <2>1, <2>2, OutcomeOf, Ranks DEF Ticks, Fates
<1>3. CASE RefreshWritten
  <2>1. refresh.kind \in Ticks /\ refresh.kind \in Fates /\ refresh.seen \in MessageStatuses
    BY <1>3 DEF RefreshWritten, Fates, MessageStatuses
  <2>2. status' = status \/ (status = refresh.seen /\ status' = Advanced(status, refresh.kind))
    BY <1>3 DEF RefreshWritten, TickIfUnchanged
  <2>3. QED
    BY <1>0, <2>1, <2>2, OutcomeOf, Ranks DEF Ticks, Fates
<1>4. CASE ActWritten
  BY <1>4 DEF ActWritten, Fates, Ticks
<1>5. ASSUME NEW s \in Senders,
             BeginSend(s) \/ NotToBeSent(s) \/ Claim(s) \/ WatiAccepts(s) \/ WatiRefuses(s)
               \/ RecordSend(s) \/ SenderDies(s)
      PROVE  status' = status
  <2>1. ASSUME Claim(s) PROVE status' = status
    BY <2>1 DEF Claim, Ticks
  <2>2. ~RecordSend(s)
    BY DEF RecordSend, Ticks
  <2>3. QED
    BY <1>5, <2>1, <2>2 DEF BeginSend, NotToBeSent, WatiAccepts, WatiRefuses, SenderDies
<1>6. CASE RefreshRead \/ UNCHANGED messageVars
          \/ (\E n \in DOMAIN sends, what \in Fates : Reaches(n, what) \/ EventRead(n, what))
          \/ (\E kind \in {"copied", "sent_manually", "cancelled"} : ActRead(kind))
  <2>1. status' = status
    BY <1>6 DEF RefreshRead, messageVars, Reaches, EventRead, ActRead
  <2>2. QED
    BY <1>1, <2>1
<1>7. QED
  BY <1>1, <1>2, <1>3, <1>4, <1>5, <1>6 DEF MessageNext

(* Where no write by the row's id lands between another's read and write,  *)
(* one message goes out and its ticks only advance (whatsapp-service.ts,   *)
(* whatsapp-receipts-service.ts).                                          *)
THEOREM OneMessage == ASSUME ~TicksOverlap PROVE MessageSpec => OneMessageOnward
<1>1. MessageInv /\ [MessageNext]_messageVars =>
        [(status \in Ticks /\ status' \in Fates) =>
           (\/ Rank[status'] >= Rank[status]
            \/ status' = "failed" /\ status = "sent")]_messageVars
  BY Forward
<1>2. MessageInv /\ [MessageNext]_messageVars => MessageInv'
  BY MessageStep
<1> QED
  BY <1>1, <1>2, MessageInitInv, OneStands, PTL DEF MessageSpec, OneMessageOnward, TicksOnlyAdvance
-----------------------------------------------------------------------------
(***************************************************************************)
(* The map keys. That a key is passed over only for cause is about a       *)
(* request already under way: Sound says of it what it may rest on, the    *)
(* month it began in and, of every key out of its running, a refusal that  *)
(* still counts (Rests). HealthInv ties what is kept of a key to its last  *)
(* refusal, and AnnouncedInv an announcement to the month that refusal was *)
(* in. Two refusals written down over the same row, or a request that      *)
(* begins in one month and ends in the next, would break it                *)
(* (RetiresOverlap, SpansMonths), and are left out here.                   *)
(***************************************************************************)
Spend == [at : Nat, month : Months]
Call == [phase : {"idle", "choosing", "asking", "refused", "retiring", "gaveUp"},
         began : 0 .. MaxHours, remaining : SUBSET Keys, key : 0 .. KeyCount, prior : Spend]

(* What is kept of a key is no later than its last refusal, and of the     *)
(* month that was in.                                                      *)
HealthInv ==
  \A k \in Keys :
    /\ refusedAt[k] <= Instant(hour) /\ health[k].at <= refusedAt[k]
    /\ health[k].at # Never => health[k].month = MonthOf(health[k].at - 1)

(* Why a key may be passed over by a request that began then.              *)
Rests(k, began) ==
  /\ refusedAt[k] # Never
  /\ refusedAt[k] + Cooldown > Instant(began)
  /\ MonthOf(refusedAt[k] - 1) >= MonthOf(began)

(* A request is of the month it began in; a key out of its running rests;  *)
(* and a refusal is written down in the hour of it, over the row as read.  *)
Sound(c) ==
  /\ c.began <= hour
  /\ c.phase # "idle" =>
       /\ MonthOf(c.began) = MonthOf(hour)
       /\ \A k \in Keys \ c.remaining : Rests(k, c.began)
  /\ c.phase \in {"asking", "refused", "retiring"} => c.key \in Keys
  /\ c.phase = "asking" => \A k \in Keys : k < c.key => Rests(k, c.began)
  /\ c.phase = "gaveUp" => \A k \in Keys : Rests(k, c.began)
  /\ c.phase \in {"refused", "retiring"} => refusedAt[c.key] = Instant(hour)
  /\ c.phase = "retiring" => c.prior = health[c.key]

CallInv ==
  /\ \A r \in MapRequests : Sound(call[r])
  /\ \A q, r \in MapRequests : call[q].phase = "retiring" /\ call[r].phase = "retiring" => q = r

(* A month in which a key was announced is one a refusal of it was kept    *)
(* in, and none after the last.                                            *)
AnnouncedInv ==
  \A k \in Keys :
    /\ \A m \in Months :
         /\ announced[k][m] \in {0, 1}
         /\ announced[k][m] = 1 => health[k].at # Never /\ m <= health[k].month
    /\ health[k].at # Never => announced[k][health[k].month] = 1

PoolTypes ==
  /\ hour \in 0 .. MaxHours /\ health \in [Keys -> Spend] /\ refusedAt \in [Keys -> Nat]
  /\ announced \in [Keys -> [Months -> Nat]] /\ call \in [MapRequests -> Call]

PoolInv == PoolTypes /\ HealthInv /\ CallInv /\ AnnouncedInv
-----------------------------------------------------------------------------
LEMMA MonthsInOrder ==
  ASSUME NEW a \in Nat, NEW b \in Nat
  PROVE  MonthOf(a) \in Nat /\ (a <= b => MonthOf(a) <= MonthOf(b))
<1>1. MonthHours \in Nat /\ MonthHours > 0
  BY PoolAssumption
<1>2. QED
  BY <1>1 DEF MonthOf

LEMMA PoolInitInv == PoolInit => PoolInv
<1> SUFFICES ASSUME PoolInit PROVE PoolInv
  OBVIOUS
<1>1. MonthOf(MaxHours) \in Nat /\ 0 \in Months /\ MonthOf(0) \in Nat
  BY MonthsInOrder, PoolAssumption DEF Months
<1>2. Untried \in Spend /\ NoCall \in Call /\ 0 \in 0 .. MaxHours /\ \A m \in Months : m \in Nat
  BY <1>1, PoolAssumption DEF Untried, Spend, NoCall, Call, Never, Months
<1>3. PoolTypes
  BY <1>2 DEF PoolInit, PoolTypes, Never
<1>4. HealthInv
  BY DEF PoolInit, HealthInv, Untried, Never, Instant
<1>5. CallInv
  BY DEF PoolInit, CallInv, Sound, NoCall
<1>6. AnnouncedInv
  BY DEF PoolInit, AnnouncedInv, Untried
<1>7. QED
  BY <1>3, <1>4, <1>5, <1>6 DEF PoolInv

(* Instants have a first, and up to a bound a last.                        *)
LEMMA Earliest ==
  ASSUME NEW T, T \subseteq Nat, T # {}
  PROVE  \E x \in T : \A y \in T : x <= y
<1> DEFINE R == {ss \in Nat \X Nat : ss[1] < ss[2]}
<1>1. IsWellFoundedOn(R, Nat)
  BY NatLessThanWellFounded DEF OpToRel
<1>2. PICK x \in T : \A y \in T : ~ (<<y, x>> \in R)
  <2> HIDE DEF R
  <2> QED
    BY <1>1, WFMin
<1>3. ASSUME NEW y \in T PROVE x <= y
  <2>1. x \in Nat /\ y \in Nat
    OBVIOUS
  <2>2. ~(y < x)
    <3>1. y < x => <<y, x>> \in R
      BY <2>1
    <3> QED
      BY <1>2, <3>1
  <2> QED
    BY <2>1, <2>2
<1> QED
  BY <1>3

LEMMA OneCall ==
  ASSUME PoolTypes, NEW r \in MapRequests, NEW c \in Call, call' = [call EXCEPT ![r] = c]
  PROVE  call' \in [MapRequests -> Call] /\ call'[r] = c /\ \A q \in MapRequests : q # r => call'[q] = call[q]
BY DEF PoolTypes

LEMMA Numbers ==
  ASSUME PoolTypes
  PROVE  /\ hour \in Nat /\ Instant(hour) = hour + 1 /\ Instant(hour) \in Nat /\ Cooldown \in Nat /\ Cooldown > 0
         /\ MonthOf(hour) \in Months /\ 0 \in Months /\ \A m \in Months : m \in Nat
         /\ \A r \in MapRequests : call[r] \in Call /\ call[r].began \in Nat /\ call[r].began \in 0 .. MaxHours
         /\ \A k \in Keys : refusedAt[k] \in Nat /\ health[k].at \in Nat /\ health[k].month \in Nat /\ health[k].month \in Months
<1>1. MonthOf(MaxHours) \in Nat /\ MonthOf(hour) \in Nat /\ MonthOf(hour) <= MonthOf(MaxHours)
  BY MonthsInOrder, PoolAssumption DEF PoolTypes
<1>2. /\ hour \in Nat /\ Instant(hour) = hour + 1 /\ Instant(hour) \in Nat /\ Cooldown \in Nat /\ Cooldown > 0
  BY PoolAssumption DEF PoolTypes, Instant
<1>3. MonthOf(hour) \in Months /\ 0 \in Months /\ \A m \in Months : m \in Nat
  BY <1>1 DEF Months
<1>4. \A r \in MapRequests : call[r] \in Call /\ call[r].began \in Nat /\ call[r].began \in 0 .. MaxHours
  BY PoolAssumption DEF PoolTypes, Call
<1>5. \A k \in Keys : refusedAt[k] \in Nat /\ health[k] \in Spend
  BY DEF PoolTypes
<1>6. \A k \in Keys : health[k].at \in Nat /\ health[k].month \in Months
  BY <1>5 DEF Spend
<1>7. QED
  BY <1>2, <1>3, <1>4, <1>5, <1>6

(* A key refused this hour rests, for a request of this month.             *)
LEMMA RefusedNow ==
  ASSUME PoolTypes, NEW k \in Keys, NEW b \in Nat, refusedAt[k] = Instant(hour), b <= hour, MonthOf(b) = MonthOf(hour)
  PROVE  Rests(k, b)
BY Numbers, MonthsInOrder DEF Rests, Instant, Never

(* A request that goes from one state to another touches no other.         *)
LEMMA CallMoves ==
  ASSUME PoolInv, UNCHANGED <<hour, health, refusedAt, announced>>,
         NEW r \in MapRequests, NEW c \in Call, call' = [call EXCEPT ![r] = c],
         Sound(c), c.phase = "retiring" => \A q \in MapRequests : call[q].phase # "retiring"
  PROVE  PoolInv'
<1>1. PoolTypes /\ HealthInv /\ CallInv /\ AnnouncedInv
  BY DEF PoolInv
<1>2. call' \in [MapRequests -> Call] /\ call'[r] = c /\ \A q \in MapRequests : q # r => call'[q] = call[q]
  BY <1>1, OneCall
<1>3. PoolTypes' /\ HealthInv' /\ AnnouncedInv'
  BY <1>1, <1>2 DEF PoolTypes, HealthInv, AnnouncedInv
<1>4. CallInv'
  <2>1. \A q \in MapRequests : call'[q] = c \/ call'[q] = call[q]
    BY <1>2
  <2>2. \A q \in MapRequests : Sound(call[q])'
    BY <1>1, <2>1 DEF CallInv, Sound, Rests
  <2>3. QED
    BY <1>1, <1>2, <2>2 DEF CallInv
<1>5. QED
  BY <1>3, <1>4 DEF PoolInv

(* A key that is not available was refused, and rests.                     *)
LEMMA Refusals ==
  ASSUME PoolTypes, HealthInv, NEW k \in Keys, NEW b \in Nat, b <= hour, ~Available(health[k], b)
  PROVE  Rests(k, b)
<1>1. /\ health[k].at # Never /\ ~(health[k].month < MonthOf(b)) /\ health[k].month = MonthOf(health[k].at - 1)
      /\ ~(b + 1 >= health[k].at /\ b + 1 - health[k].at >= Cooldown)
  BY DEF Available, HealthInv
<1>2. /\ health[k].at \in Nat /\ refusedAt[k] \in Nat /\ health[k].at <= refusedAt[k] /\ health[k].at > 0
      /\ MonthOf(b) \in Nat /\ health[k].month \in Nat /\ Cooldown \in Nat /\ Cooldown > 0
  BY <1>1, Numbers, MonthsInOrder DEF HealthInv, Never
<1>3. refusedAt[k] # Never /\ refusedAt[k] + Cooldown > Instant(b)
  BY <1>1, <1>2 DEF Never, Instant
<1>4. MonthOf(health[k].at - 1) <= MonthOf(refusedAt[k] - 1) /\ MonthOf(refusedAt[k] - 1) \in Nat
  BY <1>2, MonthsInOrder
<1>5. QED
  BY <1>1, <1>2, <1>3, <1>4 DEF Rests

(* Past the key that was refused.                                          *)
LEMMA GoesOn ==
  ASSUME PoolTypes, CallInv, NEW r \in MapRequests, call[r].phase = "retiring"
  PROVE  Onwards(r) \in Call /\ Sound(Onwards(r)) /\ Onwards(r).phase \notin {"retiring", "idle", "refused"}
<1>1. PICK left : left = call[r].remaining \ {call[r].key}
  OBVIOUS
<1>2. PICK c : c = [call[r] EXCEPT !.remaining = left, !.key = 0, !.prior = Untried,
                                   !.phase = IF left = {} THEN "gaveUp" ELSE "choosing"]
  OBVIOUS
<1>3. Onwards(r) = c
  BY <1>1, <1>2 DEF Onwards
<1>4. call[r] \in Call /\ Sound(call[r]) /\ call[r].began \in Nat /\ call[r].key \in Keys
  BY Numbers DEF CallInv, Sound
<1>5. Untried \in Spend /\ 0 \in 0 .. KeyCount
  BY Numbers, PoolAssumption DEF Untried, Spend, Never
<1>6. c \in Call /\ c.remaining = left /\ c.began = call[r].began /\ c.phase = IF left = {} THEN "gaveUp" ELSE "choosing"
  BY <1>1, <1>2, <1>4, <1>5 DEF Call
<1>7. Rests(call[r].key, call[r].began)
  BY <1>4, RefusedNow DEF Sound
<1>8. \A k \in Keys \ left : Rests(k, call[r].began)
  BY <1>1, <1>4, <1>7 DEF Sound
<1>9. Sound(c)
  BY <1>4, <1>6, <1>8 DEF Sound
<1>10. QED
  BY <1>3, <1>6, <1>9

LEMMA CallsMove ==
  ASSUME ~RetiresOverlap, PoolInv, NEW r \in MapRequests,
         Begin(r) \/ Choose(r) \/ AnsweredOrFailed(r) \/ BeginRetire(r) \/ RetireFails(r)
  PROVE  PoolInv'
<1>0. PoolTypes /\ HealthInv /\ CallInv /\ Sound(call[r]) /\ call[r] \in Call
  BY Numbers DEF PoolInv, CallInv
<1>1. CASE Begin(r)
  <2>1. PICK c : c = [NoCall EXCEPT !.phase = "choosing", !.began = hour, !.remaining = Keys]
    OBVIOUS
  <2>2. call' = [call EXCEPT ![r] = c] /\ UNCHANGED <<hour, health, refusedAt, announced>>
    BY <1>1, <2>1 DEF Begin
  <2>3. c = [phase |-> "choosing", began |-> hour, remaining |-> Keys, key |-> 0, prior |-> Untried]
    BY <2>1 DEF NoCall
  <2>4. c \in Call
    BY <1>0, <2>3, Numbers, PoolAssumption DEF Call, PoolTypes, Untried, Spend, Never
  <2>5. Sound(c)
    BY <2>3, Numbers, <1>0 DEF Sound
  <2>6. QED
    BY <2>2, <2>3, <2>4, <2>5, CallMoves
<1>2. CASE AnsweredOrFailed(r)
  <2>1. call' = [call EXCEPT ![r] = NoCall] /\ UNCHANGED <<hour, health, refusedAt, announced>>
    BY <1>2 DEF AnsweredOrFailed
  <2>2. NoCall \in Call /\ Sound(NoCall) /\ NoCall.phase = "idle"
    BY <1>0, Numbers, PoolAssumption DEF NoCall, Call, Spend, Untried, Never, Sound
  <2>3. QED
    BY <2>1, <2>2, CallMoves
<1>3. CASE BeginRetire(r)
  <2>1. PICK c : c = [call[r] EXCEPT !.phase = "retiring", !.prior = health[call[r].key]]
    OBVIOUS
  <2>2. /\ call[r].phase = "refused" /\ \A q \in MapRequests : call[q].phase # "retiring"
        /\ UNCHANGED <<hour, health, refusedAt, announced>>
    BY <1>3 DEF BeginRetire
  <2>3. call' = [call EXCEPT ![r] = c]
    BY <1>0, <1>3, <2>1 DEF BeginRetire, PoolTypes, Call
  <2>4. call[r].key \in Keys /\ health[call[r].key] \in Spend
    BY <1>0, <2>2 DEF Sound, PoolTypes
  <2>5. c \in Call /\ c.phase = "retiring" /\ c.began = call[r].began /\ c.remaining = call[r].remaining
        /\ c.key = call[r].key /\ c.prior = health[call[r].key]
    BY <1>0, <2>1, <2>4 DEF Call
  <2>6. Sound(c)
    BY <1>0, <2>2, <2>5 DEF Sound
  <2>7. QED
    BY <2>2, <2>3, <2>5, <2>6, CallMoves
<1>4. CASE RetireFails(r)
  <2>1. /\ call[r].phase = "retiring" /\ call' = [call EXCEPT ![r] = Onwards(r)]
        /\ UNCHANGED <<hour, health, refusedAt, announced>>
    BY <1>4 DEF RetireFails
  <2>2. Onwards(r) \in Call /\ Sound(Onwards(r)) /\ Onwards(r).phase # "retiring"
    BY <1>0, <2>1, GoesOn
  <2>3. QED
    BY <2>1, <2>2, CallMoves
<1>5. CASE Choose(r)
  <2>1. PICK able : able = {k \in call[r].remaining : Available(health[k], call[r].began)}
    OBVIOUS
  <2>2. /\ call[r].phase = "choosing" /\ UNCHANGED <<hour, health, refusedAt, announced>>
        /\ call' = IF able = {} THEN [call EXCEPT ![r].phase = "gaveUp"]
                    ELSE [call EXCEPT ![r].phase = "asking", ![r].key = CHOOSE k \in able : \A j \in able : k <= j]
    BY <1>5, <2>1 DEF Choose
  <2>3. \A k \in Keys \ able : Rests(k, call[r].began)
    <3>1. call[r].began \in Nat /\ call[r].began <= hour /\ \A k \in Keys \ call[r].remaining : Rests(k, call[r].began)
      BY <1>0, <2>2, Numbers DEF Sound
    <3>2. ASSUME NEW k \in Keys, ~Available(health[k], call[r].began) PROVE Rests(k, call[r].began)
      BY <1>0, <3>1, <3>2, Refusals
    <3>3. QED
      BY <2>1, <3>1, <3>2
  <2>4. CASE able = {}
    <3>1. PICK c : c = [call[r] EXCEPT !.phase = "gaveUp"]
      OBVIOUS
    <3>2. call' = [call EXCEPT ![r] = c]
      BY <1>0, <2>2, <2>4, <3>1 DEF PoolTypes
    <3>3. c \in Call /\ c.phase = "gaveUp" /\ c.began = call[r].began /\ c.remaining = call[r].remaining
      BY <1>0, <3>1 DEF Call
    <3>4. Sound(c)
      BY <1>0, <2>2, <2>3, <2>4, <3>3 DEF Sound
    <3>5. QED
      BY <2>2, <3>2, <3>3, <3>4, CallMoves
  <2>5. CASE able # {}
    <3>1. PICK first : first = CHOOSE k \in able : \A j \in able : k <= j
      OBVIOUS
    <3>2. able \subseteq Keys /\ Keys \subseteq Nat
      BY <1>0, <2>1 DEF Call, Keys
    <3>3. first \in able /\ \A j \in able : first <= j
      BY <2>5, <3>1, <3>2, Earliest
    <3>4. PICK c : c = [call[r] EXCEPT !.phase = "asking", !.key = first]
      OBVIOUS
    <3>5. call' = [call EXCEPT ![r] = c]
      <4>1. call' = [call EXCEPT ![r].phase = "asking", ![r].key = first]
        BY <2>2, <2>5, <3>1
      <4>2. QED
        BY <1>0, <3>4, <4>1 DEF PoolTypes, Call
    <3>6. first \in Keys /\ first \in 0 .. KeyCount
      BY <3>2, <3>3 DEF Keys
    <3>7. c \in Call /\ c.phase = "asking" /\ c.began = call[r].began /\ c.remaining = call[r].remaining /\ c.key = first
      BY <1>0, <3>4, <3>6 DEF Call
    <3>8. \A k \in Keys : k < first => Rests(k, call[r].began)
      BY <2>3, <3>2, <3>3, <3>6
    <3>9. Sound(c)
      BY <1>0, <2>2, <3>6, <3>7, <3>8 DEF Sound
    <3>10. QED
      BY <2>2, <3>5, <3>7, <3>9, CallMoves
  <2>6. QED
    BY <2>4, <2>5
<1>6. QED
  BY <1>1, <1>2, <1>3, <1>4, <1>5

LEMMA HoursPass ==
  ASSUME ~SpansMonths, PoolInv, HourPasses
  PROVE  PoolInv'
<1>0. PoolTypes /\ HealthInv /\ CallInv /\ AnnouncedInv
  BY DEF PoolInv
<1>1. /\ hour' = hour + 1 /\ hour < MaxHours /\ UNCHANGED <<health, call, refusedAt, announced>>
      /\ \A r \in MapRequests : call[r].phase \notin {"refused", "retiring"}
      /\ MonthOf(hour + 1) = MonthOf(hour) \/ \A r \in MapRequests : call[r].phase = "idle"
  BY DEF HourPasses
<1>2. hour \in Nat /\ hour' \in Nat /\ hour' \in 0 .. MaxHours
  BY <1>0, <1>1, PoolAssumption DEF PoolTypes
<1>3. PoolTypes' /\ AnnouncedInv'
  BY <1>0, <1>1, <1>2 DEF PoolTypes, AnnouncedInv
<1>4. HealthInv'
  BY <1>0, <1>1, <1>2, Numbers DEF HealthInv, Instant
<1>5. ASSUME NEW r \in MapRequests PROVE Sound(call[r])'
  <2>1. call[r].began \in Nat /\ Sound(call[r])
    BY <1>0, Numbers DEF CallInv
  <2>2. call[r].phase # "idle" => MonthOf(hour') = MonthOf(hour)
    BY <1>1
  <2>3. QED
    BY <1>1, <1>2, <2>1, <2>2 DEF Sound, Rests
<1>6. QED
  BY <1>0, <1>1, <1>3, <1>4, <1>5 DEF PoolInv, CallInv

LEMMA KeyRefused ==
  ASSUME PoolInv, NEW r \in MapRequests, Refused(r)
  PROVE  PoolInv'
<1>0. PoolTypes /\ HealthInv /\ CallInv /\ AnnouncedInv
  BY DEF PoolInv
<1>1. /\ call[r].phase = "asking" /\ refusedAt' = [refusedAt EXCEPT ![call[r].key] = Instant(hour)]
      /\ UNCHANGED <<hour, health, announced>>
  BY DEF Refused
<1>2. PICK c : c = [call[r] EXCEPT !.phase = "refused"]
  OBVIOUS
<1>3. call' = [call EXCEPT ![r] = c]
  BY <1>0, <1>2 DEF Refused, PoolTypes
<1>4. call[r] \in Call /\ call[r].key \in Keys /\ Sound(call[r])
  BY <1>0, <1>1, Numbers DEF CallInv, Sound
<1>5. c \in Call /\ c.phase = "refused" /\ c.began = call[r].began /\ c.remaining = call[r].remaining /\ c.key = call[r].key
  BY <1>2, <1>4 DEF Call
<1>6. call' \in [MapRequests -> Call] /\ call'[r] = c /\ \A q \in MapRequests : q # r => call'[q] = call[q]
  BY <1>0, <1>3, <1>5, OneCall
<1>7. /\ refusedAt' \in [Keys -> Nat] /\ refusedAt'[call[r].key] = Instant(hour)
      /\ \A k \in Keys : refusedAt'[k] \in Nat /\ (refusedAt'[k] = refusedAt[k] \/ refusedAt'[k] = Instant(hour))
      /\ \A k \in Keys : refusedAt[k] \in Nat /\ refusedAt[k] <= refusedAt'[k] /\ refusedAt'[k] <= Instant(hour)
  BY <1>0, <1>1, <1>4, Numbers DEF PoolTypes, HealthInv
<1>8. PoolTypes' /\ AnnouncedInv'
  BY <1>0, <1>1, <1>6, <1>7 DEF PoolTypes, AnnouncedInv
<1>9. HealthInv'
  BY <1>0, <1>1, <1>7, Numbers DEF HealthInv, Instant
<1>10. \A k \in Keys, b \in Nat : Rests(k, b) => Rests(k, b)'
  <2> SUFFICES ASSUME NEW k \in Keys, NEW b \in Nat, Rests(k, b) PROVE Rests(k, b)'
    OBVIOUS
  <2>1. /\ refusedAt[k] \in Nat /\ refusedAt'[k] \in Nat /\ refusedAt[k] <= refusedAt'[k] /\ refusedAt[k] # Never
        /\ refusedAt[k] + Cooldown > b + 1 /\ MonthOf(refusedAt[k] - 1) >= MonthOf(b) /\ Cooldown \in Nat
    BY <1>0, <1>7, Numbers DEF Rests, Instant
  <2>2. MonthOf(refusedAt[k] - 1) <= MonthOf(refusedAt'[k] - 1) /\ MonthOf(b) \in Nat
        /\ MonthOf(refusedAt[k] - 1) \in Nat /\ MonthOf(refusedAt'[k] - 1) \in Nat
    BY <2>1, MonthsInOrder DEF Never
  <2>3. QED
    BY <2>1, <2>2 DEF Rests, Never, Instant
<1>11. ASSUME NEW x \in Call, Sound(x), x.phase # "asking" \/ x = call[r] \/ x \in {call[q] : q \in MapRequests}
       PROVE  Sound(x)'
  <2>1. x.began \in Nat /\ x.key \in 0 .. KeyCount
    BY <1>11, PoolAssumption DEF Call
  <2>2. x.phase \in {"refused", "retiring"} => refusedAt'[x.key] = Instant(hour)
    BY <1>7, <1>11 DEF Sound
  <2>3. QED
    BY <1>1, <1>10, <1>11, <2>1, <2>2 DEF Sound, Instant
<1>12. Sound(c)'
  BY <1>1, <1>4, <1>5, <1>7, <1>11 DEF Sound, Instant
<1>13. CallInv'
  <2>1. \A q \in MapRequests : q # r => Sound(call[q])'
    BY <1>0, <1>6, <1>11, Numbers DEF CallInv
  <2>2. QED
    BY <1>0, <1>5, <1>6, <1>11, <1>12, Numbers DEF CallInv
<1>14. QED
  BY <1>8, <1>9, <1>13 DEF PoolInv

LEMMA KeyRetired ==
  ASSUME PoolInv, NEW r \in MapRequests, Retire(r)
  PROVE  PoolInv'
<1>0. PoolTypes /\ HealthInv /\ CallInv /\ AnnouncedInv /\ call[r].phase = "retiring"
  BY DEF PoolInv, Retire
<1>1. PICK k : k = call[r].key
  OBVIOUS
<1>2. PICK month : month = MonthOf(call[r].began)
  OBVIOUS
<1>3. /\ health' = [health EXCEPT ![k] = [at |-> Instant(hour), month |-> month]]
      /\ announced' = IF WorthAnnouncing(health[k], month) THEN [announced EXCEPT ![k][month] = @ + 1] ELSE announced
      /\ call' = [call EXCEPT ![r] = Onwards(r)] /\ UNCHANGED <<hour, refusedAt>>
  BY <1>0, <1>1, <1>2 DEF Retire, CallInv, Sound
<1>4. k \in Keys /\ month = MonthOf(hour) /\ refusedAt[k] = Instant(hour) /\ month \in Months /\ month \in Nat
  BY <1>0, <1>1, <1>2, Numbers DEF CallInv, Sound
<1>5. PICK c : c = Onwards(r)
  OBVIOUS
<1>6. /\ c \in Call /\ Sound(c) /\ c.phase \notin {"retiring", "idle", "refused"}
      /\ call' \in [MapRequests -> Call] /\ call'[r] = c /\ \A q \in MapRequests : q # r => call'[q] = call[q]
  BY <1>0, <1>3, <1>5, GoesOn, OneCall
<1>7. /\ health' \in [Keys -> Spend] /\ health'[k].at = hour + 1 /\ health'[k].month = month
      /\ \A j \in Keys : j # k => health'[j] = health[j]
  <2>1. PICK h : h = [at |-> Instant(hour), month |-> month]
    OBVIOUS
  <2>2. h \in Spend /\ h.at = hour + 1 /\ h.month = month
    BY <1>0, <1>4, <2>1, Numbers DEF Spend
  <2>3. health' = [health EXCEPT ![k] = h]
    BY <1>3, <2>1
  <2>4. QED
    BY <1>0, <1>4, <2>2, <2>3 DEF PoolTypes
<1>8. health[k].at # Never => health[k].month <= month
  <2>1. ASSUME health[k].at # Never PROVE health[k].month <= month
    <3>1. health[k].at \in Nat /\ health[k].at <= hour + 1 /\ health[k].at > 0 /\ health[k].month = MonthOf(health[k].at - 1)
      BY <1>0, <1>4, <2>1, Numbers DEF HealthInv, Never
    <3>2. QED
      BY <1>0, <1>4, <3>1, Numbers, MonthsInOrder
  <2>2. QED
    BY <2>1
<1>9. /\ announced' \in [Keys -> [Months -> Nat]] /\ announced'[k][month] = 1
      /\ \A j \in Keys : j # k => announced'[j] = announced[j]
      /\ \A m \in Months : m # month => announced'[k][m] = announced[k][m]
  <2>1. announced[k] \in [Months -> Nat] /\ announced[k][month] \in {0, 1}
    BY <1>0, <1>4 DEF PoolTypes, AnnouncedInv
  <2>2. CASE WorthAnnouncing(health[k], month)
    <3>1. announced[k][month] = 0
      BY <1>0, <1>4, <1>8, <2>1, <2>2, Numbers DEF WorthAnnouncing, AnnouncedInv
    <3>2. PICK a : a = [announced[k] EXCEPT ![month] = announced[k][month] + 1]
      OBVIOUS
    <3>3. announced' = [announced EXCEPT ![k] = a]
      BY <1>0, <1>3, <1>4, <2>2, <3>2 DEF PoolTypes
    <3>4. a \in [Months -> Nat] /\ a[month] = 1 /\ \A m \in Months : m # month => a[m] = announced[k][m]
      BY <1>4, <2>1, <3>1, <3>2
    <3>5. QED
      BY <1>0, <1>4, <3>3, <3>4 DEF PoolTypes
  <2>3. CASE ~WorthAnnouncing(health[k], month)
    BY <1>0, <1>3, <1>4, <2>3 DEF WorthAnnouncing, AnnouncedInv, PoolTypes
  <2>4. QED
    BY <2>2, <2>3
<1>10. PoolTypes'
  BY <1>0, <1>3, <1>6, <1>7, <1>9 DEF PoolTypes
<1>11. HealthInv'
  BY <1>0, <1>3, <1>4, <1>7, Numbers DEF HealthInv, Instant
<1>12. AnnouncedInv'
  <2>1. ASSUME NEW m \in Months
        PROVE  announced'[k][m] \in {0, 1} /\ (announced'[k][m] = 1 => m <= month)
    <3>1. CASE m = month
      BY <1>4, <1>9, <3>1
    <3>2. CASE m # month
      <4>1. announced[k][m] \in {0, 1} /\ (announced[k][m] = 1 => m <= health[k].month /\ health[k].month <= month)
        BY <1>0, <1>4, <1>8 DEF AnnouncedInv
      <4>2. m \in Nat /\ health[k].month \in Nat
        BY <1>0, <1>4, Numbers
      <4>3. QED
        BY <1>4, <1>9, <3>2, <4>1, <4>2
    <3>3. QED
      BY <3>1, <3>2
  <2>2. health'[k].at # Never
    BY <1>0, <1>7, Numbers DEF Never
  <2>3. ASSUME NEW j \in Keys, j # k
        PROVE  /\ announced'[j] = announced[j] /\ health'[j] = health[j]
    BY <1>7, <1>9, <2>3
  <2>4. health'[k].at # Never /\ announced'[k][health'[k].month] = 1
    BY <1>7, <1>9, <2>2
  <2>5. ASSUME NEW j \in Keys
        PROVE  /\ \A m \in Months :
                     /\ announced'[j][m] \in {0, 1}
                     /\ announced'[j][m] = 1 => health'[j].at # Never /\ m <= health'[j].month
               /\ health'[j].at # Never => announced'[j][health'[j].month] = 1
    <3>1. CASE j = k
      BY <1>7, <2>1, <2>4, <3>1
    <3>2. CASE j # k
      BY <1>0, <2>3, <3>2 DEF AnnouncedInv
    <3>3. QED
      BY <3>1, <3>2
  <2>6. QED
    BY <2>5 DEF AnnouncedInv
<1>13. CallInv'
  <2>1. \A j \in Keys, b \in Nat : Rests(j, b) => Rests(j, b)'
    BY <1>3 DEF Rests, Instant
  <2>2. Sound(c)'
    BY <1>3, <1>6, <2>1 DEF Sound, Instant, Call, Rests
  <2>3. ASSUME NEW q \in MapRequests, q # r PROVE Sound(call[q])'
    <3>1. call[q].phase # "retiring" /\ Sound(call[q]) /\ call'[q] = call[q]
      BY <1>0, <1>6, <2>3 DEF CallInv
    <3>2. QED
      BY <1>3, <3>1 DEF Sound, Instant, Rests
  <2>4. QED
    BY <1>0, <1>6, <2>2, <2>3 DEF CallInv
<1>14. QED
  BY <1>10, <1>11, <1>12, <1>13 DEF PoolInv

LEMMA PoolStep ==
  ASSUME ~RetiresOverlap, ~SpansMonths
  PROVE  PoolInv /\ [PoolNext]_poolVars => PoolInv'
<1> SUFFICES ASSUME PoolInv, [PoolNext]_poolVars PROVE PoolInv'
  OBVIOUS
<1>1. CASE UNCHANGED poolVars
  BY <1>1 DEF poolVars, PoolInv, PoolTypes, HealthInv, CallInv, Sound, Rests, AnnouncedInv, Instant
<1>2. QED
  BY <1>1, HoursPass, CallsMove, KeyRefused, KeyRetired DEF PoolNext
-----------------------------------------------------------------------------
(* Where refusals are written down one at a time and no request spans two  *)
(* months, a key is passed over only for a refusal that still counts, and  *)
(* announced once a month (ola-key-pool.ts, retire of ola-key-service.ts). *)
THEOREM EveryRefusalCounts ==
  ASSUME ~RetiresOverlap, ~SpansMonths
  PROVE  PoolSpec => []RefusalsCount
<1>1. PoolInv => RefusalsCount
  <2> SUFFICES ASSUME PoolInv PROVE RefusalsCount
    OBVIOUS
  <2>1. PoolTypes /\ CallInv /\ AnnouncedInv
    BY DEF PoolInv
  <2>2. AnnouncedOnceAMonth
    BY <2>1, Numbers DEF AnnouncedOnceAMonth, AnnouncedInv
  <2>3. PassedOverForCause
    <3>1. ASSUME NEW r \in MapRequests, NEW k \in PassedOver(r) PROVE Rests(k, call[r].began)
      BY <2>1, <3>1 DEF PassedOver, CallInv, Sound
    <3>2. QED
      BY <3>1 DEF PassedOverForCause, Rests
  <2>4. QED
    BY <2>2, <2>3 DEF RefusalsCount
<1>2. QED
  BY <1>1, PoolInitInv, PoolStep, PTL DEF PoolSpec
(***************************************************************************)
(* VendorPayouts, for any purchases, payouts, people and syncs at once,    *)
(* and any payment days.                                                   *)
(*                                                                         *)
(* PayoutsFollowRegister speaks of a sync that nobody wrote beside.  What  *)
(* makes it true is kept row by row while that sync writes (CleanInv):     *)
(* what it has read is still so, a row it has yet to write is as it read   *)
(* it, and one it has written says what the register says.                 *)
(***************************************************************************)

Owing == Amounts \union {0}
Figured == Figures \union {NotOwed}
PayoutRows == [status : Unpaid \union {"absent", "paid", "cancelled"}, gone : BOOLEAN, amount : Owing,
               due : CalendarDays, payOn : CalendarDays, decided : BOOLEAN, paid : Owing \union {NotPaid}]

(* What a person may set.                                                  *)
Settings ==
  [payOn : CalendarDays, decided : {TRUE}]
  \union [status : {"open", "on_hold", "cancelled"}]
  \union [status : {"paid"}, paid : Owing]
  \union [status : {"open"}, paid : {NotPaid}, payOn : CalendarDays]

Syncing ==
  [at : {"idle", "reading", "writing", "planning"}, day : CalendarDays, days : SUBSET CalendarDays,
   figures : [Purchases -> Figured] \union {<<>>},
   rows : [Purchases -> PayoutRows] \union [Payouts -> PayoutRows] \union {<<>>}, left : SUBSET Payouts]

PayoutTypes ==
  /\ payout \in [Payouts -> PayoutRows] /\ register \in [Purchases -> Figured]
  /\ businessDay \in CalendarDays /\ payDays \in SUBSET CalendarDays
  /\ sync \in [Openers -> Syncing]
  /\ deciding \in [Accounts -> [on : SUBSET Payouts, set : Settings \union {<<>>}]]
  /\ clean \in [Openers -> BOOLEAN] /\ settled \in BOOLEAN

(* Where a sync is says what it has read and which rows it is to write.    *)
Placed(s) ==
  /\ sync[s].at = "idle" <=> sync[s] = NotSyncing
  /\ sync[s].at # "idle" => sync[s].figures \in [Purchases -> Figured]
  /\ sync[s].at = "writing" => sync[s].rows \in [Purchases -> PayoutRows] /\ sync[s].left \subseteq Purchases
  /\ sync[s].at = "planning" => sync[s].rows \in [Payouts -> PayoutRows]

PlacesInv == \A s \in Openers : Placed(s)

(* Only a purchase can have left the register.                             *)
GoneInv == \A p \in Payouts : payout[p].gone => p \in Purchases

(* A row says of a purchase what the register does.                        *)
Tells(row, f) ==
  IF f = NotOwed THEN row.status \notin Unpaid
  ELSE /\ row # NoPayout /\ ~(row.status = "cancelled" /\ row.gone)
       /\ row.status \in Unpaid => row.amount = f.amount /\ row.due = f.due

AllTold == \A p \in Purchases : Tells(payout[p], register[p])
Planned == \A p \in Payouts : ~Displaced(payout[p], businessDay, payDays)

(* What a sync wrote beside nobody has read and done.                      *)
Clean(s) ==
  /\ sync[s].at # "idle"
  /\ sync[s].figures = register /\ sync[s].day = businessDay /\ sync[s].days = payDays
  /\ sync[s].at = "writing" => \A p \in Purchases :
       IF p \in sync[s].left THEN sync[s].rows[p] = payout[p] ELSE Tells(payout[p], register[p])
  /\ sync[s].at = "planning" =>
       /\ AllTold
       /\ \A p \in Payouts : IF p \in sync[s].left
                             THEN sync[s].rows[p] = payout[p] /\ Displaced(payout[p], businessDay, payDays)
                             ELSE ~Displaced(payout[p], businessDay, payDays)

CleanInv == \A s \in Openers : clean[s] => Clean(s)

PayoutInv == PayoutTypes /\ PlacesInv /\ GoneInv /\ CleanInv /\ SyncFollowsRegister

LEMMA FiguresAre ==
  /\ NotOwed \in Figured /\ Figures \subseteq Figured
  /\ \A f \in Figured : f.amount \in Owing /\ f.due \in CalendarDays
  /\ 0 \in CalendarDays /\ CalendarDays \subseteq Nat
BY PayoutAssumption DEF Figured, Owing, Amounts, NotOwed, CalendarDays

(* A payment day on or after another is a day of the calendar, and itself  *)
(* its own next.                                                           *)
LEMMA DayFromIs ==
  ASSUME NEW d \in CalendarDays, NEW days \in SUBSET CalendarDays
  PROVE  DayFrom(d, days) \in CalendarDays /\ DayFrom(DayFrom(d, days), days) = DayFrom(d, days)
<1> DEFINE later == {e \in days : e >= d}
           t == DayFrom(d, days)
<1>1. CASE later = {}
  <2>1. t = d
    BY <1>1 DEF DayFrom
  <2>2. QED
    BY <2>1
<1>2. CASE later # {}
  <2>1. later \subseteq Nat
    BY FiguresAre
  <2>2. PICK e \in later : \A f \in later : e <= f
    BY <1>2, <2>1, Earliest
  <2>3. t = CHOOSE x \in later : \A f \in later : x <= f
    BY <1>2 DEF DayFrom
  <2>4. t \in later /\ \A f \in later : t <= f
    BY <2>2, <2>3
  <2>5. t \in days /\ t \in CalendarDays /\ t \in Nat /\ d \in Nat
    BY <2>1, <2>4, FiguresAre
  <2> HIDE DEF t
  <2>6. DayFrom(t, days) = t
    <3> DEFINE then == {x \in days : x >= t}
    <3>1. t \in then /\ then # {} /\ \A f \in then : t <= f
      BY <2>1, <2>5
    <3>2. \A x \in then : (\A f \in then : x <= f) => x = t
      BY <3>1, <2>5, FiguresAre
    <3>3. DayFrom(t, days) = CHOOSE x \in then : \A f \in then : x <= f
      BY <3>1 DEF DayFrom
    <3> HIDE DEF then
    <3>4. QED
      BY <3>1, <3>2, <3>3
  <2>7. QED
    BY <2>5, <2>6 DEF t
<1>3. QED
  BY <1>1, <1>2

LEMMA PlannedIs ==
  ASSUME NEW d \in CalendarDays, NEW day \in CalendarDays, NEW days \in SUBSET CalendarDays
  PROVE  PlannedPayOn(d, day, days) \in CalendarDays
BY DayFromIs DEF PlannedPayOn

(* Setting columns of a row.                                               *)
LEMMA SettingIs ==
  ASSUME NEW row \in PayoutRows, NEW set \in Settings
  PROVE  Onto(set, row) \in PayoutRows /\ Onto(set, row).gone = row.gone
<1>1. CASE set \in [payOn : CalendarDays, decided : {TRUE}]
  BY <1>1 DEF Onto, PayoutRows
<1>2. CASE set \in [status : {"open", "on_hold", "cancelled"}]
  BY <1>2 DEF Onto, PayoutRows, Unpaid
<1>3. CASE set \in [status : {"paid"}, paid : Owing]
  BY <1>3 DEF Onto, PayoutRows
<1>4. CASE set \in [status : {"open"}, paid : {NotPaid}, payOn : CalendarDays]
  BY <1>4 DEF Onto, PayoutRows, Unpaid
<1>5. QED
  BY <1>1, <1>2, <1>3, <1>4 DEF Settings

LEMMA NothingSet == ASSUME NEW row \in PayoutRows PROVE Onto(<<>>, row) = row
BY DEF Onto, PayoutRows

LEMMA NoPayoutIs == NoPayout \in PayoutRows /\ ~NoPayout.gone
BY FiguresAre DEF NoPayout, PayoutRows, Owing, NotPaid

(* What an insert of the sync leaves.                                      *)
LEMMA InsertIs ==
  ASSUME NEW f \in Figured, NEW d \in CalendarDays
  PROVE  LET new == Onto([amount |-> f.amount, due |-> f.due, status |-> "open", payOn |-> d], NoPayout)
         IN new \in PayoutRows /\ ~new.gone /\ (f # NotOwed => Tells(new, f))
BY FiguresAre, NoPayoutIs DEF Onto, PayoutRows, NoPayout, Tells, Unpaid

(* What the sync sets of a row that has changed in the register.           *)
Rewrites(row, f, d) ==
  LET reopen == row.status = "cancelled" /\ row.gone
      moved  == row.due # f.due
  IN IF ~(row.status \in Unpaid \/ reopen) \/ (row.amount = f.amount /\ ~moved /\ ~reopen)
     THEN <<>>
     ELSE Onto(IF reopen THEN [status |-> "open", gone |-> FALSE] ELSE <<>>,
               [amount |-> f.amount, due |-> f.due, payOn |-> IF row.decided \/ ~moved THEN row.payOn ELSE d])

LEMMA RewritingIs ==
  ASSUME NEW row \in PayoutRows, NEW cur \in PayoutRows, NEW f \in Figured, NEW d \in CalendarDays
  PROVE  LET new == Onto(Rewrites(row, f, d), cur)
         IN /\ new \in PayoutRows /\ (new.gone => cur.gone)
            /\ cur = row /\ f # NotOwed /\ row # NoPayout =>
                 /\ Tells(new, f)
                 /\ Tells(row, f) => new = row
                 /\ row.status = "paid" => new = row
                 /\ row.decided => new.payOn = row.payOn
<1> DEFINE reopen == row.status = "cancelled" /\ row.gone
           day == IF row.decided \/ row.due = f.due THEN row.payOn ELSE d
           small == [amount |-> f.amount, due |-> f.due, payOn |-> day]
           big == Onto([status |-> "open", gone |-> FALSE], small)
           same == row.amount = f.amount /\ row.due = f.due
           skip == ~(row.status \in Unpaid \/ reopen) \/ (same /\ ~reopen)
<1>1. /\ f.amount \in Owing /\ f.due \in CalendarDays /\ day \in CalendarDays
      /\ row.decided => day = row.payOn
  BY FiguresAre DEF PayoutRows
<1>2. CASE skip /\ Rewrites(row, f, d) = <<>>
  <2>1. Onto(Rewrites(row, f, d), cur) = cur
    BY <1>2, NothingSet
  <2>2. QED
    BY <1>2, <2>1 DEF Tells
<1>3. CASE ~reopen /\ ~skip /\ Rewrites(row, f, d) = small
  <2>1. row.status \in Unpaid /\ ~same
    BY <1>3
  <2>2. /\ Onto(small, cur) \in PayoutRows /\ Onto(small, cur).gone = cur.gone
        /\ Onto(small, cur).status = cur.status /\ Onto(small, cur).amount = f.amount
        /\ Onto(small, cur).due = f.due /\ Onto(small, cur).payOn = day
    BY <1>1 DEF Onto, PayoutRows
  <2> HIDE DEF small, day
  <2>3. QED
    BY <1>1, <1>3, <2>1, <2>2 DEF Tells, Unpaid, NoPayout
<1>4. CASE reopen /\ Rewrites(row, f, d) = big
  <2>1. /\ Onto(big, cur) \in PayoutRows /\ ~Onto(big, cur).gone
        /\ Onto(big, cur).status = "open" /\ Onto(big, cur).amount = f.amount
        /\ Onto(big, cur).due = f.due /\ Onto(big, cur).payOn = day
    BY <1>1 DEF Onto, PayoutRows, Unpaid
  <2> HIDE DEF big, day
  <2>2. QED
    BY <1>1, <1>4, <2>1 DEF Tells, Unpaid, NoPayout
<1>5. CASE skip
  BY <1>2, <1>5 DEF Rewrites
<1>6. CASE ~skip
  <2>1. Onto(<<>>, small) = small
    BY DEF Onto
  <2>2. Rewrites(row, f, d) = Onto(IF reopen THEN [status |-> "open", gone |-> FALSE] ELSE <<>>, small)
    BY <1>6 DEF Rewrites
  <2>3. QED
    BY <1>3, <1>4, <1>6, <2>1, <2>2
<1>7. QED
  BY <1>5, <1>6

(* The end of one that has left the register.                              *)
LEMMA RemovalIs ==
  ASSUME NEW row \in PayoutRows, NEW cur \in PayoutRows
  PROVE  LET new == Onto(IF row.status \notin Unpaid THEN <<>> ELSE [status |-> "cancelled", gone |-> TRUE], cur)
         IN /\ new \in PayoutRows
            /\ cur = row => /\ Tells(new, NotOwed)
                            /\ Tells(row, NotOwed) => new = row
                            /\ row.status = "paid" => new = row
                            /\ new.payOn = row.payOn
<1>1. CASE row.status \notin Unpaid
  BY <1>1, NothingSet DEF Tells
<1>2. CASE row.status \in Unpaid
  <2>1. Onto([status |-> "cancelled", gone |-> TRUE], cur) \in PayoutRows
    BY DEF Onto, PayoutRows
  <2>2. LET new == Onto([status |-> "cancelled", gone |-> TRUE], cur)
        IN new.status = "cancelled" /\ new.payOn = cur.payOn
    BY DEF Onto, PayoutRows
  <2>3. QED
    BY <1>2, <2>1, <2>2 DEF Tells, Unpaid
<1>3. QED
  BY <1>1, <1>2

(* A displaced row, moved.                                                 *)
LEMMA ReplanIs ==
  ASSUME NEW row \in PayoutRows, NEW cur \in PayoutRows, NEW day \in CalendarDays, NEW days \in SUBSET CalendarDays
  PROVE  LET new == Onto([payOn |-> Replanned(row, days)], cur)
         IN /\ new \in PayoutRows /\ new.gone = cur.gone
            /\ cur = row /\ Displaced(row, day, days) =>
                 /\ ~Displaced(new, day, days)
                 /\ \A f : Tells(row, f) => Tells(new, f)
<1> DEFINE t == Replanned(row, days)
           new == Onto([payOn |-> t], cur)
<1>1. row.payOn \in CalendarDays
  BY DEF PayoutRows
<1>2. t \in CalendarDays /\ DayFrom(t, days) = t
  BY <1>1, DayFromIs DEF Replanned
<1> HIDE DEF t
<1>3. /\ new \in PayoutRows /\ new.payOn = t /\ new.gone = cur.gone /\ new.status = cur.status
      /\ new.amount = cur.amount /\ new.due = cur.due
  BY <1>2 DEF Onto, PayoutRows
<1> HIDE DEF new
<1>4. ~Displaced(new, day, days)
  BY <1>2, <1>3 DEF Displaced, Replanned
<1>5. ASSUME cur = row, row.status \in Unpaid PROVE \A f : Tells(row, f) => Tells(new, f)
  BY <1>3, <1>5 DEF Tells, Unpaid, NoPayout
<1>6. QED
  BY <1>3, <1>4, <1>5 DEF Displaced, new, t

(* One statement of a sync, by what it leaves of the row it writes.        *)
LEMMA SetsIs ==
  ASSUME PayoutTypes, NEW s \in Openers, NEW p \in Payouts, NEW set, Sets(s, p, set),
         Onto(set, payout[p]) \in PayoutRows
  PROVE  /\ payout' \in [Payouts -> PayoutRows] /\ payout'[p] = Onto(set, payout[p])
         /\ \A q \in Payouts : q # p => payout'[q] = payout[q]
         /\ sync' \in [Openers -> Syncing] /\ \A o \in Openers : o # s => sync'[o] = sync[o]
         /\ sync'[s].at = sync[s].at /\ sync'[s].day = sync[s].day /\ sync'[s].days = sync[s].days
         /\ sync'[s].figures = sync[s].figures /\ sync'[s].rows = sync[s].rows
         /\ sync'[s].left = sync[s].left \ {p}
         /\ clean' \in [Openers -> BOOLEAN] /\ settled' \in BOOLEAN
         /\ \A o \in Openers : clean'[o] => clean[o] /\ (o = s \/ payout' = payout)
         /\ settled' => settled /\ payout' = payout
         /\ UNCHANGED <<businessDay, payDays, register, deciding>>
<1>1. payout' = [payout EXCEPT ![p] = Onto(set, payout[p])]
  BY DEF Sets
<1>2. sync' = [sync EXCEPT ![s].left = sync[s].left \ {p}]
  BY DEF Sets
<1>3. /\ payout' \in [Payouts -> PayoutRows] /\ payout'[p] = Onto(set, payout[p])
      /\ \A q \in Payouts : q # p => payout'[q] = payout[q]
  BY <1>1 DEF PayoutTypes
<1>4. PICK c : c = [sync[s] EXCEPT !.left = sync[s].left \ {p}]
  OBVIOUS
<1>5. /\ c \in Syncing /\ c.at = sync[s].at /\ c.day = sync[s].day /\ c.days = sync[s].days
      /\ c.figures = sync[s].figures /\ c.rows = sync[s].rows /\ c.left = sync[s].left \ {p}
  <2>1. sync[s] \in Syncing
    BY DEF PayoutTypes
  <2>2. QED
    BY <1>4, <2>1 DEF Syncing
<1>6. sync' = [sync EXCEPT ![s] = c]
  BY <1>2, <1>4
<1>7. sync' \in [Openers -> Syncing] /\ sync'[s] = c /\ \A o \in Openers : o # s => sync'[o] = sync[o]
  BY <1>5, <1>6 DEF PayoutTypes
<1>8. /\ clean' \in [Openers -> BOOLEAN] /\ settled' \in BOOLEAN
      /\ \A o \in Openers : clean'[o] => clean[o] /\ (o = s \/ payout' = payout)
      /\ settled' => settled /\ payout' = payout
      /\ UNCHANGED <<businessDay, payDays, register, deciding>>
  BY DEF Sets, PayoutTypes
<1>9. QED
  BY <1>3, <1>5, <1>7, <1>8

(* What the row must be for a clean sync to go on as it was.               *)
Proper(s, p, new) ==
  /\ new \in PayoutRows /\ (new.gone => payout[p].gone \/ p \in Purchases)
  /\ sync[s].at \in {"writing", "planning"} /\ p \in sync[s].left
  /\ Clean(s) /\ sync[s].at = "writing" => Tells(new, register[p])
  /\ Clean(s) /\ sync[s].at = "planning" =>
       /\ ~Displaced(new, businessDay, payDays)
       /\ p \in Purchases => Tells(new, register[p])

LEMMA SetsKeeps ==
  ASSUME PayoutInv, NEW s \in Openers, NEW p \in Payouts, NEW set, Sets(s, p, set),
         Proper(s, p, Onto(set, payout[p]))
  PROVE  PayoutInv'
<1> DEFINE new == Onto(set, payout[p])
<1>1. PayoutTypes /\ PlacesInv /\ GoneInv /\ CleanInv /\ SyncFollowsRegister
  BY DEF PayoutInv
<1>2. new \in PayoutRows /\ (new.gone => p \in Purchases)
  BY <1>1 DEF Proper, GoneInv
<1>3. /\ payout' \in [Payouts -> PayoutRows] /\ payout'[p] = new
      /\ \A q \in Payouts : q # p => payout'[q] = payout[q]
      /\ sync' \in [Openers -> Syncing] /\ \A o \in Openers : o # s => sync'[o] = sync[o]
      /\ sync'[s].at = sync[s].at /\ sync'[s].day = sync[s].day /\ sync'[s].days = sync[s].days
      /\ sync'[s].figures = sync[s].figures /\ sync'[s].rows = sync[s].rows
      /\ sync'[s].left = sync[s].left \ {p}
      /\ clean' \in [Openers -> BOOLEAN] /\ settled' \in BOOLEAN
      /\ \A o \in Openers : clean'[o] => clean[o] /\ (o = s \/ payout' = payout)
      /\ settled' => settled /\ payout' = payout
      /\ UNCHANGED <<businessDay, payDays, register, deciding>>
  BY <1>1, <1>2, SetsIs
<1>4. PayoutTypes'
  BY <1>1, <1>3 DEF PayoutTypes
<1>5. PlacesInv'
  <2>1. Placed(s) /\ sync[s].at # "idle"
    BY <1>1 DEF PlacesInv, Proper
  <2>2. Placed(s)'
    BY <1>3, <2>1 DEF Placed, NotSyncing
  <2>3. ASSUME NEW o \in Openers, o # s PROVE Placed(o)'
    <3>1. Placed(o) /\ sync'[o] = sync[o]
      BY <1>1, <1>3, <2>3 DEF PlacesInv
    <3>2. QED
      BY <3>1 DEF Placed
  <2>4. QED
    BY <2>2, <2>3 DEF PlacesInv
<1>6. GoneInv'
  BY <1>1, <1>2, <1>3 DEF GoneInv
<1>7. CleanInv'
  <2>1. ASSUME NEW o \in Openers, clean'[o], o # s PROVE Clean(o)'
    <3>1. Clean(o) /\ sync'[o] = sync[o] /\ payout' = payout
      BY <1>1, <1>3, <2>1 DEF CleanInv
    <3>2. QED
      BY <1>3, <3>1 DEF Clean, AllTold
  <2>2. ASSUME clean'[s] PROVE Clean(s)'
    <3>1. Clean(s)
      BY <1>1, <1>3, <2>2 DEF CleanInv
    <3>2. \A q \in Purchases : q \in Payouts
      BY DEF Payouts
    <3>3. CASE sync[s].at = "writing"
      <4>1. Tells(new, register[p])
        BY <3>1, <3>3 DEF Proper
      <4>2. \A q \in Purchases :
              IF q \in sync'[s].left THEN sync'[s].rows[q] = payout'[q] ELSE Tells(payout'[q], register[q])
        <5>1. ASSUME NEW q \in Purchases
              PROVE  IF q \in sync'[s].left THEN sync'[s].rows[q] = payout'[q] ELSE Tells(payout'[q], register[q])
          <6>1. IF q \in sync[s].left THEN sync[s].rows[q] = payout[q] ELSE Tells(payout[q], register[q])
            BY <3>1, <3>3 DEF Clean
          <6>2. CASE q = p
            BY <1>3, <4>1, <6>2
          <6>3. CASE q # p
            BY <1>3, <3>2, <6>1, <6>3
          <6>4. QED
            BY <6>2, <6>3
        <5>2. QED
          BY <5>1
      <4>3. QED
        BY <1>3, <3>1, <3>3, <4>2 DEF Clean
    <3>4. CASE sync[s].at = "planning"
      <4>1. ~Displaced(new, businessDay, payDays) /\ (p \in Purchases => Tells(new, register[p]))
        BY <3>1, <3>4 DEF Proper
      <4>2. AllTold'
        BY <1>3, <3>1, <3>2, <3>4, <4>1 DEF Clean, AllTold
      <4>3. \A q \in Payouts : IF q \in sync'[s].left
              THEN sync'[s].rows[q] = payout'[q] /\ Displaced(payout'[q], businessDay, payDays)
              ELSE ~Displaced(payout'[q], businessDay, payDays)
        BY <1>3, <3>1, <3>4, <4>1 DEF Clean
      <4>4. QED
        BY <1>3, <3>1, <3>4, <4>2, <4>3 DEF Clean
    <3>5. QED
      BY <3>3, <3>4 DEF Proper
  <2>3. QED
    BY <2>1, <2>2 DEF CleanInv
<1>8. SyncFollowsRegister'
  BY <1>1, <1>3 DEF SyncFollowsRegister, Follows, Displaced, Replanned
<1>9. QED
  BY <1>4, <1>5, <1>6, <1>7, <1>8 DEF PayoutInv

(* An insert, a rewrite, a removal and a replan each leave such a row; and *)
(* beside nobody, nothing that is paid, and no day that somebody chose, is *)
(* written over, nor anything that says already what it should.            *)
Harmless(s, p, new) ==
  Clean(s) =>
    /\ payout[p].status = "paid" => new = payout[p]
    /\ payout[p].decided => new.payOn = payout[p].payOn
    /\ Follows => new = payout[p]

LEMMA FollowsIs == Follows <=> AllTold /\ Planned
BY DEF Follows, AllTold, Planned, Tells

WritesRow(s, p) ==
  \E set : /\ Sets(s, p, set)
           /\ Proper(s, p, Onto(set, payout[p])) /\ Harmless(s, p, Onto(set, payout[p]))

LEMMA WritesAre ==
  ASSUME PayoutInv, NEW s \in Openers, NEW p \in Payouts,
         SyncInserts(s, p) \/ SyncRewrites(s, p) \/ SyncRemoves(s, p) \/ SyncReplans(s, p)
  PROVE  WritesRow(s, p)
<1>1. /\ payout[p] \in PayoutRows /\ (payout[p].gone => p \in Purchases) /\ sync[s] \in Syncing /\ Placed(s)
      /\ sync[s].day \in CalendarDays /\ sync[s].days \in SUBSET CalendarDays /\ sync[s].left \subseteq Payouts
  BY DEF PayoutInv, PayoutTypes, GoneInv, PlacesInv, Syncing
<1>2. CASE SyncInserts(s, p)
  <2> DEFINE f == sync[s].figures[p]
             set == IF payout[p] # NoPayout THEN <<>> ELSE
                      [amount |-> f.amount, due |-> f.due, status |-> "open",
                       payOn |-> PlannedPayOn(f.due, sync[s].day, sync[s].days)]
             new == Onto(set, payout[p])
  <2>1. /\ sync[s].at = "writing" /\ p \in sync[s].left /\ p \in Purchases /\ f # NotOwed
        /\ sync[s].rows[p] = NoPayout /\ Sets(s, p, set)
    BY <1>2 DEF SyncInserts, Owed
  <2>2. f \in Figured /\ PlannedPayOn(f.due, sync[s].day, sync[s].days) \in CalendarDays
    BY <1>1, <2>1, FiguresAre, PlannedIs DEF Placed
  <2>3. CASE payout[p] # NoPayout
    <3>1. new = payout[p]
      BY <1>1, <2>3, NothingSet
    <3>2. ~Clean(s)
      BY <2>1, <2>3 DEF Clean
    <3>3. QED
      BY <1>1, <2>1, <3>1, <3>2 DEF WritesRow, Proper, Harmless
  <2>4. CASE payout[p] = NoPayout
    <3>1. new \in PayoutRows /\ ~new.gone /\ Tells(new, f)
      BY <2>1, <2>2, <2>4, InsertIs
    <3>2. Clean(s) => register[p] = f
      BY <2>1 DEF Clean
    <3>3. Follows /\ Clean(s) => FALSE
      BY <2>1, <2>4, <3>2, FollowsIs DEF AllTold, Tells
    <3>4. payout[p].status # "paid" /\ ~payout[p].decided
      BY <2>4 DEF NoPayout
    <3> HIDE DEF new, f
    <3>5. Proper(s, p, new) /\ Harmless(s, p, new)
      BY <1>1, <2>1, <3>1, <3>2, <3>3, <3>4 DEF Proper, Harmless
    <3>6. QED
      BY <2>1, <3>5 DEF WritesRow, new
  <2>5. QED
    BY <2>3, <2>4
<1>3. CASE SyncRewrites(s, p)
  <2> DEFINE f == sync[s].figures[p]
             row == sync[s].rows[p]
             d == PlannedPayOn(f.due, sync[s].day, sync[s].days)
             new == Onto(Rewrites(row, f, d), payout[p])
  <2>1. /\ sync[s].at = "writing" /\ p \in sync[s].left /\ p \in Purchases /\ f # NotOwed
        /\ row # NoPayout /\ Sets(s, p, Rewrites(row, f, d))
    BY <1>3 DEF SyncRewrites, Owed, Rewrites
  <2>2. f \in Figured /\ row \in PayoutRows /\ d \in CalendarDays
    BY <1>1, <2>1, FiguresAre, PlannedIs DEF Placed
  <2>3. Clean(s) => row = payout[p] /\ register[p] = f
    BY <2>1 DEF Clean
  <2>4. Follows => Tells(payout[p], register[p])
    BY <2>1, FollowsIs DEF AllTold
  <2> HIDE DEF f, row, d
  <2>5. /\ new \in PayoutRows /\ (new.gone => payout[p].gone)
        /\ payout[p] = row /\ f # NotOwed /\ row # NoPayout =>
             /\ Tells(new, f)
             /\ Tells(row, f) => new = row
             /\ row.status = "paid" => new = row
             /\ row.decided => new.payOn = row.payOn
    BY <1>1, <2>2, RewritingIs
  <2> HIDE DEF new
  <2>6. Proper(s, p, new) /\ Harmless(s, p, new)
    BY <1>1, <2>1, <2>3, <2>4, <2>5 DEF Proper, Harmless
  <2>7. QED
    BY <2>1, <2>6 DEF WritesRow, new
<1>4. CASE SyncRemoves(s, p)
  <2> DEFINE row == sync[s].rows[p]
             set == IF row.status \notin Unpaid THEN <<>> ELSE [status |-> "cancelled", gone |-> TRUE]
             new == Onto(set, payout[p])
  <2>1. /\ sync[s].at = "writing" /\ p \in sync[s].left /\ p \in Purchases /\ p \notin Owed(s)
        /\ Sets(s, p, set)
    BY <1>1, <1>4 DEF SyncRemoves, Placed
  <2>2. row \in PayoutRows
    BY <1>1, <2>1 DEF Placed
  <2>3. Clean(s) => row = payout[p] /\ register[p] = NotOwed
    BY <2>1 DEF Clean, Owed
  <2>4. Follows => Tells(payout[p], register[p])
    BY <2>1, FollowsIs DEF AllTold
  <2> HIDE DEF row
  <2>5. /\ new \in PayoutRows
        /\ payout[p] = row => /\ Tells(new, NotOwed)
                              /\ Tells(row, NotOwed) => new = row
                              /\ row.status = "paid" => new = row
                              /\ new.payOn = row.payOn
    BY <1>1, <2>2, RemovalIs
  <2> HIDE DEF new
  <2>6. Proper(s, p, new) /\ Harmless(s, p, new)
    BY <1>1, <2>1, <2>3, <2>4, <2>5 DEF Proper, Harmless
  <2>7. QED
    BY <2>1, <2>6 DEF WritesRow, new
<1>5. CASE SyncReplans(s, p)
  <2> DEFINE row == sync[s].rows[p]
             set == [payOn |-> Replanned(row, sync[s].days)]
             new == Onto(set, payout[p])
  <2>1. sync[s].at = "planning" /\ p \in sync[s].left /\ Sets(s, p, set)
    BY <1>5 DEF SyncReplans
  <2>2. row \in PayoutRows
    BY <1>1, <2>1 DEF Placed
  <2>3. Clean(s) => /\ row = payout[p] /\ sync[s].day = businessDay /\ sync[s].days = payDays
                    /\ Displaced(payout[p], businessDay, payDays)
                    /\ p \in Purchases => Tells(payout[p], register[p])
    BY <2>1 DEF Clean, AllTold
  <2>4. Follows => ~Displaced(payout[p], businessDay, payDays)
    BY FollowsIs DEF Planned
  <2>5. Displaced(payout[p], businessDay, payDays) => payout[p].status # "paid" /\ ~payout[p].decided
    BY DEF Displaced, Unpaid
  <2> HIDE DEF row
  <2>6. /\ new \in PayoutRows /\ new.gone = payout[p].gone
        /\ payout[p] = row /\ Displaced(row, sync[s].day, sync[s].days) =>
             /\ ~Displaced(new, sync[s].day, sync[s].days)
             /\ \A f : Tells(row, f) => Tells(new, f)
    BY <1>1, <2>2, ReplanIs
  <2> HIDE DEF new
  <2>7. Proper(s, p, new) /\ Harmless(s, p, new)
    BY <1>1, <2>1, <2>3, <2>4, <2>5, <2>6 DEF Proper, Harmless
  <2>8. QED
    BY <2>1, <2>7 DEF WritesRow, new
<1>6. QED
  BY <1>2, <1>3, <1>4, <1>5

(* What anybody else does leaves no sync clean.                            *)
LEMMA DisturbedKeeps ==
  ASSUME PayoutInv, Disturbs, PayoutTypes', GoneInv', UNCHANGED sync
  PROVE  PayoutInv'
<1>1. PlacesInv'
  BY DEF PayoutInv, PlacesInv, Placed
<1>2. CleanInv'
  BY DEF Disturbs, CleanInv
<1>3. SyncFollowsRegister'
  BY DEF Disturbs, SyncFollowsRegister
<1>4. QED
  BY <1>1, <1>2, <1>3 DEF PayoutInv

LEMMA DisturbedTypes ==
  ASSUME PayoutTypes, Disturbs
  PROVE  clean' \in [Openers -> BOOLEAN] /\ settled' \in BOOLEAN
BY DEF Disturbs

(* A row set by somebody, or typed.                                        *)
LEMMA RowKeeps ==
  ASSUME PayoutInv, NEW p \in Payouts, NEW new \in PayoutRows, new.gone => p \in Purchases,
         payout' = [payout EXCEPT ![p] = new]
  PROVE  payout' \in [Payouts -> PayoutRows] /\ GoneInv'
<1>1. payout \in [Payouts -> PayoutRows]
  BY DEF PayoutInv, PayoutTypes
<1>2. \A q \in Payouts : payout'[q] = IF q = p THEN new ELSE payout[q]
  BY <1>1
<1>3. QED
  BY <1>1, <1>2 DEF PayoutInv, GoneInv

(* A person has read a row, and is going to set some of its columns.       *)
LEMMA DecidesKeeps ==
  ASSUME PayoutInv, NEW a \in Accounts, NEW p \in Payouts, NEW set \in Settings, Decides(a, p, set)
  PROVE  PayoutInv'
<1>1. deciding' = [deciding EXCEPT ![a] = [on |-> {p}, set |-> set]]
      /\ UNCHANGED <<businessDay, payDays, register, payout, sync, clean, settled, changes>>
  BY DEF Decides
<1>2. PayoutTypes'
  BY <1>1 DEF PayoutInv, PayoutTypes
<1>3. PlacesInv' /\ GoneInv' /\ CleanInv' /\ SyncFollowsRegister'
  BY <1>1 DEF PayoutInv, PlacesInv, Placed, GoneInv, CleanInv, Clean, AllTold, SyncFollowsRegister, Follows,
     Displaced, Replanned
<1>4. QED
  BY <1>2, <1>3 DEF PayoutInv

(* A sync goes on to its next place, and no payout changes.                *)
LEMMA MovesOn ==
  ASSUME PayoutInv, NEW s \in Openers, NEW c \in Syncing, sync' = [sync EXCEPT ![s] = c],
         UNCHANGED <<businessDay, payDays, register, payout, deciding>>, Placed(s)',
         clean' \in [Openers -> BOOLEAN], \A o \in Openers : o # s => clean'[o] = clean[o],
         clean'[s] => Clean(s)', settled' \in BOOLEAN, settled' => settled \/ Follows
  PROVE  PayoutInv'
<1>1. /\ sync' \in [Openers -> Syncing] /\ sync'[s] = c
      /\ \A o \in Openers : o # s => sync'[o] = sync[o]
  BY DEF PayoutInv, PayoutTypes
<1>2. PayoutTypes'
  BY <1>1 DEF PayoutInv, PayoutTypes
<1>3. PlacesInv'
  <2>1. ASSUME NEW o \in Openers, o # s PROVE Placed(o)'
    BY <1>1, <2>1 DEF PayoutInv, PlacesInv, Placed
  <2>2. QED
    BY <2>1 DEF PlacesInv
<1>4. GoneInv'
  BY DEF PayoutInv, GoneInv
<1>5. CleanInv'
  <2>1. ASSUME NEW o \in Openers, o # s, clean'[o] PROVE Clean(o)'
    <3>1. Clean(o) /\ sync'[o] = sync[o]
      BY <1>1, <2>1 DEF PayoutInv, CleanInv
    <3>2. QED
      BY <3>1 DEF Clean, AllTold
  <2>2. QED
    BY <2>1 DEF CleanInv
<1>6. SyncFollowsRegister'
  BY DEF PayoutInv, SyncFollowsRegister, Follows, Displaced, Replanned
<1>7. QED
  BY <1>2, <1>3, <1>4, <1>5, <1>6 DEF PayoutInv

(* A sync reads the register, the payouts, the payouts again, and ends.    *)
LEMMA SyncMovesKeep ==
  ASSUME PayoutInv, NEW s \in Openers,
         SyncReadsRegister(s) \/ SyncReadsPayouts(s) \/ SyncReadsPlans(s) \/ SyncEnds(s)
  PROVE  PayoutInv'
<1>1. /\ PayoutTypes /\ Placed(s) /\ sync[s] \in Syncing /\ (clean[s] => Clean(s))
      /\ \A p \in Purchases : p \in Payouts
      /\ clean \in [Openers -> BOOLEAN] /\ settled \in BOOLEAN
  BY DEF PayoutInv, PayoutTypes, PlacesInv, CleanInv, Payouts
<1>2. NotSyncing \in Syncing
  BY FiguresAre DEF NotSyncing, Syncing
<1>3. CASE SyncReadsRegister(s)
  <2>1. PICK c : c = [NotSyncing EXCEPT !.at = "reading", !.day = businessDay,
                                        !.days = payDays, !.figures = register]
    OBVIOUS
  <2>2. c \in Syncing /\ c.at = "reading" /\ c.day = businessDay /\ c.days = payDays /\ c.figures = register
    BY <1>1, <1>2, <2>1 DEF PayoutTypes, Syncing, NotSyncing
  <2>3. /\ sync' = [sync EXCEPT ![s] = c] /\ clean' = [clean EXCEPT ![s] = TRUE] /\ settled' = settled
        /\ UNCHANGED <<businessDay, payDays, register, payout, deciding>>
    BY <1>3, <2>1 DEF SyncReadsRegister
  <2>4. sync'[s] = c
    BY <2>3, <1>1 DEF PayoutTypes
  <2>5. Placed(s)' /\ Clean(s)'
    BY <1>1, <2>2, <2>3, <2>4 DEF Placed, Clean, NotSyncing, PayoutTypes
  <2>6. clean' \in [Openers -> BOOLEAN] /\ \A o \in Openers : o # s => clean'[o] = clean[o]
    BY <1>1, <2>3
  <2>7. QED
    BY <1>1, <2>2, <2>3, <2>5, <2>6, MovesOn
<1>4. CASE SyncReadsPayouts(s)
  <2>1. PICK c : c = [sync[s] EXCEPT !.at = "writing", !.left = Purchases, !.rows = [p \in Purchases |-> payout[p]]]
    OBVIOUS
  <2>2. [p \in Purchases |-> payout[p]] \in [Purchases -> PayoutRows] /\ Purchases \in SUBSET Payouts
    BY <1>1 DEF PayoutTypes
  <2>3. /\ c \in Syncing /\ c.at = "writing" /\ c.left = Purchases /\ c.rows = [p \in Purchases |-> payout[p]]
        /\ c.day = sync[s].day /\ c.days = sync[s].days /\ c.figures = sync[s].figures
    BY <1>1, <2>1, <2>2 DEF Syncing
  <2>4. /\ sync[s].at = "reading" /\ sync' = [sync EXCEPT ![s] = c] /\ clean' = clean /\ settled' = settled
        /\ UNCHANGED <<businessDay, payDays, register, payout, deciding>>
    BY <1>4, <2>1 DEF SyncReadsPayouts
  <2>5. sync'[s] = c
    BY <2>4, <1>1 DEF PayoutTypes
  <2>6. Placed(s)'
    BY <1>1, <2>2, <2>3, <2>4, <2>5 DEF Placed, NotSyncing
  <2>7. clean'[s] => Clean(s)'
    BY <1>1, <2>3, <2>4, <2>5 DEF Clean
  <2>8. QED
    BY <1>1, <2>3, <2>4, <2>6, <2>7, MovesOn
<1>5. CASE SyncReadsPlans(s)
  <2> DEFINE off == {p \in Payouts : Displaced(payout[p], sync[s].day, sync[s].days)}
  <2>1. PICK c : c = [sync[s] EXCEPT !.at = "planning", !.rows = payout, !.left = off]
    OBVIOUS
  <2>2. /\ c \in Syncing /\ c.at = "planning" /\ c.left = off /\ c.rows = payout
        /\ c.day = sync[s].day /\ c.days = sync[s].days /\ c.figures = sync[s].figures
    <3>1. off \in SUBSET Payouts /\ payout \in [Payouts -> PayoutRows]
      BY <1>1 DEF PayoutTypes
    <3> HIDE DEF off
    <3>2. QED
      BY <1>1, <2>1, <3>1 DEF Syncing
  <2>3. /\ sync[s].at = "writing" /\ sync[s].left = {}
        /\ sync' = [sync EXCEPT ![s] = c] /\ clean' = clean /\ settled' = settled
        /\ UNCHANGED <<businessDay, payDays, register, payout, deciding>>
    BY <1>5, <2>1 DEF SyncReadsPlans
  <2>4. sync'[s] = c
    BY <2>3, <1>1 DEF PayoutTypes
  <2>5. Placed(s)'
    BY <1>1, <2>2, <2>3, <2>4 DEF Placed, NotSyncing, PayoutTypes
  <2>6. ASSUME clean'[s] PROVE Clean(s)'
    <3>1. Clean(s) /\ AllTold
      BY <1>1, <2>3, <2>6 DEF Clean, AllTold
    <3>2. \A p \in Payouts : p \in off <=> Displaced(payout[p], businessDay, payDays)
      BY <3>1 DEF Clean
    <3> HIDE DEF off
    <3>3. \A p \in Payouts : IF p \in c.left
            THEN c.rows[p] = payout[p] /\ Displaced(payout[p], businessDay, payDays)
            ELSE ~Displaced(payout[p], businessDay, payDays)
      BY <2>2, <3>2
    <3>4. QED
      BY <2>2, <2>3, <2>4, <3>1, <3>3 DEF Clean, AllTold, Displaced, Replanned
  <2>7. QED
    BY <1>1, <2>2, <2>3, <2>5, <2>6, MovesOn
<1>6. CASE SyncEnds(s)
  <2>1. /\ sync[s].at = "planning" /\ sync[s].left = {}
        /\ sync' = [sync EXCEPT ![s] = NotSyncing] /\ clean' = [clean EXCEPT ![s] = FALSE]
        /\ settled' = (settled \/ clean[s])
        /\ UNCHANGED <<businessDay, payDays, register, payout, deciding>>
    BY <1>6 DEF SyncEnds
  <2>2. sync'[s] = NotSyncing
    BY <1>1, <2>1 DEF PayoutTypes
  <2>3. Placed(s)'
    BY <2>2 DEF Placed, NotSyncing
  <2>4. clean' \in [Openers -> BOOLEAN] /\ ~clean'[s] /\ \A o \in Openers : o # s => clean'[o] = clean[o]
    BY <1>1, <2>1
  <2>5. clean[s] => Follows
    BY <1>1, <2>1, FollowsIs DEF Clean, Planned
  <2>6. settled' \in BOOLEAN /\ (settled' => settled \/ Follows)
    BY <1>1, <2>1, <2>5
  <2>7. QED
    BY <1>2, <2>1, <2>3, <2>4, <2>6, MovesOn
<1>7. QED
  BY <1>3, <1>4, <1>5, <1>6

LEMMA PayoutInitInv == PayoutInit => PayoutInv
<1> SUFFICES ASSUME PayoutInit PROVE PayoutInv
  OBVIOUS
<1>1. NoPayout \in PayoutRows /\ ~NoPayout.gone /\ NotSyncing \in Syncing /\ NotOwed \in Figured /\ 0 \in CalendarDays
  BY FiguresAre, NoPayoutIs DEF NotSyncing, Syncing
<1>2. payDays \in SUBSET CalendarDays
  BY PayoutAssumption DEF PayoutInit, CalendarDays
<1>3. PayoutTypes
  BY <1>1, <1>2 DEF PayoutInit, PayoutTypes, NotDeciding
<1>4. PlacesInv
  BY DEF PayoutInit, PlacesInv, Placed, NotSyncing
<1>5. GoneInv /\ CleanInv /\ SyncFollowsRegister
  BY <1>1 DEF PayoutInit, GoneInv, CleanInv, SyncFollowsRegister
<1>6. QED
  BY <1>3, <1>4, <1>5 DEF PayoutInv

(* The steps of the world.                                                 *)
LEMMA WorldKeeps ==
  ASSUME PayoutInv, (\E p \in Purchases : RegisterChanges(p)) \/ Reconfigure \/ DayPasses
  PROVE  PayoutInv'
<1>1. Disturbs /\ UNCHANGED <<payout, sync, deciding>>
  BY DEF RegisterChanges, Reconfigure, DayPasses
<1>2. PayoutTypes
  BY DEF PayoutInv
<1>3. register' \in [Purchases -> Figured]
  BY <1>2, FiguresAre DEF RegisterChanges, Reconfigure, DayPasses, PayoutTypes, Figured
<1>4. businessDay' \in CalendarDays
  BY <1>2, PayoutAssumption DEF RegisterChanges, Reconfigure, DayPasses, PayoutTypes, CalendarDays
<1>5. payDays' \in SUBSET CalendarDays
  BY <1>2, PayoutAssumption DEF RegisterChanges, Reconfigure, DayPasses, PayoutTypes, CalendarDays
<1>6. PayoutTypes'
  BY <1>1, <1>2, <1>3, <1>4, <1>5, DisturbedTypes DEF PayoutTypes
<1>7. GoneInv'
  BY <1>1 DEF PayoutInv, GoneInv
<1>8. QED
  BY <1>1, <1>6, <1>7, DisturbedKeeps

(* What a person decides is one of the settings.                           *)
LEMMA DecidingKeeps ==
  ASSUME PayoutInv, NEW a \in Accounts, NEW p \in Payouts,
         \/ HoldPayout(a, p) \/ ReleasePayout(a, p) \/ MarkPayoutPaid(a, p)
         \/ ReopenPayout(a, p) \/ CancelPayout(a, p)
         \/ \E day \in CalendarDays : Reschedule(a, p, day)
  PROVE  PayoutInv'
<1>1. payout[p] \in PayoutRows /\ businessDay \in CalendarDays /\ payDays \in SUBSET CalendarDays
  BY DEF PayoutInv, PayoutTypes
<1>2. payout[p].amount \in Owing /\ payout[p].payOn \in CalendarDays
      /\ PlannedPayOn(businessDay, businessDay, payDays) \in CalendarDays
  BY <1>1, PlannedIs DEF PayoutRows
<1>3. CASE HoldPayout(a, p)
  <2>1. [status |-> "on_hold"] \in Settings
    BY DEF Settings
  <2>2. QED
    BY <1>3, <2>1, DecidesKeeps DEF HoldPayout
<1>4. CASE ReleasePayout(a, p)
  <2>1. [status |-> "open"] \in Settings
    BY DEF Settings
  <2>2. QED
    BY <1>4, <2>1, DecidesKeeps DEF ReleasePayout
<1>5. CASE MarkPayoutPaid(a, p)
  <2>1. [status |-> "paid", paid |-> payout[p].amount] \in Settings
    BY <1>2 DEF Settings
  <2>2. QED
    BY <1>5, <2>1, DecidesKeeps DEF MarkPayoutPaid
<1>6. CASE ReopenPayout(a, p)
  <2> DEFINE day == IF payout[p].payOn < businessDay
                    THEN PlannedPayOn(businessDay, businessDay, payDays) ELSE payout[p].payOn
  <2>1. day \in CalendarDays
    BY <1>2
  <2>2. Decides(a, p, [status |-> "open", paid |-> NotPaid, payOn |-> day])
    BY <1>6 DEF ReopenPayout
  <2> HIDE DEF day
  <2>3. [status |-> "open", paid |-> NotPaid, payOn |-> day] \in Settings
    BY <2>1 DEF Settings
  <2>4. QED
    BY <2>2, <2>3, DecidesKeeps
<1>7. CASE CancelPayout(a, p)
  <2>1. [status |-> "cancelled"] \in Settings
    BY DEF Settings
  <2>2. QED
    BY <1>7, <2>1, DecidesKeeps DEF CancelPayout
<1>8. ASSUME NEW day \in CalendarDays, Reschedule(a, p, day) PROVE PayoutInv'
  <2>1. [payOn |-> day, decided |-> TRUE] \in Settings
    BY DEF Settings
  <2>2. QED
    BY <1>8, <2>1, DecidesKeeps DEF Reschedule
<1>9. QED
  BY <1>3, <1>4, <1>5, <1>6, <1>7, <1>8

LEMMA CommitKeeps ==
  ASSUME PayoutInv, NEW a \in Accounts, CommitSet(a)
  PROVE  PayoutInv'
<1>1. PICK p \in deciding[a].on : payout' = [payout EXCEPT ![p] = Onto(deciding[a].set, payout[p])]
  BY DEF CommitSet
<1>2. /\ PayoutTypes /\ p \in Payouts /\ payout[p] \in PayoutRows /\ deciding[a].set \in Settings \union {<<>>}
      /\ payout[p].gone => p \in Purchases
  BY DEF PayoutInv, PayoutTypes, GoneInv
<1>3. Disturbs /\ deciding' = [deciding EXCEPT ![a] = NotDeciding] /\ UNCHANGED <<businessDay, payDays, register, sync>>
  BY DEF CommitSet
<1>4. Onto(deciding[a].set, payout[p]) \in PayoutRows /\ Onto(deciding[a].set, payout[p]).gone = payout[p].gone
  BY <1>2, SettingIs, NothingSet
<1>5. payout' \in [Payouts -> PayoutRows] /\ GoneInv'
  BY <1>1, <1>2, <1>4, RowKeeps
<1>6. deciding' \in [Accounts -> [on : SUBSET Payouts, set : Settings \union {<<>>}]]
  BY <1>2, <1>3 DEF PayoutTypes, NotDeciding
<1>7. PayoutTypes'
  BY <1>2, <1>3, <1>5, <1>6, DisturbedTypes DEF PayoutTypes
<1>8. QED
  BY <1>3, <1>5, <1>7, DisturbedKeeps

LEMMA TypedKeeps ==
  ASSUME PayoutInv, NEW p \in Manuals, CreateManual(p)
  PROVE  PayoutInv'
<1>1. PICK f \in Figures, day \in {d \in payDays : d >= businessDay} \union {NotPaid} :
        payout' = [payout EXCEPT ![p] = Onto(
          [amount |-> f.amount, due |-> f.due, status |-> "open", decided |-> day # NotPaid,
           payOn |-> IF day # NotPaid THEN day ELSE PlannedPayOn(f.due, businessDay, payDays)], payout[p])]
  BY DEF CreateManual
<1> DEFINE on == IF day # NotPaid THEN day ELSE PlannedPayOn(f.due, businessDay, payDays)
           chosen == day # NotPaid
<1>2. /\ PayoutTypes /\ p \in Payouts /\ payout[p] = NoPayout
      /\ payDays \in SUBSET CalendarDays /\ businessDay \in CalendarDays
  BY DEF CreateManual, Payouts, PayoutInv, PayoutTypes
<1>3. f.amount \in Owing /\ f.due \in CalendarDays /\ f \in Figured
  BY FiguresAre
<1>4. on \in CalendarDays /\ chosen \in BOOLEAN
  BY <1>2, <1>3, PlannedIs
<1>5. Disturbs /\ UNCHANGED <<businessDay, payDays, register, sync, deciding>>
  BY DEF CreateManual
<1> DEFINE new == Onto([amount |-> f.amount, due |-> f.due, status |-> "open", decided |-> chosen, payOn |-> on],
                       NoPayout)
<1>6. payout' = [payout EXCEPT ![p] = new]
  BY <1>1, <1>2
<1> HIDE DEF on, chosen
<1>7. new \in PayoutRows /\ ~new.gone
  BY <1>3, <1>4, NoPayoutIs DEF Onto, PayoutRows, NoPayout, Unpaid
<1> HIDE DEF new
<1>8. payout' \in [Payouts -> PayoutRows] /\ GoneInv'
  BY <1>2, <1>6, <1>7, RowKeeps
<1>9. PayoutTypes'
  BY <1>2, <1>5, <1>8, DisturbedTypes DEF PayoutTypes
<1>10. QED
  BY <1>5, <1>8, <1>9, DisturbedKeeps

LEMMA PayoutStepInv == PayoutInv /\ [PayoutNext]_payoutVars => PayoutInv'
<1> SUFFICES ASSUME PayoutInv, [PayoutNext]_payoutVars PROVE PayoutInv'
  OBVIOUS
<1>1. CASE (\E p \in Purchases : RegisterChanges(p)) \/ Reconfigure \/ DayPasses
  BY <1>1, WorldKeeps
<1>2. ASSUME NEW s \in Openers, SyncStep(s) PROVE PayoutInv'
  <2>1. CASE SyncReadsRegister(s) \/ SyncReadsPayouts(s) \/ SyncReadsPlans(s) \/ SyncEnds(s)
    BY <2>1, SyncMovesKeep
  <2>2. ASSUME NEW p \in Payouts,
               SyncInserts(s, p) \/ SyncRewrites(s, p) \/ SyncRemoves(s, p) \/ SyncReplans(s, p)
        PROVE  PayoutInv'
    <3>1. PICK set : Sets(s, p, set) /\ Proper(s, p, Onto(set, payout[p]))
      BY <2>2, WritesAre DEF WritesRow
    <3>2. QED
      BY <3>1, SetsKeeps
  <2>3. QED
    BY <1>2, <2>1, <2>2 DEF SyncStep
<1>3. ASSUME NEW a \in Accounts, NEW p \in Payouts,
             \/ HoldPayout(a, p) \/ ReleasePayout(a, p) \/ MarkPayoutPaid(a, p)
             \/ ReopenPayout(a, p) \/ CancelPayout(a, p)
             \/ \E day \in CalendarDays : Reschedule(a, p, day)
      PROVE  PayoutInv'
  BY <1>3, DecidingKeeps
<1>4. ASSUME NEW a \in Accounts, CommitSet(a) PROVE PayoutInv'
  BY <1>4, CommitKeeps
<1>5. ASSUME NEW p \in Manuals, CreateManual(p) PROVE PayoutInv'
  BY <1>5, TypedKeeps
<1>6. CASE UNCHANGED payoutVars
  BY <1>6 DEF payoutVars, PayoutInv, PayoutTypes, PlacesInv, Placed, GoneInv, CleanInv, Clean, AllTold,
     SyncFollowsRegister, Follows, Displaced, Replanned
<1>7. QED
  BY <1>1, <1>2, <1>3, <1>4, <1>5, <1>6 DEF PayoutNext

(* Of a step that changes where a sync is, it is the sync's own.           *)
LEMMA OwnStep ==
  ASSUME PayoutTypes, [PayoutNext]_payoutVars, NEW s \in Openers, sync'[s] # sync[s]
  PROVE  \/ UNCHANGED payout
         \/ \E p \in Payouts : SyncInserts(s, p) \/ SyncRewrites(s, p) \/ SyncRemoves(s, p) \/ SyncReplans(s, p)
<1>1. sync' # sync /\ sync \in [Openers -> Syncing]
  BY DEF PayoutTypes
<1>2. ASSUME NEW o \in Openers, NEW c, sync' = [sync EXCEPT ![o] = c] PROVE o = s
  BY <1>1, <1>2
<1>3. PICK o \in Openers : SyncStep(o)
  <2>1. \A a \in Accounts, p \in Payouts :
          HoldPayout(a, p) \/ ReleasePayout(a, p) \/ MarkPayoutPaid(a, p) \/ ReopenPayout(a, p) \/ CancelPayout(a, p)
            \/ (\E day \in CalendarDays : Reschedule(a, p, day)) => sync' = sync
    BY DEF HoldPayout, ReleasePayout, MarkPayoutPaid, ReopenPayout, CancelPayout, Reschedule, Decides
  <2>2. QED
    BY <1>1, <2>1 DEF PayoutNext, payoutVars, RegisterChanges, Reconfigure, DayPasses, CommitSet, CreateManual
<1>4. CASE SyncReadsRegister(o) \/ SyncReadsPayouts(o) \/ SyncReadsPlans(o) \/ SyncEnds(o)
  BY <1>4 DEF SyncReadsRegister, SyncReadsPayouts, SyncReadsPlans, SyncEnds
<1>5. ASSUME NEW p \in Payouts, SyncInserts(o, p) \/ SyncRewrites(o, p) \/ SyncRemoves(o, p) \/ SyncReplans(o, p)
      PROVE  o = s
  <2>1. sync' = [sync EXCEPT ![o].left = sync[o].left \ {p}]
    BY <1>5 DEF SyncInserts, SyncRewrites, SyncRemoves, SyncReplans, Sets
  <2>2. QED
    BY <1>1, <2>1
<1>6. QED
  BY <1>3, <1>4, <1>5 DEF SyncStep

(* A clean sync's step leaves alone what it should.                        *)
LEMMA PayoutStepsAre ==
  ASSUME PayoutInv, [PayoutNext]_payoutVars, NEW s \in Openers, clean[s], sync'[s] # sync[s]
  PROVE  /\ settled => payout' = payout
         /\ \A p \in Payouts : /\ payout[p].status = "paid" => payout'[p] = payout[p]
                               /\ payout[p].decided => payout'[p].payOn = payout[p].payOn
<1>1. PayoutTypes /\ Clean(s) /\ (settled => Follows)
  BY DEF PayoutInv, CleanInv, SyncFollowsRegister
<1>2. ASSUME NEW p \in Payouts, SyncInserts(s, p) \/ SyncRewrites(s, p) \/ SyncRemoves(s, p) \/ SyncReplans(s, p)
      PROVE  /\ settled => payout' = payout
             /\ \A q \in Payouts : /\ payout[q].status = "paid" => payout'[q] = payout[q]
                                   /\ payout[q].decided => payout'[q].payOn = payout[q].payOn
  <2>1. PICK set : Sets(s, p, set) /\ Onto(set, payout[p]) \in PayoutRows /\ Harmless(s, p, Onto(set, payout[p]))
    BY <1>2, WritesAre DEF WritesRow, Proper
  <2>2. /\ payout' \in [Payouts -> PayoutRows] /\ payout'[p] = Onto(set, payout[p])
        /\ \A q \in Payouts : q # p => payout'[q] = payout[q]
    BY <1>1, <2>1, SetsIs
  <2>3. ASSUME settled PROVE payout' = payout
    <3>1. \A q \in Payouts : payout'[q] = payout[q]
      BY <1>1, <2>1, <2>2, <2>3 DEF Harmless
    <3>2. payout \in [Payouts -> PayoutRows]
      BY <1>1 DEF PayoutTypes
    <3>3. QED
      BY <2>2, <3>1, <3>2
  <2>4. QED
    BY <1>1, <2>1, <2>2, <2>3 DEF Harmless
<1>3. QED
  BY <1>1, <1>2, OwnStep

(* The invariant of the payouts, whoever syncs and decides when.           *)
THEOREM PayoutInvariance == PayoutSpec => []PayoutInv
<1>1. PayoutInit => PayoutInv
  BY PayoutInitInv
<1>2. PayoutInv /\ [PayoutNext]_payoutVars => PayoutInv'
  BY PayoutStepInv
<1>3. QED
  BY <1>1, <1>2, PTL DEF PayoutSpec

(* Payouts, and where each sync of vendor-payout-service.ts is, are of     *)
(* their types.                                                            *)
THEOREM PayoutTypeCorrect == PayoutSpec => []PayoutTypeOK
<1>1. PayoutInv => PayoutTypeOK
  BY DEF PayoutInv, PayoutTypes, PlacesInv, Placed, GoneInv, PayoutTypeOK, PayoutRows, Owing
<1>2. QED
  BY <1>1, PayoutInvariance, PTL

(* `syncPurchasePayouts`, where nobody writes beside it, leaves the        *)
(* payouts as the register and the payment days have them, writes nothing  *)
(* a second time, and touches neither what is paid nor a chosen day.       *)
THEOREM PayoutsAreKept == PayoutSpec => PayoutsFollowRegister
<1>1. PayoutInv => SyncFollowsRegister
  BY DEF PayoutInv
<1>2. PayoutInv /\ [PayoutNext]_payoutVars =>
        [\A s \in Openers : settled /\ clean[s] /\ sync'[s] # sync[s] => payout' = payout]_payoutVars
  BY PayoutStepsAre
<1>3. PayoutInv /\ [PayoutNext]_payoutVars =>
        [\A s \in Openers, p \in Payouts : clean[s] /\ sync'[s] # sync[s] =>
           /\ payout[p].status = "paid" => payout'[p] = payout[p]
           /\ payout[p].decided => payout'[p].payOn = payout[p].payOn]_payoutVars
  BY PayoutStepsAre
<1>4. QED
  BY <1>1, <1>2, <1>3, PayoutInvariance, PTL
     DEF PayoutSpec, PayoutsFollowRegister, SyncAgainWritesNothing, SyncKeepsHandsOff
-----------------------------------------------------------------------------
(***************************************************************************)
(* The office of MCOffice: the parts side by side, one of them moving.     *)
(* Each part is still itself there, so that whatever was proved of it      *)
(* alone is so of the whole (PartsStayThemselves).                         *)
(***************************************************************************)

(* A request at work on a key is at work on one that is held.              *)
PoolShape ==
  /\ PoolTypes
  /\ \A r \in MapRequests : call[r].phase \in {"asking", "refused", "retiring"} => call[r].key \in Keys

(* No request is at work at first.                                         *)
LEMMA PoolInitShape == PoolInit => PoolShape
BY PoolInitInv DEF PoolInit, PoolInv, PoolShape, NoCall

(* A request that goes on to something else.                               *)
LEMMA ShapeMoves ==
  ASSUME PoolShape, NEW r \in MapRequests, NEW c \in Call, call' = [call EXCEPT ![r] = c],
         c.phase \in {"asking", "refused", "retiring"} => c.key \in Keys,
         hour' \in 0 .. MaxHours, health' \in [Keys -> Spend], refusedAt' \in [Keys -> Nat],
         announced' \in [Keys -> [Months -> Nat]]
  PROVE  PoolShape'
<1>1. call' \in [MapRequests -> Call] /\ call'[r] = c /\ \A q \in MapRequests : q # r => call'[q] = call[q]
  BY OneCall DEF PoolShape
<1>2. QED
  BY <1>1 DEF PoolShape, PoolTypes

(* Past a key, written down or not.                                        *)
LEMMA GoesOnShaped ==
  ASSUME PoolTypes, NEW r \in MapRequests
  PROVE  Onwards(r) \in Call /\ Onwards(r).phase \in {"gaveUp", "choosing"}
<1>1. PICK left : left = call[r].remaining \ {call[r].key}
  OBVIOUS
<1>2. PICK c : c = [call[r] EXCEPT !.remaining = left, !.key = 0, !.prior = Untried,
                                   !.phase = IF left = {} THEN "gaveUp" ELSE "choosing"]
  OBVIOUS
<1>3. Onwards(r) = c
  BY <1>1, <1>2 DEF Onwards
<1>4. call[r] \in Call /\ Untried \in Spend /\ 0 \in 0 .. KeyCount
  BY Numbers, PoolAssumption DEF Untried, Spend, Never
<1>5. c \in Call /\ c.phase \in {"gaveUp", "choosing"}
  BY <1>1, <1>2, <1>4 DEF Call
<1>6. QED
  BY <1>3, <1>5

(* However refusals fall together and whatever months a request spans.     *)
LEMMA PoolStepShape == PoolShape /\ [PoolNext]_poolVars => PoolShape'
<1> SUFFICES ASSUME PoolShape, [PoolNext]_poolVars PROVE PoolShape'
  OBVIOUS
<1>0. PoolTypes
  BY DEF PoolShape
<1>1. CASE UNCHANGED poolVars
  BY <1>1 DEF poolVars, PoolShape, PoolTypes
<1>2. CASE HourPasses
  <2>1. hour' \in 0 .. MaxHours /\ UNCHANGED <<health, call, refusedAt, announced>>
    BY <1>0, <1>2, PoolAssumption DEF HourPasses, PoolTypes
  <2>2. QED
    BY <2>1 DEF PoolShape, PoolTypes
<1>3. ASSUME NEW r \in MapRequests, Begin(r) PROVE PoolShape'
  <2>1. PICK c : c = [NoCall EXCEPT !.phase = "choosing", !.began = hour, !.remaining = Keys]
    OBVIOUS
  <2>2. call' = [call EXCEPT ![r] = c] /\ UNCHANGED <<hour, health, refusedAt, announced>>
    BY <1>3, <2>1 DEF Begin
  <2>3. c = [phase |-> "choosing", began |-> hour, remaining |-> Keys, key |-> 0, prior |-> Untried]
    BY <2>1 DEF NoCall
  <2>4. c \in Call
    BY <1>0, <2>3, Numbers, PoolAssumption DEF Call, PoolTypes, Untried, Spend, Never
  <2>5. QED
    BY <1>0, <2>2, <2>3, <2>4, ShapeMoves DEF PoolTypes
<1>4. ASSUME NEW r \in MapRequests, AnsweredOrFailed(r) PROVE PoolShape'
  <2>1. call' = [call EXCEPT ![r] = NoCall] /\ UNCHANGED <<hour, health, refusedAt, announced>>
    BY <1>4 DEF AnsweredOrFailed
  <2>2. NoCall \in Call /\ NoCall.phase = "idle"
    BY <1>0, Numbers, PoolAssumption DEF NoCall, Call, Spend, Untried, Never
  <2>3. QED
    BY <1>0, <2>1, <2>2, ShapeMoves DEF PoolTypes
<1>5. ASSUME NEW r \in MapRequests, Choose(r) PROVE PoolShape'
  <2>0. call[r] \in Call
    BY <1>0 DEF PoolTypes
  <2>1. PICK able : able = {k \in call[r].remaining : Available(health[k], call[r].began)}
    OBVIOUS
  <2>2. /\ UNCHANGED <<hour, health, refusedAt, announced>>
        /\ call' = IF able = {} THEN [call EXCEPT ![r].phase = "gaveUp"]
                    ELSE [call EXCEPT ![r].phase = "asking", ![r].key = CHOOSE k \in able : \A j \in able : k <= j]
    BY <1>5, <2>1 DEF Choose
  <2>3. CASE able = {}
    <3>1. PICK c : c = [call[r] EXCEPT !.phase = "gaveUp"]
      OBVIOUS
    <3>2. call' = [call EXCEPT ![r] = c]
      BY <1>0, <2>2, <2>3, <3>1 DEF PoolTypes
    <3>3. c \in Call /\ c.phase = "gaveUp"
      BY <2>0, <3>1 DEF Call
    <3>4. QED
      BY <1>0, <2>2, <3>2, <3>3, ShapeMoves DEF PoolTypes
  <2>4. CASE able # {}
    <3>1. PICK first : first = CHOOSE k \in able : \A j \in able : k <= j
      OBVIOUS
    <3>2. able \subseteq Keys /\ Keys \subseteq Nat
      BY <2>0, <2>1 DEF Call, Keys
    <3>3. first \in able
      BY <2>4, <3>1, <3>2, Earliest
    <3>4. first \in Keys /\ first \in 0 .. KeyCount
      BY <3>2, <3>3 DEF Keys
    <3>5. PICK c : c = [call[r] EXCEPT !.phase = "asking", !.key = first]
      OBVIOUS
    <3>6. call' = [call EXCEPT ![r].phase = "asking", ![r].key = first]
      BY <2>2, <2>4, <3>1
    <3>7. call' = [call EXCEPT ![r] = c]
      BY <1>0, <3>5, <3>6 DEF PoolTypes, Call
    <3>8. c \in Call /\ c.key \in Keys
      BY <2>0, <3>4, <3>5 DEF Call
    <3>9. QED
      BY <1>0, <2>2, <3>7, <3>8, ShapeMoves DEF PoolTypes
  <2>5. QED
    BY <2>3, <2>4
<1>6. ASSUME NEW r \in MapRequests, Refused(r) PROVE PoolShape'
  <2>1. call[r] \in Call /\ call[r].key \in Keys /\ UNCHANGED <<hour, health, announced>>
    BY <1>0, <1>6 DEF Refused, PoolShape, PoolTypes
  <2>2. refusedAt' \in [Keys -> Nat]
    BY <1>0, <1>6, <2>1, Numbers DEF Refused, PoolTypes
  <2>3. PICK c : c = [call[r] EXCEPT !.phase = "refused"]
    OBVIOUS
  <2>4. call' = [call EXCEPT ![r] = c]
    BY <1>0, <1>6, <2>3 DEF Refused, PoolTypes
  <2>5. c \in Call /\ c.key = call[r].key
    BY <2>1, <2>3 DEF Call
  <2>6. QED
    BY <1>0, <2>1, <2>2, <2>4, <2>5, ShapeMoves DEF PoolTypes
<1>7. ASSUME NEW r \in MapRequests, BeginRetire(r) PROVE PoolShape'
  <2>1. PICK c : c = [call[r] EXCEPT !.phase = "retiring", !.prior = health[call[r].key]]
    OBVIOUS
  <2>2. call[r] \in Call /\ call[r].key \in Keys /\ UNCHANGED <<hour, health, refusedAt, announced>>
    BY <1>0, <1>7 DEF BeginRetire, PoolShape, PoolTypes
  <2>3. call' = [call EXCEPT ![r] = c]
    BY <1>0, <1>7, <2>1 DEF BeginRetire, PoolTypes, Call
  <2>4. health[call[r].key] \in Spend
    BY <1>0, <2>2 DEF PoolTypes
  <2>5. c \in Call /\ c.key = call[r].key
    BY <2>1, <2>2, <2>4 DEF Call
  <2>6. QED
    BY <1>0, <2>2, <2>3, <2>5, ShapeMoves DEF PoolTypes
<1>8. ASSUME NEW r \in MapRequests, Retire(r) PROVE PoolShape'
  <2>1. PICK k : k = call[r].key
    OBVIOUS
  <2>2. PICK month : month = MonthOf(call[r].began)
    OBVIOUS
  <2>3. /\ health' = [health EXCEPT ![k] = [at |-> Instant(hour), month |-> month]]
        /\ announced' = [announced EXCEPT ![k][month] = @ + 1] \/ announced' = announced
        /\ call' = [call EXCEPT ![r] = Onwards(r)] /\ UNCHANGED <<hour, refusedAt>>
    BY <1>8, <2>1, <2>2 DEF Retire
  <2>4. k \in Keys /\ call[r].began \in 0 .. MaxHours
    BY <1>0, <1>8, <2>1, Numbers DEF Retire, PoolShape
  <2>5. month \in Months
    BY <2>2, <2>4, MonthsInOrder, PoolAssumption DEF Months
  <2>6. PICK h : h = [at |-> Instant(hour), month |-> month]
    OBVIOUS
  <2>7. h \in Spend
    BY <1>0, <2>5, <2>6, Numbers DEF Spend
  <2>8. health' \in [Keys -> Spend]
    BY <1>0, <2>3, <2>6, <2>7 DEF PoolTypes
  <2>9. announced' \in [Keys -> [Months -> Nat]]
    <3>1. announced[k] \in [Months -> Nat] /\ announced[k][month] + 1 \in Nat
      BY <1>0, <2>4, <2>5 DEF PoolTypes
    <3>2. PICK a : a = [announced[k] EXCEPT ![month] = @ + 1]
      OBVIOUS
    <3>3. a \in [Months -> Nat]
      BY <3>1, <3>2
    <3>4. announced' = [announced EXCEPT ![k] = a] \/ announced' = announced
      BY <1>0, <2>3, <2>4, <3>2 DEF PoolTypes
    <3>5. QED
      BY <1>0, <3>3, <3>4 DEF PoolTypes
  <2>10. Onwards(r) \in Call /\ Onwards(r).phase \in {"gaveUp", "choosing"}
    BY <1>0, GoesOnShaped
  <2>11. QED
    BY <1>0, <2>3, <2>8, <2>9, <2>10, ShapeMoves DEF PoolTypes
<1>9. ASSUME NEW r \in MapRequests, RetireFails(r) PROVE PoolShape'
  <2>1. call' = [call EXCEPT ![r] = Onwards(r)] /\ UNCHANGED <<hour, health, refusedAt, announced>>
    BY <1>9 DEF RetireFails
  <2>2. Onwards(r) \in Call /\ Onwards(r).phase \in {"gaveUp", "choosing"}
    BY <1>0, GoesOnShaped
  <2>3. QED
    BY <1>0, <2>1, <2>2, ShapeMoves DEF PoolTypes
<1>10. QED
  BY <1>1, <1>2, <1>3, <1>4, <1>5, <1>6, <1>7, <1>8, <1>9 DEF PoolNext

(* The keys' rows and the requests stay well formed (ola_key_health),      *)
(* whatever overlaps.                                                      *)
THEOREM PoolTypeCorrect == PoolSpec => []PoolTypeOK
<1>1. PoolShape => PoolTypeOK
  BY DEF PoolShape, PoolTypes, PoolTypeOK, Spend, Call
<1>2. QED
  BY <1>1, PoolInitShape, PoolStepShape, PTL DEF PoolSpec

(* What is in hand is something to write.                                  *)
MessageShape ==
  /\ status \in MessageStatuses /\ sends \in Seq(Fates)
  /\ sending \in [Senders -> {"idle", "checked", "claimed", "accepted", "refused"}]
  /\ {event, act, refresh} \subseteq {Nobody} \union [kind : MessageStatuses, seen : MessageStatuses]

(* Step by step, whoever writes over whom.                                 *)
LEMMA MessageStepShape == MessageShape /\ [MessageNext]_messageVars => MessageShape'
<1> SUFFICES ASSUME MessageShape, [MessageNext]_messageVars PROVE MessageShape'
  OBVIOUS
<1> USE DEF MessageShape
<1>1. ASSUME NEW s \in Senders,
             BeginSend(s) \/ NotToBeSent(s) \/ Claim(s) \/ WatiRefuses(s) \/ RecordSend(s) \/ SenderDies(s)
      PROVE  MessageShape'
  BY <1>1 DEF BeginSend, NotToBeSent, Claim, WatiRefuses, RecordSend, SenderDies, MessageStatuses
<1>2. ASSUME NEW s \in Senders, WatiAccepts(s) PROVE MessageShape'
  BY <1>2 DEF WatiAccepts, Fates, Ticks
<1>3. ASSUME NEW n \in DOMAIN sends, NEW to \in Fates, Reaches(n, to) PROVE MessageShape'
  BY <1>3 DEF Reaches
<1>4. ASSUME NEW n \in DOMAIN sends, NEW what \in Fates, EventRead(n, what) PROVE MessageShape'
  <2>1. what \in MessageStatuses
    BY DEF Fates, Ticks, MessageStatuses
  <2>2. QED
    BY <1>4, <2>1 DEF EventRead
<1>5. ASSUME NEW kind \in {"copied", "sent_manually", "cancelled"}, ActRead(kind) PROVE MessageShape'
  BY <1>5 DEF ActRead, MessageStatuses
<1>6. ASSUME NEW a \in MessageStatuses, NEW b \in MessageStatuses PROVE Advanced(a, b) \in MessageStatuses
  BY DEF Advanced, MessageStatuses
<1>7. ASSUME EventWritten PROVE MessageShape'
  BY <1>6, <1>7 DEF EventWritten
<1>8. ASSUME ActWritten PROVE MessageShape'
  BY <1>8 DEF ActWritten
<1>9. ASSUME RefreshRead PROVE MessageShape'
  BY <1>9 DEF RefreshRead, Fates, Ticks, MessageStatuses
<1>10. ASSUME RefreshWritten PROVE MessageShape'
  BY <1>6, <1>10 DEF RefreshWritten, TickIfUnchanged
<1>11. CASE UNCHANGED messageVars
  BY <1>11 DEF messageVars
<1>12. QED
  BY <1>1, <1>2, <1>3, <1>4, <1>5, <1>7, <1>8, <1>9, <1>10, <1>11 DEF MessageNext

(* What becomes of the message stays a status there is, and so does what   *)
(* was read of it, whatever is written over what (wa_messages).            *)
THEOREM MessageTypeCorrect == MessageSpec => []MessageTypeOK
<1>1. MessageInit => MessageShape
  BY DEF MessageInit, MessageShape, MessageStatuses
<1>2. MessageShape => MessageTypeOK
  BY DEF MessageShape, MessageTypeOK, Nobody, MessageStatuses
<1>3. QED
  BY <1>1, <1>2, MessageStepShape, PTL DEF MessageSpec
-----------------------------------------------------------------------------
(* What is asked of the splits.                                            *)
LEMMA QuestionInit == AskInit => DOMAIN question \subseteq {"asked", "bal", "ins", "amount"}
BY DEF AskInit, Unasked

LEMMA QuestionStep ==
  [Ask]_question /\ DOMAIN question \subseteq {"asked", "bal", "ins", "amount"}
    => (DOMAIN question \subseteq {"asked", "bal", "ins", "amount"})'
BY DEF Ask

(* The parts of the office, each as it is alone.                           *)
PartSpecs ==
  /\ LedgerSpec /\ AskInit /\ [][Ask]_question /\ CacheSpec /\ CodeSpec /\ PoolSpec
  /\ MessageSpec /\ DispatchSpec /\ PayoutSpec /\ LeadSpec

(* A step of the office is a step of one part, and none of the others.     *)
LEMMA PartMoves ==
  [OfficeNext]_officeVars =>
    /\ [LedgerNext]_ledgerVars /\ [Ask]_question /\ [CacheNext]_cacheVars /\ [CodeNext]_codeVars /\ [PoolNext]_poolVars
    /\ [MessageNext]_messageVars /\ [DispatchNext]_deskVars /\ [PayoutNext]_payoutVars /\ [LeadNext]_leadVars
BY DEF OfficeNext, officeVars

(* Side by side, and with what the instances leave out, every part does    *)
(* only what it does alone.                                                *)
THEOREM PartsStayThemselves == OfficeSpec => PartSpecs
<1>1. OfficeInit => /\ LedgerInit /\ AskInit /\ CacheInit /\ CodeInit /\ PoolInit
                    /\ MessageInit /\ DispatchInit /\ PayoutInit /\ LeadInit
  BY DEF OfficeInit
<1>2. QED
  BY <1>1, PartMoves, PTL
  DEF OfficeSpec, PartSpecs, LedgerSpec, CacheSpec, CodeSpec, PoolSpec, MessageSpec, DispatchSpec, PayoutSpec, LeadSpec

(* Where rewrites of a receipt do not overlap, every row of the office     *)
(* stays well formed, whichever part is at work.                           *)
THEOREM OfficeTypeCorrect ==
  ASSUME ~RewritesOverlap
  PROVE  OfficeSpec => []OfficeTypeOK
<1>1. OfficeInit => subject \in Subjects
  BY DEF OfficeInit
<1>2. subject \in Subjects /\ [OfficeNext]_officeVars => (subject \in Subjects)'
  BY DEF OfficeNext, officeVars
<1>3. /\ LedgerTypeOK /\ DOMAIN question \subseteq {"asked", "bal", "ins", "amount"}
      /\ CacheTypeOK /\ CodeTypeOK /\ PoolTypeOK /\ MessageTypeOK /\ PayoutTypeOK /\ LeadTypeOK /\ DispatchTypeOK
      /\ subject \in Subjects
      => OfficeTypeOK
  BY SubjectsAssumption DEF OfficeTypeOK, OfDispatch
<1>4. QED
  BY <1>1, <1>2, <1>3, PartsStayThemselves, QuestionInit, QuestionStep, LedgerTypeCorrect, CacheTypeCorrect, CodeTypeCorrect,
     PoolTypeCorrect, MessageTypeCorrect, PayoutTypeCorrect, LeadTypeCorrect, DispatchTypeCorrect, PTL DEF PartSpecs, OfficeSpec

(* What the office promises, of all its parts side by side: money kept and *)
(* split as told, answers no older than they may be, codes used once, keys *)
(* rested for a cause, stock set aside and boxes leaving on their own      *)
(* order, one message, payouts as the register has them, moves recorded.   *)
THEOREM OfficeKeepsItsPromises ==
  ASSUME ~RewritesOverlap, ~TicksOverlap, ~RetiresOverlap, ~SpansMonths, MostOpen \in Nat, MostPaid \in Nat
  PROVE  OfficeSpec =>
           /\ [](MoneyIsKept /\ SplitIsRight /\ AgeIsBounded /\ CodesAreUsedUp /\ RefusalsCount /\ StockIsSetAside)
           /\ OneMessageOnward /\ BoxesLeaveRight /\ PayoutsFollowRegister /\ MovesAreSound
BY PartsStayThemselves, MoneyKept, SplitsAreRight, NothingStaler, UsedUpByUse, EveryRefusalCounts, SetAside,
   OneMessage, RightBoxesLeave, PayoutsAreKept, MovesKept, PTL DEF PartSpecs
=============================================================================
