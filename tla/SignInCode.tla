----------------------------- MODULE SignInCode -----------------------------
(***************************************************************************)
(* The codes one account signs in with (sendOtp and verifyOtp of           *)
(* services/otp-service.ts): the rows of auth_otps, oldest first, and the  *)
(* submissions in hand.  A submission reads the newest row nobody has      *)
(* used, checks what was typed against it (for one provider, by asking the *)
(* provider), and then writes; several may be in hand at once.             *)
(***************************************************************************)
EXTENDS Naturals, Sequences

CONSTANTS
  Submissions,   \* requests that carry a typed code
  MaxAttempts,   \* auth.otp.maxVerifyAttempts
  MaxCodes,      \* bound: rows
  MaxTries       \* bound: tries written down against a row

ASSUME CodeAssumption ==
  /\ MaxAttempts \in Nat \ {0} /\ MaxCodes \in Nat /\ MaxTries \in Nat

VARIABLES
  codes,     \* auth_otps
  trying,    \* what each submission has read, and whether it is right
  wrong,     \* history: wrong answers given to each row
  signedIn   \* history: how often each row let somebody in

codeVars == <<codes, trying, wrong, signedIn>>

(* A row not refused: whether it was sent, has run out, the tries counted  *)
(* against it, and whether it was used.                                    *)
NewCode == [refused |-> FALSE, sent |-> FALSE, expired |-> FALSE, attempts |-> 0, used |-> FALSE]
NotTrying == [row |-> 0, right |-> FALSE]

CodeInit ==
  /\ codes = <<>>
  /\ trying = [s \in Submissions |-> NotTrying]
  /\ wrong = <<>> /\ signedIn = <<>>

Insert(row) ==
  /\ Len(codes) < MaxCodes
  /\ codes' = Append(codes, row)
  /\ wrong' = Append(wrong, 0) /\ signedIn' = Append(signedIn, 0)
  /\ UNCHANGED trying
-----------------------------------------------------------------------------
(* sendOtp: the row first and its sending after, or, with the provider     *)
(* that keeps the code itself, the row once it is sent.                    *)
InsertCode == \E sent \in BOOLEAN : Insert([NewCode EXCEPT !.sent = sent])

MarkSent(n) ==
  /\ ~codes[n].refused /\ ~codes[n].sent /\ ~codes[n].expired
  /\ codes' = [codes EXCEPT ![n].sent = TRUE]
  /\ UNCHANGED <<trying, wrong, signedIn>>

(* A request turned away, too soon or too often, is written down as well.  *)
InsertRefused == Insert([NewCode EXCEPT !.refused = TRUE, !.expired = TRUE])

Expire(n) ==
  /\ ~codes[n].expired
  /\ codes' = [codes EXCEPT ![n].expired = TRUE]
  /\ UNCHANGED <<trying, wrong, signedIn>>

WaitingCodes == {n \in DOMAIN codes : ~codes[n].used /\ ~codes[n].refused}

NewestIs(n) == n \in WaitingCodes /\ \A k \in WaitingCodes : k <= n

(* verifyOtp reads the newest row, and goes on only with one that was      *)
(* sent, has time and tries left.                                          *)
SubmitCode(s, right) ==
  /\ trying[s] = NotTrying
  /\ \E n \in DOMAIN codes :
       /\ NewestIs(n)
       /\ codes[n].sent /\ ~codes[n].expired /\ codes[n].attempts < MaxAttempts
       /\ wrong[n] < MaxTries
       /\ trying' = [trying EXCEPT ![s] = [row |-> n, right |-> right]]
  /\ UNCHANGED <<codes, wrong, signedIn>>

(* The provider could not be asked: nothing is counted.                    *)
Unchecked(s) ==
  /\ trying[s] # NotTrying
  /\ trying' = [trying EXCEPT ![s] = NotTrying]
  /\ UNCHANGED <<codes, wrong, signedIn>>

(* Mutant: the count is set to one more than was read.                     *)
CountFromRead(n) == wrong' = [wrong EXCEPT ![n] = @ + 1] /\ codes' = [codes EXCEPT ![n].attempts = 1]
CountOneMore(n) == wrong' = [wrong EXCEPT ![n] = @ + 1] /\ codes' = [codes EXCEPT ![n].attempts = @ + 1]

WriteWrong(s) ==
  /\ trying[s] # NotTrying /\ ~trying[s].right
  /\ CountOneMore(trying[s].row)
  /\ trying' = [trying EXCEPT ![s] = NotTrying]
  /\ UNCHANGED signedIn

(* Mutant: whoever was right is let in.                                    *)
WriteRightAgain(s) ==
  /\ trying[s] # NotTrying /\ trying[s].right
  /\ LET n == trying[s].row
     IN /\ codes' = [codes EXCEPT ![n].used = TRUE]
        /\ signedIn' = [signedIn EXCEPT ![n] = @ + 1]
  /\ trying' = [trying EXCEPT ![s] = NotTrying]
  /\ UNCHANGED wrong

(* The row is used up in a statement that asks again whether it is unused. *)
WriteRight(s) ==
  /\ trying[s] # NotTrying /\ trying[s].right
  /\ LET n == trying[s].row
     IN IF codes[n].used THEN UNCHANGED <<codes, signedIn>>
        ELSE /\ codes' = [codes EXCEPT ![n].used = TRUE]
             /\ signedIn' = [signedIn EXCEPT ![n] = @ + 1]
  /\ trying' = [trying EXCEPT ![s] = NotTrying]
  /\ UNCHANGED wrong

CodeNext ==
  \/ InsertCode \/ InsertRefused
  \/ \E n \in DOMAIN codes : MarkSent(n) \/ Expire(n)
  \/ \E s \in Submissions :
       \/ \E right \in BOOLEAN : SubmitCode(s, right)
       \/ Unchecked(s) \/ WriteWrong(s) \/ WriteRight(s)

CodeSpec == CodeInit /\ [][CodeNext]_codeVars
-----------------------------------------------------------------------------
CodeTypeOK ==
  /\ codes \in Seq([refused : BOOLEAN, sent : BOOLEAN, expired : BOOLEAN,
                    attempts : Nat, used : BOOLEAN])
  /\ wrong \in Seq(Nat) /\ signedIn \in Seq(Nat)
  /\ Len(wrong) = Len(codes) /\ Len(signedIn) = Len(codes)
  /\ trying \in [Submissions -> [row : 0 .. MaxCodes, right : BOOLEAN]]

(* A code lets somebody in once, however many submissions of it were in    *)
(* hand together ("two submissions of one right code sign in once"), and   *)
(* only one that was sent.                                                 *)
CodeSignsInOnce ==
  \A n \in DOMAIN codes :
    signedIn[n] <= 1 /\ (signedIn[n] = 1 <=> codes[n].used) /\ (codes[n].used => codes[n].sent)

(* Every wrong try counts against the code it was made on, whoever else    *)
(* was trying ("a wrong guess counts against it").                         *)
WrongTriesCount == \A n \in DOMAIN codes : codes[n].attempts = wrong[n]

(* A code is used up by what is done with it (verifyOtp): by one sign-in,  *)
(* and by every wrong try.                                                 *)
CodesAreUsedUp == CodeSignsInOnce /\ WrongTriesCount
=============================================================================
