------------------------------ MODULE QRLogin ------------------------------
(***************************************************************************)
(* The dialogue of LoginQRCode (ali_driver/auth.go): a QR code is fetched  *)
(* and shown, its status is polled every second until it is confirmed, and *)
(* the code that comes with the confirmation is changed into a token.  The *)
(* owner of the account scans and confirms, or lets the code expire; a     *)
(* call may fail.                                                          *)
(***************************************************************************)
EXTENDS Naturals

CONSTANT ExpiryIsError   \* whether the API answers for an expired code with
                         \* an error, rather than with one more status

ASSUME LoginAssumption == ExpiryIsError \in BOOLEAN

VARIABLES
    code,    \* the QR code, as the API has it
    told,    \* the status that was polled last
    login    \* where the command is: "polling", "confirmed" (Auth is next),
             \* "granted", "id" (SaveAccessToken), "done" or "failed"

loginVars == <<code, told, login>>

LoginInit == code = "none" /\ told = "none" /\ login = "none"

Over == login \in {"none", "done", "failed"}

GetQRCode ==
    /\ Over
    /\ code' = "waiting"
    /\ told' = "none"
    /\ login' = "polling"

(* The phone scans the code, its owner confirms, or too much time passes.  *)
Scan    == code = "waiting" /\ code' = "scanned" /\ UNCHANGED <<told, login>>
Confirm == code = "scanned" /\ code' = "confirmed" /\ UNCHANGED <<told, login>>
Lapse   == code \in {"waiting", "scanned"} /\ code' = "expired" /\ UNCHANGED <<told, login>>

NeverConfirmed == IF code = "none" THEN "unknown" ELSE "WaitLogin"  \* faulty
Status == CASE code = "waiting"   -> "WaitLogin"
            [] code = "scanned"   -> "ScanSuccess"
            [] code = "confirmed" -> "LoginSuccess"
            [] OTHER              -> "unknown"

(* One tick: the loop is left with LoginSuccess alone; a status that the   *)
(* switch does not name is polled again.                                   *)
LeavesAtScan(status) == status \in {"ScanSuccess", "LoginSuccess"}  \* faulty
Leaves(status) == status = "LoginSuccess"

CheckQrCodeStatus ==
    /\ login = "polling"
    /\ IF code = "expired" /\ ExpiryIsError
       THEN login' = "failed" /\ UNCHANGED told
       ELSE /\ told' = Status
            /\ login' = IF Leaves(Status) THEN "confirmed" ELSE login
    /\ UNCHANGED code

(* An error of the API, of GetQRCode, CheckQrCodeStatus or Auth, ends it.  *)
LoginFails ==
    /\ login \in {"polling", "confirmed"}
    /\ login' = "failed"
    /\ UNCHANGED <<code, told>>

PhoneStep == Scan \/ Confirm \/ Lapse

=============================================================================
