----------------------------- MODULE TokenStore -----------------------------
(***************************************************************************)
(* The account's token (ali_driver/user.go, ali_driver/auth.go): which     *)
(* drive is the default one, and the token of a drive, both in LevelDB.    *)
(* Every call of the API begins with GetDefaultAccessToken, which reads    *)
(* the token, refreshes it if it has expired, and writes it back in any    *)
(* case; scans and requests do so at the same time, without a lock.        *)
(*                                                                         *)
(* A token is the number of its issue.  An access token expires, the older *)
(* before the newer; the refresh token that came with it is good for ever, *)
(* or, where it rotates, until the API has issued the next.                *)
(*                                                                         *)
(* A setup says which goroutines need the token, scans and requests (users)*)
(* whether it rotates, and bounds the logins, the tokens that expire, and  *)
(* the power cuts and failed calls of the API.                             *)
(***************************************************************************)
EXTENDS QRLogin, FiniteSets

CONSTANTS
    Setups,     \* the setups to look at
    Main        \* the user "start" and "get", which renews the token at once

ASSUME TokenAssumption ==
    \A s \in Setups : /\ IsFiniteSet(s.users) /\ s.rotates \in BOOLEAN
                      /\ s.logins \in Nat /\ s.expiries \in Nat /\ s.cuts \in Nat

None == 0

VARIABLES
    setup,     \* the setup, which stays what it is
    hasDrive,  \* LevelDB: whether a default drive id is stored (synced)
    token,     \* LevelDB: the token stored for it, None if there is none
    survivors, \* what a power cut may leave of it: token writes are not synced
    issued,    \* the API: the newest token
    expired,   \* the API: the newest expired access token
    logins,    \* how many logins there have been
    phase,     \* of "start" and "get": "new", "renewing" or "ready"
    pc,        \* where each user is
    held,      \* the token in its hands
    result,    \* what its last GetDefaultAccessToken returned
    cuts       \* how many power cuts and failed calls there have been

db == <<hasDrive, token, survivors>>
api == <<issued, expired>>
command == <<loginVars, logins, phase>>
users == <<pc, held, result>>
vars == <<setup, db, api, command, users, cuts>>

Users   == setup.users
Rotates == setup.rotates

Init ==
    /\ setup \in Setups
    /\ LoginInit
    /\ hasDrive = FALSE /\ token = None /\ survivors = {None}
    /\ issued = None /\ expired = None
    /\ logins = 0 /\ phase = "new"
    /\ pc = [u \in Users |-> "idle"]
    /\ held = [u \in Users |-> None]
    /\ result = [u \in Users |-> "none"]
    /\ cuts = 0

Goto(u, label) == pc' = [pc EXCEPT ![u] = label]

(* The call is over, with a token or an error.                             *)
Return(u, r) == Goto(u, "idle") /\ result' = [result EXCEPT ![u] = r]

(* A process that has just begun has no calls and no results.              *)
NewProcess ==
    /\ pc' = [u \in Users |-> "idle"]
    /\ held' = [u \in Users |-> None]
    /\ result' = [u \in Users |-> "none"]
    /\ phase' = "new"

Disturbance == cuts < setup.cuts /\ cuts' = cuts + 1

(* A synced write takes all that was written before it to the disk; of     *)
(* those after it, the power cut leaves the first few.                     *)
NoSync(written) == survivors          \* faulty: the drive id is not synced either
Synced(written) == {written}

-----------------------------------------------------------------------------
(***************************************************************************)
(* login: LoginQRCode, which ends with SaveAccessToken.  One process at a  *)
(* time has the database open, so nothing else uses the token.             *)
(***************************************************************************)

(* The command runs when no other has the database; what one of them lost *)
(* as it was killed, PowerCut loses too.                                   *)
BeginLogin ==
    /\ logins < setup.logins
    /\ \A u \in Users : pc[u] = "idle"
    /\ logins' = logins + 1
    /\ GetQRCode
    /\ NewProcess
    /\ UNCHANGED <<db, api, cuts>>

Poll == CheckQrCodeStatus /\ UNCHANGED <<db, api, logins, phase, users, cuts>>

Dialogue ==
    /\ \/ PhoneStep /\ UNCHANGED cuts
       \/ LoginFails /\ Disturbance
    /\ UNCHANGED <<db, api, logins, phase, users>>

(* Auth gives a token: the first, or another, when there is one already.   *)
Auth ==
    /\ login = "confirmed"
    /\ login' = "granted"
    /\ issued' = issued + 1
    /\ UNCHANGED <<db, expired, code, told, logins, phase, users, cuts>>

(* SaveAccessToken: SaveDefaultDriveId, with Sync, then the token, without.*)
LoginSavesId ==
    /\ login = "granted"
    /\ login' = "id"
    /\ hasDrive' = TRUE
    /\ survivors' = Synced(token)
    /\ UNCHANGED <<token, api, code, told, logins, phase, users, cuts>>

LoginSavesToken ==
    /\ login = "id"
    /\ login' = "done"
    /\ token' = issued
    /\ survivors' = survivors \cup {token'}
    /\ UNCHANGED <<hasDrive, api, code, told, logins, phase, users, cuts>>

-----------------------------------------------------------------------------
(***************************************************************************)
(* GetDefaultAccessToken, GetAccessToken, RefreshToken, SaveAccessToken.   *)
(***************************************************************************)

(* First main has the database to itself: it gets a token and renews it.   *)
MayBegin(u) == \/ phase = "ready"
               \/ phase = "new" /\ u = Main /\ result[u] # "ok"

GetDefaultDriveId(u) ==
    /\ Over
    /\ pc[u] = "idle"
    /\ MayBegin(u)
    /\ IF hasDrive
       THEN Goto(u, "read") /\ result' = [result EXCEPT ![u] = "none"]
       ELSE Return(u, "err")
    /\ UNCHANGED <<db, api, command, held, cuts>>

(* Expired, as the clock says when the token has been read.                *)
NeverExpired(t) == FALSE              \* faulty: the token is not renewed
Expired(t) == t <= expired

NeverMissing == FALSE                 \* faulty: the error of Get is dropped
Missing == token = None

GetAccessToken(u) ==
    /\ pc[u] = "read"
    /\ IF Missing
       THEN Return(u, "err") /\ UNCHANGED held
       ELSE /\ held' = [held EXCEPT ![u] = token]
            /\ Goto(u, IF Expired(token) THEN "refresh" ELSE "id")
            /\ UNCHANGED result
    /\ UNCHANGED <<db, api, command, cuts>>

(* "start" and "get": RefreshToken(authToken.RefreshToken), once.          *)
Renew(u) ==
    /\ u = Main
    /\ phase = "new" /\ pc[u] = "idle" /\ result[u] = "ok"
    /\ phase' = "renewing"
    /\ Goto(u, "renew")
    /\ UNCHANGED <<db, api, loginVars, logins, held, result, cuts>>

(* RefreshToken returns an error.  The command is over if it was its own   *)
(* call, and is run again by somebody.                                     *)
TryAgain(u, r) ==                     \* faulty: until the API gives in
    /\ Goto(u, "read")
    /\ phase' = IF phase = "renewing" THEN "new" ELSE phase
    /\ UNCHANGED <<db, expired, loginVars, logins, held, result>>
RefreshError(u, r) ==
    /\ Return(u, r)
    /\ phase' = IF phase = "renewing" THEN "new" ELSE phase
    /\ UNCHANGED <<db, expired, loginVars, logins, held>>

Accepted(t) == ~Rotates \/ t = issued

RefreshToken(u) ==
    /\ pc[u] \in {"refresh", "renew"}
    /\ Accepted(held[u])
    /\ issued' = issued + 1
    /\ held' = [held EXCEPT ![u] = issued']
    /\ Goto(u, IF pc[u] = "refresh" THEN "newid" ELSE "id")
    /\ UNCHANGED <<db, expired, command, result, cuts>>

RefreshRefused(u) ==
    /\ pc[u] \in {"refresh", "renew"}
    /\ ~Accepted(held[u])
    /\ RefreshError(u, "err")
    /\ UNCHANGED <<issued, cuts>>

(* The call fails; it may be its answer that is lost, with a new token.    *)
RefreshFails(u) ==
    /\ pc[u] \in {"refresh", "renew"}
    /\ Disturbance
    /\ \/ UNCHANGED issued
       \/ Accepted(held[u]) /\ issued' = issued + 1
    /\ RefreshError(u, "err")

(* SaveAccessToken, first of RefreshToken, then of GetAccessToken, be the  *)
(* token new or not.  "renew" calls RefreshToken alone.                    *)
SaveDefaultDriveId(u) ==
    /\ pc[u] \in {"newid", "id"}
    /\ hasDrive' = TRUE
    /\ survivors' = Synced(token)
    /\ Goto(u, IF pc[u] = "newid" THEN "newtoken" ELSE "token")
    /\ UNCHANGED <<token, api, command, held, result, cuts>>

OldToken(u) == token                  \* faulty: the new token is not saved
Written(u) == held[u]

SaveAccessToken(u) ==
    /\ pc[u] \in {"newtoken", "token"}
    /\ token' = Written(u)
    /\ survivors' = survivors \cup {token'}
    /\ IF pc[u] = "newtoken"
       THEN Goto(u, "id") /\ UNCHANGED <<result, phase>>
       ELSE /\ Return(u, IF phase = "renewing" THEN "renewed" ELSE "ok")
            /\ phase' = IF phase = "renewing" THEN "ready" ELSE phase
    /\ UNCHANGED <<hasDrive, api, loginVars, logins, held, cuts>>

-----------------------------------------------------------------------------

(* Time passes: the oldest access token still good is so no longer.        *)
Expire ==
    /\ expired < issued
    /\ expired < setup.expiries
    /\ expired' = expired + 1
    /\ UNCHANGED <<db, issued, command, users, cuts>>

(* Another record is written with Sync: the log goes to the disk.          *)
SyncedWrite ==
    /\ survivors' = Synced(token)
    /\ UNCHANGED <<hasDrive, token, api, command, users, cuts>>

(* The machine stops, and is started again: what was not synced is lost or *)
(* not.                                                                    *)
PowerCut ==
    /\ Disturbance
    /\ token' \in survivors
    /\ survivors' = {token'}
    /\ login' = IF login = "done" THEN "done" ELSE "none"
    /\ NewProcess
    /\ UNCHANGED <<hasDrive, api, code, told, logins>>

UserStep(u) ==
    \/ GetDefaultDriveId(u) \/ GetAccessToken(u) \/ Renew(u)
    \/ RefreshToken(u) \/ RefreshRefused(u)
    \/ SaveDefaultDriveId(u) \/ SaveAccessToken(u)

LoginStep == Poll \/ Auth \/ LoginSavesId \/ LoginSavesToken

Next ==
    /\ \/ BeginLogin \/ Dialogue \/ LoginStep
       \/ \E u \in Users : UserStep(u) \/ RefreshFails(u)
       \/ Expire \/ SyncedWrite \/ PowerCut
    /\ UNCHANGED setup

Spec == Init /\ [][Next]_vars

(* Scans and requests go on for ever, and each of their calls is run; the  *)
(* login goes on while it can.  What the phone does is its owner's affair. *)
FairSpec ==
    /\ Spec
    /\ \A u \in UNION {s.users : s \in Setups} :
          WF_vars(u \in Users /\ UserStep(u) /\ UNCHANGED setup)
    /\ WF_vars(LoginStep /\ UNCHANGED setup)

-----------------------------------------------------------------------------

Labels == {"idle", "read", "renew", "refresh", "newid", "newtoken", "id", "token"}

(* Every variable has the values the code can give it, no token is newer   *)
(* than the newest, and nobody is past the read without one.               *)
TokenTypeOK ==
    /\ hasDrive \in BOOLEAN /\ phase \in {"new", "renewing", "ready"}
    /\ issued \in Nat /\ expired \in 0 .. setup.expiries
    /\ survivors \subseteq 0 .. issued /\ token \in survivors
    /\ login \in {"none", "polling", "confirmed", "granted", "id", "done", "failed"}
    /\ code \in {"none", "waiting", "scanned", "confirmed", "expired"}
    /\ told \in {"none", "WaitLogin", "ScanSuccess", "LoginSuccess", "unknown"}
    /\ logins \in 0 .. setup.logins /\ cuts \in 0 .. setup.cuts
    /\ pc \in [Users -> Labels]
    /\ held \in [Users -> 0 .. issued]
    /\ result \in [Users -> {"none", "ok", "renewed", "err"}]
    /\ \A u \in Users : pc[u] \notin {"idle", "read"} => held[u] # None

(* The refresh token that a call sends is one that the API takes: where    *)
(* one goroutine uses it, and no power is cut, an account stays logged in  *)
(* whatever expires (user.go, GetAccessToken).                             *)
StaysLoggedIn ==
    cuts = 0 /\ Cardinality(Users) = 1 => \A u \in Users :
        pc[u] \in {"refresh", "renew"} => Accepted(held[u])

(* A token that GetDefaultAccessToken returned to the one goroutine that   *)
(* uses it survives a power cut, although it is written without Sync: a    *)
(* token is written twice, and the drive id in between, with Sync.         *)
UsedTokenIsDurable ==
    Cardinality(Users) = 1 => \A u \in Users :
        pc[u] = "idle" /\ result[u] = "ok" => survivors = {token}

(* "登录成功, 可以执行 "get"" (main.go, "login succeeded, get can be run"):   *)
(* after a login there is a token.                                         *)
LoginSurvives == login = "done" => token # None

(* A call returns, be the account logged in, logged out, or its token      *)
(* lost: an error is given to the caller, nothing waits for a new login.   *)
CallsReturn ==
    \A u \in UNION {s.users : s \in Setups} :
        u \in Users /\ pc[u] # "idle" ~> u \in Users /\ pc[u] = "idle"

(* A login that has been confirmed on the phone, or whose code expires     *)
(* with an error, comes to an end (LoginQRCode, auth.go).                  *)
LoginEnds ==
    login = "polling" /\ (code = "confirmed" \/ (code = "expired" /\ ExpiryIsError))
        ~> Over

(* A login that was never confirmed gets no token, whatever was polled     *)
(* before ("扫码成功后,返回 authCode 用于最后的登录授权", auth.go).          *)
GrantNeedsConfirmation == login \in {"confirmed", "granted", "id"} => code = "confirmed"

(* "login" waits no longer than the code is good.                          *)
LoginGivesUp == login = "polling" /\ code = "expired" ~> Over

(* Users that write back what they have read do not keep an expired token  *)
(* alive: when no more expire, the stored one is good from some time on,   *)
(* where an older refresh token is good as well.                           *)
EventuallyFresh ==
    <>[](~Rotates /\ login = "done" /\ token # None => token > expired)

=============================================================================
