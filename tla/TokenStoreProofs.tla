-------------------------- MODULE TokenStoreProofs --------------------------
(***************************************************************************)
(* For any setups, users and bounds: the types of TokenStore, and that a   *)
(* token is granted to a confirmed login only.  For any setup with one     *)
(* user: that it is never refused, and that the token it was given is on   *)
(* the disk.                                                               *)
(***************************************************************************)
EXTENDS TokenStore, FiniteSetTheorems, TLAPS

(* Why: main renews what it has just been given, and while a login is      *)
(* under way no call is, nor has one left a result.                        *)
RenewsHeld  == \A u \in Users : result[u] = "ok" => held[u] # None
LoginAlone  == ~Over => \A u \in Users : pc[u] = "idle" /\ result[u] = "none"

IInv == /\ setup \in Setups
        /\ TokenTypeOK
        /\ GrantNeedsConfirmation
        /\ RenewsHeld
        /\ LoginAlone

(* With one user, the call of RefreshToken that main makes itself stays    *)
(* apart from those of GetAccessToken.                                     *)
RenewsInTurn ==
    \A u \in Users :
        /\ pc[u] = "renew" => phase = "renewing"
        /\ phase = "renewing" => pc[u] \in {"renew", "id", "token"}

(* It has the newest token in its hands, or the store has it,              *)
(* until the power is cut or a call of the API fails ...                   *)
NewestAtHand ==
    cuts = 0 => \A u \in Users :
        /\ pc[u] \notin {"idle", "read"} => held[u] = issued
        /\ result[u] = "ok" => held[u] = issued
        /\ pc[u] \in {"idle", "read"} /\ login \notin {"granted", "id"} => token = issued

(* ... and what it writes last is on the disk already: the drive id, which *)
(* is synced, was written between the two writes of a new token.           *)
WrittenBefore ==
    \A u \in Users :
        /\ pc[u] \in {"id", "token"} /\ phase # "renewing" => token = held[u]
        /\ pc[u] = "token" /\ phase # "renewing" => survivors = {token}

One == Cardinality(Users) = 1
OneInv == One => /\ RenewsInTurn
                 /\ NewestAtHand
                 /\ WrittenBefore
                 /\ UsedTokenIsDurable

-----------------------------------------------------------------------------

LEMMA InitIInv == Init => IInv
  <1> SUFFICES ASSUME Init PROVE IInv
    OBVIOUS
  <1>1. setup \in Setups /\ setup.logins \in Nat /\ setup.expiries \in Nat /\ setup.cuts \in Nat
    BY TokenAssumption DEF Init
  <1>2. TokenTypeOK
    <2>1. /\ pc \in [Users -> Labels] /\ \A u \in Users : pc[u] = "idle"
          /\ result \in [Users -> {"none", "ok", "renewed", "err"}]
      BY DEF Init, Labels
    <2>2. issued = 0 /\ held \in [Users -> 0 .. issued]
      BY DEF Init, None
    <2>3. /\ expired \in 0 .. setup.expiries /\ logins \in 0 .. setup.logins
          /\ cuts \in 0 .. setup.cuts
      BY <1>1 DEF Init, None
    <2>4. issued = 0 /\ token = 0 /\ survivors = {0}
      BY DEF Init, None
    <2>5. issued \in Nat /\ survivors \subseteq 0 .. issued /\ token \in survivors
      BY ONLY <2>4
    <2>6. hasDrive \in BOOLEAN
      BY Zenon DEF Init
    <2>7. phase = "new" /\ login = "none" /\ code = "none" /\ told = "none"
      BY DEF Init, LoginInit
    <2>8. QED
      BY ONLY <2>1, <2>2, <2>3, <2>5, <2>6, <2>7 DEF TokenTypeOK
  <1>3. GrantNeedsConfirmation /\ RenewsHeld /\ LoginAlone
    BY DEF Init, LoginInit, GrantNeedsConfirmation, RenewsHeld, LoginAlone, Over, Users
  <1>4. QED
    BY <1>1, <1>2, <1>3 DEF IInv

(* The login, its phone and its errors.                                    *)
LEMMA LoginIInv ==
  ASSUME IInv, UNCHANGED setup, BeginLogin \/ Dialogue \/ LoginStep
  PROVE  IInv'
  <1> USE TokenAssumption
      DEF IInv, TokenTypeOK, GrantNeedsConfirmation, RenewsHeld, LoginAlone,
          Over, Users, Labels, None, db, api, users, loginVars
  <1>1. CASE BeginLogin
    BY <1>1 DEF BeginLogin, GetQRCode, NewProcess
  <1>2. CASE Dialogue
    BY <1>2 DEF Dialogue, PhoneStep, Scan, Confirm, Lapse, LoginFails, Disturbance
  <1>3. CASE Poll
    BY <1>3 DEF Poll, CheckQrCodeStatus, Status, Leaves
  <1>4. CASE Auth
    BY <1>4 DEF Auth
  <1>5. CASE LoginSavesId
    BY <1>5 DEF LoginSavesId, Synced
  <1>6. CASE LoginSavesToken
    BY <1>6 DEF LoginSavesToken
  <1>7. QED
    BY <1>1, <1>2, <1>3, <1>4, <1>5, <1>6 DEF LoginStep

(* A call of GetDefaultAccessToken, or of RefreshToken alone.              *)
LEMMA UserIInv ==
  ASSUME IInv, UNCHANGED setup, NEW u \in Users, UserStep(u) \/ RefreshFails(u)
  PROVE  IInv'
  <1> USE TokenAssumption
      DEF IInv, TokenTypeOK, GrantNeedsConfirmation, RenewsHeld, LoginAlone,
          Over, Users, Labels, None, Goto, Return, db, api, users, loginVars, command
  <1>1. CASE GetDefaultDriveId(u)
    BY <1>1 DEF GetDefaultDriveId
  <1>2. CASE GetAccessToken(u)
    BY <1>2 DEF GetAccessToken, Missing
  <1>3. CASE Renew(u)
    BY <1>3 DEF Renew
  <1>4. CASE RefreshToken(u)
    BY <1>4 DEF RefreshToken
  <1>5. CASE RefreshRefused(u)
    BY <1>5 DEF RefreshRefused, RefreshError
  <1>6. CASE SaveDefaultDriveId(u)
    BY <1>6 DEF SaveDefaultDriveId, Synced
  <1>7. CASE SaveAccessToken(u)
    <2>1. /\ held[u] \in 0 .. issued /\ survivors \subseteq 0 .. issued
          /\ token' = held[u] /\ survivors' = survivors \cup {held[u]}
          /\ UNCHANGED <<issued, setup>>
      BY <1>7 DEF SaveAccessToken, Written
    <2>2. survivors' \subseteq 0 .. issued' /\ token' \in survivors'
      BY ONLY <2>1
    <2>3. QED
      BY <1>7, <2>2 DEF SaveAccessToken
  <1>8. CASE RefreshFails(u)
    BY <1>8 DEF RefreshFails, RefreshError, Disturbance
  <1>9. QED
    BY <1>1, <1>2, <1>3, <1>4, <1>5, <1>6, <1>7, <1>8 DEF UserStep

LEMMA NextIInv == IInv /\ [Next]_vars => IInv'
  <1> SUFFICES ASSUME IInv, [Next]_vars PROVE IInv'
    OBVIOUS
  <1> USE TokenAssumption
      DEF IInv, TokenTypeOK, GrantNeedsConfirmation, RenewsHeld, LoginAlone,
          Over, Users, Labels, None, db, api, users, loginVars, command
  <1>1. CASE UNCHANGED setup /\ Expire
    BY <1>1 DEF Expire
  <1>2. CASE UNCHANGED setup /\ SyncedWrite
    BY <1>2 DEF SyncedWrite, Synced
  <1>3. CASE UNCHANGED setup /\ PowerCut
    BY <1>3 DEF PowerCut, Disturbance, NewProcess
  <1>4. CASE UNCHANGED vars
    BY <1>4 DEF vars
  <1>5. QED
    BY ONLY IInv, [Next]_vars, <1>1, <1>2, <1>3, <1>4, LoginIInv, UserIInv DEF Next

(* Tokens are numbers of issues, and nobody is past a read without one.    *)
THEOREM TokenTypeCorrect == Spec => []TokenTypeOK
  <1>1. IInv => TokenTypeOK
    BY DEF IInv
  <1>2. QED
    BY InitIInv, NextIInv, <1>1, PTL DEF Spec

(* LoginQRCode (auth.go) comes to Auth with a confirmed code only, however *)
(* the phone, its expiry and the polling interleave.                       *)
THEOREM GrantsAreConfirmed == Spec => []GrantNeedsConfirmation
  <1>1. IInv => GrantNeedsConfirmation
    BY DEF IInv
  <1>2. QED
    BY InitIInv, NextIInv, <1>1, PTL DEF Spec

-----------------------------------------------------------------------------
(* With one user, the others of the quantifiers above are itself.          *)
LEMMA OneExists ==
  ASSUME setup \in Setups, One, NEW u \in Users
  PROVE  Users = {u}
  BY FS_Singleton, TokenAssumption DEF One, Users

LEMMA InitOneInv == Init => OneInv
  BY DEF Init, LoginInit, OneInv, RenewsInTurn, NewestAtHand, WrittenBefore,
      UsedTokenIsDurable, Users, None

LEMMA LoginOneInv ==
  ASSUME IInv, OneInv, UNCHANGED setup, BeginLogin \/ Dialogue \/ LoginStep
  PROVE  OneInv'
  <1> USE TokenAssumption
      DEF OneInv, RenewsInTurn, NewestAtHand, WrittenBefore, UsedTokenIsDurable,
          One, Users, None, db, api, users, loginVars
  <1> USE DEF IInv, TokenTypeOK, LoginAlone, Over
  <1>1. CASE BeginLogin
    BY <1>1 DEF BeginLogin, GetQRCode, NewProcess
  <1>2. CASE Dialogue
    BY <1>2 DEF Dialogue, PhoneStep, Scan, Confirm, Lapse, LoginFails, Disturbance
  <1>3. CASE Poll
    BY <1>3 DEF Poll, CheckQrCodeStatus
  <1>4. CASE Auth
    BY <1>4 DEF Auth
  <1>5. CASE LoginSavesId
    BY <1>5 DEF LoginSavesId, Synced
  <1>6. CASE LoginSavesToken
    BY <1>6 DEF LoginSavesToken
  <1>7. QED
    BY <1>1, <1>2, <1>3, <1>4, <1>5, <1>6 DEF LoginStep

LEMMA UserOneInv ==
  ASSUME IInv, OneInv, UNCHANGED setup, NEW u \in Users, UserStep(u) \/ RefreshFails(u)
  PROVE  OneInv'
  <1> SUFFICES ASSUME One
               PROVE  RenewsInTurn' /\ NewestAtHand' /\ WrittenBefore' /\ UsedTokenIsDurable'
    BY DEF OneInv, One, Users
  <1> USE DEF RenewsInTurn, NewestAtHand, WrittenBefore, UsedTokenIsDurable,
          None, Goto, Return, db, api, users, loginVars, command
  <1>a. Users = {u} /\ Users' = {u}
    BY OneExists DEF IInv, Users
  <1>b. /\ RenewsInTurn /\ NewestAtHand /\ WrittenBefore /\ UsedTokenIsDurable
        /\ pc \in [{u} -> Labels] /\ held \in [{u} -> 0 .. issued] /\ cuts \in Nat
        /\ result \in [{u} -> {"none", "ok", "renewed", "err"}] /\ issued \in Nat
    BY <1>a, TokenAssumption DEF OneInv, IInv, TokenTypeOK
  <1>c. ~Over => pc[u] = "idle" /\ result[u] = "none"
    BY DEF IInv, LoginAlone
  <1>1. CASE GetDefaultDriveId(u)
    BY <1>a, <1>b, <1>1 DEF GetDefaultDriveId, MayBegin
  <1>2. CASE GetAccessToken(u)
    BY <1>a, <1>b, <1>c, <1>2 DEF GetAccessToken, Missing, Over
  <1>3. CASE Renew(u)
    BY <1>a, <1>b, <1>3 DEF Renew
  <1>4. CASE RefreshToken(u)
    BY <1>a, <1>b, <1>4 DEF RefreshToken
  <1>5. CASE RefreshRefused(u)
    BY <1>a, <1>b, <1>5 DEF RefreshRefused, RefreshError, Accepted
  <1>6. CASE SaveDefaultDriveId(u)
    BY <1>a, <1>b, <1>6 DEF SaveDefaultDriveId, Synced
  <1>7. CASE SaveAccessToken(u)
    BY <1>a, <1>b, <1>7 DEF SaveAccessToken, Written
  <1>8. CASE RefreshFails(u)
    BY <1>a, <1>b, <1>8 DEF RefreshFails, RefreshError, Disturbance
  <1>9. QED
    BY <1>1, <1>2, <1>3, <1>4, <1>5, <1>6, <1>7, <1>8 DEF UserStep

LEMMA NextOneInv == IInv /\ OneInv /\ [Next]_vars => OneInv'
  <1> SUFFICES ASSUME IInv, OneInv, [Next]_vars PROVE OneInv'
    OBVIOUS
  <1> USE DEF OneInv, RenewsInTurn, NewestAtHand, WrittenBefore, UsedTokenIsDurable,
          One, Users, None, db, api, users, loginVars, command
  <1>1. CASE UNCHANGED setup /\ Expire
    BY <1>1 DEF Expire
  <1>2. CASE UNCHANGED setup /\ SyncedWrite
    BY <1>2 DEF SyncedWrite, Synced
  <1>3. CASE UNCHANGED setup /\ PowerCut
    BY <1>3, TokenAssumption DEF PowerCut, Disturbance, NewProcess, IInv, TokenTypeOK
  <1>4. CASE UNCHANGED vars
    BY <1>4 DEF vars
  <1>5. QED
    BY ONLY IInv, OneInv, [Next]_vars, <1>1, <1>2, <1>3, <1>4, LoginOneInv, UserOneInv DEF Next

(* GetAccessToken (user.go) with one caller: the token it finds expired is *)
(* the newest one, so that the API takes it, while nothing fails.          *)
THEOREM OneUserStaysLoggedIn == Spec => []StaysLoggedIn
  <1>1. OneInv => StaysLoggedIn
    BY DEF OneInv, One, NewestAtHand, StaysLoggedIn, Accepted
  <1>2. QED
    BY InitIInv, NextIInv, InitOneInv, NextOneInv, <1>1, PTL DEF Spec

(* SaveAccessToken (user.go) with one caller: no power cut takes back a    *)
(* token that GetDefaultAccessToken returned, though Put is not synced.    *)
THEOREM OneUserKeepsItsToken == Spec => []UsedTokenIsDurable
  <1>1. OneInv => UsedTokenIsDurable
    BY DEF OneInv, One, UsedTokenIsDurable
  <1>2. QED
    BY InitIInv, NextIInv, InitOneInv, NextOneInv, <1>1, PTL DEF Spec

=============================================================================
