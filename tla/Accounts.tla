------------------------------ MODULE Accounts ------------------------------
(***************************************************************************)
(* Accounts, devices and invites: Store (internal/account/store.go and     *)
(* mgmt.go), InviteStore (invite.go) and the handlers of                   *)
(* internal/server/api.go that register an account, enrol, revoke and      *)
(* rotate devices.                                                         *)
(*                                                                         *)
(* Every request is a goroutine; an action is one region under the lock of *)
(* a store, its save included.  A save writes all of the store's memory    *)
(* with an atomic rename; when it fails the request is answered with an    *)
(* error, and memory keeps the change.  `ok` says whether the save of an   *)
(* action succeeds.                                                        *)
(***************************************************************************)
EXTENDS Naturals, FiniteSets

CONSTANTS
  Request,      \* requests under way at once
  Code,         \* invite codes ever generated
  Account, Device,  \* the ids randID draws, no id twice
  MaxDevices,   \* MaxDevicesPerAccount
  MaxTokens,    \* bound: tokens a device is given in its life
  NoAccount, NoDevice

ASSUME AccountsAssumption ==
  /\ MaxDevices \in Nat \ {0} /\ MaxTokens \in Nat \ {0}
  /\ IsFiniteSet(Request)
  /\ NoAccount \notin Account /\ NoDevice \notin Device
  /\ {"none", "open"} \cap Account = {}

VARIABLES
  store,      \* Store in memory: its accounts, and the token of each device
  file,       \* accounts.json
  codes,      \* InviteStore in memory
  codesFile,  \* invites.json
  owner,      \* Device.AccountID, which never changes
  pc,         \* where a request stands
  dev,        \* the device it is about: new, its caller's, or its target
  acct,       \* the account it is about
  minted,     \* history: how many tokens a device was given
  answered,   \* history: the latest token of a device a client was sent
  registered, \* history: the <<code, account>> of registrations answered "ok"
  revoked     \* history: the devices whose revocation was answered "ok"

request == <<pc, dev, acct>>
told == <<answered, registered, revoked>>
vars == <<store, file, codes, codesFile, owner, request, minted, told>>

-----------------------------------------------------------------------------

\* token 0: the device is not in the store
Book == [accounts : SUBSET Account, token : [Device -> 0..MaxTokens]]

CodeBook == [Code -> {"none", "open"} \cup Account]

TypeOK ==
  /\ store \in Book /\ file \in Book
  /\ codes \in CodeBook /\ codesFile \in CodeBook
  /\ owner \in [Device -> Account \cup {NoAccount}]
  /\ pc \in [Request -> {"idle", "created", "rollback", "authed", "adding", "rotating"}]
  /\ dev \in [Request -> Device \cup {NoDevice}]
  /\ acct \in [Request -> Account \cup {NoAccount}]
  /\ minted \in [Device -> 0..MaxTokens]
  /\ answered \in [Device -> 0..MaxTokens]
  /\ registered \subseteq Code \X Account
  /\ revoked \subseteq Device

Init ==
  /\ store = [accounts |-> {}, token |-> [d \in Device |-> 0]]
  /\ file = store
  /\ codes = [c \in Code |-> "none"]
  /\ codesFile = codes
  /\ owner = [d \in Device |-> NoAccount]
  /\ pc = [r \in Request |-> "idle"]
  /\ dev = [r \in Request |-> NoDevice]
  /\ acct = [r \in Request |-> NoAccount]
  /\ minted = [d \in Device |-> 0]
  /\ answered = minted
  /\ registered = {}
  /\ revoked = {}

-----------------------------------------------------------------------------

Goto(r, p, d, a) ==
  /\ pc' = [pc EXCEPT ![r] = p]
  /\ dev' = [dev EXCEPT ![r] = d]
  /\ acct' = [acct EXCEPT ![r] = a]

Answer(r) == Goto(r, "idle", NoDevice, NoAccount)

Save(ok) == file' = IF ok THEN store' ELSE file
SaveCodes(ok) == codesFile' = IF ok THEN codes' ELSE codesFile

Devices(a) == {d \in Device : store.token[d] # 0 /\ owner[d] = a}

\* a device id, and an account id, that were not drawn before
Unborn(d) == owner[d] = NoAccount
Fresh(a) == \A d \in Device : owner[d] # a

\* AddDevice: the record goes in with its first token
Enter(d) == [store EXCEPT !.token[d] = 1]

Bear(d, a) ==
  /\ Unborn(d)
  /\ owner' = [owner EXCEPT ![d] = a]
  /\ minted' = [minted EXCEPT ![d] = 1]

-----------------------------------------------------------------------------
(* Registration: an account with its first device, then the invite.        *)

Create(r, a, d, ok) ==
  /\ pc[r] = "idle"
  /\ Fresh(a)
  /\ Bear(d, a)
  /\ store' = [Enter(d) EXCEPT !.accounts = @ \cup {a}]
  /\ Save(ok)
  /\ IF ok THEN Goto(r, "created", d, a) ELSE UNCHANGED request
  /\ UNCHANGED <<codes, codesFile, told>>

\* mutant: the invite is consumed before there is an account to bind it to
ConsumeFirst(r, c, ok) ==
  /\ pc[r] = "idle"
  /\ codes[c] = "open"
  /\ codes' = [codes EXCEPT ![c] = acct[r]]
  /\ SaveCodes(ok)
  /\ UNCHANGED <<store, file, owner, request, minted, told>>

\* InviteStore.Consume; a failed save leaves the invite consumed in memory
Consume(r, c, ok) ==
  /\ pc[r] = "created"
  /\ codes[c] = "open"
  /\ codes' = [codes EXCEPT ![c] = acct[r]]
  /\ SaveCodes(ok)
  /\ IF ok
     THEN /\ registered' = registered \cup {<<c, acct[r]>>}
          /\ answered' = [answered EXCEPT ![dev[r]] = 1]
          /\ Answer(r)
     ELSE /\ Goto(r, "rollback", dev[r], acct[r])
          /\ UNCHANGED <<registered, answered>>
  /\ UNCHANGED <<store, file, owner, minted, revoked>>

\* the code does not exist or was used
Refused(r, c) ==
  /\ pc[r] = "created"
  /\ codes[c] # "open"
  /\ Goto(r, "rollback", dev[r], acct[r])
  /\ UNCHANGED <<store, file, codes, codesFile, owner, minted, told>>

\* RemoveAccount, with all its devices; the handler ignores its error
Rollback(r, ok) ==
  /\ pc[r] = "rollback"
  /\ store' = [accounts |-> store.accounts \ {acct[r]},
               token |-> [d \in Device |-> IF owner[d] = acct[r] THEN 0 ELSE store.token[d]]]
  /\ Save(ok)
  /\ Answer(r)
  /\ UNCHANGED <<codes, codesFile, owner, minted, told>>

\* a code that is in neither memory nor file stands for a new one
Generate(c, ok) ==
  /\ codes[c] = "none" /\ codesFile[c] = "none"
  /\ codes' = [codes EXCEPT ![c] = "open"]
  /\ SaveCodes(ok)
  /\ UNCHANGED <<store, file, owner, request, minted, told>>

\* mutant: revokes an invite that was consumed
RemoveAnyInvite(c, ok) ==
  /\ codes[c] # "none"
  /\ codes' = [codes EXCEPT ![c] = "none"]
  /\ SaveCodes(ok)
  /\ UNCHANGED <<store, file, owner, request, minted, told>>

RemoveInvite(c, ok) ==
  /\ codes[c] = "open"
  /\ codes' = [codes EXCEPT ![c] = "none"]
  /\ SaveCodes(ok)
  /\ UNCHANGED <<store, file, owner, request, minted, told>>

-----------------------------------------------------------------------------
(* Devices of an account.                                                  *)

\* VerifyDevice: the caller presents the latest token it was sent
Authenticate(r, d) ==
  /\ pc[r] = "idle"
  /\ answered[d] # 0
  /\ store.token[d] = answered[d]
  /\ owner[d] \in store.accounts
  /\ Goto(r, "authed", d, owner[d])
  /\ UNCHANGED <<store, file, codes, codesFile, owner, minted, told>>

\* mutant: an account may have one device more than the limit
BelowLimitOrAt(a) == Cardinality(Devices(a)) <= MaxDevices

BelowLimit(a) == Cardinality(Devices(a)) < MaxDevices

\* AddDeviceForAccount up to the limit, for a device's request ...
CheckLimit(r) ==
  /\ pc[r] = "authed"
  /\ IF acct[r] \in store.accounts /\ BelowLimit(acct[r])
     THEN Goto(r, "adding", NoDevice, acct[r])
     ELSE Answer(r)
  /\ UNCHANGED <<store, file, codes, codesFile, owner, minted, told>>

\* ... and for the administrator's, which names any account
AdminCheckLimit(r, a) ==
  /\ pc[r] = "idle"
  /\ a \in store.accounts
  /\ BelowLimit(a)
  /\ Goto(r, "adding", NoDevice, a)
  /\ UNCHANGED <<store, file, codes, codesFile, owner, minted, told>>

\* AddDevice, after the token was hashed without a lock
AddDevice(r, d, ok) ==
  /\ pc[r] = "adding"
  /\ Bear(d, acct[r])
  /\ store' = Enter(d)
  /\ Save(ok)
  /\ answered' = IF ok THEN [answered EXCEPT ![d] = 1] ELSE answered
  /\ Answer(r)
  /\ UNCHANGED <<codes, codesFile, registered, revoked>>

\* RotateToken reads the record of a device of the caller's account ...
FindForRotate(r, d) ==
  /\ pc[r] = "authed"
  /\ store.token[d] # 0 /\ owner[d] = acct[r]
  /\ Goto(r, "rotating", d, acct[r])
  /\ UNCHANGED <<store, file, codes, codesFile, owner, minted, told>>

\* mutant: stores the record under its id once more
RotateReenters(r, ok) ==
  LET d == dev[r] IN
  /\ pc[r] = "rotating"
  /\ minted[d] < MaxTokens
  /\ minted' = [minted EXCEPT ![d] = @ + 1]
  /\ store' = [store EXCEPT !.token[d] = minted'[d]]
  /\ Save(ok)
  /\ answered' = IF ok THEN [answered EXCEPT ![d] = minted'[d]] ELSE answered
  /\ Answer(r)
  /\ UNCHANGED <<codes, codesFile, owner, registered, revoked>>

\* mutant: answers without having saved
RotateUnsaved(r, ok) ==
  LET d == dev[r] IN
  /\ pc[r] = "rotating"
  /\ minted[d] < MaxTokens
  /\ minted' = [minted EXCEPT ![d] = @ + 1]
  /\ store' = IF store.token[d] = 0 THEN store ELSE [store EXCEPT !.token[d] = minted'[d]]
  /\ UNCHANGED file
  /\ answered' = [answered EXCEPT ![d] = minted'[d]]
  /\ Answer(r)
  /\ UNCHANGED <<codes, codesFile, owner, registered, revoked>>

(* ... and changes it under the lock: a record that was removed meanwhile  *)
(* changes on its own, and its new token is answered all the same.         *)
Rotate(r, ok) ==
  LET d == dev[r] IN
  /\ pc[r] = "rotating"
  /\ minted[d] < MaxTokens
  /\ minted' = [minted EXCEPT ![d] = @ + 1]
  /\ store' = IF store.token[d] = 0 THEN store ELSE [store EXCEPT !.token[d] = minted'[d]]
  /\ Save(ok)
  /\ answered' = IF ok THEN [answered EXCEPT ![d] = minted'[d]] ELSE answered
  /\ Answer(r)
  /\ UNCHANGED <<codes, codesFile, owner, registered, revoked>>

\* RemoveDevice; on success the node is kicked (module Hub)
RemoveDevice(d, ok) ==
  /\ store.token[d] # 0
  /\ store' = [store EXCEPT !.token[d] = 0]
  /\ Save(ok)
  /\ revoked' = IF ok THEN revoked \cup {d} ELSE revoked
  /\ UNCHANGED <<codes, codesFile, owner, minted, answered, registered>>

Revoke(r, d, ok) ==
  /\ pc[r] = "authed"
  /\ owner[d] = acct[r]
  /\ RemoveDevice(d, ok)
  /\ Answer(r)

AdminRevoke(d, ok) == RemoveDevice(d, ok) /\ UNCHANGED request

\* the request fails for a reason of its own
Fail(r) ==
  /\ pc[r] \in {"authed", "adding", "rotating"}
  /\ Answer(r)
  /\ UNCHANGED <<store, file, codes, codesFile, owner, minted, told>>

\* RenameDevice, SetAccountTier, SetDeviceEgress: all of memory is saved
SaveOther ==
  /\ store.accounts # {}
  /\ file' = store
  /\ UNCHANGED <<store, codes, codesFile, owner, request, minted, told>>

\* the server ends and reads its files; requests under way are lost
Reopen ==
  /\ store' = file
  /\ codes' = codesFile
  /\ pc' = [r \in Request |-> "idle"]
  /\ dev' = [r \in Request |-> NoDevice]
  /\ acct' = [r \in Request |-> NoAccount]
  /\ UNCHANGED <<file, codesFile, owner, minted, told>>

Next ==
  \/ \E r \in Request, ok \in BOOLEAN :
       \/ \E a \in Account, d \in Device : Create(r, a, d, ok)
       \/ \E c \in Code : Consume(r, c, ok)
       \/ \E d \in Device : AddDevice(r, d, ok) \/ Revoke(r, d, ok)
       \/ Rollback(r, ok) \/ Rotate(r, ok)
  \/ \E r \in Request :
       \/ \E c \in Code : Refused(r, c)
       \/ \E d \in Device : Authenticate(r, d) \/ FindForRotate(r, d)
       \/ \E a \in Account : AdminCheckLimit(r, a)
       \/ CheckLimit(r) \/ Fail(r)
  \/ \E c \in Code, ok \in BOOLEAN : Generate(c, ok) \/ RemoveInvite(c, ok)
  \/ \E d \in Device, ok \in BOOLEAN : AdminRevoke(d, ok)
  \/ SaveOther
  \/ Reopen

Spec == Init /\ [][Next]_vars

-----------------------------------------------------------------------------
(* Properties.                                                             *)

(* A registration that was answered "ok" is there for good, in memory as   *)
(* on disk: its account exists and its invite is consumed by it and by no  *)
(* other, whichever requests overlapped it, saves failed or restarts came. *)
RegisteredForGood ==
  \A g \in registered :
    /\ g[2] \in store.accounts \cap file.accounts
    /\ codes[g[1]] = g[2] /\ codesFile[g[1]] = g[2]

(* A device whose revocation was answered "ok" is in neither memory nor    *)
(* file ever again: no rotation that found it before, no save and no       *)
(* restart brings it back.                                                 *)
RevokedForGood ==
  \A d \in revoked : store.token[d] = 0 /\ file.token[d] = 0

(* Once a new token was answered, no older one is accepted, be it from     *)
(* memory or after a restart.                                              *)
RotatedForGood ==
  \A d \in Device, book \in {store, file} :
    book.token[d] # 0 => book.token[d] >= answered[d]

(* Requests that pass the check of the limit together can pass the limit   *)
(* together, but by no more than one device for each but the last.         *)
DeviceOverrun ==
  \A a \in Account : Cardinality(Devices(a)) <= MaxDevices + Cardinality(Request) - 1
=============================================================================
