--------------------------- MODULE Accounts_proofs ---------------------------
(***************************************************************************)
(* That the stores keep what was answered, and that racing requests pass   *)
(* the limit of devices by no more than their number, for every set of     *)
(* accounts, devices, invites and requests.                                *)
(***************************************************************************)
EXTENDS Accounts, FiniteSetTheorems, TLAPS

Registering(r) == pc[r] \in {"created", "rollback"}

(* What a request knows where it stands.  A registration has its account   *)
(* to itself, and its account is in memory and file until it is rolled     *)
(* back.                                                                   *)
Standing ==
  \A r \in Request :
    /\ pc[r] \in {"authed", "adding", "rotating"} => acct[r] \in Account
    /\ pc[r] \in {"authed", "rotating"} => dev[r] \in Device /\ owner[dev[r]] # NoAccount
    /\ Registering(r) =>
         /\ dev[r] \in Device /\ acct[r] \in Account
         /\ owner[dev[r]] = acct[r] /\ minted[dev[r]] >= 1
         /\ \A s \in Request \ {r} : Registering(s) => acct[s] # acct[r]
         /\ \A g \in registered : g[2] # acct[r]
    /\ pc[r] = "created" => acct[r] \in store.accounts \cap file.accounts

\* a device id that was not drawn has left no trace
Unborns ==
  \A d \in Device :
    /\ Unborn(d) => /\ store.token[d] = 0 /\ file.token[d] = 0
                    /\ minted[d] = 0 /\ d \notin revoked
    /\ answered[d] <= minted[d]

\* the account of a registration was drawn
Drawn == \A g \in registered : ~Fresh(g[2])

IInv ==
  /\ TypeOK
  /\ Standing
  /\ Unborns
  /\ Drawn
  /\ RegisteredForGood
  /\ RevokedForGood
  /\ RotatedForGood

FileDevices(a) == {d \in Device : file.token[d] # 0 /\ owner[d] = a}

\* the requests that passed the check and have not added yet
Adding(a) == {r \in Request : pc[r] = "adding" /\ acct[r] = a}

Overrun == MaxDevices + Cardinality(Request) - 1

(* A request that passed the check holds a place: with those taken, the    *)
(* places of an account are bounded, and so are those a restart restores.  *)
Within(devices, saved, adding) ==
  /\ IsFiniteSet(devices) /\ IsFiniteSet(saved)
  /\ Cardinality(devices) + Cardinality(adding) <= Overrun
  /\ Cardinality(saved) <= Overrun

Bounded == \A a \in Account : Within(Devices(a), FileDevices(a), Adding(a))

-----------------------------------------------------------------------------
(* Type correctness.                                                       *)

(* A step that keeps the request's place and saves keeps the types of both *)
(* files.                                                                  *)
LEMMA SaveType ==
  ASSUME TypeOK, NEW ok \in BOOLEAN, store' \in Book, Save(ok)
  PROVE  file' \in Book
  BY DEF TypeOK, Save

LEMMA SaveCodesType ==
  ASSUME TypeOK, NEW ok \in BOOLEAN, codes' \in CodeBook, SaveCodes(ok)
  PROVE  codesFile' \in CodeBook
  BY DEF TypeOK, SaveCodes

LEMMA GotoType ==
  ASSUME TypeOK, NEW r \in Request,
         NEW p \in {"idle", "created", "rollback", "authed", "adding", "rotating"},
         NEW d \in Device \cup {NoDevice}, NEW a \in Account \cup {NoAccount}, Goto(r, p, d, a)
  PROVE  /\ pc' \in [Request -> {"idle", "created", "rollback", "authed", "adding", "rotating"}]
         /\ dev' \in [Request -> Device \cup {NoDevice}]
         /\ acct' \in [Request -> Account \cup {NoAccount}]
  BY DEF TypeOK, Goto

LEMMA BearType ==
  ASSUME TypeOK, NEW d \in Device, NEW a \in Account, Bear(d, a)
  PROVE  /\ owner' \in [Device -> Account \cup {NoAccount}]
         /\ minted' \in [Device -> 0..MaxTokens]
         /\ Enter(d) \in Book
  BY AccountsAssumption DEF TypeOK, Bear, Enter, Book

LEMMA TypeNext ==
  ASSUME TypeOK, Standing, [Next]_vars
  PROVE  TypeOK'
  <1> USE DEF TypeOK
  <1>1. CASE UNCHANGED vars
    BY <1>1 DEF vars, request, told
  <1>2. ASSUME NEW r \in Request, NEW a \in Account, NEW d \in Device, NEW ok \in BOOLEAN,
               Create(r, a, d, ok)
        PROVE  TypeOK'
    <2>1. store' \in Book
      BY <1>2, BearType DEF Create, Book
    <2>2. file' \in Book
      BY <1>2, <2>1, SaveType DEF Create
    <2>3. CASE ok
      BY <1>2, <2>1, <2>2, <2>3, BearType, GotoType DEF Create, told
    <2>4. CASE ~ok
      BY <1>2, <2>1, <2>2, <2>4, BearType DEF Create, request, told
    <2> QED
      BY <2>3, <2>4
  <1>3. ASSUME NEW r \in Request, NEW c \in Code, NEW ok \in BOOLEAN, Consume(r, c, ok)
        PROVE  TypeOK'
    <2>1. dev[r] \in Device /\ acct[r] \in Account
      BY <1>3 DEF Consume, Standing, Registering
    <2>2. codes' \in CodeBook
      BY <1>3, <2>1 DEF Consume, CodeBook
    <2>3. codesFile' \in CodeBook
      BY <1>3, <2>2, SaveCodesType DEF Consume
    <2>4. CASE ok
      <3>1. registered' \subseteq Code \X Account
        BY <1>3, <2>1, <2>4 DEF Consume
      <3>2. answered' \in [Device -> 0..MaxTokens]
        BY <1>3, <2>1, <2>4, AccountsAssumption DEF Consume
      <3> QED
        BY <1>3, <2>2, <2>3, <2>4, <3>1, <3>2, GotoType DEF Consume, Answer
    <2>5. CASE ~ok
      BY <1>3, <2>1, <2>2, <2>3, <2>5, GotoType DEF Consume
    <2> QED
      BY <2>4, <2>5
  <1>4. ASSUME NEW r \in Request, NEW d \in Device, NEW ok \in BOOLEAN, AddDevice(r, d, ok)
        PROVE  TypeOK'
    <2>1. acct[r] \in Account
      BY <1>4 DEF AddDevice, Standing
    <2>2. store' \in Book
      BY <1>4, <2>1, BearType DEF AddDevice
    <2>3. file' \in Book
      BY <1>4, <2>2, SaveType DEF AddDevice
    <2>4. answered' \in [Device -> 0..MaxTokens]
      BY <1>4, AccountsAssumption DEF AddDevice
    <2> QED
      BY <1>4, <2>1, <2>2, <2>3, <2>4, BearType, GotoType DEF AddDevice, Answer
  <1>5. ASSUME NEW d \in Device, NEW ok \in BOOLEAN, RemoveDevice(d, ok)
        PROVE  /\ store' \in Book /\ file' \in Book /\ revoked' \subseteq Device
               /\ UNCHANGED <<codes, codesFile, owner, minted, answered, registered>>
    <2>1. store' \in Book
      BY <1>5, AccountsAssumption DEF RemoveDevice, Book
    <2> QED
      BY <1>5, <2>1, SaveType DEF RemoveDevice
  <1>6. ASSUME NEW r \in Request, NEW d \in Device, NEW ok \in BOOLEAN, Revoke(r, d, ok)
        PROVE  TypeOK'
    BY <1>5, <1>6, GotoType DEF Revoke, Answer
  <1>7. ASSUME NEW d \in Device, NEW ok \in BOOLEAN, AdminRevoke(d, ok)
        PROVE  TypeOK'
    BY <1>5, <1>7 DEF AdminRevoke, request
  <1>8. ASSUME NEW r \in Request, NEW ok \in BOOLEAN, Rollback(r, ok)
        PROVE  TypeOK'
    <2>1. store' \in Book
      BY <1>8, AccountsAssumption DEF Rollback, Book
    <2> QED
      BY <1>8, <2>1, SaveType, GotoType DEF Rollback, Answer, told
  <1>9. ASSUME NEW r \in Request, NEW ok \in BOOLEAN, Rotate(r, ok)
        PROVE  TypeOK'
    <2>1. dev[r] \in Device
      BY <1>9 DEF Rotate, Standing
    <2>2. minted' \in [Device -> 0..MaxTokens] /\ minted'[dev[r]] \in 0..MaxTokens
      BY <1>9, <2>1, AccountsAssumption DEF Rotate
    <2>3. store' \in Book
      BY <1>9, <2>1, <2>2 DEF Rotate, Book
    <2>4. answered' \in [Device -> 0..MaxTokens]
      BY <1>9, <2>1, <2>2 DEF Rotate
    <2> QED
      BY <1>9, <2>2, <2>3, <2>4, SaveType, GotoType DEF Rotate, Answer
  <1>10. ASSUME NEW r \in Request, NEW c \in Code, Refused(r, c)
         PROVE  TypeOK'
    BY <1>10, GotoType DEF Refused, told
  <1>11. ASSUME NEW r \in Request, NEW d \in Device, Authenticate(r, d) \/ FindForRotate(r, d)
         PROVE  TypeOK'
    BY <1>11, GotoType DEF Authenticate, FindForRotate, told
  <1>12. ASSUME NEW r \in Request, NEW a \in Account, AdminCheckLimit(r, a)
         PROVE  TypeOK'
    BY <1>12, GotoType DEF AdminCheckLimit, told
  <1>13. ASSUME NEW r \in Request, CheckLimit(r) \/ Fail(r)
         PROVE  TypeOK'
    BY <1>13, GotoType DEF CheckLimit, Fail, Answer, told
  <1>14. ASSUME NEW c \in Code, NEW ok \in BOOLEAN, Generate(c, ok) \/ RemoveInvite(c, ok)
         PROVE  TypeOK'
    <2>1. codes' \in CodeBook
      BY <1>14 DEF Generate, RemoveInvite, CodeBook
    <2> QED
      BY <1>14, <2>1, SaveCodesType DEF Generate, RemoveInvite, request, told
  <1>15. CASE SaveOther
    BY <1>15 DEF SaveOther, request, told
  <1>16. CASE Reopen
    BY <1>16 DEF Reopen, told
  <1> QED
    BY <1>1, <1>2, <1>3, <1>4, <1>6, <1>7, <1>8, <1>9, <1>10, <1>11, <1>12, <1>13, <1>14,
       <1>15, <1>16 DEF Next

-----------------------------------------------------------------------------
(* What a step does to one request, device or account at a time.           *)

LEMMA GotoAt ==
  ASSUME TypeOK, NEW r \in Request, NEW p, NEW d, NEW a, Goto(r, p, d, a)
  PROVE  /\ pc'[r] = p /\ dev'[r] = d /\ acct'[r] = a
         /\ \A s \in Request \ {r} :
              pc'[s] = pc[s] /\ dev'[s] = dev[s] /\ acct'[s] = acct[s]
  BY DEF TypeOK, Goto

LEMMA BearAt ==
  ASSUME TypeOK, Unborns, NEW d \in Device, NEW a \in Account, Bear(d, a)
  PROVE  /\ owner[d] = NoAccount /\ owner'[d] = a /\ minted'[d] = 1
         /\ store.token[d] = 0 /\ file.token[d] = 0 /\ answered[d] = 0 /\ d \notin revoked
         /\ Enter(d).accounts = store.accounts /\ Enter(d).token[d] = 1
         /\ \A e \in Device \ {d} : /\ owner'[e] = owner[e] /\ minted'[e] = minted[e]
                                    /\ Enter(d).token[e] = store.token[e]
  <1>1. owner[d] = NoAccount /\ owner'[d] = a /\ minted'[d] = 1
    BY DEF TypeOK, Bear, Unborn
  <1>2. store.token[d] = 0 /\ file.token[d] = 0 /\ answered[d] = 0 /\ d \notin revoked
    BY <1>1 DEF Unborns, Unborn, TypeOK
  <1>3. Enter(d).accounts = store.accounts /\ Enter(d).token[d] = 1
    BY DEF TypeOK, Book, Enter
  <1>4. \A e \in Device \ {d} : /\ owner'[e] = owner[e] /\ minted'[e] = minted[e]
                                /\ Enter(d).token[e] = store.token[e]
    BY DEF TypeOK, Book, Enter, Bear
  <1> QED
    BY <1>1, <1>2, <1>3, <1>4

LEMMA RemoveAt ==
  ASSUME TypeOK, NEW d \in Device, NEW ok \in BOOLEAN, RemoveDevice(d, ok)
  PROVE  /\ store'.accounts = store.accounts
         /\ store'.token[d] = 0
         /\ \A e \in Device \ {d} : store'.token[e] = store.token[e]
         /\ file' = IF ok THEN store' ELSE file
         /\ revoked' = IF ok THEN revoked \cup {d} ELSE revoked
         /\ UNCHANGED <<codes, codesFile, owner, minted, answered, registered>>
  BY DEF TypeOK, Book, RemoveDevice, Save

(* A rotation raises a device's token, unless the device is gone.          *)
LEMMA RotateAt ==
  ASSUME TypeOK, Standing, NEW r \in Request, NEW ok \in BOOLEAN, Rotate(r, ok)
  PROVE  /\ dev[r] \in Device /\ owner[dev[r]] # NoAccount
         /\ minted'[dev[r]] = minted[dev[r]] + 1
         /\ store'.accounts = store.accounts
         /\ store'.token[dev[r]] = IF store.token[dev[r]] = 0 THEN 0 ELSE minted'[dev[r]]
         /\ \A e \in Device \ {dev[r]} :
              minted'[e] = minted[e] /\ store'.token[e] = store.token[e]
         /\ file' = IF ok THEN store' ELSE file
         /\ answered' = IF ok THEN [answered EXCEPT ![dev[r]] = minted'[dev[r]]] ELSE answered
         /\ Answer(r)
         /\ UNCHANGED <<codes, codesFile, owner, registered, revoked>>
  <1>1. dev[r] \in Device /\ owner[dev[r]] # NoAccount
    BY DEF Rotate, Standing
  <1>2. /\ minted'[dev[r]] = minted[dev[r]] + 1
        /\ \A e \in Device \ {dev[r]} : minted'[e] = minted[e]
    BY <1>1 DEF Rotate, TypeOK
  <1>3. /\ store'.accounts = store.accounts
        /\ store'.token[dev[r]] = IF store.token[dev[r]] = 0 THEN 0 ELSE minted'[dev[r]]
        /\ \A e \in Device \ {dev[r]} : store'.token[e] = store.token[e]
    BY <1>1 DEF Rotate, TypeOK, Book
  <1> QED
    BY <1>1, <1>2, <1>3 DEF Rotate, Save

-----------------------------------------------------------------------------
(* Where a request stands.                                                 *)

(* A step of r that leaves the books and the tokens as they are keeps the  *)
(* others where they stand, and r too if it does not enter a registration. *)
LEMMA StandingMove ==
  ASSUME TypeOK, Standing, NEW r \in Request, NEW p, NEW d, NEW a, Goto(r, p, d, a),
         UNCHANGED <<registered, owner, minted>>,
         store.accounts \subseteq store'.accounts, file.accounts \subseteq file'.accounts,
         p \notin {"created", "rollback"},
         p \in {"authed", "adding", "rotating"} => a \in Account,
         p \in {"authed", "rotating"} => d \in Device /\ owner[d] # NoAccount
  PROVE  Standing'
  <1>1. /\ pc'[r] = p /\ dev'[r] = d /\ acct'[r] = a
        /\ \A s \in Request \ {r} :
             pc'[s] = pc[s] /\ dev'[s] = dev[s] /\ acct'[s] = acct[s]
    BY GotoAt
  <1> QED
    BY <1>1 DEF Standing, Registering

LEMMA StandingNext ==
  ASSUME IInv, [Next]_vars
  PROVE  Standing'
  <1> USE DEF IInv
  <1>1. CASE UNCHANGED vars
    BY <1>1 DEF vars, request, told, Standing, Registering
  <1>2. ASSUME NEW r \in Request, NEW a \in Account, NEW d \in Device, NEW ok \in BOOLEAN,
               Create(r, a, d, ok)
        PROVE  Standing'
    <2>1. /\ owner[d] = NoAccount /\ owner'[d] = a /\ minted'[d] = 1
          /\ \A e \in Device \ {d} : owner'[e] = owner[e] /\ minted'[e] = minted[e]
      BY <1>2, BearAt DEF Create
    <2>2. /\ registered' = registered
          /\ store'.accounts = store.accounts \cup {a}
          /\ file' = IF ok THEN store' ELSE file
      BY <1>2 DEF Create, told, Save, Enter, TypeOK, Book
    <2>3. \A g \in registered : g[2] # a
      BY <1>2 DEF Create, Drawn, Fresh
    <2>4. \A s \in Request : Registering(s) => acct[s] # a
      BY <1>2 DEF Create, Standing, Fresh
    <2>5. \A s \in Request : pc[s] = "created" =>
             acct[s] \in store'.accounts \cap file'.accounts
      BY <2>2 DEF Standing
    <2>6. \A s \in Request :
            /\ dev[s] \in Device /\ owner[dev[s]] # NoAccount => owner'[dev[s]] = owner[dev[s]]
            /\ dev[s] \in Device /\ minted[dev[s]] >= 1 => minted'[dev[s]] >= 1
      BY <2>1
    <2>7. CASE ok
      <3>1. /\ pc'[r] = "created" /\ dev'[r] = d /\ acct'[r] = a
            /\ \A s \in Request \ {r} :
                 pc'[s] = pc[s] /\ dev'[s] = dev[s] /\ acct'[s] = acct[s]
        BY <1>2, <2>7, GotoAt DEF Create
      <3>2. pc[r] = "idle" /\ a \in store'.accounts \cap file'.accounts
        BY <1>2, <2>2, <2>7 DEF Create
      <3> QED
        BY <2>1, <2>2, <2>3, <2>4, <2>5, <2>6, <3>1, <3>2, AccountsAssumption
        DEF Standing, Registering
    <2>8. CASE ~ok
      BY <1>2, <2>2, <2>5, <2>6, <2>8, AccountsAssumption
      DEF Create, Standing, Registering, request
    <2> QED
      BY <2>7, <2>8
  <1>3. ASSUME NEW r \in Request, NEW c \in Code, NEW ok \in BOOLEAN, Consume(r, c, ok)
        PROVE  Standing'
    <2>1. /\ pc[r] = "created" /\ dev[r] \in Device /\ acct[r] \in Account
          /\ owner' = owner /\ minted' = minted /\ store' = store /\ file' = file
      BY <1>3 DEF Consume, Standing, Registering
    <2>2. CASE ok
      <3>1. /\ pc'[r] = "idle"
            /\ \A s \in Request \ {r} :
                 pc'[s] = pc[s] /\ dev'[s] = dev[s] /\ acct'[s] = acct[s]
        BY <1>3, <2>2, GotoAt DEF Consume, Answer
      <3>2. registered' = registered \cup {<<c, acct[r]>>}
        BY <1>3, <2>2 DEF Consume
      <3>3. \A s \in Request \ {r} : Registering(s) => \A g \in registered' : g[2] # acct[s]
        BY <2>1, <3>2 DEF Standing, Registering
      <3> QED
        BY <2>1, <3>1, <3>3 DEF Standing, Registering
    <2>3. CASE ~ok
      <3>1. /\ pc'[r] = "rollback" /\ dev'[r] = dev[r] /\ acct'[r] = acct[r]
            /\ \A s \in Request \ {r} :
                 pc'[s] = pc[s] /\ dev'[s] = dev[s] /\ acct'[s] = acct[s]
        BY <1>3, <2>3, GotoAt DEF Consume
      <3>2. registered' = registered
        BY <1>3, <2>3 DEF Consume
      <3> QED
        BY <2>1, <3>1, <3>2 DEF Standing, Registering
    <2> QED
      BY <2>2, <2>3
  <1>4. ASSUME NEW r \in Request, NEW d \in Device, NEW ok \in BOOLEAN, AddDevice(r, d, ok)
        PROVE  Standing'
    <2>1. acct[r] \in Account
      BY <1>4 DEF AddDevice, Standing
    <2>2. /\ owner[d] = NoAccount /\ owner'[d] = acct[r] /\ minted'[d] = 1
          /\ \A e \in Device \ {d} : owner'[e] = owner[e] /\ minted'[e] = minted[e]
      BY <1>4, <2>1, BearAt DEF AddDevice
    <2>3. /\ registered' = registered
          /\ store'.accounts = store.accounts
          /\ file' = IF ok THEN store' ELSE file
      BY <1>4 DEF AddDevice, Save, Enter, TypeOK, Book
    <2>4. /\ pc'[r] = "idle"
          /\ \A s \in Request \ {r} :
               pc'[s] = pc[s] /\ dev'[s] = dev[s] /\ acct'[s] = acct[s]
      BY <1>4, GotoAt DEF AddDevice, Answer
    <2>5. \A s \in Request : pc[s] = "created" =>
             acct[s] \in store'.accounts \cap file'.accounts
      BY <2>3 DEF Standing
    <2>6. \A s \in Request :
            /\ dev[s] \in Device /\ owner[dev[s]] # NoAccount => owner'[dev[s]] = owner[dev[s]]
            /\ dev[s] \in Device /\ minted[dev[s]] >= 1 => minted'[dev[s]] >= 1
      BY <2>2
    <2> QED
      BY <2>3, <2>4, <2>5, <2>6, AccountsAssumption DEF Standing, Registering
  <1>5. ASSUME NEW d \in Device, NEW ok \in BOOLEAN, RemoveDevice(d, ok)
        PROVE  /\ UNCHANGED <<registered, owner, minted>>
               /\ store.accounts = store'.accounts
               /\ \A s \in Request : pc[s] = "created" =>
                    acct[s] \in store'.accounts \cap file'.accounts
    <2>1. /\ UNCHANGED <<registered, owner, minted>>
          /\ store'.accounts = store.accounts
          /\ file' = IF ok THEN store' ELSE file
      BY <1>5, RemoveAt
    <2> QED
      BY <2>1 DEF Standing
  <1>6. ASSUME NEW r \in Request, NEW d \in Device, NEW ok \in BOOLEAN, Revoke(r, d, ok)
        PROVE  Standing'
    <2>1. /\ pc'[r] = "idle"
          /\ \A s \in Request \ {r} :
               pc'[s] = pc[s] /\ dev'[s] = dev[s] /\ acct'[s] = acct[s]
      BY <1>6, GotoAt DEF Revoke, Answer
    <2> QED
      BY <1>5, <1>6, <2>1 DEF Revoke, Standing, Registering
  <1>7. ASSUME NEW d \in Device, NEW ok \in BOOLEAN, AdminRevoke(d, ok)
        PROVE  Standing'
    BY <1>5, <1>7 DEF AdminRevoke, Standing, Registering, request
  <1>8. ASSUME NEW r \in Request, NEW ok \in BOOLEAN, Rollback(r, ok)
        PROVE  Standing'
    <2>1. /\ pc[r] = "rollback" /\ acct[r] \in Account
          /\ \A s \in Request \ {r} : pc[s] = "created" => acct[s] # acct[r]
      BY <1>8 DEF Rollback, Standing, Registering
    <2>2. /\ store'.accounts = store.accounts \ {acct[r]}
          /\ file' = IF ok THEN store' ELSE file
          /\ UNCHANGED <<registered, owner, minted>>
      BY <1>8 DEF Rollback, Save, told
    <2>3. \A s \in Request : pc[s] = "created" =>
             acct[s] \in store'.accounts \cap file'.accounts
      BY <2>1, <2>2 DEF Standing
    <2>4. /\ pc'[r] = "idle"
          /\ \A s \in Request \ {r} :
               pc'[s] = pc[s] /\ dev'[s] = dev[s] /\ acct'[s] = acct[s]
      BY <1>8, GotoAt DEF Rollback, Answer
    <2> QED
      BY <2>2, <2>3, <2>4 DEF Standing, Registering
  <1>9. ASSUME NEW r \in Request, NEW ok \in BOOLEAN, Rotate(r, ok)
        PROVE  Standing'
    <2>1. /\ dev[r] \in Device
          /\ minted'[dev[r]] = minted[dev[r]] + 1
          /\ \A e \in Device \ {dev[r]} : minted'[e] = minted[e]
          /\ store'.accounts = store.accounts
          /\ file' = IF ok THEN store' ELSE file
          /\ UNCHANGED <<registered, owner>>
          /\ Answer(r)
      BY <1>9, RotateAt
    <2>2. \A e \in Device : minted[e] >= 1 => minted'[e] >= 1
      BY <2>1, AccountsAssumption DEF TypeOK
    <2>3. \A s \in Request : pc[s] = "created" =>
             acct[s] \in store'.accounts \cap file'.accounts
      BY <2>1 DEF Standing
    <2>4. /\ pc'[r] = "idle"
          /\ \A s \in Request \ {r} :
               pc'[s] = pc[s] /\ dev'[s] = dev[s] /\ acct'[s] = acct[s]
      BY <2>1, GotoAt DEF Answer
    <2> QED
      BY <2>1, <2>2, <2>3, <2>4 DEF Standing, Registering
  <1>10. ASSUME NEW r \in Request, NEW c \in Code, Refused(r, c)
         PROVE  Standing'
    <2>1. /\ pc'[r] = "rollback" /\ dev'[r] = dev[r] /\ acct'[r] = acct[r]
          /\ \A s \in Request \ {r} :
               pc'[s] = pc[s] /\ dev'[s] = dev[s] /\ acct'[s] = acct[s]
      BY <1>10, GotoAt DEF Refused
    <2> QED
      BY <1>10, <2>1 DEF Refused, Standing, Registering, told
  <1>11. ASSUME NEW r \in Request, NEW d \in Device, Authenticate(r, d) \/ FindForRotate(r, d)
         PROVE  Standing'
    <2>1. CASE Authenticate(r, d)
      <3>1. owner[d] \in Account /\ owner[d] # NoAccount
        BY <2>1, AccountsAssumption DEF Authenticate, TypeOK, Book
      <3> QED
        BY <2>1, <3>1, StandingMove DEF Authenticate, told, TypeOK
    <2>2. CASE FindForRotate(r, d)
      <3>1. acct[r] \in Account /\ owner[d] = acct[r]
        BY <2>2 DEF FindForRotate, Standing
      <3>2. acct[r] # NoAccount
        BY <3>1, AccountsAssumption
      <3> QED
        BY <2>2, <3>1, <3>2, StandingMove DEF FindForRotate, told, TypeOK
    <2> QED
      BY <1>11, <2>1, <2>2
  <1>12. ASSUME NEW r \in Request, NEW a \in Account, AdminCheckLimit(r, a)
         PROVE  Standing'
    BY <1>12, StandingMove DEF AdminCheckLimit, told, TypeOK
  <1>13. ASSUME NEW r \in Request, CheckLimit(r) \/ Fail(r)
         PROVE  Standing'
    <2>1. UNCHANGED <<registered, owner, minted, store, file>>
      BY <1>13 DEF CheckLimit, Fail, told
    <2>2. \/ Goto(r, "idle", NoDevice, NoAccount)
          \/ Goto(r, "adding", NoDevice, acct[r]) /\ acct[r] \in Account
      BY <1>13 DEF CheckLimit, Fail, Answer, Standing
    <2> QED
      BY <2>1, <2>2, StandingMove DEF TypeOK
  <1>14. ASSUME NEW c \in Code, NEW ok \in BOOLEAN, Generate(c, ok) \/ RemoveInvite(c, ok)
         PROVE  Standing'
    BY <1>14 DEF Generate, RemoveInvite, request, told, Standing, Registering
  <1>15. CASE SaveOther
    BY <1>15 DEF SaveOther, request, told, Standing, Registering
  <1>16. CASE Reopen
    BY <1>16 DEF Reopen, told, Standing, Registering
  <1> QED
    BY <1>1, <1>2, <1>3, <1>4, <1>6, <1>7, <1>8, <1>9, <1>10, <1>11, <1>12, <1>13, <1>14,
       <1>15, <1>16 DEF Next

-----------------------------------------------------------------------------
(* The other parts.                                                        *)

(* Only a birth gives a device an owner, and no step leaves a trace of a   *)
(* device that was not born; a client is never sent a token that was not   *)
(* minted.                                                                 *)
LEMMA UnbornsNext ==
  ASSUME IInv, [Next]_vars, TypeOK'
  PROVE  Unborns'
  <1> USE DEF IInv
  <1>1. CASE UNCHANGED <<store, file, owner, minted, answered, revoked>>
    BY <1>1 DEF Unborns, Unborn
  <1>2. ASSUME NEW r \in Request, NEW a \in Account, NEW d \in Device, NEW ok \in BOOLEAN,
               Create(r, a, d, ok)
        PROVE  Unborns'
    <2>1. /\ owner'[d] = a /\ minted'[d] = 1 /\ answered[d] = 0
          /\ Enter(d).token[d] = 1
          /\ \A e \in Device \ {d} : /\ owner'[e] = owner[e] /\ minted'[e] = minted[e]
                                     /\ Enter(d).token[e] = store.token[e]
      BY <1>2, BearAt DEF Create
    <2>2. /\ store'.token = Enter(d).token /\ file' = IF ok THEN store' ELSE file
          /\ answered' = answered /\ revoked' = revoked
      BY <1>2 DEF Create, Save, told, Enter, TypeOK, Book
    <2> QED
      BY <2>1, <2>2, AccountsAssumption DEF Unborns, Unborn
  <1>3. ASSUME NEW r \in Request, NEW c \in Code, NEW ok \in BOOLEAN, Consume(r, c, ok)
        PROVE  Unborns'
    <2>1. dev[r] \in Device /\ minted[dev[r]] >= 1
      BY <1>3 DEF Consume, Standing, Registering
    <2>2. /\ answered' = IF ok THEN [answered EXCEPT ![dev[r]] = 1] ELSE answered
          /\ UNCHANGED <<store, file, owner, minted, revoked>>
      BY <1>3 DEF Consume
    <2>3. \A e \in Device : answered'[e] <= minted[e]
      BY <2>1, <2>2 DEF Unborns, TypeOK
    <2> QED
      BY <2>2, <2>3 DEF Unborns, Unborn
  <1>4. ASSUME NEW r \in Request, NEW d \in Device, NEW ok \in BOOLEAN, AddDevice(r, d, ok)
        PROVE  Unborns'
    <2>1. acct[r] \in Account
      BY <1>4 DEF AddDevice, Standing
    <2>2. /\ owner'[d] = acct[r] /\ minted'[d] = 1 /\ answered[d] = 0
          /\ \A e \in Device \ {d} : /\ owner'[e] = owner[e] /\ minted'[e] = minted[e]
                                     /\ Enter(d).token[e] = store.token[e]
      BY <1>4, <2>1, BearAt DEF AddDevice
    <2>3. /\ store' = Enter(d) /\ file' = IF ok THEN store' ELSE file
          /\ answered' = IF ok THEN [answered EXCEPT ![d] = 1] ELSE answered
          /\ revoked' = revoked
      BY <1>4 DEF AddDevice, Save
    <2>4. \A e \in Device : answered'[e] <= minted'[e]
      BY <2>2, <2>3 DEF Unborns, TypeOK
    <2> QED
      BY <2>1, <2>2, <2>3, <2>4, AccountsAssumption DEF Unborns, Unborn
  <1>5. ASSUME NEW d \in Device, NEW ok \in BOOLEAN, RemoveDevice(d, ok)
        PROVE  Unborns'
    <2>1. owner[d] # NoAccount
      BY <1>5 DEF RemoveDevice, Unborns, Unborn
    <2> QED
      BY <1>5, <2>1, RemoveAt DEF Unborns, Unborn
  <1>6. ASSUME NEW r \in Request, NEW ok \in BOOLEAN, Rollback(r, ok)
        PROVE  Unborns'
    <2>1. /\ \A e \in Device : store'.token[e] = 0 \/ store'.token[e] = store.token[e]
          /\ file' = IF ok THEN store' ELSE file
          /\ UNCHANGED <<owner, minted, answered, revoked>>
      BY <1>6 DEF Rollback, Save, told
    <2> QED
      BY <2>1 DEF Unborns, Unborn
  <1>7. ASSUME NEW r \in Request, NEW ok \in BOOLEAN, Rotate(r, ok)
        PROVE  Unborns'
    <2>1. /\ dev[r] \in Device /\ owner[dev[r]] # NoAccount
          /\ minted'[dev[r]] = minted[dev[r]] + 1
          /\ \A e \in Device \ {dev[r]} :
               minted'[e] = minted[e] /\ store'.token[e] = store.token[e]
          /\ file' = IF ok THEN store' ELSE file
          /\ answered' = IF ok THEN [answered EXCEPT ![dev[r]] = minted'[dev[r]]] ELSE answered
          /\ UNCHANGED <<owner, revoked>>
      BY <1>7, RotateAt
    <2>2. \A e \in Device : answered'[e] <= minted'[e]
      BY <2>1 DEF Unborns, TypeOK
    <2> QED
      BY <2>1, <2>2 DEF Unborns, Unborn
  <1>8. ASSUME NEW c \in Code,
               \/ \E r \in Request : Refused(r, c)
               \/ \E ok \in BOOLEAN : Generate(c, ok) \/ RemoveInvite(c, ok)
        PROVE  Unborns'
    BY <1>1, <1>8 DEF Refused, Generate, RemoveInvite, told
  <1>9. ASSUME NEW r \in Request,
               \/ \E d \in Device : Authenticate(r, d) \/ FindForRotate(r, d)
               \/ \E a \in Account : AdminCheckLimit(r, a)
               \/ CheckLimit(r) \/ Fail(r)
        PROVE  Unborns'
    BY <1>1, <1>9 DEF Authenticate, FindForRotate, AdminCheckLimit, CheckLimit, Fail, told
  <1>10. CASE SaveOther \/ Reopen
    <2>1. UNCHANGED <<owner, minted, answered, revoked>>
      BY <1>10 DEF SaveOther, Reopen, told
    <2>2. store' \in {store, file} /\ file' \in {store, file}
      BY <1>10 DEF SaveOther, Reopen
    <2> QED
      BY <2>1, <2>2 DEF Unborns, Unborn
  <1>11. ASSUME NEW r \in Request, NEW d \in Device, NEW ok \in BOOLEAN, Revoke(r, d, ok)
         PROVE  Unborns'
    BY <1>5, <1>11 DEF Revoke
  <1>12. CASE UNCHANGED vars
    BY <1>1, <1>12 DEF vars, told
  <1>13. ASSUME NEW d \in Device, NEW ok \in BOOLEAN, AdminRevoke(d, ok)
         PROVE  Unborns'
    BY <1>5, <1>13 DEF AdminRevoke
  <1> QED
    BY <1>2, <1>3, <1>4, <1>6, <1>7, <1>8, <1>9, <1>10, <1>11, <1>12, <1>13 DEF Next

(* The accounts of the two books only grow, except for a rollback, whose   *)
(* account no registration has; a save puts memory over the file.          *)
LEMMA AccountsStep ==
  ASSUME IInv, [Next]_vars
  PROVE  \A g \in registered :
           /\ g[2] \in store'.accounts \cap file'.accounts
           /\ ~Fresh(g[2])'
  <1> USE DEF IInv
  <1> SUFFICES ASSUME NEW g \in registered
               PROVE  g[2] \in store'.accounts \cap file'.accounts /\ ~Fresh(g[2])'
    OBVIOUS
  <1>1. g[2] \in store.accounts \cap file.accounts /\ g[2] # NoAccount
    BY AccountsAssumption DEF RegisteredForGood, TypeOK
  <1>2. PICK e \in Device : owner[e] = g[2]
    BY DEF Drawn, Fresh
  <1>3. ASSUME UNCHANGED owner, {store', file'} \subseteq {store, file}
        PROVE  g[2] \in store'.accounts \cap file'.accounts /\ ~Fresh(g[2])'
    BY <1>1, <1>2, <1>3 DEF Fresh
  <1>4. ASSUME NEW ok \in BOOLEAN, Save(ok), UNCHANGED owner, g[2] \in store'.accounts
        PROVE  g[2] \in store'.accounts \cap file'.accounts /\ ~Fresh(g[2])'
    BY <1>1, <1>2, <1>4 DEF Fresh, Save
  <1>5. ASSUME NEW r \in Request, NEW a \in Account, NEW d \in Device, NEW ok \in BOOLEAN,
               Create(r, a, d, ok)
        PROVE  g[2] \in store'.accounts \cap file'.accounts /\ ~Fresh(g[2])'
    <2>1. owner'[e] = owner[e]
      BY <1>1, <1>2, <1>5, BearAt DEF Create
    <2>2. store.accounts \subseteq store'.accounts
      BY <1>5 DEF Create, Enter, TypeOK, Book
    <2> QED
      BY <1>1, <1>2, <1>5, <2>1, <2>2 DEF Create, Save, Fresh
  <1>6. ASSUME NEW r \in Request, NEW d \in Device, NEW ok \in BOOLEAN, AddDevice(r, d, ok)
        PROVE  g[2] \in store'.accounts \cap file'.accounts /\ ~Fresh(g[2])'
    <2>1. acct[r] \in Account
      BY <1>6 DEF AddDevice, Standing
    <2>2. owner'[e] = owner[e] /\ store'.accounts = store.accounts
      BY <1>1, <1>2, <1>6, <2>1, BearAt DEF AddDevice
    <2> QED
      BY <1>1, <1>2, <1>6, <2>2 DEF AddDevice, Save, Fresh
  <1>7. ASSUME NEW d \in Device, NEW ok \in BOOLEAN, RemoveDevice(d, ok)
        PROVE  g[2] \in store'.accounts \cap file'.accounts /\ ~Fresh(g[2])'
    BY <1>1, <1>4, <1>7, RemoveAt DEF RemoveDevice
  <1>8. ASSUME NEW r \in Request, NEW ok \in BOOLEAN, Rollback(r, ok)
        PROVE  g[2] \in store'.accounts \cap file'.accounts /\ ~Fresh(g[2])'
    BY <1>1, <1>4, <1>8 DEF Rollback, Standing, Registering
  <1>9. ASSUME NEW r \in Request, NEW ok \in BOOLEAN, Rotate(r, ok)
        PROVE  g[2] \in store'.accounts \cap file'.accounts /\ ~Fresh(g[2])'
    BY <1>1, <1>4, <1>9, RotateAt DEF Rotate
  <1>10. ASSUME NEW r \in Request,
                \/ \E c \in Code : Refused(r, c) \/ \E ok \in BOOLEAN : Consume(r, c, ok)
                \/ \E d \in Device : Authenticate(r, d) \/ FindForRotate(r, d)
                \/ \E a \in Account : AdminCheckLimit(r, a)
                \/ CheckLimit(r) \/ Fail(r)
         PROVE  UNCHANGED owner /\ {store', file'} \subseteq {store, file}
    BY <1>10
    DEF Refused, Consume, Authenticate, FindForRotate, AdminCheckLimit, CheckLimit, Fail
  <1>11. ASSUME NEW c \in Code, NEW ok \in BOOLEAN, Generate(c, ok) \/ RemoveInvite(c, ok)
         PROVE  UNCHANGED owner /\ {store', file'} \subseteq {store, file}
    BY <1>11 DEF Generate, RemoveInvite
  <1>12. CASE SaveOther \/ Reopen \/ UNCHANGED vars
    BY <1>3, <1>12 DEF SaveOther, Reopen, vars
  <1> QED
    BY <1>3, <1>5, <1>6, <1>7, <1>8, <1>9, <1>10, <1>11, <1>12
    DEF Next, Revoke, AdminRevoke

(* An invite that was consumed stays with its account, and only the        *)
(* account's own registration adds to what was answered.                   *)
LEMMA CodesStep ==
  ASSUME IInv, [Next]_vars
  PROVE  \A g \in registered : codes'[g[1]] = g[2] /\ codesFile'[g[1]] = g[2]
  <1> USE DEF IInv
  <1> SUFFICES ASSUME NEW g \in registered
               PROVE  codes'[g[1]] = g[2] /\ codesFile'[g[1]] = g[2]
    OBVIOUS
  <1>1. /\ codes[g[1]] = g[2] /\ codesFile[g[1]] = g[2]
        /\ g[1] \in Code /\ g[2] \notin {"none", "open"}
    BY AccountsAssumption DEF RegisteredForGood, TypeOK
  <1>2. ASSUME {codes', codesFile'} \subseteq {codes, codesFile}
        PROVE  codes'[g[1]] = g[2] /\ codesFile'[g[1]] = g[2]
    BY <1>1, <1>2
  <1>3. ASSUME NEW c \in Code, NEW v, NEW ok \in BOOLEAN, codes[c] \in {"none", "open"},
               codes' = [codes EXCEPT ![c] = v], SaveCodes(ok)
        PROVE  codes'[g[1]] = g[2] /\ codesFile'[g[1]] = g[2]
    BY <1>1, <1>3 DEF SaveCodes, TypeOK, CodeBook
  <1>4. ASSUME NEW r \in Request, NEW c \in Code, NEW ok \in BOOLEAN, Consume(r, c, ok)
        PROVE  codes'[g[1]] = g[2] /\ codesFile'[g[1]] = g[2]
    BY <1>3, <1>4 DEF Consume
  <1>5. ASSUME NEW c \in Code, NEW ok \in BOOLEAN, Generate(c, ok) \/ RemoveInvite(c, ok)
        PROVE  codes'[g[1]] = g[2] /\ codesFile'[g[1]] = g[2]
    BY <1>3, <1>5 DEF Generate, RemoveInvite
  <1>6. ASSUME NEW r \in Request, NEW ok \in BOOLEAN,
               \/ \E a \in Account, d \in Device : Create(r, a, d, ok)
               \/ \E d \in Device : AddDevice(r, d, ok) \/ Revoke(r, d, ok)
               \/ Rollback(r, ok) \/ Rotate(r, ok)
        PROVE  {codes', codesFile'} \subseteq {codes, codesFile}
    BY <1>6 DEF Create, AddDevice, Revoke, RemoveDevice, Rollback, Rotate
  <1>7. ASSUME NEW r \in Request,
               \/ \E c \in Code : Refused(r, c)
               \/ \E d \in Device : Authenticate(r, d) \/ FindForRotate(r, d)
               \/ \E a \in Account : AdminCheckLimit(r, a)
               \/ CheckLimit(r) \/ Fail(r)
        PROVE  {codes', codesFile'} \subseteq {codes, codesFile}
    BY <1>7 DEF Refused, Authenticate, FindForRotate, AdminCheckLimit, CheckLimit, Fail
  <1>8. ASSUME NEW d \in Device, NEW ok \in BOOLEAN, AdminRevoke(d, ok)
        PROVE  {codes', codesFile'} \subseteq {codes, codesFile}
    BY <1>8 DEF AdminRevoke, RemoveDevice
  <1>9. CASE SaveOther \/ Reopen \/ UNCHANGED vars
    BY <1>2, <1>9 DEF SaveOther, Reopen, vars
  <1> QED
    BY <1>2, <1>4, <1>5, <1>6, <1>7, <1>8, <1>9 DEF Next

LEMMA RegisteredNext ==
  ASSUME IInv, [Next]_vars
  PROVE  RegisteredForGood' /\ Drawn'
  <1> USE DEF IInv
  <1>1. ASSUME UNCHANGED registered
        PROVE  RegisteredForGood' /\ Drawn'
    BY <1>1, AccountsStep, CodesStep DEF RegisteredForGood, Drawn
  <1>2. ASSUME NEW r \in Request, NEW c \in Code, NEW ok \in BOOLEAN, Consume(r, c, ok), ok
        PROVE  RegisteredForGood' /\ Drawn'
    <2>1. /\ pc[r] = "created" /\ dev[r] \in Device
          /\ acct[r] \in store.accounts \cap file.accounts
          /\ owner[dev[r]] = acct[r]
      BY <1>2 DEF Consume, Standing, Registering
    <2>2. /\ registered' = registered \cup {<<c, acct[r]>>}
          /\ store' = store /\ file' = file /\ owner' = owner
          /\ codes'[c] = acct[r] /\ codesFile' = codes'
      BY <1>2 DEF Consume, SaveCodes, TypeOK, CodeBook
    <2>3. \E d \in Device : owner'[d] = acct[r]
      BY <2>1, <2>2
    <2>4. ASSUME NEW g \in registered'
          PROVE  /\ g[2] \in store'.accounts \cap file'.accounts
                 /\ codes'[g[1]] = g[2] /\ codesFile'[g[1]] = g[2]
                 /\ \E d \in Device : owner'[d] = g[2]
      <3>1. CASE g \in registered
        BY <3>1, AccountsStep, CodesStep DEF Fresh
      <3>2. CASE g = <<c, acct[r]>>
        BY <3>2, <2>1, <2>2, <2>3
      <3> QED
        BY <2>2, <3>1, <3>2
    <2> QED
      BY <2>4 DEF RegisteredForGood, Drawn, Fresh
  <1>3. ASSUME NEW r \in Request, NEW c \in Code, NEW ok \in BOOLEAN, Consume(r, c, ok), ~ok
        PROVE  UNCHANGED registered
    BY <1>3 DEF Consume
  <1>4. ASSUME NEW r \in Request, NEW ok \in BOOLEAN,
               \/ \E a \in Account, d \in Device : Create(r, a, d, ok)
               \/ \E d \in Device : AddDevice(r, d, ok) \/ Revoke(r, d, ok)
               \/ Rollback(r, ok) \/ Rotate(r, ok)
        PROVE  UNCHANGED registered
    BY <1>4 DEF Create, AddDevice, Revoke, RemoveDevice, Rollback, Rotate, told
  <1>5. ASSUME NEW r \in Request,
               \/ \E c \in Code : Refused(r, c)
               \/ \E d \in Device : Authenticate(r, d) \/ FindForRotate(r, d)
               \/ \E a \in Account : AdminCheckLimit(r, a)
               \/ CheckLimit(r) \/ Fail(r)
        PROVE  UNCHANGED registered
    BY <1>5 DEF Refused, Authenticate, FindForRotate, AdminCheckLimit, CheckLimit, Fail, told
  <1>6. ASSUME NEW ok \in BOOLEAN,
               \/ \E c \in Code : Generate(c, ok) \/ RemoveInvite(c, ok)
               \/ \E d \in Device : AdminRevoke(d, ok)
        PROVE  UNCHANGED registered
    BY <1>6 DEF Generate, RemoveInvite, AdminRevoke, RemoveDevice, told
  <1>7. CASE SaveOther \/ Reopen \/ UNCHANGED vars
    BY <1>1, <1>7 DEF SaveOther, Reopen, vars, told
  <1> QED
    BY <1>1, <1>2, <1>3, <1>4, <1>5, <1>6, <1>7 DEF Next

(* A removed device comes back by no step: a birth is of another id, a     *)
(* rotation changes a record that is out of the map, and a save or restart *)
(* copies a book without it.                                               *)
LEMMA RevokedNext ==
  ASSUME IInv, [Next]_vars
  PROVE  RevokedForGood'
  <1> USE DEF IInv
  <1>1. ASSUME UNCHANGED revoked, {store', file'} \subseteq {store, file}
        PROVE  RevokedForGood'
    BY <1>1 DEF RevokedForGood
  <1>2. ASSUME NEW ok \in BOOLEAN, Save(ok), UNCHANGED revoked,
               \A e \in revoked : store'.token[e] = 0
        PROVE  RevokedForGood'
    BY <1>2 DEF RevokedForGood, Save
  <1>3. ASSUME NEW r \in Request, NEW a \in Account, NEW d \in Device, NEW ok \in BOOLEAN,
               Create(r, a, d, ok)
        PROVE  RevokedForGood'
    <2>1. /\ d \notin revoked
          /\ \A e \in Device \ {d} : Enter(d).token[e] = store.token[e]
      BY <1>3, BearAt DEF Create
    <2>2. store'.token = Enter(d).token /\ Save(ok) /\ revoked' = revoked
      BY <1>3 DEF Create, told, Enter, TypeOK, Book
    <2> QED
      BY <1>2, <2>1, <2>2 DEF RevokedForGood, TypeOK
  <1>4. ASSUME NEW r \in Request, NEW d \in Device, NEW ok \in BOOLEAN, AddDevice(r, d, ok)
        PROVE  RevokedForGood'
    <2>1. acct[r] \in Account
      BY <1>4 DEF AddDevice, Standing
    <2>2. /\ d \notin revoked
          /\ \A e \in Device \ {d} : Enter(d).token[e] = store.token[e]
      BY <1>4, <2>1, BearAt DEF AddDevice
    <2> QED
      BY <1>2, <1>4, <2>2 DEF AddDevice, RevokedForGood, TypeOK
  <1>5. ASSUME NEW d \in Device, NEW ok \in BOOLEAN, RemoveDevice(d, ok)
        PROVE  RevokedForGood'
    BY <1>5, RemoveAt DEF RevokedForGood, TypeOK
  <1>6. ASSUME NEW r \in Request, NEW ok \in BOOLEAN, Rollback(r, ok)
        PROVE  RevokedForGood'
    BY <1>2, <1>6 DEF Rollback, told, RevokedForGood, TypeOK
  <1>7. ASSUME NEW r \in Request, NEW ok \in BOOLEAN, Rotate(r, ok)
        PROVE  RevokedForGood'
    BY <1>2, <1>7, RotateAt DEF Rotate, RevokedForGood, TypeOK
  <1>8. ASSUME NEW r \in Request,
               \/ \E c \in Code : Refused(r, c) \/ \E ok \in BOOLEAN : Consume(r, c, ok)
               \/ \E d \in Device : Authenticate(r, d) \/ FindForRotate(r, d)
               \/ \E a \in Account : AdminCheckLimit(r, a)
               \/ CheckLimit(r) \/ Fail(r)
        PROVE  UNCHANGED revoked /\ {store', file'} \subseteq {store, file}
    BY <1>8
    DEF Refused, Consume, Authenticate, FindForRotate, AdminCheckLimit, CheckLimit, Fail, told
  <1>9. ASSUME NEW c \in Code, NEW ok \in BOOLEAN, Generate(c, ok) \/ RemoveInvite(c, ok)
        PROVE  UNCHANGED revoked /\ {store', file'} \subseteq {store, file}
    BY <1>9 DEF Generate, RemoveInvite, told
  <1>10. CASE SaveOther \/ Reopen \/ UNCHANGED vars
    BY <1>1, <1>10 DEF SaveOther, Reopen, vars, told
  <1> QED
    BY <1>1, <1>3, <1>4, <1>5, <1>6, <1>7, <1>8, <1>9, <1>10 DEF Next, Revoke, AdminRevoke

(* A token that a client was sent is at most the one in either book: a     *)
(* failed save leaves memory ahead of the file, and nothing is answered.   *)
LEMMA RotatedNext ==
  ASSUME IInv, [Next]_vars, TypeOK'
  PROVE  RotatedForGood'
  <1> USE DEF IInv
  <1>1. ASSUME UNCHANGED answered, {store', file'} \subseteq {store, file}
        PROVE  RotatedForGood'
    BY <1>1 DEF RotatedForGood
  <1>2. ASSUME NEW ok \in BOOLEAN, Save(ok), UNCHANGED answered,
               \A e \in Device : store'.token[e] # 0 => store'.token[e] >= answered[e]
        PROVE  RotatedForGood'
    BY <1>2 DEF RotatedForGood, Save
  <1>3. ASSUME NEW r \in Request, NEW a \in Account, NEW d \in Device, NEW ok \in BOOLEAN,
               Create(r, a, d, ok)
        PROVE  RotatedForGood'
    <2>1. /\ answered[d] = 0 /\ Enter(d).token[d] = 1
          /\ \A e \in Device \ {d} : Enter(d).token[e] = store.token[e]
      BY <1>3, BearAt DEF Create
    <2>2. store'.token = Enter(d).token /\ Save(ok) /\ answered' = answered
      BY <1>3 DEF Create, told, Enter, TypeOK, Book
    <2> QED
      BY <1>2, <2>1, <2>2 DEF RotatedForGood
  <1>4. ASSUME NEW r \in Request, NEW c \in Code, NEW ok \in BOOLEAN, Consume(r, c, ok)
        PROVE  RotatedForGood'
    <2>1. dev[r] \in Device /\ store' = store /\ file' = file
      BY <1>4 DEF Consume, Standing, Registering
    <2>2. \A e \in Device : answered'[e] = answered[e] \/ answered'[e] = 1
      BY <1>4, <2>1 DEF Consume, TypeOK
    <2>3. ASSUME NEW book \in {store, file}, NEW e \in Device
          PROVE  book.token[e] \in Nat
      BY AccountsAssumption DEF TypeOK, Book
    <2> QED
      BY <2>1, <2>2, <2>3 DEF RotatedForGood
  <1>5. ASSUME NEW r \in Request, NEW d \in Device, NEW ok \in BOOLEAN, AddDevice(r, d, ok)
        PROVE  RotatedForGood'
    <2>1. acct[r] \in Account
      BY <1>5 DEF AddDevice, Standing
    <2>2. /\ answered[d] = 0 /\ Enter(d).token[d] = 1 /\ file.token[d] = 0
          /\ \A e \in Device \ {d} : Enter(d).token[e] = store.token[e]
      BY <1>5, <2>1, BearAt DEF AddDevice
    <2>3. store' = Enter(d) /\ file' = IF ok THEN store' ELSE file
      BY <1>5 DEF AddDevice, Save
    <2>4. /\ answered'[d] \in {0, 1}
          /\ \A e \in Device \ {d} : answered'[e] = answered[e]
      BY <1>5, <2>2 DEF AddDevice, TypeOK
    <2>5. \A e \in Device : store'.token[e] # 0 => store'.token[e] >= answered'[e]
      BY <2>2, <2>3, <2>4 DEF RotatedForGood
    <2>6. \A e \in Device : file.token[e] # 0 => file.token[e] >= answered'[e]
      BY <2>2, <2>4 DEF RotatedForGood
    <2> QED
      BY <2>3, <2>5, <2>6 DEF RotatedForGood
  <1>6. ASSUME NEW d \in Device, NEW ok \in BOOLEAN, RemoveDevice(d, ok)
        PROVE  RotatedForGood'
    BY <1>2, <1>6, RemoveAt DEF RotatedForGood, RemoveDevice
  <1>7. ASSUME NEW r \in Request, NEW ok \in BOOLEAN, Rollback(r, ok)
        PROVE  RotatedForGood'
    BY <1>2, <1>7 DEF Rollback, told, RotatedForGood
  <1>8. ASSUME NEW r \in Request, NEW ok \in BOOLEAN, Rotate(r, ok)
        PROVE  RotatedForGood'
    <2>1. /\ dev[r] \in Device
          /\ minted'[dev[r]] = minted[dev[r]] + 1
          /\ store'.token[dev[r]] = IF store.token[dev[r]] = 0 THEN 0 ELSE minted'[dev[r]]
          /\ \A e \in Device \ {dev[r]} : store'.token[e] = store.token[e]
          /\ file' = IF ok THEN store' ELSE file
          /\ answered' = IF ok THEN [answered EXCEPT ![dev[r]] = minted'[dev[r]]] ELSE answered
      BY <1>8, RotateAt
    <2>2. /\ answered[dev[r]] <= minted[dev[r]]
          /\ answered[dev[r]] \in Nat /\ minted[dev[r]] \in Nat
      BY <2>1, AccountsAssumption DEF Unborns, TypeOK
    <2>3. \A e \in Device : store'.token[e] # 0 => store'.token[e] >= answered'[e]
      BY <2>1, <2>2 DEF RotatedForGood, TypeOK
    <2>4. ~ok => \A e \in Device : file'.token[e] # 0 => file'.token[e] >= answered'[e]
      BY <2>1 DEF RotatedForGood
    <2> QED
      BY <2>1, <2>3, <2>4 DEF RotatedForGood
  <1>9. ASSUME NEW r \in Request,
               \/ \E c \in Code : Refused(r, c)
               \/ \E d \in Device : Authenticate(r, d) \/ FindForRotate(r, d)
               \/ \E a \in Account : AdminCheckLimit(r, a)
               \/ CheckLimit(r) \/ Fail(r)
        PROVE  UNCHANGED answered /\ {store', file'} \subseteq {store, file}
    BY <1>9 DEF Refused, Authenticate, FindForRotate, AdminCheckLimit, CheckLimit, Fail, told
  <1>10. ASSUME NEW c \in Code, NEW ok \in BOOLEAN, Generate(c, ok) \/ RemoveInvite(c, ok)
         PROVE  UNCHANGED answered /\ {store', file'} \subseteq {store, file}
    BY <1>10 DEF Generate, RemoveInvite, told
  <1>11. CASE SaveOther \/ Reopen \/ UNCHANGED vars
    BY <1>1, <1>11 DEF SaveOther, Reopen, vars, told
  <1> QED
    BY <1>1, <1>3, <1>4, <1>5, <1>6, <1>7, <1>8, <1>9, <1>10, <1>11
    DEF Next, Revoke, AdminRevoke

-----------------------------------------------------------------------------

(* The inductive invariant of what was answered.                           *)
THEOREM AccountsInvariant == Spec => []IInv
  <1>1. Init => IInv
    <2> SUFFICES ASSUME Init PROVE IInv
      OBVIOUS
    <2>1. TypeOK
      BY AccountsAssumption DEF Init, TypeOK, Book, CodeBook
    <2>2. Standing /\ Unborns /\ Drawn
      BY AccountsAssumption DEF Init, Standing, Registering, Unborns, Drawn
    <2>3. RegisteredForGood /\ RevokedForGood /\ RotatedForGood
      BY DEF Init, RegisteredForGood, RevokedForGood, RotatedForGood
    <2> QED
      BY <2>1, <2>2, <2>3 DEF IInv
  <1>2. IInv /\ [Next]_vars => IInv'
    <2> SUFFICES ASSUME IInv, [Next]_vars PROVE IInv'
      OBVIOUS
    <2>1. TypeOK'
      BY TypeNext DEF IInv
    <2> QED
      BY <2>1, StandingNext, UnbornsNext, RegisteredNext, RevokedNext, RotatedNext DEF IInv
  <1> QED
    BY <1>1, <1>2, PTL DEF Spec

(* The stores, their files and the requests keep their types.              *)
THEOREM TypeCorrect == Spec => []TypeOK
  <1>1. IInv => TypeOK
    BY DEF IInv
  <1> QED
    BY AccountsInvariant, <1>1, PTL

(* A registration that was answered is there for good.                     *)
THEOREM RegisteredCorrect == Spec => []RegisteredForGood
  <1>1. IInv => RegisteredForGood
    BY DEF IInv
  <1> QED
    BY AccountsInvariant, <1>1, PTL

(* A device whose revocation was answered never comes back.                *)
THEOREM RevokedCorrect == Spec => []RevokedForGood
  <1>1. IInv => RevokedForGood
    BY DEF IInv
  <1> QED
    BY AccountsInvariant, <1>1, PTL

(* A token that was replaced is never accepted again.                      *)
THEOREM RotatedCorrect == Spec => []RotatedForGood
  <1>1. IInv => RotatedForGood
    BY DEF IInv
  <1> QED
    BY AccountsInvariant, <1>1, PTL

-----------------------------------------------------------------------------
(* The limit of devices.                                                   *)

\* the requests are finitely many, and so are those of an account
LEMMA AddingFinite ==
  ASSUME NEW A \in SUBSET Request
  PROVE  /\ IsFiniteSet(A)
         /\ Cardinality(A) \in Nat /\ Cardinality(Request) \in Nat
         /\ Cardinality(A) <= Cardinality(Request)
         /\ \A r \in Request \ A : Cardinality(A) <= Cardinality(Request) - 1
  <1>1. IsFiniteSet(Request) /\ IsFiniteSet(A) /\ Cardinality(A) <= Cardinality(Request)
    BY AccountsAssumption, FS_Subset
  <1>2. Cardinality(A) \in Nat /\ Cardinality(Request) \in Nat
    BY <1>1, FS_CardinalityType
  <1>3. ASSUME NEW r \in Request \ A
        PROVE  Cardinality(A) <= Cardinality(Request) - 1
    <2>1. Cardinality(Request \ {r}) = Cardinality(Request) - 1 /\ IsFiniteSet(Request \ {r})
      BY <1>1, FS_RemoveElement
    <2> QED
      BY <2>1, FS_Subset
  <1> QED
    BY <1>1, <1>2, <1>3

(* An account whose devices and places only become fewer stays within the  *)
(* bound, whether memory is saved or not.                                  *)
LEMMA WithinFewer ==
  ASSUME NEW D, NEW F, NEW A \in SUBSET Request, Within(D, F, A),
         NEW D2 \in SUBSET D, NEW F2 \in {F, D2}, NEW A2 \in SUBSET A
  PROVE  Within(D2, F2, A2)
  <1>1. /\ IsFiniteSet(D2) /\ Cardinality(D2) <= Cardinality(D)
        /\ Cardinality(A2) <= Cardinality(A)
    BY FS_Subset, AddingFinite DEF Within
  <1>2. /\ Cardinality(D) \in Nat /\ Cardinality(D2) \in Nat /\ Cardinality(F) \in Nat
        /\ Cardinality(A) \in Nat /\ Cardinality(A2) \in Nat
        /\ Overrun \in Int
    BY <1>1, FS_CardinalityType, AddingFinite, AccountsAssumption DEF Within, Overrun
  <1> QED
    BY <1>1, <1>2 DEF Within

(* A step that leaves the owners alone, drops devices and places, and      *)
(* saves memory or not.                                                    *)
LEMMA BoundedFewer ==
  ASSUME Bounded, UNCHANGED owner, file' \in {file, store'},
         \A d \in Device : store'.token[d] # 0 => store.token[d] # 0,
         \A r \in Request : pc'[r] = "adding" => pc[r] = "adding" /\ acct'[r] = acct[r]
  PROVE  Bounded'
  <1> SUFFICES ASSUME NEW a \in Account
               PROVE  Within(Devices(a)', FileDevices(a)', Adding(a)')
    BY DEF Bounded, Within, Overrun
  <1>1. Within(Devices(a), FileDevices(a), Adding(a))
    BY DEF Bounded
  <1>2. Devices(a)' \in SUBSET Devices(a) /\ Adding(a)' \in SUBSET Adding(a)
    BY DEF Devices, Adding
  <1>3. FileDevices(a)' \in {FileDevices(a), Devices(a)'}
    BY DEF FileDevices, Devices
  <1>4. Adding(a) \in SUBSET Request
    BY DEF Adding
  <1> QED
    BY <1>1, <1>2, <1>3, <1>4, WithinFewer

(* A birth takes the place its request held, or, of an account that has    *)
(* none, the first place.                                                  *)
LEMMA BoundedBirth ==
  ASSUME IInv, Bounded, NEW r \in Request, NEW b \in Account, NEW d \in Device,
         Bear(d, b), file' \in {file, store'}, store'.token = Enter(d).token,
         \/ pc[r] = "adding" /\ acct[r] = b
         \/ pc[r] = "idle" /\ Fresh(b),
         pc'[r] # "adding",
         \A s \in Request \ {r} : pc'[s] = pc[s] /\ acct'[s] = acct[s]
  PROVE  Bounded'
  <1> SUFFICES ASSUME NEW a \in Account
               PROVE  Within(Devices(a)', FileDevices(a)', Adding(a)')
    BY DEF Bounded, Within, Overrun
  <1>1. /\ owner[d] = NoAccount /\ owner'[d] = b /\ b # NoAccount /\ a # NoAccount
        /\ store.token[d] = 0 /\ file.token[d] = 0
        /\ store'.token[d] = 1
        /\ \A e \in Device \ {d} : owner'[e] = owner[e] /\ store'.token[e] = store.token[e]
    BY BearAt, AccountsAssumption DEF IInv
  <1>2. Devices(a)' = IF a = b THEN Devices(a) \cup {d} ELSE Devices(a)
    BY <1>1 DEF Devices
  <1>3. FileDevices(a)' \in {FileDevices(a), Devices(a)'}
    BY <1>1 DEF FileDevices, Devices
  <1>4. Adding(a)' = Adding(a) \ {r} /\ Adding(a) \in SUBSET Request
    BY DEF Adding
  <1>5. Within(Devices(a), FileDevices(a), Adding(a))
    BY DEF Bounded
  <1>6. CASE a # b
    BY <1>2, <1>3, <1>4, <1>5, <1>6, WithinFewer
  <1>7. CASE a = b
    <2>1. /\ IsFiniteSet(Devices(a)') /\ d \notin Devices(a)
          /\ Cardinality(Devices(a)') = Cardinality(Devices(a)) + 1
      <3>1. d \notin Devices(a)
        BY <1>1 DEF Devices
      <3>2. IsFiniteSet(Devices(a)) /\ Devices(a)' = Devices(a) \cup {d}
        BY <1>2, <1>5, <1>7 DEF Within
      <3>3. /\ IsFiniteSet(Devices(a) \cup {d})
            /\ Cardinality(Devices(a) \cup {d}) = Cardinality(Devices(a)) + 1
        BY <3>1, <3>2, FS_AddElement
      <3> QED
        BY <3>1, <3>2, <3>3
    <2>2. /\ Cardinality(Devices(a)) \in Nat /\ Cardinality(FileDevices(a)) \in Nat
          /\ Cardinality(Adding(a)) \in Nat /\ Cardinality(Adding(a)') \in Nat
          /\ Cardinality(Request) \in Nat /\ MaxDevices \in Nat /\ MaxDevices >= 1
      BY <1>4, <1>5, FS_CardinalityType, AddingFinite, AccountsAssumption DEF Within
    <2>3. Cardinality(Devices(a)') + Cardinality(Adding(a)') <= Overrun
      <3>1. CASE pc[r] = "adding" /\ acct[r] = b
        <4>1. r \in Adding(a)
          BY <1>7, <3>1 DEF Adding
        <4>2. Cardinality(Adding(a)') = Cardinality(Adding(a)) - 1
          BY <1>4, <4>1, AddingFinite, FS_RemoveElement
        <4> QED
          BY <1>5, <2>1, <2>2, <4>2 DEF Within, Overrun
      <3>2. CASE pc[r] = "idle" /\ Fresh(b)
        <4>1. Devices(a) = {} /\ r \notin Adding(a)
          BY <1>7, <3>2 DEF Devices, Fresh, Adding
        <4>2. Cardinality(Devices(a)) = 0 /\ Adding(a)' = Adding(a)
          BY <1>4, <4>1, FS_EmptySet
        <4>3. Cardinality(Adding(a)) <= Cardinality(Request) - 1
          BY <1>4, <4>1, AddingFinite
        <4> QED
          BY <2>1, <2>2, <4>2, <4>3 DEF Overrun
      <3> QED
        BY <3>1, <3>2
    <2>4. Cardinality(Devices(a)') <= Overrun
      BY <2>1, <2>2, <2>3 DEF Overrun
    <2> QED
      BY <1>3, <1>5, <2>1, <2>3, <2>4 DEF Within
  <1> QED
    BY <1>6, <1>7

(* A check that passes finds a place below the limit; with every request   *)
(* past the check, the places are MaxDevices - 1 and one for each.         *)
LEMMA BoundedCheck ==
  ASSUME IInv, Bounded, NEW r \in Request, NEW b \in Account, BelowLimit(b),
         pc[r] # "adding", Goto(r, "adding", NoDevice, b),
         UNCHANGED <<owner, store, file>>
  PROVE  Bounded'
  <1> SUFFICES ASSUME NEW a \in Account
               PROVE  Within(Devices(a)', FileDevices(a)', Adding(a)')
    BY DEF Bounded, Within, Overrun
  <1>1. /\ pc'[r] = "adding" /\ acct'[r] = b
        /\ \A s \in Request \ {r} : pc'[s] = pc[s] /\ acct'[s] = acct[s]
    BY GotoAt DEF IInv
  <1>2. Devices(a)' = Devices(a) /\ FileDevices(a)' = FileDevices(a)
    BY DEF Devices, FileDevices
  <1>3. Within(Devices(a), FileDevices(a), Adding(a))
    BY DEF Bounded
  <1>4. CASE a # b
    <2>1. Adding(a)' = Adding(a)
      BY <1>1, <1>4 DEF Adding
    <2> QED
      BY <1>2, <1>3, <2>1
  <1>5. CASE a = b
    <2>1. Adding(a)' \in SUBSET Request
      BY DEF Adding
    <2>2. /\ Cardinality(Adding(a)') \in Nat /\ Cardinality(Request) \in Nat
          /\ Cardinality(Adding(a)') <= Cardinality(Request)
      BY <2>1, AddingFinite
    <2>3. Cardinality(Devices(a)) \in Nat /\ MaxDevices \in Nat
      BY <1>3, FS_CardinalityType, AccountsAssumption DEF Within
    <2> QED
      BY <1>2, <1>3, <1>5, <2>2, <2>3 DEF Within, Overrun, BelowLimit
  <1> QED
    BY <1>4, <1>5

LEMMA BoundedNext ==
  ASSUME IInv, Bounded, [Next]_vars
  PROVE  Bounded'
  <1> USE DEF IInv
  <1>1. CASE UNCHANGED vars
    BY <1>1, BoundedFewer DEF vars, request
  <1>2. ASSUME NEW r \in Request, NEW a \in Account, NEW d \in Device, NEW ok \in BOOLEAN,
               Create(r, a, d, ok)
        PROVE  Bounded'
    <2>1. /\ pc'[r] # "adding"
          /\ \A s \in Request \ {r} : pc'[s] = pc[s] /\ acct'[s] = acct[s]
      <3>1. CASE ok
        BY <1>2, <3>1, GotoAt DEF Create
      <3>2. CASE ~ok
        BY <1>2, <3>2 DEF Create, request
      <3> QED
        BY <3>1, <3>2
    <2>2. store'.token = Enter(d).token /\ file' \in {file, store'}
      BY <1>2 DEF Create, Save, Enter, TypeOK, Book
    <2> QED
      BY <1>2, <2>1, <2>2, BoundedBirth DEF Create
  <1>3. ASSUME NEW r \in Request, NEW d \in Device, NEW ok \in BOOLEAN, AddDevice(r, d, ok)
        PROVE  Bounded'
    <2>1. /\ pc'[r] = "idle"
          /\ \A s \in Request \ {r} : pc'[s] = pc[s] /\ acct'[s] = acct[s]
      BY <1>3, GotoAt DEF AddDevice, Answer
    <2>2. acct[r] \in Account /\ file' \in {file, store'}
      BY <1>3 DEF AddDevice, Standing, Save
    <2> QED
      BY <1>3, <2>1, <2>2, BoundedBirth DEF AddDevice
  <1>4. ASSUME NEW r \in Request, CheckLimit(r)
        PROVE  Bounded'
    <2>1. CASE acct[r] \in store.accounts /\ BelowLimit(acct[r])
      BY <1>4, <2>1, BoundedCheck DEF CheckLimit, TypeOK, Book
    <2>2. CASE ~(acct[r] \in store.accounts /\ BelowLimit(acct[r]))
      <3>1. Answer(r) /\ UNCHANGED <<store, file, owner>>
        BY <1>4, <2>2 DEF CheckLimit
      <3>2. \A s \in Request : pc'[s] = "adding" => pc[s] = "adding" /\ acct'[s] = acct[s]
        BY <3>1, GotoAt DEF Answer
      <3> QED
        BY <3>1, <3>2, BoundedFewer
    <2> QED
      BY <2>1, <2>2
  <1>5. ASSUME NEW r \in Request, NEW a \in Account, AdminCheckLimit(r, a)
        PROVE  Bounded'
    BY <1>5, BoundedCheck DEF AdminCheckLimit
  <1>6. ASSUME NEW r \in Request, NEW p, NEW d, NEW a, Goto(r, p, d, a), p # "adding"
        PROVE  \A s \in Request : pc'[s] = "adding" => pc[s] = "adding" /\ acct'[s] = acct[s]
    BY <1>6, GotoAt
  <1>7. ASSUME NEW r \in Request,
               \/ \E c \in Code : Refused(r, c) \/ \E ok \in BOOLEAN : Consume(r, c, ok)
               \/ \E d \in Device : Authenticate(r, d) \/ FindForRotate(r, d)
               \/ Fail(r)
        PROVE  Bounded'
    <2>1. \E p \in {"idle", "rollback", "authed", "rotating"} : \E d, a : Goto(r, p, d, a)
      BY <1>7 DEF Refused, Consume, Authenticate, FindForRotate, Fail, Answer
    <2>2. UNCHANGED <<store, file, owner>>
      BY <1>7 DEF Refused, Consume, Authenticate, FindForRotate, Fail
    <2>3. \A s \in Request : pc'[s] = "adding" => pc[s] = "adding" /\ acct'[s] = acct[s]
      BY <1>6, <2>1
    <2> QED
      BY <2>2, <2>3, BoundedFewer
  <1>8. ASSUME NEW r \in Request, NEW ok \in BOOLEAN, Rollback(r, ok)
        PROVE  Bounded'
    <2>1. \A s \in Request : pc'[s] = "adding" => pc[s] = "adding" /\ acct'[s] = acct[s]
      BY <1>6, <1>8 DEF Rollback, Answer
    <2> QED
      BY <1>8, <2>1, BoundedFewer DEF Rollback, Save
  <1>9. ASSUME NEW r \in Request, NEW ok \in BOOLEAN, Rotate(r, ok)
        PROVE  Bounded'
    <2>1. \A s \in Request : pc'[s] = "adding" => pc[s] = "adding" /\ acct'[s] = acct[s]
      BY <1>6, <1>9 DEF Rotate, Answer
    <2>2. \A d \in Device : store'.token[d] # 0 => store.token[d] # 0
      BY <1>9, RotateAt
    <2> QED
      BY <1>9, <2>1, <2>2, BoundedFewer DEF Rotate, Save
  <1>10. ASSUME NEW d \in Device, NEW ok \in BOOLEAN, RemoveDevice(d, ok),
                \A s \in Request : pc'[s] = "adding" => pc[s] = "adding" /\ acct'[s] = acct[s]
         PROVE  Bounded'
    <2>1. /\ \A e \in Device : store'.token[e] # 0 => store.token[e] # 0
          /\ file' \in {file, store'} /\ owner' = owner
      BY <1>10, RemoveAt
    <2> QED
      BY <1>10, <2>1, BoundedFewer
  <1>11. ASSUME NEW r \in Request, NEW d \in Device, NEW ok \in BOOLEAN, Revoke(r, d, ok)
         PROVE  Bounded'
    BY <1>6, <1>10, <1>11 DEF Revoke, Answer
  <1>12. ASSUME NEW d \in Device, NEW ok \in BOOLEAN, AdminRevoke(d, ok)
         PROVE  Bounded'
    BY <1>10, <1>12 DEF AdminRevoke, request
  <1>13. ASSUME NEW c \in Code, NEW ok \in BOOLEAN, Generate(c, ok) \/ RemoveInvite(c, ok)
         PROVE  Bounded'
    BY <1>13, BoundedFewer DEF Generate, RemoveInvite, request
  <1>14. CASE SaveOther
    BY <1>14, BoundedFewer DEF SaveOther, request
  <1>15. CASE Reopen
    <2> SUFFICES ASSUME NEW a \in Account
                 PROVE  Within(Devices(a)', FileDevices(a)', Adding(a)')
      BY DEF Bounded, Within, Overrun
    <2>1. /\ Devices(a)' = FileDevices(a) /\ FileDevices(a)' = FileDevices(a)
          /\ Adding(a)' = {}
      BY <1>15 DEF Reopen, Devices, FileDevices, Adding
    <2>2. Within(Devices(a), FileDevices(a), Adding(a))
      BY DEF Bounded
    <2>3. Cardinality(Adding(a)') = 0
      BY <2>1, FS_EmptySet
    <2>4. Cardinality(FileDevices(a)) \in Nat
      BY <2>2, FS_CardinalityType DEF Within
    <2> QED
      BY <2>1, <2>2, <2>3, <2>4 DEF Within
  <1> QED
    BY <1>1, <1>2, <1>3, <1>4, <1>5, <1>7, <1>8, <1>9, <1>11, <1>12, <1>13, <1>14, <1>15
    DEF Next

(* Whatever requests race, an account has at most MaxDevices devices and   *)
(* one more for each request but one.                                      *)
THEOREM DeviceOverrunCorrect == Spec => []DeviceOverrun
  <1>1. Init /\ IInv => Bounded
    <2> SUFFICES ASSUME Init, IInv, NEW a \in Account
                 PROVE  Within(Devices(a), FileDevices(a), Adding(a))
      BY DEF Bounded
    <2>1. Devices(a) = {} /\ FileDevices(a) = {} /\ Adding(a) = {}
      BY DEF Init, Devices, FileDevices, Adding
    <2>2. Cardinality(Request) \in Nat
      BY AddingFinite
    <2> QED
      BY <2>1, <2>2, FS_EmptySet, AccountsAssumption DEF Within, Overrun
  <1>2. IInv /\ Bounded /\ [Next]_vars => Bounded'
    BY BoundedNext
  <1>3. Bounded => DeviceOverrun
    <2> SUFFICES ASSUME Bounded, NEW a \in Account
                 PROVE  Cardinality(Devices(a)) <= MaxDevices + Cardinality(Request) - 1
      BY DEF DeviceOverrun
    <2>1. Within(Devices(a), FileDevices(a), Adding(a)) /\ Adding(a) \in SUBSET Request
      BY DEF Bounded, Adding
    <2>2. /\ Cardinality(Devices(a)) \in Nat /\ Cardinality(Adding(a)) \in Nat
          /\ Cardinality(Request) \in Nat /\ MaxDevices \in Nat
      BY <2>1, FS_CardinalityType, AddingFinite, AccountsAssumption DEF Within
    <2> QED
      BY <2>1, <2>2 DEF Within, Overrun
  <1> QED
    BY AccountsInvariant, <1>1, <1>2, <1>3, PTL DEF Spec
=============================================================================
