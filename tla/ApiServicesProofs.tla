------------------------- MODULE ApiServicesProofs -------------------------
(***************************************************************************)
(* Theorems about the event store, the accounts and the signing provider of *)
(* the API, for any forms, paths, jobs, users, tenants, signers and         *)
(* requests in progress, and any number of events, enrolments, codes and    *)
(* signatures.                                                              *)
(***************************************************************************)
EXTENDS ApiServices, SequenceTheorems, FiniteSetTheorems, WellFoundedInduction, TLAPS

(***************************************************************************)
(* The accounts.                                                            *)
(***************************************************************************)
Codes == SUBSET (Nat \X BackupCodes)

Enrolment  == [op : {"enrol"}, email : Emails, number : Nat]
Redemption == [op : {"redeem"}, email : Emails, code : Nat \X BackupCodes, read : Codes, old : BOOLEAN]
ResetOf    == [op : {"reset"}, email : Emails]
Request    == Enrolment \cup Redemption \cup ResetOf

AccountTypes ==
    /\ users \in [Emails -> Users!User]
    /\ request \in [Requests -> Request \cup {Undefined}]
    /\ enrolments \in Nat
    /\ accepted \in [Emails -> Codes]
    /\ twice \in [Emails -> BOOLEAN] /\ overtaken \in [Emails -> BOOLEAN]

InProgress(r, op) == request[r] # Undefined /\ request[r].op = op

\* A redemption has read the codes the user has now, or knows that it has not.
CodesInv ==
    /\ \A r \in Requests :
          InProgress(r, "redeem") /\ ~request[r].old =>
              /\ request[r].read = users[request[r].email].codes
              /\ request[r].code \in request[r].read
    /\ Users!CodesWorkOnce

AccountsInv == AccountTypes /\ CodesInv

\* Which request is of which kind.
LEMMA Kinds ==
    ASSUME AccountTypes, NEW r \in Requests, request[r] # Undefined
    PROVE  /\ request[r].op = "enrol" => request[r] \in Enrolment
           /\ request[r].op = "redeem" => request[r] \in Redemption
           /\ request[r].op = "reset" => request[r] \in ResetOf
           /\ request[r].email \in Emails
  <1>1. request[r] \in Request
    BY DEF AccountTypes
  <1>2. QED
    BY <1>1 DEF Request, Enrolment, Redemption, ResetOf

\* The handler of r reads: its record joins the requests in progress.
LEMMA Started ==
    ASSUME AccountTypes, NEW r \in Requests, NEW record, Users!Start(r, record)
    PROVE  /\ request[r] = Undefined
           /\ \A q \in Requests : request'[q] = IF q = r THEN record ELSE request[q]
           /\ record \in Request => request' \in [Requests -> Request \cup {Undefined}]
  BY DEF Users!Start, AccountTypes

\* The requests in progress are lost.
LEMMA RestartKeeps ==
    ASSUME AccountsInv, Users!Restart
    PROVE  AccountsInv'
  <1>1. AccountTypes /\ CodesInv
    BY DEF AccountsInv
  <1>2. /\ request' = [r \in Requests |-> Undefined]
        /\ UNCHANGED <<users, session, now, enrolments, accepted, twice, overtaken>>
    BY DEF Users!Restart
  <1>3. \A r \in Requests : request'[r] = Undefined
    BY <1>2
  <1>4. AccountTypes'
    BY <1>1, <1>2 DEF AccountTypes
  <1>5. CodesInv'
    BY <1>1, <1>2, <1>3 DEF CodesInv, InProgress, Users!CodesWorkOnce, Users!CodesOf
  <1>6. QED
    BY <1>4, <1>5 DEF AccountsInv

\* Tokens and time change nothing of what a user has.
LEMMA SameUsers ==
    ASSUME AccountsInv, UNCHANGED <<users, request, enrolments, accepted, twice, overtaken>>
    PROVE  AccountsInv'
  <1>1. AccountTypes /\ CodesInv
    BY DEF AccountsInv
  <1>2. AccountTypes' /\ CodesInv'
    BY <1>1 DEF AccountTypes, CodesInv, InProgress, Users!CodesWorkOnce, Users!CodesOf
  <1>3. QED
    BY <1>2 DEF AccountsInv

\* A handler of the second factor has read what it needs.
LEMMA ReadKeeps ==
    ASSUME AccountsInv, NEW r \in Requests,
           NEW record \in Enrolment \cup Redemption \cup ResetOf,
           record \in Redemption => /\ record.read = users[record.email].codes
                                    /\ record.code \in record.read,
           Users!Start(r, record), enrolments' \in Nat,
           UNCHANGED <<users, accepted, twice, overtaken>>
    PROVE  AccountsInv'
  <1>1. AccountTypes /\ CodesInv
    BY DEF AccountsInv
  <1>2. record \in Request /\ (record.op = "redeem" => record \in Redemption)
    BY DEF Request, Enrolment, Redemption, ResetOf
  <1>3. /\ request[r] = Undefined
        /\ \A q \in Requests : request'[q] = IF q = r THEN record ELSE request[q]
        /\ request' \in [Requests -> Request \cup {Undefined}]
    BY <1>1, <1>2, Started
  <1>4. AccountTypes'
    BY <1>1, <1>3 DEF AccountTypes
  <1>5. CodesInv'
    <2>1. ASSUME NEW q \in Requests, InProgress(q, "redeem")', ~request'[q].old
          PROVE  /\ request'[q].read = users'[request'[q].email].codes
                 /\ request'[q].code \in request'[q].read
      <3>1. CASE q = r
        <4>1. request'[q] = record
          BY <1>3, <3>1
        <4>2. QED
          BY <1>2, <2>1, <4>1 DEF InProgress
      <3>2. CASE q # r
        <4>1. request'[q] = request[q]
          BY <1>3, <3>2
        <4>2. QED
          BY <1>1, <2>1, <4>1 DEF InProgress, CodesInv
      <3>3. QED
        BY <3>1, <3>2
    <2>2. Users!CodesWorkOnce'
      BY <1>1 DEF CodesInv, Users!CodesWorkOnce, Users!CodesOf
    <2>3. QED
      BY <2>1, <2>2 DEF CodesInv
  <1>6. QED
    BY <1>4, <1>5 DEF AccountsInv

\* A handler of the second factor writes the user: what other redemptions have read is old.
LEMMA WriteKeeps ==
    ASSUME AccountsInv, NEW r \in Requests, NEW e \in Emails, NEW user \in Users!User,
           NEW a \in Codes, NEW t \in BOOLEAN, NEW o \in BOOLEAN,
           users' = [users EXCEPT ![e] = user],
           ~o => ~t /\ user.codes = (IF user.secret = Undefined THEN {}
                                     ELSE Users!CodesOf(user.secret)) \ a,
           accepted' = [accepted EXCEPT ![e] = a], twice' = [twice EXCEPT ![e] = t],
           overtaken' = [overtaken EXCEPT ![e] = o],
           Users!Written(r, e), UNCHANGED enrolments
    PROVE  AccountsInv'
  <1>1. AccountTypes /\ CodesInv
    BY DEF AccountsInv
  <1>2. \A f \in Emails : /\ users'[f] = (IF f = e THEN user ELSE users[f])
                          /\ accepted'[f] = (IF f = e THEN a ELSE accepted[f])
                          /\ twice'[f] = (IF f = e THEN t ELSE twice[f])
                          /\ overtaken'[f] = (IF f = e THEN o ELSE overtaken[f])
    BY <1>1 DEF AccountTypes
  <1>3. /\ DOMAIN request' = Requests /\ request'[r] = Undefined
        /\ \A q \in Requests : q # r =>
              request'[q] = IF InProgress(q, "redeem") /\ request[q].email = e
                              THEN [request[q] EXCEPT !.old = TRUE] ELSE request[q]
    BY DEF Users!Written, InProgress
  <1>4. ASSUME NEW q \in Requests, q # r
        PROVE  \/ request'[q] = request[q] /\ (InProgress(q, "redeem") => request[q].email # e)
               \/ /\ request[q] \in Redemption /\ request'[q] \in Redemption
                  /\ request'[q].email = request[q].email /\ request'[q].old
                  /\ request[q].email = e /\ InProgress(q, "redeem")
    <2>1. CASE InProgress(q, "redeem") /\ request[q].email = e
      <3>1. request'[q] = [request[q] EXCEPT !.old = TRUE]
        BY <1>3, <1>4, <2>1
      <3>2. request[q] \in Redemption
        BY <1>1, <2>1, Kinds DEF InProgress
      <3>3. QED
        BY <2>1, <3>1, <3>2 DEF Redemption
    <2>2. CASE ~(InProgress(q, "redeem") /\ request[q].email = e)
      BY <1>3, <1>4, <2>2
    <2>3. QED
      BY <2>1, <2>2
  <1>5. AccountTypes'
    <2>1. request' \in [Requests -> Request \cup {Undefined}]
      <3>1. \A q \in Requests : request'[q] \in Request \cup {Undefined}
        BY <1>1, <1>3, <1>4 DEF AccountTypes, Request
      <3>2. request' = [q \in Requests |-> request'[q]]
        BY DEF Users!Written
      <3>3. QED
        BY <3>1, <3>2
    <2>2. QED
      BY <1>1, <2>1 DEF AccountTypes
  <1>6. CodesInv'
    <2>1. ASSUME NEW q \in Requests, InProgress(q, "redeem")', ~request'[q].old
          PROVE  /\ request'[q].read = users'[request'[q].email].codes
                 /\ request'[q].code \in request'[q].read
      <3>1. q # r
        BY <1>3, <2>1 DEF InProgress
      <3>2. request'[q] = request[q] /\ (InProgress(q, "redeem") => request[q].email # e)
        BY <1>4, <2>1, <3>1
      <3>3. InProgress(q, "redeem")
        BY <2>1, <3>2 DEF InProgress
      <3>4. request[q].email \in Emails
        BY <1>1, <3>3, Kinds DEF InProgress
      <3>5. QED
        BY <1>1, <1>2, <2>1, <3>2, <3>3, <3>4 DEF CodesInv
    <2>2. ASSUME NEW f \in Emails, ~overtaken'[f]
          PROVE  /\ ~twice'[f]
                 /\ users'[f].codes = (IF users'[f].secret = Undefined THEN {}
                                       ELSE Users!CodesOf(users'[f].secret)) \ accepted'[f]
      <3>1. CASE f = e
        BY <1>2, <2>2, <3>1
      <3>2. CASE f # e
        <4>1. users'[f] = users[f] /\ accepted'[f] = accepted[f] /\ twice'[f] = twice[f]
              /\ overtaken'[f] = overtaken[f]
          BY <1>2, <3>2
        <4>2. QED
          BY <1>1, <2>2, <4>1 DEF CodesInv, Users!CodesWorkOnce
      <3>3. QED
        BY <3>1, <3>2
    <2>3. Users!CodesWorkOnce'
      BY <2>2 DEF Users!CodesWorkOnce, Users!CodesOf
    <2>4. QED
      BY <2>1, <2>3 DEF CodesInv
  <1>7. QED
    BY <1>5, <1>6 DEF AccountsInv

\* Every handler keeps it, whatever other handlers do between its two statements.
LEMMA AccountsStep ==
    ASSUME AccountsInv, Users!Next
    PROVE  AccountsInv'
  <1>1. AccountTypes /\ CodesInv
    BY DEF AccountsInv
  <1>2. ASSUME NEW e \in Emails, Users!Login(e) \/ Users!Refresh(e) PROVE AccountsInv'
    BY <1>2, SameUsers DEF Users!Login, Users!Refresh, Users!BuildTokenPair
  <1>3. ASSUME NEW r \in Requests, Users!StoreEnrolment(r) PROVE AccountsInv'
    <2> DEFINE e == request[r].email
               n == request[r].number
               user == [users[e] EXCEPT !.secret = n, !.codes = Users!CodesOf(n)]
    <2>1. /\ request[r] # Undefined /\ request[r].op = "enrol"
          /\ users' = [users EXCEPT ![e] = user]
          /\ accepted' = [accepted EXCEPT ![e] = {}]
          /\ twice' = [twice EXCEPT ![e] = FALSE] /\ overtaken' = [overtaken EXCEPT ![e] = FALSE]
          /\ Users!Written(r, e) /\ UNCHANGED <<session, now, enrolments>>
      BY <1>3 DEF Users!StoreEnrolment, Users!Fresh
    <2>2. e \in Emails /\ n \in Nat
      BY <1>1, <2>1, Kinds DEF Enrolment
    <2>3. users[e] \in Users!User
      BY <1>1, <2>2 DEF AccountTypes
    <2>4. Users!CodesOf(n) \in Codes
      BY <2>2 DEF Users!CodesOf, Codes
    <2>5. n # Undefined
      BY <2>2, UndefinedAssumption
    <2> HIDE DEF e, n
    <2>6. /\ user \in Users!User
          /\ user.secret = n /\ user.codes = Users!CodesOf(n)
      BY <2>2, <2>3, <2>4 DEF Users!User, Codes
    <2>7. {} \in Codes
      BY DEF Codes
    <2> HIDE DEF user
    <2>8. user.codes = (IF user.secret = Undefined THEN {} ELSE Users!CodesOf(user.secret)) \ {}
      BY <2>5, <2>6
    <2>9. QED
      BY <2>1, <2>2, <2>5, <2>6, <2>7, <2>8, WriteKeeps
  <1>4. ASSUME NEW r \in Requests, Users!ConsumeBackupCode(r) PROVE AccountsInv'
    <2> DEFINE e == request[r].email
               code == request[r].code
               user == [users[e] EXCEPT !.codes = Users!Remaining(request[r].read, code)]
               a == accepted[e] \cup {code}
               t == twice[e] \/ code \in accepted[e]
               o == overtaken[e] \/ request[r].old
    <2>1. /\ request[r] # Undefined /\ request[r].op = "redeem"
          /\ users' = [users EXCEPT ![e] = user]
          /\ accepted' = [accepted EXCEPT ![e] = a]
          /\ twice' = [twice EXCEPT ![e] = t] /\ overtaken' = [overtaken EXCEPT ![e] = o]
          /\ Users!Written(r, e) /\ UNCHANGED <<session, now, enrolments>>
      BY <1>4 DEF Users!ConsumeBackupCode
    <2>2. e \in Emails /\ code \in Nat \X BackupCodes /\ request[r].read \in Codes
          /\ request[r].old \in BOOLEAN
      BY <1>1, <2>1, Kinds DEF Redemption
    <2>3. /\ users[e] \in Users!User /\ accepted[e] \in Codes /\ twice[e] \in BOOLEAN
          /\ overtaken[e] \in BOOLEAN
      BY <1>1, <2>2 DEF AccountTypes
    <2>4. InProgress(r, "redeem")
      BY <2>1 DEF InProgress
    <2>5. ~request[r].old => request[r].read = users[e].codes /\ code \in request[r].read
      BY <1>1, <2>4 DEF CodesInv
    <2>6. ~overtaken[e] => /\ ~twice[e]
                           /\ users[e].codes = (IF users[e].secret = Undefined THEN {}
                                  ELSE Users!CodesOf(users[e].secret)) \ accepted[e]
      BY <1>1, <2>2 DEF CodesInv, Users!CodesWorkOnce, Users!CodesOf
    <2> HIDE DEF e, code
    <2>7. /\ user \in Users!User
          /\ user.secret = users[e].secret /\ user.codes = request[r].read \ {code}
      <3>1. request[r].read \ {code} \in Codes
        BY <2>2 DEF Codes
      <3>2. user = [users[e] EXCEPT !.codes = request[r].read \ {code}]
        BY DEF Users!Remaining
      <3> HIDE DEF user
      <3>3. QED
        BY <2>3, <3>1, <3>2 DEF Users!User, Codes
    <2> HIDE DEF user
    <2>8. a \in Codes /\ t \in BOOLEAN /\ o \in BOOLEAN
      BY <2>2, <2>3 DEF Codes
    <2>9. ASSUME ~o
           PROVE  ~t /\ user.codes = (IF user.secret = Undefined THEN {}
                                      ELSE Users!CodesOf(user.secret)) \ a
      BY <2>5, <2>6, <2>7, <2>9
    <2> HIDE DEF a, t, o
    <2>10. QED
      BY <2>1, <2>2, <2>4, <2>7, <2>8, <2>9, WriteKeeps
  <1>5. ASSUME NEW r \in Requests, Users!Reset(r) PROVE AccountsInv'
    <2> DEFINE e == request[r].email
               user == [users[e] EXCEPT !.secret = Undefined, !.codes = {}]
    <2>1. /\ request[r] # Undefined /\ request[r].op = "reset"
          /\ users' = [users EXCEPT ![e] = user]
          /\ accepted' = [accepted EXCEPT ![e] = {}]
          /\ twice' = [twice EXCEPT ![e] = FALSE] /\ overtaken' = [overtaken EXCEPT ![e] = FALSE]
          /\ Users!Written(r, e) /\ UNCHANGED <<session, now, enrolments>>
      BY <1>5 DEF Users!Reset, Users!Fresh
    <2>2. e \in Emails
      BY <1>1, <2>1, Kinds
    <2>3. users[e] \in Users!User
      BY <1>1, <2>2 DEF AccountTypes
    <2> HIDE DEF e
    <2>4. /\ user \in Users!User
          /\ user.secret = Undefined /\ user.codes = {}
      BY <2>3 DEF Users!User
    <2>5. {} \in Codes
      BY DEF Codes
    <2> HIDE DEF user
    <2>6. user.codes = (IF user.secret = Undefined THEN {} ELSE Users!CodesOf(user.secret)) \ {}
      BY <2>4
    <2>7. QED
      BY <2>1, <2>2, <2>4, <2>5, <2>6, WriteKeeps
  <1>6. ASSUME NEW r \in Requests, NEW e \in Emails, Users!Enrol(r, e) PROVE AccountsInv'
    <2> DEFINE record == [op |-> "enrol", email |-> e, number |-> enrolments']
    <2>1. /\ enrolments' = enrolments + 1 /\ Users!Start(r, record)
          /\ UNCHANGED <<users, session, now, accepted, twice, overtaken>>
      BY <1>6 DEF Users!Enrol
    <2>2. enrolments' \in Nat
      BY <1>1, <2>1 DEF AccountTypes
    <2>3. record \in Enrolment /\ record.email = e
      BY <2>2 DEF Enrolment
    <2> HIDE DEF record
    <2>4. record \notin Redemption
      BY <2>3 DEF Enrolment, Redemption
    <2>5. QED
      BY <2>1, <2>2, <2>3, <2>4, ReadKeeps
  <1>7. ASSUME NEW r \in Requests, NEW e \in Emails, NEW n \in 1..MaxEnrolments,
                NEW code \in Users!CodesOf(n), Users!FindBackupCode(r, e, code)
         PROVE  AccountsInv'
    <2> DEFINE record == [op |-> "redeem", email |-> e, code |-> code, read |-> users[e].codes,
                          old |-> FALSE]
    <2>1. /\ code \in users[e].codes /\ Users!Start(r, record)
          /\ UNCHANGED <<users, session, now, enrolments, accepted, twice, overtaken>>
      BY <1>7 DEF Users!FindBackupCode
    <2>2. users[e].codes \in Codes /\ code \in Nat \X BackupCodes
      BY <1>1, <2>1 DEF AccountTypes, Users!User, Codes
    <2>3. /\ record \in Redemption /\ record.email = e /\ record.read = users[e].codes
          /\ record.code = code
      BY <2>2 DEF Redemption
    <2>4. enrolments' \in Nat
      BY <1>1, <2>1 DEF AccountTypes
    <2> HIDE DEF record
    <2>5. QED
      BY <2>1, <2>3, <2>4, ReadKeeps
  <1>8. ASSUME NEW r \in Requests, NEW admin \in Emails, NEW e \in Emails,
                Users!FindTarget(r, admin, e)
         PROVE  AccountsInv'
    <2> DEFINE record == [op |-> "reset", email |-> e]
    <2>1. /\ Users!Start(r, record)
          /\ UNCHANGED <<users, session, now, enrolments, accepted, twice, overtaken>>
      BY <1>8 DEF Users!FindTarget
    <2>2. record \in ResetOf /\ record.email = e
      BY DEF ResetOf
    <2>3. enrolments' \in Nat
      BY <1>1, <2>1 DEF AccountTypes
    <2> HIDE DEF record
    <2>4. record \notin Redemption
      BY <2>2 DEF ResetOf, Redemption
    <2>5. QED
      BY <2>1, <2>2, <2>3, <2>4, ReadKeeps
  <1>9. CASE Users!TimePasses
    BY <1>9, SameUsers DEF Users!TimePasses
  <1>10. CASE Users!Restart
    BY <1>10, RestartKeeps
  <1>11. QED
    BY <1>2, <1>3, <1>4, <1>5, <1>6, <1>7, <1>8, <1>9, <1>10 DEF Users!Next

\* Nobody has a second factor at first.
LEMMA AccountsInit ==
    ASSUME Users!Init
    PROVE  AccountsInv
  <1>1. /\ enrolments = 0
        /\ users = [e \in Emails |-> [secret |-> Undefined, codes |-> {}]]
        /\ request = [r \in Requests |-> Undefined]
        /\ accepted = [e \in Emails |-> {}]
        /\ twice = [e \in Emails |-> FALSE] /\ overtaken = [e \in Emails |-> FALSE]
    BY DEF Users!Init
  <1>2. AccountTypes
    BY <1>1 DEF AccountTypes, Codes, Users!User
  <1>3. CodesInv
    BY <1>1 DEF CodesInv, InProgress, Users!CodesWorkOnce, Users!CodesOf
  <1>4. QED
    BY <1>2, <1>3 DEF AccountsInv

(***************************************************************************)
(* The signing provider.                                                    *)
(***************************************************************************)
Record == [recordId : Nat, tenantId : Tenants, signerSub : Signers, prevHash : Nat, hash : Nat]

SignerTypes ==
    /\ DOMAIN otpStore = Tenants \X Signers
    /\ chainStore \in [Tenants -> Seq(Record)]
    /\ generated \in Nat /\ records \in Nat

\* A code that waits has not signed, and no other code has its number.
OtpInv ==
    /\ \A n \in spent : n \in 1..generated
    /\ \A k \in Tenants \X Signers : otpStore[k] # Undefined =>
          /\ otpStore[k].number \in 1..generated /\ otpStore[k].number \notin spent
          /\ \A j \in Tenants \X Signers :
                otpStore[j] # Undefined /\ otpStore[j].number = otpStore[k].number => j = k
    /\ ~reused

ChainInv ==
    \A t \in Tenants : \A i \in DOMAIN chainStore[t] :
        /\ chainStore[t][i].hash = chainStore[t][i].recordId
        /\ chainStore[t][i].recordId <= records
        /\ chainStore[t][i].tenantId = t
        /\ chainStore[t][i].prevHash = IF i = 1 THEN 0 ELSE chainStore[t][i - 1].hash
        /\ \A j \in DOMAIN chainStore[t] :
              i < j => chainStore[t][i].recordId < chainStore[t][j].recordId

SignerInv == SignerTypes /\ OtpInv /\ ChainInv

\* A signature takes the code that was asked for and appends to the chain of the tenant.
LEMMA SignKeeps ==
    ASSUME SignerInv, NEW k \in Tenants \X Signers, NEW otp, Signer!Sign(k, otp)
    PROVE  SignerInv'
  <1> DEFINE t == k[1]
             chain == chainStore[t]
             L == Len(chain)
             record == [recordId |-> records + 1, tenantId |-> k[1], signerSub |-> k[2],
                        prevHash |-> Signer!PrevHash(chain), hash |-> records + 1]
  <1>1. SignerTypes /\ OtpInv /\ ChainInv
    BY DEF SignerInv
  <1>2. /\ otpStore[k] # Undefined
        /\ otpStore' = [otpStore EXCEPT ![k] = Undefined]
        /\ records' = records + 1
        /\ chainStore' = [chainStore EXCEPT ![t] = Append(chain, record)]
        /\ spent' = spent \cup {otpStore[k].number}
        /\ reused' = (reused \/ otpStore[k].number \in spent)
        /\ UNCHANGED generated
    BY DEF Signer!Sign, Signer!OtpAccepted, Signer!StoreAfterSign, Signer!SignRecord
  <1>3. t \in Tenants /\ k[2] \in Signers
    OBVIOUS
  <1>4. OtpInv'
    <2>1. \A j \in Tenants \X Signers : otpStore'[j] = IF j = k THEN Undefined ELSE otpStore[j]
      BY <1>1, <1>2 DEF SignerTypes
    <2>2. otpStore[k].number \in 1..generated /\ otpStore[k].number \notin spent
      BY <1>1, <1>2 DEF OtpInv
    <2>3. (\A n \in spent' : n \in 1..generated) /\ ~reused'
      BY <1>1, <1>2, <2>2 DEF OtpInv
    <2>4. ASSUME NEW j \in Tenants \X Signers, otpStore'[j] # Undefined
          PROVE  /\ j # k /\ otpStore'[j] = otpStore[j]
                 /\ otpStore[j].number \in 1..generated /\ otpStore[j].number \notin spent'
      <3>1. j # k /\ otpStore'[j] = otpStore[j]
        BY <2>1, <2>4
      <3>2. otpStore[j].number # otpStore[k].number
        BY <1>1, <1>2, <2>4, <3>1 DEF OtpInv
      <3>3. QED
        BY <1>1, <1>2, <2>4, <3>1, <3>2 DEF OtpInv
    <2>5. \A i, j \in Tenants \X Signers :
             /\ otpStore'[i] # Undefined /\ otpStore'[j] # Undefined
             /\ otpStore'[i].number = otpStore'[j].number
             => i = j
      BY <1>1, <2>4 DEF OtpInv
    <2>6. QED
      BY <1>2, <2>3, <2>4, <2>5 DEF OtpInv
  <1>5. /\ chain \in Seq(Record) /\ L \in Nat /\ DOMAIN chain = 1..L
        /\ \A i \in 1..L : chain[i] \in Record
    BY <1>1, <1>3 DEF SignerTypes
  <1>6. /\ L = 0 => Signer!PrevHash(chain) = 0
        /\ L # 0 => Signer!PrevHash(chain) = chain[L].hash
        /\ Signer!PrevHash(chain) \in Nat
    <2>1. chain = <<>> <=> L = 0
      BY <1>5, EmptySeq
    <2>2. L # 0 => L \in 1..L
      BY <1>5
    <2>3. L # 0 => chain[L].hash \in Nat
      BY <1>5, <2>2 DEF Record
    <2> HIDE DEF chain
    <2>4. QED
      BY <2>1, <2>3 DEF Signer!PrevHash, Signer!Last, Signer!Genesis
  <1>7. record \in Record
    BY <1>1, <1>3, <1>6 DEF Record, SignerTypes
  <1>8. record.prevHash = Signer!PrevHash(chain) /\ record.recordId = records + 1
        /\ record.hash = records + 1 /\ record.tenantId = t
    OBVIOUS
  <1> HIDE DEF t, chain, record
  <1>9. /\ Append(chain, record) \in Seq(Record) /\ Len(Append(chain, record)) = L + 1
        /\ \A i \in 1..L : Append(chain, record)[i] = chain[i]
        /\ Append(chain, record)[L + 1] = record
    BY <1>5, <1>7, AppendProperties
  <1> HIDE DEF L
  <1>10. chainStore'[t] = Append(chain, record)
         /\ \A u \in Tenants : u # t => chainStore'[u] = chainStore[u]
    BY <1>1, <1>2, <1>3 DEF SignerTypes
  <1>11. /\ chainStore'[t] \in Seq(Record) /\ DOMAIN chainStore'[t] = 1..(L + 1)
         /\ \A i \in 1..L : chainStore'[t][i] = chain[i]
         /\ chainStore'[t][L + 1] = record
    BY <1>5, <1>9, <1>10
  <1>12. SignerTypes'
    <2>1. chainStore' \in [Tenants -> Seq(Record)]
      BY <1>1, <1>2, <1>3, <1>9 DEF SignerTypes
    <2>2. QED
      BY <1>1, <1>2, <2>1 DEF SignerTypes
  <1>13. \A i \in 1..L :
            /\ chain[i].hash = chain[i].recordId
            /\ chain[i].recordId <= records
            /\ chain[i].tenantId = t
            /\ chain[i].prevHash = IF i = 1 THEN 0 ELSE chain[i - 1].hash
            /\ \A j \in 1..L : i < j => chain[i].recordId < chain[j].recordId
    <2>1. chainStore[t] = chain
      BY DEF chain
    <2>2. DOMAIN chainStore[t] = 1..L
      BY <1>5, <2>1
    <2>3. ASSUME NEW i \in 1..L
          PROVE  /\ chainStore[t][i].hash = chainStore[t][i].recordId
                 /\ chainStore[t][i].recordId <= records
                 /\ chainStore[t][i].tenantId = t
                 /\ chainStore[t][i].prevHash = IF i = 1 THEN 0 ELSE chainStore[t][i - 1].hash
                 /\ \A j \in 1..L : i < j => chainStore[t][i].recordId < chainStore[t][j].recordId
      <3>1. i \in DOMAIN chainStore[t]
        BY <2>2
      <3>2. QED
        BY <1>1, <1>3, <2>2, <3>1, ZenonT(60) DEF ChainInv
    <2>4. QED
      BY <2>1, <2>3, ZenonT(60)
  <1>14. records \in Nat /\ \A i \in 1..L : chain[i].recordId \in Nat
    BY <1>1, <1>5 DEF SignerTypes, Record
  <1>15. ASSUME NEW i \in 1..(L + 1)
         PROVE  /\ chainStore'[t][i].hash = chainStore'[t][i].recordId
                /\ chainStore'[t][i].recordId <= records + 1
                /\ chainStore'[t][i].tenantId = t
                /\ chainStore'[t][i].prevHash = IF i = 1 THEN 0 ELSE chainStore'[t][i - 1].hash
                /\ \A j \in 1..(L + 1) :
                      i < j => chainStore'[t][i].recordId < chainStore'[t][j].recordId
    <2>1. CASE i = L + 1
      <3>1. chainStore'[t][i] = record
        BY <1>11, <2>1
      <3>2. L # 0 => i - 1 = L /\ L \in 1..L
        BY <1>5, <2>1
      <3>3. record.prevHash = IF i = 1 THEN 0 ELSE chainStore'[t][i - 1].hash
        BY <1>5, <1>6, <1>8, <1>11, <2>1, <3>2
      <3>4. \A j \in 1..(L + 1) : ~(i < j)
        BY <1>5, <2>1
      <3>5. QED
        BY <1>8, <1>14, <3>1, <3>3, <3>4
    <2>2. CASE i \in 1..L
      <3>1. chainStore'[t][i] = chain[i]
        BY <1>11, <2>2
      <3>2. i # 1 => chainStore'[t][i - 1] = chain[i - 1]
        <4>1. SUFFICES ASSUME i # 1 PROVE i - 1 \in 1..L
          BY <1>11
        <4>2. QED
          BY <1>5, <2>2, <4>1
      <3>3. ASSUME NEW j \in 1..(L + 1), i < j
            PROVE  chain[i].recordId < chainStore'[t][j].recordId
        <4>1. CASE j = L + 1
          <5>1. chainStore'[t][j].recordId = records + 1
            BY <1>8, <1>11, <4>1
          <5>2. chain[i].recordId <= records /\ chain[i].recordId \in Nat
            BY <1>13, <1>14, <2>2
          <5>3. QED
            BY <1>14, <5>1, <5>2
        <4>2. CASE j # L + 1
          <5>1. j \in 1..L
            BY <1>5, <4>2
          <5>2. QED
            BY <1>11, <1>13, <2>2, <3>3, <5>1
        <4>3. QED
          BY <4>1, <4>2
      <3>4. chain[i].recordId <= records + 1
        <4>1. chain[i].recordId <= records /\ chain[i].recordId \in Nat
          BY <1>13, <1>14, <2>2
        <4>2. QED
          BY <1>14, <4>1
      <3>5. QED
        BY <1>13, <2>2, <3>1, <3>2, <3>3, <3>4
    <2>3. QED
      BY <1>5, <2>1, <2>2
  <1>16. ChainInv'
    <2>1. ASSUME NEW u \in Tenants, u # t, NEW i \in DOMAIN chainStore[u]
          PROVE  chainStore[u][i].recordId <= records + 1
      <3>1. chainStore[u] \in Seq(Record)
        BY <1>1 DEF SignerTypes
      <3>2. chainStore[u][i] \in Record
        BY <3>1
      <3>3. chainStore[u][i].recordId \in Nat /\ chainStore[u][i].recordId <= records
        BY <1>1, <3>2 DEF ChainInv, Record
      <3>4. QED
        BY <1>14, <3>3
    <2>2. ASSUME NEW u \in Tenants, NEW i \in DOMAIN chainStore'[u]
          PROVE  /\ chainStore'[u][i].hash = chainStore'[u][i].recordId
                 /\ chainStore'[u][i].recordId <= records + 1
                 /\ chainStore'[u][i].tenantId = u
                 /\ chainStore'[u][i].prevHash = IF i = 1 THEN 0 ELSE chainStore'[u][i - 1].hash
                 /\ \A j \in DOMAIN chainStore'[u] :
                       i < j => chainStore'[u][i].recordId < chainStore'[u][j].recordId
      <3>1. CASE u = t
        BY <1>11, <1>15, <2>2, <3>1
      <3>2. CASE u # t
        <4>1. chainStore'[u] = chainStore[u]
          BY <1>10, <3>2
        <4>2. QED
          BY <1>1, <2>1, <2>2, <3>2, <4>1 DEF ChainInv
      <3>3. QED
        BY <3>1, <3>2
    <2>3. QED
      BY <1>2, <2>2 DEF ChainInv
  <1>17. QED
    BY <1>4, <1>12, <1>16 DEF SignerInv

\* So does every other step of the provider.
LEMMA SignerStep ==
    ASSUME SignerInv, Signer!Next
    PROVE  SignerInv'
  <1>1. SignerTypes /\ OtpInv /\ ChainInv
    BY DEF SignerInv
  <1>2. ASSUME NEW k \in Tenants \X Signers, NEW otp \in Otps, Signer!GenerateOtp(k, otp)
        PROVE  SignerInv'
    <2> DEFINE new == [otp |-> otp, expiresAt |-> now + OtpTtl, number |-> generated + 1]
    <2>1. /\ generated' = generated + 1 /\ otpStore' = [otpStore EXCEPT ![k] = new]
          /\ UNCHANGED <<chainStore, records, spent, reused>>
      BY <1>2 DEF Signer!GenerateOtp
    <2>2. new.number = generated + 1
      OBVIOUS
    <2> HIDE DEF new
    <2>3. \A j \in Tenants \X Signers : otpStore'[j] = IF j = k THEN new ELSE otpStore[j]
      BY <1>1, <2>1 DEF SignerTypes
    <2>4. SignerTypes'
      BY <1>1, <2>1 DEF SignerTypes
    <2>5. generated \in Nat /\ generated + 1 \notin 1..generated
          /\ generated + 1 \in 1..(generated + 1)
          /\ \A n \in 1..generated : n \in 1..(generated + 1)
      BY <1>1 DEF SignerTypes
    <2>6. OtpInv'
      <3>1. ASSUME NEW i \in Tenants \X Signers, otpStore'[i] # Undefined
            PROVE  /\ otpStore'[i].number \in 1..(generated + 1) /\ otpStore'[i].number \notin spent
                   /\ i # k => otpStore'[i].number \in 1..generated
                   /\ i = k => otpStore'[i].number = generated + 1
        BY <1>1, <2>2, <2>3, <2>5, <3>1 DEF OtpInv
      <3>2. ASSUME NEW i \in Tenants \X Signers, otpStore'[i] # Undefined,
                   NEW j \in Tenants \X Signers, otpStore'[j] # Undefined,
                   otpStore'[j].number = otpStore'[i].number
            PROVE  j = i
        <4>1. i = k <=> j = k
          BY <2>5, <3>1, <3>2
        <4>2. QED
          BY <1>1, <2>3, <3>2, <4>1 DEF OtpInv
      <3>3. QED
        BY <1>1, <2>1, <2>5, <3>1, <3>2 DEF OtpInv
    <2>7. ChainInv'
      BY <1>1, <2>1 DEF ChainInv
    <2>8. QED
      BY <2>4, <2>6, <2>7 DEF SignerInv
  <1>3. ASSUME NEW k \in Tenants \X Signers, NEW otp \in Otps, Signer!Sign(k, otp)
        PROVE  SignerInv'
    BY <1>3, SignKeeps
  <1>4. CASE Signer!Tick
    <2>1. UNCHANGED <<otpStore, chainStore, generated, records, spent, reused>>
      BY <1>4 DEF Signer!Tick
    <2>2. QED
      BY <1>1, <2>1 DEF SignerInv, SignerTypes, OtpInv, ChainInv
  <1>5. CASE Signer!Restart
    <2>1. /\ otpStore' = [k \in Tenants \X Signers |-> Undefined]
          /\ chainStore' = [t \in Tenants |-> <<>>]
          /\ UNCHANGED <<generated, records, spent, reused>>
      BY <1>5 DEF Signer!Restart, Signer!Keys
    <2>2. \A t \in Tenants : chainStore'[t] \in Seq(Record) /\ DOMAIN chainStore'[t] = {}
      BY <2>1
    <2>3. SignerTypes'
      BY <1>1, <2>1, <2>2 DEF SignerTypes
    <2>4. OtpInv'
      BY <1>1, <2>1 DEF OtpInv
    <2>5. ChainInv'
      BY <2>2 DEF ChainInv
    <2>6. QED
      BY <2>3, <2>4, <2>5 DEF SignerInv
  <1>6. QED
    BY <1>2, <1>3, <1>4, <1>5 DEF Signer!Next, Signer!Keys

\* Nothing was asked for and nothing signed yet.
LEMMA SignerInit ==
    ASSUME Signer!Init
    PROVE  SignerInv
  <1>1. /\ otpStore = [k \in Tenants \X Signers |-> Undefined]
        /\ chainStore = [t \in Tenants |-> <<>>]
        /\ generated = 0 /\ records = 0 /\ spent = {} /\ reused = FALSE
    BY DEF Signer!Init, Signer!Keys
  <1>2. \A t \in Tenants : chainStore[t] \in Seq(Record) /\ DOMAIN chainStore[t] = {}
    BY <1>1
  <1>3. SignerTypes /\ OtpInv
    BY <1>1, <1>2 DEF SignerTypes, OtpInv
  <1>4. ChainInv
    BY <1>2 DEF ChainInv
  <1>5. QED
    BY <1>3, <1>4 DEF SignerInv

(***************************************************************************)
(* The event store. A fold leaves what the events left in their order,      *)
(* which is what they materialise to, whatever the order of the events of a *)
(* millisecond; and the store only grows.                                   *)
(***************************************************************************)
\* A set with 0 and with every successor has all numbers.
LEMMA NatSetInduction ==
    ASSUME NEW T, 0 \in T, \A n \in Nat : n \in T => n + 1 \in T
    PROVE  \A n \in Nat : n \in T
  <1> DEFINE less == {p \in Nat \X Nat : p[1] < p[2]}
             rest == {n \in Nat : n \notin T}
             N == Nat
  <1>1. IsWellFoundedOn(less, N)
    BY NatLessThanWellFounded, Zenon DEF OpToRel
  <1>2. SUFFICES ASSUME rest # {} PROVE FALSE
    OBVIOUS
  <1>3. PICK m \in rest : \A x \in rest : ~(<<x, m>> \in less)
    <2>1. rest \subseteq N
      OBVIOUS
    <2> HIDE DEF less, N, rest
    <2>2. QED
      BY <1>1, <1>2, <2>1, WFMin
  <1>4. m # 0 /\ m - 1 \in Nat /\ m - 1 < m /\ (m - 1) + 1 = m
    BY <1>3
  <1>5. m - 1 \notin rest
    BY <1>3, <1>4
  <1>6. QED
    BY <1>3, <1>4, <1>5

\* What FoldLeft recurs on, for the sets of the first n places.
Folds(f, s, n) ==
    f = [U \in SUBSET (1..n) |->
            IF U = {} THEN << >>
            ELSE Replay!Apply(f[U \ {Replay!Max(U)}], s[Replay!Max(U)])]

\* There is such a function.
LEMMA FoldExists == \A s, n : n \in Nat => \E f : Folds(f, s, n)
  <1> SUFFICES ASSUME NEW s PROVE \A n \in Nat : \E f : Folds(f, s, n)
    OBVIOUS
  <1> DEFINE T == {n \in Nat : \E f : Folds(f, s, n)}
  <1>1. 0 \in T
    <2> DEFINE f == [U \in SUBSET (1..0) |-> << >>]
    <2>1. \A U \in SUBSET (1..0) : U = {}
      OBVIOUS
    <2>2. f = [U \in SUBSET (1..0) |->
                  IF U = {} THEN << >>
                  ELSE Replay!Apply(f[U \ {Replay!Max(U)}], s[Replay!Max(U)])]
      BY <2>1
    <2> HIDE DEF f
    <2>3. QED
      BY <2>2 DEF Folds
  <1>2. ASSUME NEW n \in Nat, n \in T PROVE n + 1 \in T
    <2>1. PICK g : Folds(g, s, n)
      BY <1>2
    <2> DEFINE D == SUBSET (1..(n + 1))
               h == [U \in D |-> IF n + 1 \in U THEN Replay!Apply(g[U \ {n + 1}], s[n + 1]) ELSE g[U]]
    <2>2. ASSUME NEW U \in D, n + 1 \in U PROVE Replay!Max(U) = n + 1
      <3>1. \A y \in U : y \in Int /\ n + 1 >= y /\ (y >= n + 1 => y = n + 1)
        OBVIOUS
      <3>2. QED
        BY <2>2, <3>1 DEF Replay!Max
    <2>3. ASSUME NEW U \in D, n + 1 \notin U PROVE U \in SUBSET (1..n)
      BY <2>3
    <2>4. ASSUME NEW U \in D
          PROVE  h[U] = IF U = {} THEN << >>
                        ELSE Replay!Apply(h[U \ {Replay!Max(U)}], s[Replay!Max(U)])
      <3>1. CASE n + 1 \in U
        <4> DEFINE V == U \ {n + 1}
        <4>1. V \in D /\ n + 1 \notin V /\ U # {}
          BY <3>1
        <4>2. h[U] = Replay!Apply(g[V], s[n + 1]) /\ h[V] = g[V]
          BY <3>1, <4>1
        <4>3. Replay!Max(U) = n + 1
          BY <2>2, <3>1
        <4> HIDE DEF h
        <4>4. QED
          BY <4>1, <4>2, <4>3
      <3>2. CASE n + 1 \notin U
        <4> DEFINE V == U \ {Replay!Max(U)}
        <4>1. V \in D /\ n + 1 \notin V /\ U \in SUBSET (1..n)
          BY <2>3, <3>2
        <4>2. h[U] = g[U] /\ h[V] = g[V]
          BY <3>2, <4>1
        <4>3. g[U] = IF U = {} THEN << >> ELSE Replay!Apply(g[V], s[Replay!Max(U)])
          BY <2>1, <4>1 DEF Folds
        <4> HIDE DEF h
        <4>4. QED
          BY <4>2, <4>3
      <3>3. QED
        BY <3>1, <3>2
    <2>5. h = [U \in D |-> h[U]]
      OBVIOUS
    <2> HIDE DEF h
    <2>6. Folds(h, s, n + 1)
      BY <2>4, <2>5 DEF Folds
    <2>7. QED
      BY <2>6
  <1>3. \A n \in Nat : n \in T
    <2> HIDE DEF T
    <2> QED BY <1>1, <1>2, NatSetInduction
  <1>4. QED
    BY <1>3

\* A fold goes through the events one after the other: state[n] is what the first n leave.
LEMMA FoldSteps ==
    ASSUME NEW s, NEW n \in Nat, DOMAIN s = 1..n
    PROVE  \E state : /\ state[0] = << >> /\ Replay!Fold(s) = state[n]
                      /\ \A i \in 1..n : state[i] = Replay!Apply(state[i - 1], s[i])
  <1> DEFINE f == CHOOSE f : Folds(f, s, n)
             state == [i \in 0..n |-> f[1..i]]
  <1>1. Folds(f, s, n)
    BY FoldExists
  <1>2. Replay!Fold(s) = f[1..n]
    BY DEF Replay!Fold, Replay!FoldLeft, Replay!MapThenFoldSet, Folds
  <1> HIDE DEF f
  <1>3. state[0] = << >> /\ state[n] = f[1..n]
    <2>1. 1..0 = {} /\ {} \in SUBSET (1..n) /\ 0 \in 0..n /\ n \in 0..n
      OBVIOUS
    <2>2. f[{}] = << >>
      BY <1>1, <2>1 DEF Folds
    <2>3. QED
      BY <2>1, <2>2
  <1>4. ASSUME NEW i \in 1..n PROVE state[i] = Replay!Apply(state[i - 1], s[i])
    <2>1. Replay!Max(1..i) = i
      <3>1. \A y \in 1..i : i >= y /\ (y >= i => y = i)
        OBVIOUS
      <3>2. QED
        BY <3>1 DEF Replay!Max
    <2>2. (1..i) \ {i} = 1..(i - 1) /\ 1..i \in SUBSET (1..n) /\ 1..i # {}
      OBVIOUS
    <2>3. f[1..i] = Replay!Apply(f[1..(i - 1)], s[i])
      BY <1>1, <2>1, <2>2 DEF Folds
    <2>4. i \in 0..n /\ i - 1 \in 0..n
      OBVIOUS
    <2>5. QED
      BY <2>3, <2>4
  <1> HIDE DEF state
  <1>5. QED
    BY <1>2, <1>3, <1>4

\* An event of the store; a change of a field has a path.
IsEvent(e) == e.at \in Nat /\ (Replay!Updated(e) => e.path \in Paths)

\* What the first n events of s leave: a value of each that no later one of them undid.
Leaves(state, s, n) ==
    /\ \A p \in DOMAIN state :
          \E i \in 1..n : /\ Replay!Updated(s[i]) /\ s[i].path = p /\ s[i].id = state[p]
                          /\ \A j \in (i + 1)..n : ~Replay!Undoes(s[j], p)
    /\ \A i \in 1..n :
          Replay!Updated(s[i]) /\ (\A j \in (i + 1)..n : ~Replay!Undoes(s[j], s[i].path))
             => s[i].path \in DOMAIN state /\ state[s[i].path] = s[i].id

\* A path is a prefix of itself.
LEMMA OwnPrefix == ASSUME NEW p \in Paths PROVE Replay!IsPrefix(p, p)
  <1>1. p \in Seq(STRING)
    BY ServicesAssumption
  <1>2. Len(p) \in Nat
    BY <1>1, LenProperties
  <1>3. QED
    BY <1>2 DEF Replay!IsPrefix

\* One event more.
LEMMA OneMore ==
    ASSUME NEW s, NEW n \in Nat, NEW state, Leaves(state, s, n), IsEvent(s[n + 1])
    PROVE  Leaves(Replay!Apply(state, s[n + 1]), s, n + 1)
  <1> DEFINE e == s[n + 1]
             new == Replay!Apply(state, e)
  <1>1. \A i \in 1..(n + 1) : i = n + 1 \/ i \in 1..n
    OBVIOUS
  <1>2. \A i \in 1..n : /\ (i + 1)..(n + 1) = ((i + 1)..n) \cup {n + 1}
                        /\ n + 1 \in (i + 1)..(n + 1)
    OBVIOUS
  <1>3. ((n + 1) + 1)..(n + 1) = {}
    OBVIOUS
  <1>4. n + 1 \in 1..(n + 1) /\ \A i \in 1..n : i \in 1..(n + 1)
    OBVIOUS
  <1>5. CASE Replay!Created(e)
    <2>1. ~Replay!Updated(e) /\ \A p : Replay!Undoes(e, p)
      BY <1>5 DEF Replay!Created, Replay!Updated, Replay!Undoes
    <2>2. new = << >> /\ DOMAIN new = {}
      <3>1. new = << >>
        BY <1>5, <2>1 DEF Replay!Apply
      <3>2. DOMAIN << >> = {}
        OBVIOUS
      <3> HIDE DEF new
      <3>3. QED
        BY <3>1, <3>2
    <2> HIDE DEF new
    <2>3. QED
      BY <1>1, <1>2, <2>1, <2>2, Zenon DEF Leaves, new
  <1>6. CASE Replay!Updated(e)
    <2> DEFINE path == e.path
               kept == {p \in DOMAIN state : ~Replay!IsPrefix(p, path) /\ ~Replay!IsPrefix(path, p)}
    <2>1. ~Replay!Created(e) /\ path \in Paths
      BY <1>6 DEF Replay!Created, Replay!Updated, IsEvent
    <2>2. new = [p \in kept \cup {path} |-> IF p = path THEN e.id ELSE state[p]]
      BY <1>6, <2>1 DEF Replay!Apply, Replay!SetPath
    <2>3. Replay!IsPrefix(path, path)
      BY <2>1, OwnPrefix
    <2>4. \A p : Replay!Undoes(e, p) <=> Replay!IsPrefix(path, p) \/ Replay!IsPrefix(p, path)
      BY <1>6, <2>1 DEF Replay!Undoes
    <2>5. /\ DOMAIN new = kept \cup {path} /\ new[path] = e.id
          /\ \A p \in kept : new[p] = state[p] /\ p # path
      BY <2>2, <2>3
    <2>6. \A p \in kept : p \in DOMAIN state /\ ~Replay!Undoes(e, p)
      BY <2>4
    <2>7. \A p \in DOMAIN state : ~Replay!Undoes(e, p) => p \in kept
      BY <2>4
    <2> HIDE DEF new, kept
    <2>8. ASSUME NEW p \in DOMAIN new
          PROVE  \E i \in 1..(n + 1) :
                    /\ Replay!Updated(s[i]) /\ s[i].path = p /\ s[i].id = new[p]
                    /\ \A j \in (i + 1)..(n + 1) : ~Replay!Undoes(s[j], p)
      <3>1. CASE p = path
        BY <1>3, <1>4, <1>6, <2>5, <3>1
      <3>2. CASE p # path
        <4>1. p \in kept /\ p \in DOMAIN state /\ new[p] = state[p] /\ ~Replay!Undoes(e, p)
          BY <2>5, <2>6, <2>8, <3>2
        <4>2. PICK i \in 1..n : /\ Replay!Updated(s[i]) /\ s[i].path = p /\ s[i].id = state[p]
                                /\ \A j \in (i + 1)..n : ~Replay!Undoes(s[j], p)
          BY <4>1 DEF Leaves
        <4>3. \A j \in (i + 1)..(n + 1) : ~Replay!Undoes(s[j], p)
          BY <1>2, <4>1, <4>2
        <4>4. QED
          BY <1>4, <4>1, <4>2, <4>3
      <3>3. QED
        BY <3>1, <3>2
    <2>9. ASSUME NEW i \in 1..(n + 1), Replay!Updated(s[i]),
                 \A j \in (i + 1)..(n + 1) : ~Replay!Undoes(s[j], s[i].path)
          PROVE  s[i].path \in DOMAIN new /\ new[s[i].path] = s[i].id
      <3>1. CASE i = n + 1
        BY <2>5, <3>1
      <3>2. CASE i \in 1..n
        <4>1. ~Replay!Undoes(e, s[i].path) /\ \A j \in (i + 1)..n : ~Replay!Undoes(s[j], s[i].path)
          BY <1>2, <2>9, <3>2
        <4>2. s[i].path \in DOMAIN state /\ state[s[i].path] = s[i].id
          BY <2>9, <3>2, <4>1 DEF Leaves
        <4>3. QED
          BY <2>5, <2>7, <4>1, <4>2
      <3>3. QED
        BY <1>1, <3>1, <3>2
    <2>10. QED
      BY <2>8, <2>9 DEF Leaves, new
  <1>7. CASE ~Replay!Created(e) /\ ~Replay!Updated(e)
    <2>1. new = state /\ \A p : ~Replay!Undoes(e, p)
      BY <1>7 DEF Replay!Apply, Replay!Undoes
    <2> HIDE DEF new
    <2>2. ASSUME NEW p \in DOMAIN state
          PROVE  \E i \in 1..(n + 1) :
                    /\ Replay!Updated(s[i]) /\ s[i].path = p /\ s[i].id = state[p]
                    /\ \A j \in (i + 1)..(n + 1) : ~Replay!Undoes(s[j], p)
      <3>1. PICK i \in 1..n : /\ Replay!Updated(s[i]) /\ s[i].path = p /\ s[i].id = state[p]
                              /\ \A j \in (i + 1)..n : ~Replay!Undoes(s[j], p)
        BY DEF Leaves
      <3>2. \A j \in (i + 1)..(n + 1) : ~Replay!Undoes(s[j], p)
        BY <1>2, <2>1, <3>1
      <3>3. QED
        BY <1>4, <3>1, <3>2
    <2>3. ASSUME NEW i \in 1..(n + 1), Replay!Updated(s[i]),
                 \A j \in (i + 1)..(n + 1) : ~Replay!Undoes(s[j], s[i].path)
          PROVE  s[i].path \in DOMAIN state /\ state[s[i].path] = s[i].id
      <3>1. i \in 1..n
        BY <1>1, <1>7, <2>3
      <3>2. \A j \in (i + 1)..n : ~Replay!Undoes(s[j], s[i].path)
        BY <1>2, <2>3, <3>1
      <3>3. QED
        BY <2>3, <3>1, <3>2 DEF Leaves
    <2>4. QED
      BY <2>1, <2>2, <2>3 DEF Leaves, new
  <1>8. QED
    BY <1>5, <1>6, <1>7

\* So the fold of a sequence of events has what all of them leave.
LEMMA FoldLeaves ==
    ASSUME NEW s, NEW n \in Nat, DOMAIN s = 1..n, \A i \in 1..n : IsEvent(s[i])
    PROVE  Leaves(Replay!Fold(s), s, n)
  <1>1. PICK state : /\ state[0] = << >> /\ Replay!Fold(s) = state[n]
                     /\ \A i \in 1..n : state[i] = Replay!Apply(state[i - 1], s[i])
    BY FoldSteps
  <1> DEFINE T == {k \in Nat : k <= n => Leaves(state[k], s, k)}
  <1>2. 0 \in T
    <2>1. 1..0 = {} /\ DOMAIN << >> = {}
      OBVIOUS
    <2>2. Leaves(state[0], s, 0)
      BY <1>1, <2>1 DEF Leaves
    <2>3. QED
      BY <2>2
  <1>3. ASSUME NEW k \in Nat, k \in T PROVE k + 1 \in T
    <2>1. ASSUME k + 1 <= n PROVE Leaves(state[k + 1], s, k + 1)
      <3>1. k + 1 \in 1..n /\ (k + 1) - 1 = k /\ Leaves(state[k], s, k)
        BY <1>3, <2>1
      <3>2. state[k + 1] = Replay!Apply(state[k], s[k + 1])
        BY <1>1, <3>1
      <3>3. QED
        BY <3>1, <3>2, OneMore
    <2>2. QED
      BY <2>1
  <1>4. \A k \in Nat : k \in T
    <2> HIDE DEF T
    <2> QED BY <1>2, <1>3, NatSetInduction
  <1>5. QED
    BY <1>1, <1>4

\* Every order of the events by their time has all of them, and is one by place.
LEMMA InOrder ==
    ASSUME NEW events, IsFiniteSet(events), NEW s \in Replay!ByCreatedAt(events)
    PROVE  /\ Cardinality(events) \in Nat /\ DOMAIN s = 1..Cardinality(events)
           /\ \A i \in DOMAIN s : s[i] \in events
           /\ \A e \in events : \E i \in DOMAIN s : s[i] = e
           /\ \A i, j \in DOMAIN s : s[i] = s[j] => i = j
           /\ \A i, j \in DOMAIN s : i < j => s[i].at <= s[j].at
           /\ s \in Seq(events) /\ Len(s) = Cardinality(events)
  <1> DEFINE n == Cardinality(events)
  <1>1. Replay!Cardinality(events) = n
    BY Zenon DEF Replay!Cardinality, Cardinality
  <1>2. n \in Nat
    BY FS_CardinalityType
  <1>3. /\ s \in [1..n -> events]
        /\ \A i, j \in 1..n : i # j => s[i] # s[j]
        /\ \A i, j \in DOMAIN s : i < j => s[i].at <= s[j].at
    BY <1>1 DEF Replay!ByCreatedAt, Replay!SetToSeqs
  <1>4. s \in Injection(1..n, events)
    BY <1>3 DEF Injection, IsInjective
  <1>5. IsFiniteSet(1..n) /\ Cardinality(1..n) = n
    BY <1>2, FS_Interval
  <1>6. s \in Surjection(1..n, events)
    BY <1>4, <1>5, FS_Injection
  <1>7. \A e \in events : \E i \in 1..n : s[i] = e
    BY <1>6 DEF Surjection
  <1>8. s \in Seq(events) /\ Len(s) = n
    BY <1>2, <1>3, IsASeq, LenProperties
  <1>9. QED
    BY <1>2, <1>3, <1>7, <1>8

\* Whatever the order of the events of a millisecond, a fold has what they left.
LEMMA FoldMaterialises ==
    ASSUME NEW events, IsFiniteSet(events), \A e \in events : IsEvent(e),
           NEW s \in Replay!ByCreatedAt(events)
    PROVE  Replay!Materialises(Replay!Fold(s), events)
  <1> DEFINE n == Cardinality(events)
             state == Replay!Fold(s)
  <1>1. /\ n \in Nat /\ DOMAIN s = 1..n
        /\ \A i \in 1..n : s[i] \in events
        /\ \A e \in events : \E i \in 1..n : s[i] = e
        /\ \A i, j \in 1..n : s[i] = s[j] => i = j
        /\ \A i, j \in 1..n : i < j => s[i].at <= s[j].at
    BY InOrder
  <1>2. Leaves(state, s, n)
    BY <1>1, FoldLeaves
  <1> HIDE DEF n, state
  <1>3. ASSUME NEW i \in 1..n, NEW j \in 1..n, i # j
        PROVE  j \in (i + 1)..n \/ s[j].at <= s[i].at
    BY <1>1, <1>3
  <1>4. \A i \in 1..n : s[i].at \in Nat
    BY <1>1 DEF IsEvent
  <1>5. ASSUME NEW p \in DOMAIN state
        PROVE  \E e \in events : /\ Replay!Updated(e) /\ e.path = p /\ e.id = state[p]
                                 /\ \A x \in events \ {e} : Replay!Undoes(x, p) => x.at <= e.at
    <2>1. PICK i \in 1..n : /\ Replay!Updated(s[i]) /\ s[i].path = p /\ s[i].id = state[p]
                            /\ \A j \in (i + 1)..n : ~Replay!Undoes(s[j], p)
      BY <1>2 DEF Leaves
    <2>2. ASSUME NEW x \in events \ {s[i]}, Replay!Undoes(x, p) PROVE x.at <= s[i].at
      <3>1. PICK j \in 1..n : s[j] = x
        BY <1>1
      <3>2. QED
        BY <1>3, <2>1, <2>2, <3>1
    <2>3. QED
      BY <1>1, <2>1, <2>2
  <1>6. ASSUME NEW e \in events, Replay!Updated(e),
               \A x \in events \ {e} : Replay!Undoes(x, e.path) => x.at < e.at
        PROVE  e.path \in DOMAIN state /\ state[e.path] = e.id
    <2>1. PICK i \in 1..n : s[i] = e
      BY <1>1
    <2>2. ASSUME NEW j \in (i + 1)..n PROVE ~Replay!Undoes(s[j], e.path)
      <3>1. j \in 1..n /\ i < j
        BY <1>1
      <3>2. s[j] # e /\ s[j] \in events /\ s[i].at <= s[j].at
        BY <1>1, <2>1, <3>1
      <3>3. s[i].at \in Nat /\ s[j].at \in Nat
        BY <1>4, <3>1
      <3>4. ~(s[j].at < e.at)
        BY <2>1, <3>2, <3>3
      <3>5. QED
        BY <1>6, <3>2, <3>4
    <2>3. QED
      BY <1>2, <1>6, <2>1, <2>2 DEF Leaves
  <1>7. QED
    BY <1>5, <1>6 DEF Replay!Materialises, state

\* The events of the store.
Event ==
    {e \in [id : Nat, form : Forms, kind : {"FIELD_UPDATED"} \cup FormKinds,
            path : Paths \cup {Undefined}, at : Nat] : Replay!Updated(e) => e.path \in Paths}

\* What a form, and the tenant, had when the first n events were there.
SnapshotOf(state, target, n) ==
    /\ n \in 0..Len(log) /\ target \in Replay!Committed(n)
    /\ Replay!Materialises(state,
          {e \in Replay!Committed(n) : e.form = target.form /\ e.at <= target.at})

ProjectionOf(state, last, n) ==
    /\ n \in 0..Len(log) /\ Replay!Materialises(state, Replay!Committed(n))
    /\ IF Replay!Committed(n) = {} THEN last = Undefined
       ELSE \E e \in Replay!Committed(n) : /\ e.id = last
                                           /\ \A x \in Replay!Committed(n) : x.at <= e.at

\* What the drawer asks for is committed, and stays so.
There(e) == e = Undefined \/ e \in Replay!Committed(Len(log))

\* A drawer has the snapshot it asked for, and a job what it read, which is not older than
\* the draft it began from.
DrawerInv ==
    drawer # Undefined =>
        /\ drawer = [header |-> drawer.header, asked |-> drawer.asked,
                     answer |-> drawer.answer, seen |-> drawer.seen]
        /\ There(drawer.asked)
        /\ drawer.answer # Undefined => SnapshotOf(drawer.answer, drawer.asked, drawer.seen)

JobsInv ==
    \A j \in Jobs : jobs[j] # Undefined =>
        /\ ProjectionOf(jobs[j].state, jobs[j].lastEventId, jobs[j].seen)
        /\ jobs[j].began # Undefined => jobs[j].began.seen <= jobs[j].seen

LogInv ==
    /\ now \in Nat /\ log \in Seq(Event) /\ inserted \subseteq Event /\ IsFiniteSet(inserted)
    /\ DOMAIN jobs = Jobs /\ (draft # Undefined => draft.seen \in 0..Len(log))

ReplayInv == LogInv /\ DrawerInv /\ JobsInv

\* The events there are: finitely many, the first n of them for good.
LEMMA CommittedAll ==
    ASSUME log \in Seq(Event)
    PROVE  /\ Len(log) \in Nat /\ Replay!Committed(Len(log)) = Replay!Range(log)
           /\ IsFiniteSet(Replay!Range(log)) /\ Replay!Range(log) \subseteq Event
           /\ \A e \in Event : IsEvent(e)
  <1>1. Len(log) \in Nat /\ DOMAIN log = 1..Len(log) /\ \A i \in 1..Len(log) : log[i] \in Event
    BY LenProperties, ElementOfSeq
  <1>2. /\ Replay!Committed(Len(log)) = {log[i] : i \in 1..Len(log)}
        /\ Replay!Range(log) = {log[i] : i \in 1..Len(log)}
    BY <1>1 DEF Replay!Committed, Replay!Range
  <1>3. IsFiniteSet(Replay!Range(log))
    <2> DEFINE R == Replay!Range(log)
    <2>1. IsFiniteSet(1..Len(log))
      BY <1>1, FS_Interval
    <2>2. log \in Surjection(1..Len(log), R)
      BY <1>1, <1>2 DEF Surjection
    <2>3. IsFiniteSet(R)
      BY <2>1, <2>2, FS_Surjection
    <2>4. QED
      BY <2>3
  <1>4. \A e \in Event : IsEvent(e)
    BY DEF Event, IsEvent
  <1>5. QED
    BY <1>1, <1>2, <1>3, <1>4

\* An event that commits is after those that were there.
LEMMA CommittedStay ==
    ASSUME log \in Seq(Event), NEW e \in Event, log' = Append(log, e)
    PROVE  /\ log' \in Seq(Event) /\ Len(log) \in Nat /\ Len(log') = Len(log) + 1
           /\ \A n \in 0..Len(log) : Replay!Committed(n)' = Replay!Committed(n)
           /\ \A x : There(x) => There(x)'
  <1>1. /\ log' \in Seq(Event) /\ Len(log) \in Nat /\ Len(log') = Len(log) + 1
        /\ \A i \in 1..Len(log) : log'[i] = log[i]
    BY AppendProperties, LenProperties
  <1>2. \A n \in 0..Len(log) : \A i \in 1..n : i \in 1..Len(log)
    BY <1>1
  <1>3. QED
    BY <1>1, <1>2 DEF Replay!Committed, There

\* The store is empty at first.
LEMMA ReplayInit == Replay!Init => ReplayInv
  <1> SUFFICES ASSUME Replay!Init PROVE ReplayInv
    OBVIOUS
  <1>1. /\ now = 1 /\ inserted = {} /\ log = << >> /\ drawer = Undefined /\ draft = Undefined
        /\ jobs = [j \in Jobs |-> Undefined]
    BY DEF Replay!Init
  <1>2. log \in Seq(Event) /\ IsFiniteSet(inserted)
    BY <1>1, EmptySeq, FS_EmptySet
  <1>3. LogInv
    BY <1>1, <1>2 DEF LogInv
  <1>4. QED
    BY <1>1, <1>3 DEF ReplayInv, DrawerInv, JobsInv

\* What only looks at the log leaves it as it is.
LEMMA SameLog ==
    ASSUME UNCHANGED log
    PROVE  /\ \A state, target, n : SnapshotOf(state, target, n)' = SnapshotOf(state, target, n)
           /\ \A state, last, n : ProjectionOf(state, last, n)' = ProjectionOf(state, last, n)
           /\ \A e : There(e)' <=> There(e)
  BY DEF SnapshotOf, ProjectionOf, There, Replay!Committed

\* An event is inserted, and another transaction commits.
LEMMA InsertKeeps ==
    ASSUME ReplayInv, NEW f \in Forms, NEW kind, NEW path, Replay!Insert(f, kind, path),
           \/ kind = "FIELD_UPDATED" /\ path \in Paths
           \/ kind \in FormKinds /\ path = Undefined
    PROVE  ReplayInv'
  <1> DEFINE e == [id |-> Len(log) + Replay!Cardinality(inserted) + 1, form |-> f,
                   kind |-> kind, path |-> path, at |-> now]
  <1>1. inserted' = inserted \cup {e} /\ UNCHANGED <<now, log, drawer, jobs, draft>>
    BY DEF Replay!Insert
  <1>2. Replay!Cardinality(inserted) = Cardinality(inserted)
    BY Zenon DEF Replay!Cardinality, Cardinality
  <1>3. Len(log) \in Nat /\ Cardinality(inserted) \in Nat /\ now \in Nat
    BY LenProperties, FS_CardinalityType DEF ReplayInv, LogInv
  <1>4. e \in Event
    BY <1>2, <1>3, ServicesAssumption DEF Event, Replay!Updated
  <1> HIDE DEF e
  <1>5. IsFiniteSet(inserted') /\ inserted' \subseteq Event
    BY <1>1, <1>4, FS_AddElement DEF ReplayInv, LogInv
  <1>6. LogInv'
    BY <1>1, <1>5 DEF ReplayInv, LogInv
  <1>7. DrawerInv' /\ JobsInv'
    BY <1>1, SameLog DEF ReplayInv, DrawerInv, JobsInv
  <1>8. QED
    BY <1>6, <1>7 DEF ReplayInv

\* A transaction commits.
LEMMA CommitKeeps ==
    ASSUME ReplayInv, NEW e \in inserted, Replay!Commit(e)
    PROVE  ReplayInv'
  <1>1. /\ inserted' = inserted \ {e} /\ log' = Append(log, e)
        /\ UNCHANGED <<now, drawer, jobs, draft>>
    BY DEF Replay!Commit
  <1>2. e \in Event /\ log \in Seq(Event)
    BY DEF ReplayInv, LogInv
  <1>3. /\ log' \in Seq(Event) /\ Len(log) \in Nat /\ Len(log') = Len(log) + 1
        /\ \A n \in 0..Len(log) : Replay!Committed(n)' = Replay!Committed(n)
        /\ \A x : There(x) => There(x)'
    BY <1>1, <1>2, CommittedStay
  <1>4. \A n \in 0..Len(log) : n \in 0..Len(log')
    BY <1>3
  <1>5. /\ \A state, target, n : SnapshotOf(state, target, n) => SnapshotOf(state, target, n)'
        /\ \A state, last, n : ProjectionOf(state, last, n) => ProjectionOf(state, last, n)'
    BY <1>3, <1>4 DEF SnapshotOf, ProjectionOf
  <1>6. IsFiniteSet(inserted') /\ inserted' \subseteq Event
    BY <1>1, FS_Subset DEF ReplayInv, LogInv
  <1>7. LogInv'
    BY <1>1, <1>3, <1>4, <1>6 DEF ReplayInv, LogInv
  <1>8. DrawerInv' /\ JobsInv'
    BY <1>1, <1>3, <1>5 DEF ReplayInv, DrawerInv, JobsInv
  <1>9. QED
    BY <1>7, <1>8 DEF ReplayInv

\* The drawer shows another header, an answer, or nothing.
LEMMA DrawerKeeps ==
    ASSUME ReplayInv,
           \/ \E e \in Replay!Range(log) : Replay!View(e) \/ Replay!Switch(e)
           \/ Replay!Replay \/ Replay!ReplayFails \/ Replay!Close
    PROVE  ReplayInv'
  <1>1. UNCHANGED <<now, inserted, log, jobs, draft>>
    BY DEF Replay!View, Replay!Switch, Replay!Replay, Replay!ReplayFails, Replay!Close
  <1>2. LogInv' /\ JobsInv'
    BY <1>1, SameLog DEF ReplayInv, LogInv, JobsInv
  <1>3. \A state, target, n : SnapshotOf(state, target, n)' = SnapshotOf(state, target, n)
    BY <1>1, SameLog
  <1>4. drawer # Undefined => drawer = [header |-> drawer.header, asked |-> drawer.asked,
                                        answer |-> drawer.answer, seen |-> drawer.seen]
    BY DEF ReplayInv, DrawerInv
  <1>5. ASSUME NEW h, NEW t, NEW a, NEW n, SnapshotOf(a, t, n), There(t),
                drawer' = [header |-> h, asked |-> t, answer |-> a, seen |-> n]
         PROVE  DrawerInv'
    <2>1. SnapshotOf(a, t, n)' /\ There(t)'
      BY <1>1, <1>3, <1>5, SameLog
    <2>2. QED
      BY <1>5, <2>1 DEF DrawerInv
  <1>6. ASSUME NEW e \in Replay!Range(log), Replay!View(e) PROVE DrawerInv'
    <2>1. There(e)'
      BY <1>1, <1>6, CommittedAll, SameLog DEF ReplayInv, LogInv, There
    <2>2. QED
      BY <1>6, <2>1 DEF Replay!View, DrawerInv
  <1>7. ASSUME NEW e, Replay!Switch(e) PROVE DrawerInv'
    <2>1. /\ drawer # Undefined
          /\ drawer' = [drawer EXCEPT !.header = e,
                           !.asked = IF drawer.answer = Undefined THEN Undefined ELSE @]
      BY <1>7 DEF Replay!Switch
    <2>2. drawer' = [header |-> e,
                     asked |-> IF drawer.answer = Undefined THEN Undefined ELSE drawer.asked,
                     answer |-> drawer.answer, seen |-> drawer.seen]
      BY <1>4, <2>1
    <2>3. /\ drawer.answer # Undefined => SnapshotOf(drawer.answer, drawer.asked, drawer.seen)'
          /\ There(drawer.asked)' /\ There(Undefined)'
      BY <1>1, <1>3, <2>1, SameLog DEF ReplayInv, DrawerInv, There
    <2>4. QED
      BY <2>2, <2>3 DEF DrawerInv
  <1>8. ASSUME Replay!Replay PROVE DrawerInv'
    <2> DEFINE target == drawer.asked
               asked == Replay!Replayed(target)
    <2>1. PICK events \in Replay!ByCreatedAt(asked) :
             drawer' = [drawer EXCEPT !.answer = Replay!Fold(events), !.seen = Len(log)]
      BY <1>8 DEF Replay!Replay
    <2>2. drawer # Undefined /\ target # Undefined /\ There(target)
      BY <1>8 DEF Replay!Replay, ReplayInv, DrawerInv
    <2>3. /\ Len(log) \in Nat /\ Replay!Committed(Len(log)) = Replay!Range(log)
          /\ IsFiniteSet(Replay!Range(log)) /\ Replay!Range(log) \subseteq Event
          /\ \A e \in Event : IsEvent(e)
      BY CommittedAll DEF ReplayInv, LogInv
    <2>4. asked = {e \in Replay!Committed(Len(log)) : e.form = target.form /\ e.at <= target.at}
      BY <2>3 DEF Replay!Replayed
    <2>5. IsFiniteSet(asked) /\ \A e \in asked : IsEvent(e)
      <3>1. asked \subseteq Replay!Range(log)
        BY <2>3, <2>4
      <3> HIDE DEF asked
      <3>2. QED
        BY <2>3, <3>1, FS_Subset
    <2>6. Replay!Materialises(Replay!Fold(events), asked)
      <3> HIDE DEF asked
      <3> QED BY <2>5, FoldMaterialises
    <2>7. SnapshotOf(Replay!Fold(events), target, Len(log))
      BY <2>2, <2>3, <2>4, <2>6 DEF SnapshotOf, There
    <2>8. drawer' = [header |-> drawer.header, asked |-> target,
                     answer |-> Replay!Fold(events), seen |-> Len(log)]
      BY <1>4, <2>1, <2>2
    <2> HIDE DEF target
    <2>9. QED
      BY <1>5, <2>2, <2>7, <2>8
  <1>9. ASSUME Replay!ReplayFails PROVE DrawerInv'
    BY <1>4, <1>9 DEF Replay!ReplayFails, DrawerInv, There
  <1>10. ASSUME Replay!Close PROVE DrawerInv'
    BY <1>10 DEF Replay!Close, DrawerInv
  <1>11. QED
    BY <1>2, <1>6, <1>7, <1>8, <1>9, <1>10 DEF ReplayInv

\* A job reads every event of the tenant there is.
LEMMA ReadEventsKeeps ==
    ASSUME ReplayInv, NEW j \in Jobs, Replay!ReadEvents(j)
    PROVE  ReplayInv'
  <1> DEFINE all == Replay!Range(log)
  <1>1. PICK events \in Replay!ByCreatedAt(all) :
           jobs' = [jobs EXCEPT ![j] =
              [state |-> Replay!Fold(events), seen |-> Len(log), began |-> draft,
               lastEventId |-> IF events = << >> THEN Undefined ELSE Replay!Last(events).id]]
    BY DEF Replay!ReadEvents
  <1> DEFINE last == IF events = << >> THEN Undefined ELSE Replay!Last(events).id
  <1>2. UNCHANGED <<now, inserted, log, drawer, draft>>
    BY DEF Replay!ReadEvents
  <1>3. /\ Len(log) \in Nat /\ Replay!Committed(Len(log)) = all
        /\ IsFiniteSet(all) /\ all \subseteq Event /\ \A e \in all : IsEvent(e)
    BY CommittedAll DEF ReplayInv, LogInv
  <1> HIDE DEF all
  <1>4. Replay!Materialises(Replay!Fold(events), all)
    BY <1>3, FoldMaterialises
  <1>5. /\ Cardinality(all) \in Nat /\ DOMAIN events = 1..Cardinality(all)
        /\ \A i \in DOMAIN events : events[i] \in all
        /\ \A e \in all : \E i \in DOMAIN events : events[i] = e
        /\ \A i, k \in DOMAIN events : i < k => events[i].at <= events[k].at
        /\ events \in Seq(all) /\ Len(events) = Cardinality(all)
    BY <1>3, InOrder
  <1>6. IF all = {} THEN last = Undefined
        ELSE \E e \in all : e.id = last /\ \A x \in all : x.at <= e.at
    <2> DEFINE n == Cardinality(all)
    <2>1. CASE all = {}
      <3>1. events = << >>
        BY <1>5, <2>1, FS_EmptySet, EmptySeq
      <3>2. QED
        BY <2>1, <3>1
    <2>2. CASE all # {}
      <3>1. n # 0 /\ n \in Nat
        BY <1>3, <1>5, <2>2, FS_EmptySet
      <3>2. events # << >> /\ n \in DOMAIN events /\ Replay!Last(events) = events[n]
        BY <1>5, <3>1 DEF Replay!Last
      <3>3. ASSUME NEW x \in all PROVE x.at <= events[n].at
        <4>1. PICK i \in DOMAIN events : events[i] = x
          BY <1>5
        <4>2. i = n \/ i < n
          BY <1>5, <3>1
        <4>3. x.at \in Nat
          BY <1>3 DEF IsEvent
        <4>4. QED
          BY <1>5, <3>2, <4>1, <4>2, <4>3
      <3>4. QED
        BY <1>5, <2>2, <3>2, <3>3
    <2>3. QED
      BY <2>1, <2>2
  <1>7. ProjectionOf(Replay!Fold(events), last, Len(log))
    BY <1>3, <1>4, <1>6 DEF ProjectionOf
  <1> DEFINE job == [state |-> Replay!Fold(events), seen |-> Len(log), began |-> draft,
                     lastEventId |-> last]
  <1>8. /\ ProjectionOf(job.state, job.lastEventId, job.seen)
        /\ job.began # Undefined => job.began.seen <= job.seen
    BY <1>3, <1>7 DEF ReplayInv, LogInv
  <1> HIDE DEF last
  <1>9. jobs' = [jobs EXCEPT ![j] = job]
    BY <1>1 DEF last
  <1> HIDE DEF job
  <1>10. /\ DOMAIN jobs' = Jobs
         /\ \A i \in Jobs : jobs'[i] = IF i = j THEN job ELSE jobs[i]
    BY <1>9 DEF ReplayInv, LogInv
  <1>11. LogInv'
    BY <1>2, <1>10 DEF ReplayInv, LogInv
  <1>12. DrawerInv'
    BY <1>2, SameLog DEF ReplayInv, DrawerInv
  <1>13. JobsInv'
    <2>1. ASSUME NEW i \in Jobs, jobs'[i] # Undefined
          PROVE  /\ ProjectionOf(jobs'[i].state, jobs'[i].lastEventId, jobs'[i].seen)
                 /\ jobs'[i].began # Undefined => jobs'[i].began.seen <= jobs'[i].seen
      BY <1>8, <1>10, <2>1 DEF ReplayInv, JobsInv
    <2>2. \A state, end, n : ProjectionOf(state, end, n) => ProjectionOf(state, end, n)'
      BY <1>2, SameLog
    <2>3. QED
      BY <1>2, <2>1, <2>2 DEF JobsInv
  <1>14. QED
    BY <1>11, <1>12, <1>13 DEF ReplayInv

\* A job that ends leaves the others alone, whether it wrote the draft or not.
LEMMA JobEnds ==
    ASSUME ReplayInv, NEW j \in Jobs, Replay!Upsert(j) \/ Replay!JobFails(j)
    PROVE  ReplayInv'
  <1>1. /\ jobs[j] # Undefined /\ jobs' = [jobs EXCEPT ![j] = Undefined]
        /\ UNCHANGED <<now, inserted, log, drawer>>
        /\ draft' = draft \/ draft'.seen = jobs[j].seen
    BY DEF Replay!Upsert, Replay!JobFails
  <1>2. /\ DOMAIN jobs' = Jobs
        /\ \A i \in Jobs : jobs'[i] = IF i = j THEN Undefined ELSE jobs[i]
    BY <1>1 DEF ReplayInv, LogInv
  <1>3. jobs[j].seen \in 0..Len(log)
    BY <1>1 DEF ReplayInv, JobsInv, ProjectionOf
  <1>4. LogInv'
    BY <1>1, <1>2, <1>3 DEF ReplayInv, LogInv
  <1>5. DrawerInv'
    BY <1>1, SameLog DEF ReplayInv, DrawerInv
  <1>6. JobsInv'
    <2>1. ASSUME NEW i \in Jobs, jobs'[i] # Undefined PROVE jobs'[i] = jobs[i] /\ jobs[i] # Undefined
      BY <1>2, <2>1
    <2>2. \A state, end, n : ProjectionOf(state, end, n) => ProjectionOf(state, end, n)'
      BY <1>1, SameLog
    <2>3. QED
      BY <2>1, <2>2 DEF ReplayInv, JobsInv
  <1>7. QED
    BY <1>4, <1>5, <1>6 DEF ReplayInv

\* Every step of the event store keeps what it knows.
LEMMA ReplayStep == ReplayInv /\ Replay!Next => ReplayInv'
  <1> SUFFICES ASSUME ReplayInv, Replay!Next PROVE ReplayInv'
    OBVIOUS
  <1>1. CASE Replay!Tick
    <2>1. now' = now + 1 /\ UNCHANGED <<inserted, log, drawer, jobs, draft>>
      BY <1>1 DEF Replay!Tick
    <2>2. LogInv'
      BY <2>1 DEF ReplayInv, LogInv
    <2>3. DrawerInv' /\ JobsInv'
      BY <2>1, SameLog DEF ReplayInv, DrawerInv, JobsInv
    <2>4. QED
      BY <2>2, <2>3 DEF ReplayInv
  <1>2. ASSUME NEW f \in Forms, NEW p \in Paths, Replay!Insert(f, "FIELD_UPDATED", p)
        PROVE  ReplayInv'
    BY <1>2, InsertKeeps
  <1>3. ASSUME NEW f \in Forms, NEW kind \in FormKinds, Replay!Insert(f, kind, Undefined)
        PROVE  ReplayInv'
    BY <1>3, InsertKeeps
  <1>4. ASSUME NEW e \in inserted, Replay!Commit(e) PROVE ReplayInv'
    BY <1>4, CommitKeeps
  <1>5. CASE \/ \E e \in Replay!Range(log) : Replay!View(e) \/ Replay!Switch(e)
             \/ Replay!Replay \/ Replay!ReplayFails \/ Replay!Close
    BY <1>5, DrawerKeeps
  <1>6. ASSUME NEW j \in Jobs, Replay!ReadEvents(j) PROVE ReplayInv'
    BY <1>6, ReadEventsKeeps
  <1>7. ASSUME NEW j \in Jobs, Replay!Upsert(j) \/ Replay!JobFails(j) PROVE ReplayInv'
    BY <1>7, JobEnds
  <1>8. QED
    BY <1>1, <1>2, <1>3, <1>4, <1>5, <1>6, <1>7 DEF Replay!Next

\* The draft changes when a job writes what it read.
LEMMA DraftFollows ==
    ASSUME ReplayInv, Replay!Next, draft' # draft
    PROVE  Replay!FollowsTheLog
  <1>1. PICK j \in Jobs : Replay!Upsert(j)
    BY DEF Replay!Next, Replay!Tick, Replay!Insert, Replay!Commit, Replay!View, Replay!Switch,
           Replay!Replay, Replay!ReplayFails, Replay!Close, Replay!ReadEvents, Replay!JobFails
  <1> DEFINE job == jobs[j]
             alone == job.began = draft /\ \A k \in Jobs \ {j} : jobs[k] = Undefined
  <1>2. /\ job # Undefined
        /\ draft' = [state |-> job.state, lastEventId |-> job.lastEventId,
                     seen |-> job.seen, alone |-> alone]
    BY <1>1 DEF Replay!Upsert
  <1>3. /\ ProjectionOf(job.state, job.lastEventId, job.seen)
        /\ job.began # Undefined => job.began.seen <= job.seen
    BY <1>2 DEF ReplayInv, JobsInv
  <1>4. alone /\ draft # Undefined => job.seen >= draft.seen
    <2>1. ASSUME alone, draft # Undefined PROVE job.seen >= draft.seen
      <3>1. draft.seen <= job.seen /\ draft.seen \in 0..Len(log) /\ job.seen \in 0..Len(log)
        BY <1>3, <2>1 DEF ReplayInv, LogInv, ProjectionOf
      <3>2. Len(log) \in Nat
        BY LenProperties DEF ReplayInv, LogInv
      <3>3. QED
        BY <3>1, <3>2
    <2>2. QED
      BY <2>1
  <1> HIDE DEF job, alone
  <1>5. /\ draft'.state = job.state /\ draft'.lastEventId = job.lastEventId
        /\ draft'.seen = job.seen /\ draft'.alone = alone
    BY <1>2, Zenon
  <1>6. draft'.alone /\ draft # Undefined => draft'.seen >= draft.seen
    BY <1>4, <1>5
  <1>7. QED
    BY <1>3, <1>5, <1>6 DEF ProjectionOf, Replay!FollowsTheLog

----------------------------------------------------------------------------
(* The theorems *)

IInv ==
    /\ service = "event store" => ReplayInv
    /\ service = "accounts" => AccountsInv
    /\ service = "signer" => SignerInv

\* The services share nothing: each keeps its own invariant, whatever its requests do and
\* wherever the process stops.
THEOREM Inductive == Spec => []IInv
  <1>1. Init => IInv
    BY ReplayInit, AccountsInit, SignerInit DEF Init, IInv
  <1>2. IInv /\ [Next]_vars => IInv'
    <2> SUFFICES ASSUME IInv, [Next]_vars PROVE IInv'
      OBVIOUS
    <2>1. CASE service = "event store" /\ Replay!Next /\ service' = service
      BY <2>1, ReplayStep DEF IInv
    <2>2. CASE service = "accounts" /\ Users!Next /\ service' = service
      BY <2>2, AccountsStep DEF IInv
    <2>3. CASE service = "signer" /\ Signer!Next /\ service' = service
      BY <2>3, SignerStep DEF IInv
    <2>4. CASE UNCHANGED vars
      <3>1. /\ service' = service
            /\ UNCHANGED <<users, request, enrolments, accepted, twice, overtaken>>
            /\ UNCHANGED <<otpStore, chainStore, generated, records, spent, reused>>
        BY <2>4 DEF vars, onlyAccounts, onlySigner
      <3>2. AccountsInv => AccountsInv'
        BY <3>1, SameUsers
      <3>3. SignerInv => SignerInv'
        BY <3>1 DEF SignerInv, SignerTypes, OtpInv, ChainInv
      <3>4. ReplayInv => ReplayInv'
        <4>1. UNCHANGED <<now, inserted, log, drawer, jobs, draft>>
          BY <2>4 DEF vars, onlyReplay
        <4>2. QED
          BY <4>1, SameLog DEF ReplayInv, LogInv, DrawerInv, JobsInv
      <3>5. QED
        BY <3>1, <3>2, <3>3, <3>4 DEF IInv
    <2>5. QED
      BY <2>1, <2>2, <2>3, <2>4 DEF Next
  <1>3. QED
    BY <1>1, <1>2, PTL DEF Spec

\* A backup code is accepted once and the list is what the enrolment left of it, unless a
\* redemption overtook another write; a code of the signing provider signs once, and the
\* chain of every tenant verifies, in the order of the signatures.
THEOREM Once == Spec => []CodesWorkOnce
  <1>1. IInv => CodesWorkOnce
    <2> SUFFICES ASSUME IInv PROVE CodesWorkOnce
      OBVIOUS
    <2>1. service = "accounts" => Users!CodesWorkOnce
      BY DEF IInv, AccountsInv, CodesInv
    <2>2. service = "signer" => Signer!CodesSignOnce
      BY DEF IInv, SignerInv, OtpInv, ChainInv, Signer!CodesSignOnce, Signer!VerifyChain,
             Signer!Genesis
    <2>3. QED
      BY <2>1, <2>2 DEF CodesWorkOnce
  <1>2. QED
    BY <1>1, Inductive, PTL

\* The snapshot below a header is what the events up to and including the header's left,
\* whatever was committed, asked for, aborted or answered late, unless another event of the
\* form shares the millisecond of the header's.
THEOREM Moment == Spec => []SnapshotIsOfItsMoment
  <1>1. IInv => SnapshotIsOfItsMoment
    <2> DEFINE target == drawer.header
               upTo == {e \in Replay!Committed(drawer.seen) : e.form = target.form /\ e.at <= target.at}
    <2> SUFFICES ASSUME ReplayInv, Replay!Answered,
                        \A e \in Replay!OfTheForm \ {target} : e.at # target.at
                 PROVE  Replay!Materialises(drawer.answer,
                            {target} \cup {e \in Replay!OfTheForm : e.at < target.at})
      BY DEF IInv, SnapshotIsOfItsMoment, Replay!SnapshotIsOfItsMoment
    <2>1. /\ Replay!Materialises(drawer.answer, upTo)
          /\ target \in Replay!Committed(drawer.seen)
          /\ drawer.seen \in 0..Len(log)
      BY DEF ReplayInv, DrawerInv, SnapshotOf, Replay!Answered
    <2>2. \A e \in Replay!Committed(drawer.seen) : e.at \in Nat
      <3>1. Len(log) \in Nat /\ \A i \in 1..Len(log) : log[i] \in Event
        BY LenProperties, ElementOfSeq DEF ReplayInv, LogInv
      <3>2. QED
        BY <2>1, <3>1 DEF Replay!Committed, Event
    <2>3. upTo = {target} \cup {e \in Replay!OfTheForm : e.at < target.at}
      BY <2>1, <2>2 DEF Replay!OfTheForm
    <2>4. QED
      BY <2>1, <2>3
  <1>2. QED
    BY <1>1, Inductive, PTL

\* Every projection has what the events of the tenant left at one moment, and goes back to
\* an earlier one only when two jobs overlapped.
THEOREM Follows == Spec => ProjectionFollowsTheLog
  <1>1. IInv /\ [Next]_vars => [draft' # draft => Replay!FollowsTheLog]_draft
    <2> SUFFICES ASSUME IInv, [Next]_vars, draft' # draft PROVE Replay!FollowsTheLog
      OBVIOUS
    <2>1. service = "event store" /\ Replay!Next
      BY DEF Next, vars, onlyReplay
    <2>2. QED
      BY <2>1, DraftFollows DEF IInv
  <1>2. QED
    BY <1>1, Inductive, PTL DEF Spec, ProjectionFollowsTheLog, Replay!ProjectionFollowsTheLog
=============================================================================
