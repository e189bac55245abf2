------------------------------ MODULE Accounts ------------------------------
(***************************************************************************)
(* The accounts of the API (routes/auth.routes, routes/totp.routes,         *)
(* lib/auth, plugins/auth): what the tokens let a user do, and the secret    *)
(* and the backup codes of the second factor.                               *)
(*                                                                         *)
(* A handler reads the user and writes it back in two statements, with no   *)
(* transaction around them, so other requests run in between; a crash of    *)
(* the process leaves the second one out. better-auth, which checks the      *)
(* passwords, is external: whether it accepts a login is left open, and a    *)
(* registration, which it begins with an insert into the table of users that *)
(* the table's columns refuse, changes nothing here. Signing out, the status *)
(* and the check of a code of the authenticator change nothing either.       *)
(***************************************************************************)
EXTENDS Integers, FiniteSets

CONSTANTS
    Emails,         \* of the users in the table
    Provisioned,    \* what they were put into the table with: [tenant, role]
    Requests,       \* requests in progress
    BackupCodes,    \* of one enrolment, by number
    AccessTtl, RefreshTtl,      \* at least one tick
    MaxTime, MaxEnrolments,     \* bounds
    Undefined

VARIABLES
    users,      \* prisma.user, by email: what changes of a row
    session,    \* the tokens a client holds, by email: when the pair was issued
    request,    \* what each request in progress read
    now,
    enrolments, \* enrolments so far, counted; each gives its number to secret and codes
    accepted,   \* history: the codes of the enrolment that were accepted
    twice,      \* history: a code was accepted again
    overtaken   \* history: a redemption wrote over what another request had written

vars == <<users, session, request, now, enrolments, accepted, twice, overtaken>>

\* A row of prisma.user; its tenant and its role stay what they are in Provisioned.
User == [secret : Nat \cup {Undefined}, codes : SUBSET (Nat \X BackupCodes)]

CodesOf(n) == {<<n, i>> : i \in BackupCodes}

Init ==
    /\ now = 0 /\ enrolments = 0
    /\ users = [e \in Emails |-> [secret |-> Undefined, codes |-> {}]]
    /\ session = [e \in Emails |-> Undefined]
    /\ request = [r \in Requests |-> Undefined]
    /\ accepted = [e \in Emails |-> {}]
    /\ twice = [e \in Emails |-> FALSE] /\ overtaken = [e \in Emails |-> FALSE]

----------------------------------------------------------------------------
(* Tokens *)

AccessValid(e)  == session[e] # Undefined /\ now < session[e] + AccessTtl
RefreshValid(e) == session[e] # Undefined /\ now < session[e] + RefreshTtl

BuildTokenPair(e) ==
    /\ session' = [session EXCEPT ![e] = now]
    /\ UNCHANGED <<users, request, now, enrolments, accepted, twice, overtaken>>

Login(e) == BuildTokenPair(e)

Refresh(e) == RefreshValid(e) /\ BuildTokenPair(e)

\* It makes no difference before there are tokens.
TimePasses ==
    /\ now < MaxTime /\ now' = now + 1
    /\ \E e \in Emails : session[e] # Undefined
    /\ UNCHANGED <<users, session, request, enrolments, accepted, twice, overtaken>>

\* The requests in progress are lost with the process.
Restart ==
    /\ request # [r \in Requests |-> Undefined]
    /\ request' = [r \in Requests |-> Undefined]
    /\ UNCHANGED <<users, session, now, enrolments, accepted, twice, overtaken>>

----------------------------------------------------------------------------
(* The second factor *)

Start(r, record) == request[r] = Undefined /\ request' = [request EXCEPT ![r] = record]

\* The request r writes the user: what the other redemptions of the user have read is old.
Written(r, e) ==
    request' = [q \in Requests |->
        IF q = r THEN Undefined
        ELSE IF request[q] # Undefined /\ request[q].op = "redeem" /\ request[q].email = e
        THEN [request[q] EXCEPT !.old = TRUE]
        ELSE request[q]]

Fresh(e) ==
    /\ accepted' = [accepted EXCEPT ![e] = {}]
    /\ twice' = [twice EXCEPT ![e] = FALSE]
    /\ overtaken' = [overtaken EXCEPT ![e] = FALSE]

Enrol(r, e) ==
    /\ AccessValid(e) /\ enrolments < MaxEnrolments
    /\ enrolments' = enrolments + 1
    /\ Start(r, [op |-> "enrol", email |-> e, number |-> enrolments'])
    /\ UNCHANGED <<users, session, now, accepted, twice, overtaken>>

StoreEnrolment(r) ==
    /\ request[r] # Undefined /\ request[r].op = "enrol"
    /\ LET e == request[r].email
           n == request[r].number
       IN /\ users' = [users EXCEPT ![e] = [@ EXCEPT !.secret = n, !.codes = CodesOf(n)]]
          /\ Fresh(e) /\ Written(r, e)
    /\ UNCHANGED <<session, now, enrolments>>

\* A code that is not on the list is answered with no.
FindBackupCode(r, e, code) ==
    /\ code \in users[e].codes
    /\ Start(r, [op |-> "redeem", email |-> e, code |-> code, read |-> users[e].codes, old |-> FALSE])
    /\ UNCHANGED <<users, session, now, enrolments, accepted, twice, overtaken>>

Remaining_All(read, code) == read

Remaining(read, code) == read \ {code}

ConsumeBackupCode(r) ==
    /\ request[r] # Undefined /\ request[r].op = "redeem"
    /\ LET e == request[r].email
           code == request[r].code
       IN /\ users' = [users EXCEPT ![e] = [@ EXCEPT !.codes = Remaining(request[r].read, code)]]
          /\ accepted' = [accepted EXCEPT ![e] = @ \cup {code}]
          /\ twice' = [twice EXCEPT ![e] = @ \/ code \in accepted[e]]
          /\ overtaken' = [overtaken EXCEPT ![e] = @ \/ request[r].old]
          /\ Written(r, e)
    /\ UNCHANGED <<session, now, enrolments>>

\* An administrator resets the users of the tenant in the token.
FindTarget(r, admin, e) ==
    /\ AccessValid(admin) /\ Provisioned[admin].role = "ADMIN"
    /\ Provisioned[e].tenant = Provisioned[admin].tenant
    /\ Start(r, [op |-> "reset", email |-> e])
    /\ UNCHANGED <<users, session, now, enrolments, accepted, twice, overtaken>>

Reset(r) ==
    /\ request[r] # Undefined /\ request[r].op = "reset"
    /\ LET e == request[r].email
       IN /\ users' = [users EXCEPT ![e] = [@ EXCEPT !.secret = Undefined, !.codes = {}]]
          /\ Fresh(e) /\ Written(r, e)
    /\ UNCHANGED <<session, now, enrolments>>

Next ==
    \/ \E e \in Emails : Login(e) \/ Refresh(e)
    \/ \E r \in Requests : \/ StoreEnrolment(r) \/ ConsumeBackupCode(r) \/ Reset(r)
                           \/ \E e \in Emails : Enrol(r, e)
                           \/ \E e \in Emails, n \in 1..MaxEnrolments :
                                  \E code \in CodesOf(n) : FindBackupCode(r, e, code)
                           \/ \E admin, e \in Emails : FindTarget(r, admin, e)
    \/ TimePasses \/ Restart

Spec == Init /\ [][Next]_vars

----------------------------------------------------------------------------
(* Properties *)

\* A user has the codes of the enrolment the secret is of, less those that were accepted,
\* and none was accepted twice ("each code works exactly once"), until a redemption that
\* had read the list before another request wrote it writes its own.
CodesWorkOnce ==
    \A e \in Emails : ~overtaken[e] =>
        /\ ~twice[e]
        /\ users[e].codes = (IF users[e].secret = Undefined THEN {} ELSE CodesOf(users[e].secret))
                            \ accepted[e]
=============================================================================
