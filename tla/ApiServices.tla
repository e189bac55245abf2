---------------------------- MODULE ApiServices ----------------------------
(***************************************************************************)
(* The services of the API beside the routes of the forms: replay and       *)
(* projection of the stored events (event-store), the accounts              *)
(* (routes/auth.routes, routes/totp.routes) and the signing provider. They  *)
(* share no table and no variable, so a behaviour of the API is one of each *)
(* of them; a state here has the one that is looked at.                     *)
(***************************************************************************)
EXTENDS Integers, Sequences

CONSTANTS
    Forms, Paths, FormKinds, Jobs, MaxEvents, MaxMillis, MaxReads,          \* EventReplay
    Emails, Provisioned, Requests, BackupCodes, AccessTtl, RefreshTtl, MaxTime,
    MaxEnrolments,                                                          \* Accounts
    Tenants, Signers, Otps, OtpTtl, MaxGenerated, MaxRecords,                        \* InternalSigner
    Undefined

\* A field path has a segment, FIELD_UPDATED has a path, and a token lives for a tick.
ASSUME ServicesAssumption ==
    Paths \subseteq Seq(STRING) \ {<< >>} /\ "FIELD_UPDATED" \notin FormKinds
    /\ AccessTtl \in Nat \ {0} /\ RefreshTtl \in Nat \ {0}

VARIABLES
    service,                                                \* the service that is looked at
    now,                                                    \* of every service
    inserted, log, drawer, jobs, draft, reads,              \* of EventReplay
    users, session, request, enrolments, accepted, twice, overtaken,    \* of Accounts
    otpStore, chainStore, generated, records, spent, reused \* of InternalSigner

onlyReplay   == <<inserted, log, drawer, jobs, draft, reads>>
onlyAccounts == <<users, session, request, enrolments, accepted, twice, overtaken>>
onlySigner   == <<otpStore, chainStore, generated, records, spent, reused>>
vars         == <<service, now, onlyReplay, onlyAccounts, onlySigner>>

Replay == INSTANCE EventReplay WITH MaxTime <- MaxMillis
Users  == INSTANCE Accounts
Signer == INSTANCE InternalSigner WITH clock <- now

\* What is not there is no number.
ASSUME UndefinedAssumption == Undefined \notin Nat

\* A service that is not looked at has no state.
NoReplay ==
    /\ inserted = Undefined /\ log = Undefined /\ drawer = Undefined
    /\ jobs = Undefined /\ draft = Undefined /\ reads = Undefined
NoAccounts ==
    /\ users = Undefined /\ session = Undefined /\ request = Undefined
    /\ enrolments = Undefined
    /\ accepted = Undefined /\ twice = Undefined /\ overtaken = Undefined
NoSigner ==
    /\ otpStore = Undefined /\ chainStore = Undefined /\ generated = Undefined
    /\ records = Undefined /\ spent = Undefined /\ reused = Undefined

Init ==
    \/ service = "event store" /\ Replay!Init /\ NoAccounts /\ NoSigner
    \/ service = "accounts" /\ Users!Init /\ NoReplay /\ NoSigner
    \/ service = "signer" /\ Signer!Init /\ NoReplay /\ NoAccounts

Next ==
    \/ service = "event store" /\ Replay!Next /\ UNCHANGED <<service, onlyAccounts, onlySigner>>
    \/ service = "accounts" /\ Users!Next /\ UNCHANGED <<service, onlyReplay, onlySigner>>
    \/ service = "signer" /\ Signer!Next /\ UNCHANGED <<service, onlyReplay, onlyAccounts>>

Spec == Init /\ [][Next]_vars

----------------------------------------------------------------------------
(* Properties *)

\* The snapshot below a header of the audit panel is what the form was once the event of
\* the header had happened, as long as no other event of the form shares its millisecond
\* (replay.ts, SnapshotDrawer.tsx).
SnapshotIsOfItsMoment == service = "event store" => Replay!SnapshotIsOfItsMoment

\* "up to (and including) the specified event" (routes/eea2/events.ts).
SnapshotStopsAtItsEvent == service = "event store" => Replay!SnapshotStopsAtItsEvent

\* A projection has what the events of the tenant left at one moment, and goes back only
\* when two jobs overlapped (projection-builder.ts, sync-worker.ts).
ProjectionFollowsTheLog == Replay!ProjectionFollowsTheLog

\* The backup codes of a user are those of the enrolment less the accepted ones, and none is
\* accepted twice unless a redemption overtakes another write (totp.routes.ts). A code of
\* the signing provider signs once, and the chains verify (internal-signer.ts).
CodesWorkOnce ==
    CASE service = "accounts" -> Users!CodesWorkOnce
      [] service = "signer" -> Signer!CodesSignOnce
      [] OTHER -> TRUE
=============================================================================
