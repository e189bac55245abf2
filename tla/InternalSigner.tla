--------------------------- MODULE InternalSigner ---------------------------
(***************************************************************************)
(* The signing provider of the API (providers/signing/internal-signer):     *)
(* one-time codes, and a chain of signing records per tenant. Both are kept *)
(* in the memory of the process. No route uses it yet; its callers are      *)
(* whoever asks for a code and whoever signs with one.                      *)
(*                                                                         *)
(* A code is a number that may come up again. The hash of a record covers   *)
(* its id, which no other record has: the id stands for the hash.           *)
(***************************************************************************)
EXTENDS Naturals, Sequences, SequencesExt

CONSTANTS
    Tenants, Signers,
    Otps,           \* the codes that come up
    OtpTtl,         \* OTP_TTL_MS
    MaxTime,        \* bound on the clock
    MaxGenerated,   \* bound on the codes asked for
    MaxRecords,     \* bound on the records
    Undefined

VARIABLES
    otpStore,   \* [otp, expiresAt, number], by tenant and signer
    chainStore, \* the records of each tenant, oldest first
    clock,
    generated,  \* codes generated so far, counted; each has its number
    records,    \* records signed so far, counted; each gives its id
    spent,      \* history: the numbers of the codes that signed
    reused      \* history: did a code sign twice?

vars == <<otpStore, chainStore, clock, generated, records, spent, reused>>

Keys == Tenants \X Signers
Genesis == 0

Init ==
    /\ otpStore = [k \in Keys |-> Undefined]
    /\ chainStore = [t \in Tenants |-> <<>>]
    /\ clock = 0 /\ generated = 0 /\ records = 0 /\ spent = {} /\ reused = FALSE

\* A second code takes the place of the first.
GenerateOtp(k, otp) ==
    /\ generated < MaxGenerated /\ generated' = generated + 1
    /\ otpStore' = [otpStore EXCEPT ![k] =
                        [otp |-> otp, expiresAt |-> clock + OtpTtl, number |-> generated']]
    /\ UNCHANGED <<chainStore, clock, records, spent, reused>>

OtpAccepted(k, otp) ==
    /\ otpStore[k] # Undefined /\ otpStore[k].otp = otp
    /\ clock <= otpStore[k].expiresAt

PrevHash(chain) == IF chain = <<>> THEN Genesis ELSE Last(chain).hash

SignRecord(k, id, chain) ==
    [recordId |-> id, tenantId |-> k[1], signerSub |-> k[2], prevHash |-> PrevHash(chain), hash |-> id]

StoreAfterSign(k) == [otpStore EXCEPT ![k] = Undefined]

\* A code that is not accepted changes nothing.
Sign(k, otp) ==
    LET number == otpStore[k].number
    IN /\ records < MaxRecords
       /\ OtpAccepted(k, otp)
       /\ otpStore' = StoreAfterSign(k)
       /\ records' = records + 1
       /\ chainStore' = [chainStore EXCEPT ![k[1]] = Append(@, SignRecord(k, records', @))]
       /\ spent' = spent \cup {number}
       /\ reused' = (reused \/ number \in spent)
       /\ UNCHANGED <<clock, generated>>

Tick ==
    /\ clock < MaxTime /\ clock' = clock + 1
    /\ UNCHANGED <<otpStore, chainStore, generated, records, spent, reused>>

\* The maps are empty in a new process.
Restart ==
    /\ otpStore' = [k \in Keys |-> Undefined]
    /\ chainStore' = [t \in Tenants |-> <<>>]
    /\ UNCHANGED <<clock, generated, records, spent, reused>>

Next ==
    \/ \E k \in Keys, otp \in Otps : GenerateOtp(k, otp) \/ Sign(k, otp)
    \/ Tick \/ Restart

Spec == Init /\ [][Next]_vars

----------------------------------------------------------------------------
(* Properties *)

\* The hash of a record is that of the record as it is: nothing rewrites one.
VerifyChain(t) ==
    LET chain == chainStore[t]
    IN \A i \in DOMAIN chain :
          chain[i].prevHash = IF i = 1 THEN Genesis ELSE chain[i - 1].hash

\* Every record was signed with a code of its own, however often codes are asked for, come
\* up again or run out; and the chain of every tenant verifies, holds records of that
\* tenant only, and holds them in the order of the signatures.
CodesSignOnce ==
    /\ ~reused
    /\ \A t \in Tenants :
          LET chain == chainStore[t]
          IN /\ VerifyChain(t)
             /\ \A i \in DOMAIN chain : chain[i].tenantId = t
             /\ \A i, j \in DOMAIN chain : i < j => chain[i].recordId < chain[j].recordId
=============================================================================
