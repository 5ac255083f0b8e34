------------------------------ MODULE Accounts ------------------------------
(***************************************************************************)
(* Accounts of the backend: registration, e-mail verification, passwords,  *)
(* two-factor login, suspension and erasure (auth/, users/providers/).     *)
(* One-time codes are numbers, no two alike; a password is the number of   *)
(* the code it was set with.  What only refuses a call (the password asked *)
(* for, the temporary token of a two-factor login, an authenticator's      *)
(* digits) is left out, and so are refresh tokens.                         *)
(***************************************************************************)
EXTENDS Requests

CONSTANTS
    Users, Emails,
    MaxCodes      \* bound: codes issued

ASSUME AccountsAssumption == MaxCodes \in Nat

VARIABLES
    account,  \* a user's row
    issued,   \* codes issued
    lapsed,   \* codes whose time is over
    uses,     \* history: how often a code did what it is for
    latest    \* history: what the last request about it saved, for each fact

AC_rows == <<account, issued, lapsed, uses, latest>>
accountVars == <<requests, AC_rows>>

Codes == 1..MaxCodes
NoCode == 0
Keep == -1       \* undefined: save leaves the column as it is

Facts == {"verified", "password", "twofa", "secret", "backup", "link", "active"}
NoAccountRow == [email |-> "none", verified |-> FALSE, vcode |-> NoCode,
                 rcode |-> NoCode, link |-> NoCode, password |-> NoCode,
                 secret |-> FALSE, twofa |-> FALSE, backup |-> {}, active |-> TRUE]
Row == [email : Emails \cup {"none"}, verified : BOOLEAN,
        vcode : Codes \cup {NoCode}, rcode : Codes \cup {NoCode},
        link : Codes \cup {NoCode}, password : Codes \cup {NoCode},
        secret : BOOLEAN, twofa : BOOLEAN, backup : SUBSET Codes, active : BOOLEAN]

Registered(u) == account[u].email # "none"
Usable(c) == c \in Codes \ lapsed

AccountsInit ==
    /\ account = [u \in Users |-> NoAccountRow]
    /\ issued = 0
    /\ lapsed = {}
    /\ uses = [c \in Codes |-> 0]
    /\ latest = [u \in Users |-> NoAccountRow]

AccountsType ==
    /\ account \in [Users -> Row]
    /\ issued \in 0..MaxCodes
    /\ lapsed \subseteq Codes
    /\ uses \in [Codes -> Nat]

Issue(n) == issued + n <= MaxCodes /\ issued' = issued + n
NoIssue == UNCHANGED issued

\* The rest of a handler: the row as it will be saved, the code it is for, and the
\* facts the request is about.
Handle(w, u, row, code, facts) ==
    /\ Start(w, [op |-> "account", user |-> u, row |-> row, code |-> code,
                 facts |-> facts])
    /\ UNCHANGED <<account, lapsed, uses, latest>>

\* auth createAccount and users createUser: no row with the address was found.  An
\* administrator's account gets no code.
Register(w, u, email, withCode) ==
    /\ ~Registered(u)
    /\ \A v \in Users : account[v].email # email
    /\ IF withCode THEN Issue(1) ELSE NoIssue
    /\ Handle(w, u, [NoAccountRow EXCEPT !.email = email,
                         !.vcode = IF withCode THEN issued + 1 ELSE NoCode],
              NoCode, Facts)

VerifyOtp(w, u) ==
    /\ Registered(u) /\ Usable(account[u].vcode)
    /\ NoIssue
    /\ Handle(w, u, [account[u] EXCEPT !.verified = TRUE, !.vcode = NoCode],
              account[u].vcode, {"verified"})

\* Also from a login before the address is verified, and for one that is.
ResendOtp(w, u) ==
    /\ Registered(u) /\ Issue(1)
    /\ Handle(w, u, [account[u] EXCEPT !.vcode = issued + 1], NoCode, {})

RequestReset(w, u) ==
    /\ Registered(u) /\ Issue(1)
    /\ Handle(w, u, [account[u] EXCEPT !.rcode = issued + 1], NoCode, {})

\* Nothing changes, and the row is saved all the same.
VerifyReset(w, u) ==
    /\ Registered(u) /\ Usable(account[u].rcode)
    /\ NoIssue
    /\ Handle(w, u, account[u], NoCode, {})

\* The code is set to undefined and stays in its column until its time is over.
ResetPassword(w, u) ==
    /\ Registered(u) /\ Usable(account[u].rcode)
    /\ NoIssue
    /\ Handle(w, u, [account[u] EXCEPT !.password = account[u].rcode, !.rcode = Keep],
              NoCode, {"password"})

ForgotPassword(w, u) ==
    /\ Registered(u) /\ Issue(1)
    /\ Handle(w, u, [account[u] EXCEPT !.link = issued + 1], NoCode, {"link"})

ResetByLink(w, u) ==
    /\ Registered(u) /\ Usable(account[u].link)
    /\ NoIssue
    /\ Handle(w, u, [account[u] EXCEPT !.password = account[u].link, !.link = NoCode],
              account[u].link, {"password", "link"})

\* Also when two-factor login is enabled: then another secret replaces the old one.
InitiateSetup(w, u) ==
    /\ Registered(u) /\ NoIssue
    /\ Handle(w, u, [account[u] EXCEPT !.secret = TRUE], NoCode, {"secret"})

\* Two backup codes stand for the eight.
ConfirmSetup(w, u) ==
    /\ account[u].secret /\ Issue(2)
    /\ Handle(w, u, [account[u] EXCEPT !.twofa = TRUE,
                         !.backup = {issued + 1, issued + 2}],
              NoCode, {"twofa", "backup"})

Disable(w, u) ==
    /\ Registered(u) /\ NoIssue
    /\ Handle(w, u, [account[u] EXCEPT !.twofa = FALSE, !.secret = FALSE, !.backup = {}],
              NoCode, {"twofa", "secret", "backup"})

\* Mutant: the code used is not filtered out.
Mut_BackupLogin(w, u, c) ==
    /\ c \in account[u].backup /\ NoIssue
    /\ Handle(w, u, account[u], c, {"backup"})

BackupLogin(w, u, c) ==
    /\ c \in account[u].backup /\ NoIssue
    /\ Handle(w, u, [account[u] EXCEPT !.backup = @ \ {c}], c, {"backup"})

UpdateStatus(w, u, active) ==
    /\ Registered(u) /\ NoIssue
    /\ Handle(w, u, [account[u] EXCEPT !.active = active], NoCode, {"active"})

\* Both names become null with the address.
Erase(w, u) ==
    /\ Registered(u) /\ NoIssue
    /\ Handle(w, u, [account[u] EXCEPT !.email = "erased", !.active = FALSE],
              NoCode, {"active"})

\* Mutant: a column left out is written as it is in hand.
Mut_AccountSaved(w) ==
    LET f == frame[w] IN
    /\ Doing(w, "account")
    /\ f.row.email # "erased"
    /\ \A v \in Users \ {f.user} : account[v].email # f.row.email
    /\ account' = [account EXCEPT ![f.user] = f.row]
    /\ uses' = [c \in Codes |-> uses[c] + (IF c = f.code THEN 1 ELSE 0)]
    /\ latest' = [latest EXCEPT ![f.user] =
           [k \in DOMAIN @ |-> IF k \in f.facts THEN f.row[k] ELSE @[k]]]
    /\ Ends(w)
    /\ UNCHANGED <<issued, lapsed>>

\* save: the database refuses a second row with the address, and a row without names.
AccountSaved(w) ==
    LET f == frame[w] IN
    /\ Doing(w, "account")
    /\ f.row.email # "erased"
    /\ \A v \in Users \ {f.user} : account[v].email # f.row.email
    /\ account' = [account EXCEPT ![f.user] =
           [f.row EXCEPT !.rcode = IF @ = Keep THEN account[f.user].rcode ELSE @]]
    /\ uses' = [c \in Codes |-> uses[c] + (IF c = f.code THEN 1 ELSE 0)]
    /\ latest' = [latest EXCEPT ![f.user] =
           [k \in DOMAIN @ |-> IF k \in f.facts THEN f.row[k] ELSE @[k]]]
    /\ Ends(w)
    /\ UNCHANGED <<issued, lapsed>>

CodeLapses(c) ==
    /\ c <= issued /\ c \notin lapsed
    /\ lapsed' = lapsed \cup {c}
    /\ UNCHANGED <<requests, account, issued, uses, latest>>

AccountRequest(w, u) ==
    \/ \E email \in Emails, withCode \in BOOLEAN : Register(w, u, email, withCode)
    \/ VerifyOtp(w, u) \/ ResendOtp(w, u)
    \/ RequestReset(w, u) \/ VerifyReset(w, u) \/ ResetPassword(w, u)
    \/ ForgotPassword(w, u) \/ ResetByLink(w, u)
    \/ InitiateSetup(w, u) \/ ConfirmSetup(w, u) \/ Disable(w, u)
    \/ \E c \in Codes : BackupLogin(w, u, c)
    \/ \E active \in BOOLEAN : UpdateStatus(w, u, active)
    \/ Erase(w, u)

AccountsNext ==
    \/ \E w \in Workers \ {Cron} : \/ \E u \in Users : AccountRequest(w, u)
                                   \/ AccountSaved(w)
                                   \/ Fails(w) /\ UNCHANGED AC_rows
    \/ \E c \in Codes : CodeLapses(c)

AccountsSpec == RequestsInit /\ AccountsInit /\ [][AccountsNext]_accountVars

-----------------------------------------------------------------------------

\* What a request has done is not undone by one about something else: however many
\* handlers save the same row, also after failed ones, each fact is as the last
\* request about it saved it.
NothingUndone ==
    \A u \in Users, k \in Facts : account[u][k] = latest[u][k]

\* A verification code, a reset link and a backup code each work once.
CodesWorkOnce == \A c \in Codes : uses[c] <= 1

\* What the whole-row saves of the account handlers promise when requests do not
\* overlap (they need not: verify-totp.provider.ts:71, auth.service.ts:189).
AccountsKept == ~overlap => NothingUndone /\ CodesWorkOnce
=============================================================================
