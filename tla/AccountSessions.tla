-------------------------- MODULE AccountSessions --------------------------
(***************************************************************************)
(* One account: its row in users, the three tables of one-time artifacts   *)
(* (e-mail codes, administrator login challenges, password reset links)    *)
(* and the session tokens signed for it.  Accounts share no row and no     *)
(* lock, so one of them is the system.                                     *)
(*                                                                         *)
(* Calls run concurrently.  A call reads the account outside any           *)
(* transaction, then commits under advisory locks, then signs a token from *)
(* what it read; every one of those is a step other calls may run between, *)
(* and a call may end at any of them.  A password is named by the reset    *)
(* links redeemed up to the one that set it, in order, the first password  *)
(* by none; a code is named by the row that keeps its hash.                *)
(***************************************************************************)
EXTENDS Naturals, Sequences, FiniteSets

CONSTANTS
    Calls,        \* requests served at the same time
    MaxAttempts,  \* wrong codes an artifact takes (MAX_OTP_ATTEMPTS)
    MaxRows,      \* bound: artifacts ever created, of a kind
    MaxVersion,   \* bound: securityVersion
    MaxSessions,  \* bound: tokens signed
    MaxRecords    \* bound: artifacts and tokens together

ASSUME AccountAssumption ==
    /\ MaxAttempts \in Nat \ {0}
    /\ MaxRows \in Nat /\ MaxVersion \in Nat
    /\ MaxSessions \in Nat /\ MaxRecords \in Nat

VARIABLES
    account,   \* the row of users
    table,     \* kind -> the artifacts created, in order of createdAt
    call,      \* per request: where it stands and what it has read
    sessions   \* the tokens signed, in order

accountVars == <<account, table, call, sessions>>

Kinds == {"otp", "challenge", "reset"}
Roles == {"STUDENT", "ADMIN", "SUPER_ADMIN"}
Privileged(role) == role \in {"ADMIN", "SUPER_ADMIN"}

\* usedAt (verifiedAt) is null while a row is usable or expired; consumed and
\* retired tell apart who set it, which no guard of the code does.
RowStates == {"usable", "expired", "consumed", "retired", "deleted"}
NewRow == [state |-> "usable", attempts |-> 0]

Ids(kind) == DOMAIN table[kind]
Usable(kind) == {i \in Ids(kind) : table[kind][i].state = "usable"}
Open(kind) == {i \in Ids(kind) : table[kind][i].state \in {"usable", "expired"}}
Newest(ids) == CHOOSE i \in ids : \A j \in ids : j <= i

\* The rows of a table once ids are marked used, one of them by its owner.
Marked(kind, ids, spent) ==
    [i \in Ids(kind) |->
        IF i \notin ids THEN table[kind][i]
        ELSE [table[kind][i] EXCEPT !.state = IF i = spent THEN "consumed" ELSE "retired"]]

Unregistered == [registered |-> FALSE, password |-> <<>>, role |-> "STUDENT",
                 verified |-> FALSE, version |-> 0]

Idle == [pc |-> "idle", kind |-> "otp", row |-> 0, match |-> FALSE, rows |-> {},
         via |-> "password", role |-> "STUDENT", seen |-> Unregistered]

Init ==
    /\ account = Unregistered
    /\ table = [kind \in Kinds |-> <<>>]
    /\ call = [c \in Calls |-> Idle]
    /\ sessions = <<>>

Goto(c, state) == call' = [call EXCEPT ![c] = state]
Return(c) == Goto(c, Idle)
At(c, pc) == call[c].pc = pc

\* The advisory locks: one per account and kind, held from the first statement
\* of a transaction to its commit.  A challenge is verified under a lock of its
\* own id, not under the account's.
AccountLockHeld(kind) ==
    \E d \in Calls : /\ call[d].pc \in {"insert", "verify"}
                     /\ call[d].kind = kind
                     /\ ~(kind = "challenge" /\ call[d].pc = "verify")
ChallengeLockHeld(i) ==
    \E d \in Calls : At(d, "verify") /\ call[d].kind = "challenge" /\ call[d].row = i

\* An updateMany keeps the rows it changed locked until the commit.
RowLocked(kind, i) ==
    \E d \in Calls : At(d, "insert") /\ call[d].kind = kind /\ i \in call[d].rows

-----------------------------------------------------------------------------
(* Registration and a new e-mail code.                                       *)

Register(c) ==
    /\ At(c, "idle") /\ ~account.registered
    /\ Goto(c, [Idle EXCEPT !.pc = "register"])
    /\ UNCHANGED <<account, table, sessions>>

\* The unique e-mail refuses the second of two registrations.
CreateUser(c) ==
    /\ At(c, "register")
    /\ IF account.registered
       THEN Return(c) /\ UNCHANGED account
       ELSE /\ account' = [account EXCEPT !.registered = TRUE]
            /\ Goto(c, [Idle EXCEPT !.pc = "replace", !.kind = "otp"])
    /\ UNCHANGED <<table, sessions>>

ResendOtp(c) ==
    /\ At(c, "idle") /\ account.registered /\ ~account.verified
    /\ Goto(c, [Idle EXCEPT !.pc = "replace", !.kind = "otp"])
    /\ UNCHANGED <<account, table, sessions>>

ForgotPassword(c) ==
    /\ At(c, "idle") /\ account.registered
    /\ Goto(c, [Idle EXCEPT !.pc = "replace", !.kind = "reset"])
    /\ UNCHANGED <<account, table, sessions>>

\* The password is compared with the row read here; a wrong one changes nothing.
Login(c) ==
    /\ At(c, "idle") /\ account.registered /\ account.verified
    /\ Goto(c, IF Privileged(account.role)
               THEN [Idle EXCEPT !.pc = "replace", !.kind = "challenge"]
               ELSE [Idle EXCEPT !.pc = "sign", !.via = "password", !.seen = account])
    /\ UNCHANGED <<account, table, sessions>>

-----------------------------------------------------------------------------
(* replaceEmailOtp, createLoginChallenge, createPasswordResetToken: under the *)
(* account's lock, every open row is marked used and a new one created.       *)

RoomForRecord ==
    Len(table["otp"]) + Len(table["challenge"]) + Len(table["reset"]) + Len(sessions) < MaxRecords

WithinBounds(kind) == Len(table[kind]) < MaxRows /\ RoomForRecord

\* Mutant: the replacement takes no lock.
RetireUnlocked(c) ==
    LET kind == call[c].kind IN
    /\ At(c, "replace") /\ WithinBounds(kind)
    /\ Goto(c, [call[c] EXCEPT !.pc = "insert", !.rows = Open(kind)])
    /\ UNCHANGED <<account, table, sessions>>

Retire(c) ==
    LET kind == call[c].kind IN
    /\ At(c, "replace") /\ WithinBounds(kind)
    /\ ~AccountLockHeld(kind)
    /\ Goto(c, [call[c] EXCEPT !.pc = "insert", !.rows = Open(kind)])
    /\ UNCHANGED <<account, table, sessions>>

Insert(c) ==
    LET kind == call[c].kind IN
    /\ At(c, "insert")
    /\ table' = [table EXCEPT ![kind] = Append(Marked(kind, call[c].rows, 0), NewRow)]
    /\ Return(c)
    /\ UNCHANGED <<account, sessions>>

-----------------------------------------------------------------------------
(* verifyEmailWithOtp: all of it under the account's lock.                    *)

VerifyOtp(c) ==
    /\ At(c, "idle") /\ account.registered /\ ~account.verified
    /\ ~AccountLockHeld("otp")
    /\ Usable("otp") # {}
    /\ LET i == Newest(Usable("otp")) IN
       /\ table["otp"][i].attempts < MaxAttempts
       /\ \E match \in BOOLEAN :
              Goto(c, [Idle EXCEPT !.pc = "verify", !.kind = "otp", !.row = i, !.match = match])
    /\ UNCHANGED <<account, table, sessions>>

WrongCode(c) ==
    /\ At(c, "verify") /\ ~call[c].match
    /\ ~RowLocked(call[c].kind, call[c].row)
    /\ table' = IF table[call[c].kind][call[c].row].state = "deleted" THEN table
                ELSE [table EXCEPT ![call[c].kind][call[c].row].attempts = @ + 1]
    /\ Return(c)
    /\ UNCHANGED <<account, sessions>>

VerifiedOtp(c) ==
    /\ At(c, "verify") /\ call[c].kind = "otp" /\ call[c].match
    /\ table' = [table EXCEPT !["otp"] = Marked("otp", Open("otp"), call[c].row)]
    /\ LET verified == [account EXCEPT !.verified = TRUE] IN
       /\ account' = verified
       /\ Goto(c, [Idle EXCEPT !.pc = "sign", !.via = "otp", !.seen = verified])
    /\ UNCHANGED sessions

-----------------------------------------------------------------------------
(* verifyLoginChallenge: the challenge and the account are read under the     *)
(* lock of the challenge; a login may replace the challenge meanwhile.        *)

\* Mutant: the verification takes no lock.
VerifyChallengeUnlocked(c) ==
    /\ At(c, "idle")
    /\ \E i \in Usable("challenge"), match \in BOOLEAN :
          /\ table["challenge"][i].attempts < MaxAttempts
          /\ Goto(c, [Idle EXCEPT !.pc = "verify", !.kind = "challenge", !.row = i,
                                  !.match = match, !.seen = account])
    /\ UNCHANGED <<account, table, sessions>>

VerifyChallenge(c) ==
    /\ At(c, "idle")
    /\ \E i \in Usable("challenge"), match \in BOOLEAN :
          /\ ~ChallengeLockHeld(i)
          /\ table["challenge"][i].attempts < MaxAttempts
          /\ Goto(c, [Idle EXCEPT !.pc = "verify", !.kind = "challenge", !.row = i,
                                  !.match = match, !.seen = account])
    /\ UNCHANGED <<account, table, sessions>>

\* Mutant: the count of the consuming update is not looked at.
MaySpendAnyway(c) == TRUE

\* updateMany ... usedAt: null has changed one row.
MaySpend(c) == call[c].row \in Open("challenge")

\* The role is looked at once the challenge is spent.
VerifiedChallenge(c) ==
    /\ At(c, "verify") /\ call[c].kind = "challenge" /\ call[c].match
    /\ ~RowLocked("challenge", call[c].row)
    /\ IF MaySpend(c)
       THEN /\ table' = [table EXCEPT !["challenge"] =
                            Marked("challenge", {call[c].row} \cap Open("challenge"), call[c].row)]
            /\ IF Privileged(call[c].seen.role) /\ call[c].seen.verified
               THEN Goto(c, [Idle EXCEPT !.pc = "sign", !.via = "challenge",
                                         !.row = call[c].row, !.seen = call[c].seen])
               ELSE Return(c)
       ELSE Return(c) /\ UNCHANGED table
    /\ UNCHANGED <<account, sessions>>

-----------------------------------------------------------------------------
(* resetPasswordWithToken: the link is found, then found again under the lock. *)

ResetPassword(c) ==
    /\ At(c, "idle")
    /\ \E i \in Usable("reset") : Goto(c, [Idle EXCEPT !.pc = "reset", !.row = i])
    /\ UNCHANGED <<account, table, sessions>>

\* Mutant: the link found before the lock is trusted.
MayResetWithout(c) == TRUE

MayReset(c) == call[c].row \in Usable("reset")

\* A session of an older securityVersion is not accepted any more.
Bumped(row) == [row EXCEPT !.version = @ + 1]

CommitReset(c) ==
    /\ At(c, "reset") /\ ~AccountLockHeld("reset") /\ account.version < MaxVersion
    /\ IF MayReset(c)
       THEN /\ table' = [table EXCEPT !["reset"] =
                            Marked("reset", Open("reset") \cup {call[c].row}, call[c].row)]
            /\ account' = Bumped([account EXCEPT !.password = Append(@, call[c].row)])
       ELSE UNCHANGED <<account, table>>
    /\ Return(c)
    /\ UNCHANGED sessions

-----------------------------------------------------------------------------
(* Sessions: signed from the account as it was read, accepted while current.  *)

\* Mutant: the token is signed with the version of the moment.
TokenOfNow(c) ==
    [via |-> call[c].via, row |-> call[c].row, role |-> call[c].seen.role,
     version |-> account.version, mfa |-> call[c].via = "challenge",
     password |-> call[c].seen.password]

\* The payload of the token, and how it was earned: by which call, for which
\* challenge, under which password.
Token(c) ==
    [via |-> call[c].via, row |-> call[c].row, role |-> call[c].seen.role,
     version |-> call[c].seen.version, mfa |-> call[c].via = "challenge",
     password |-> call[c].seen.password]

Sign(c) ==
    /\ At(c, "sign") /\ Len(sessions) < MaxSessions /\ RoomForRecord
    /\ sessions' = Append(sessions, Token(c))
    /\ Return(c)
    /\ UNCHANGED <<account, table>>

Accepted(t) ==
    /\ t.version = account.version
    /\ Privileged(account.role) => t.mfa

Logout(c) ==
    /\ At(c, "idle") /\ \E k \in DOMAIN sessions : Accepted(sessions[k])
    /\ Goto(c, [Idle EXCEPT !.pc = "logout", !.seen.version = account.version])
    /\ UNCHANGED <<account, table, sessions>>

\* Mutant: the version read by the middleware is written back plus one.
EndSessionsStale(c) == [account EXCEPT !.version = call[c].seen.version + 1]

EndSessions(c) == Bumped(account)

CommitLogout(c) ==
    /\ At(c, "logout") /\ account.version < MaxVersion
    /\ account' = EndSessions(c)
    /\ Return(c)
    /\ UNCHANGED <<table, sessions>>

-----------------------------------------------------------------------------
(* Roles: promoteUser and demoteUser read the role, then write the new one;   *)
(* the bootstrap script makes the account a super admin.                      *)

ChangeRole(c) ==
    /\ At(c, "idle") /\ account.registered
    /\ \/ /\ account.role = "STUDENT"
          /\ Goto(c, [Idle EXCEPT !.pc = "role", !.role = "ADMIN"])
       \/ /\ account.role = "ADMIN"
          /\ Goto(c, [Idle EXCEPT !.pc = "role", !.role = "STUDENT"])
    /\ UNCHANGED <<account, table, sessions>>

\* Mutant: a new role leaves the sessions alone.
WithRoleOnly(role) == [account EXCEPT !.role = role]

WithRole(role) == Bumped([account EXCEPT !.role = role])

CommitRole(c) ==
    /\ At(c, "role") /\ account.version < MaxVersion
    /\ account' = WithRole(call[c].role)
    /\ Return(c)
    /\ UNCHANGED <<table, sessions>>

Bootstrap ==
    /\ account.registered /\ account.role # "SUPER_ADMIN"
    /\ account' = [account EXCEPT !.role = "SUPER_ADMIN", !.verified = TRUE]
    /\ UNCHANGED <<table, call, sessions>>

-----------------------------------------------------------------------------
(* Time and the cleanup job.                                                  *)

Expire(kind, i) ==
    /\ i \in Usable(kind)
    /\ table' = [table EXCEPT ![kind][i].state = "expired"]
    /\ UNCHANGED <<account, call, sessions>>

\* A row expired or used for the retention is found, then deleted, the oldest of
\* its kind first.  It does not become usable in between, so the two statements
\* are one step per row.
CleanUp(kind, i) ==
    /\ i \in Ids(kind) \ Usable(kind) /\ table[kind][i].state # "deleted"
    /\ \A j \in 1..(i - 1) : table[kind][j].state = "deleted"
    /\ ~RowLocked(kind, i)
    /\ table' = [table EXCEPT ![kind][i] = [state |-> "deleted", attempts |-> 0]]
    /\ UNCHANGED <<account, call, sessions>>

\* A refusal under the locks, a timeout, a mail that fails or a crash ends a
\* call: what it committed stays, its open transaction is rolled back.
Abandon(c) ==
    /\ ~At(c, "idle")
    /\ Return(c)
    /\ UNCHANGED <<account, table, sessions>>

-----------------------------------------------------------------------------
Next ==
    \/ \E c \in Calls :
          \/ Abandon(c)
          \/ Register(c) \/ CreateUser(c) \/ ResendOtp(c) \/ ForgotPassword(c) \/ Login(c)
          \/ Retire(c) \/ Insert(c)
          \/ VerifyOtp(c) \/ VerifyChallenge(c) \/ WrongCode(c)
          \/ VerifiedOtp(c) \/ VerifiedChallenge(c)
          \/ ResetPassword(c) \/ CommitReset(c) \/ Sign(c)
          \/ Logout(c) \/ CommitLogout(c) \/ ChangeRole(c) \/ CommitRole(c)
    \/ Bootstrap
    \/ \E kind \in Kinds : \E i \in Ids(kind) : Expire(kind, i) \/ CleanUp(kind, i)

Spec == Init /\ [][Next]_accountVars

-----------------------------------------------------------------------------
AccountRows ==
    [registered : BOOLEAN, password : Seq(1..MaxRows), role : Roles,
     verified : BOOLEAN, version : 0..MaxVersion]

\* Type invariant; no artifact counts more than MAX_OTP_ATTEMPTS wrong codes.
AccountTypeOK ==
    /\ account \in AccountRows
    /\ \A kind \in Kinds :
          /\ Len(table[kind]) <= MaxRows
          /\ \A i \in Ids(kind) : table[kind][i] \in
                [state : RowStates, attempts : 0..MaxAttempts]
    /\ \A c \in Calls : call[c].seen \in AccountRows /\ call[c].kind \in Kinds
    /\ Len(sessions) <= MaxSessions

\* However many logins, resends and forgotten passwords overlap, at most one
\* artifact of each kind can still be redeemed (the transactions of
\* replaceEmailOtp, createLoginChallenge and createPasswordResetToken).
OneOpenArtifact == \A kind \in Kinds : Cardinality(Open(kind)) <= 1

\* A code that has been mistyped MAX_OTP_ATTEMPTS times is dead: an overlapping
\* verification that passed the check before the last mistake does not redeem it
\* (verifyEmailWithOtp, verifyLoginChallenge).
LockedOutStaysOut ==
    \A kind \in Kinds : \A i \in Ids(kind) :
        table[kind][i].state = "consumed" => table[kind][i].attempts < MaxAttempts

\* A challenge signs at most one administrator session, and only if it is the one
\* the verification spent: a challenge a later login has replaced signs none, even
\* when it was read before it was replaced (verifyLoginChallenge).
ChallengeSignsOnce ==
    \A j, k \in DOMAIN sessions : sessions[j].via = "challenge" =>
        /\ table["challenge"][sessions[j].row].state \in {"consumed", "deleted"}
        /\ (sessions[k].via = "challenge" /\ sessions[k].row = sessions[j].row) => j = k

\* A session opened with a password is accepted only while it is the password: a
\* login that compared the old one before a reset and answers after it signs a
\* token the middleware refuses (loginService, resetPasswordWithToken).
AcceptedUnderPassword ==
    \A k \in DOMAIN sessions :
        (sessions[k].via = "password" /\ Accepted(sessions[k])) =>
            sessions[k].password = account.password

\* An accepted session was signed for the role the account has, whichever role
\* changes ran while it was being signed; the bootstrap script, which changes the
\* role and no version, is the one exception (updateUserRole, createSessionToken).
AcceptedUnderRole ==
    \A k \in DOMAIN sessions : Accepted(sessions[k]) =>
        sessions[k].role = account.role \/ account.role = "SUPER_ADMIN"

\* A password is set only by the newest link sent, and only by the first use of
\* it: a reset that found an older link before it was replaced fails, and so does
\* the second of two that found the newest one, however often the account's
\* password has been reset in between (resetPasswordWithToken).
NewestLinkResets ==
    [][account'.password # account.password =>
        LET link == Len(table["reset"])
        IN  /\ account'.password = Append(account.password, link)
            /\ \A k \in DOMAIN account.password : account.password[k] # link]_accountVars

\* A logout, a role change or a reset ends every session signed so far, those
\* signed since the call read the account included, and revives none: increments
\* of overlapping calls add up (invalidateUserSessions, updateUserRole).
SessionsEnd ==
    [][((\E c \in Calls : CommitLogout(c) \/ CommitRole(c))
         \/ account'.password # account.password) =>
          \A k \in DOMAIN sessions : sessions[k].version < account'.version]_accountVars
=============================================================================
