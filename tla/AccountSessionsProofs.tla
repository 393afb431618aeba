----------------------- MODULE AccountSessionsProofs -----------------------
(***************************************************************************)
(* Proofs about AccountSessions, for any number of overlapping calls, wrong *)
(* codes allowed and artifacts created.                                    *)
(*                                                                         *)
(* The invariant says what a call may rely on at each point where others   *)
(* run: one that inserts an artifact still sees every open one, one that   *)
(* verifies a code still has an attempt left, one that signs a token has   *)
(* read a version of the account that is current or gone for good.         *)
(***************************************************************************)
EXTENDS AccountSessions, FiniteSetTheorems, SequenceTheorems, TLAPS

USE AccountAssumption

-----------------------------------------------------------------------------
(* The inductive invariant.                                                  *)

Points == {"idle", "register", "replace", "insert", "verify", "sign", "reset", "logout", "role"}
Ways == {"password", "otp", "challenge"}
Artifacts == [state : RowStates, attempts : 0..MaxAttempts]

CallRecords ==
    [pc : Points, kind : Kinds, row : 0..MaxRows, match : BOOLEAN, rows : SUBSET Nat,
     via : Ways, role : Roles, seen : AccountRows]

Tokens ==
    [via : Ways, row : 0..MaxRows, role : Roles, version : 0..MaxVersion, mfa : BOOLEAN,
     password : Seq(1..MaxRows)]

Typed ==
    /\ account \in AccountRows
    /\ table \in [Kinds -> Seq(Artifacts)]
    /\ call \in [Calls -> CallRecords]
    /\ sessions \in Seq(Tokens)
    /\ \A kind \in Kinds : Len(table[kind]) <= MaxRows
    /\ Len(sessions) <= MaxSessions

\* Only the newest artifact of a kind can be open; a link takes no wrong codes.
OpenIsNewest ==
    /\ \A kind \in Kinds : Open(kind) \subseteq {Len(table[kind])}
    /\ \A i \in Ids("reset") : table["reset"][i].attempts = 0

\* What x has read of the account is what the account is, or is of an older version.
Current(x) ==
    /\ x.version <= account.version
    /\ x.version = account.version =>
          x.password = account.password /\ (x.role = account.role \/ account.role = "SUPER_ADMIN")

Spent(i) == i \in Ids("challenge") /\ table["challenge"][i].state \in {"consumed", "deleted"}

\* The code being verified has an attempt left, and nobody has redeemed it.
Attemptable(kind, i) ==
    /\ i \in Ids(kind)
    /\ table[kind][i].state # "consumed"
    /\ table[kind][i].state = "deleted" \/ table[kind][i].attempts < MaxAttempts

\* What a call at s may rely on.
Relies(s) ==
    /\ s.pc = "insert" => s.rows = Open(s.kind) /\ Len(table[s.kind]) < MaxRows
    /\ s.pc = "verify" => s.kind \in {"otp", "challenge"} /\ Attemptable(s.kind, s.row)
    /\ s.pc = "reset" => s.row \in Ids("reset")
    /\ s.pc = "sign" \/ (s.pc = "verify" /\ s.kind = "challenge") => Current(s.seen)
    /\ s.pc = "sign" /\ s.via = "challenge" =>
          /\ Spent(s.row)
          /\ \A k \in DOMAIN sessions : ~(sessions[k].via = "challenge" /\ sessions[k].row = s.row)

CallsRely == \A c \in Calls : Relies(call[c])

HoldsAccount(s) == s.pc \in {"insert", "verify"} /\ ~(s.kind = "challenge" /\ s.pc = "verify")

\* Two calls do not hold the same lock, and do not sign for the same challenge.
Compatible(s, t) ==
    /\ HoldsAccount(s) /\ HoldsAccount(t) => s.kind # t.kind
    /\ s.pc = "verify" /\ t.pc = "verify" /\ s.kind = "challenge" /\ t.kind = "challenge" => s.row # t.row
    /\ s.pc = "sign" /\ t.pc = "sign" /\ s.via = "challenge" /\ t.via = "challenge" => s.row # t.row

CallsExclude == \A c, d \in Calls : c # d => Compatible(call[c], call[d])

SessionsCurrent == \A k \in DOMAIN sessions : Current(sessions[k])

SpentOnce ==
    \A j, k \in DOMAIN sessions : sessions[j].via = "challenge" =>
        /\ Spent(sessions[j].row)
        /\ (sessions[k].via = "challenge" /\ sessions[k].row = sessions[j].row) => j = k

AInv ==
    /\ Typed
    /\ OpenIsNewest
    /\ LockedOutStaysOut
    /\ CallsRely
    /\ CallsExclude
    /\ SessionsCurrent
    /\ SpentOnce

-----------------------------------------------------------------------------
(* Rows, records and what a step leaves alone.                               *)

LEMMA MarkedRows ==
    ASSUME NEW kind, table[kind] \in Seq(Artifacts), NEW ids, NEW spent
    PROVE  /\ Marked(kind, ids, spent) \in Seq(Artifacts)
           /\ Len(Marked(kind, ids, spent)) = Len(table[kind])
           /\ DOMAIN Marked(kind, ids, spent) = Ids(kind)
           /\ \A i \in Ids(kind) :
                 /\ Marked(kind, ids, spent)[i].attempts = table[kind][i].attempts
                 /\ Marked(kind, ids, spent)[i].state =
                       IF i \notin ids THEN table[kind][i].state
                       ELSE IF i = spent THEN "consumed" ELSE "retired"
<1> DEFINE n == Len(table[kind])
           f(i) == IF i \notin ids THEN table[kind][i]
                   ELSE [table[kind][i] EXCEPT !.state = IF i = spent THEN "consumed" ELSE "retired"]
<1>1. n \in Nat /\ Ids(kind) = 1..n /\ \A i \in 1..n : table[kind][i] \in Artifacts
  BY DEF Ids
<1>2. \A i \in 1..n : /\ f(i) \in Artifacts
                      /\ f(i).attempts = table[kind][i].attempts
                      /\ f(i).state = IF i \notin ids THEN table[kind][i].state
                                      ELSE IF i = spent THEN "consumed" ELSE "retired"
  BY <1>1 DEF Artifacts, RowStates
<1> DEFINE g == [i \in 1..n |-> f(i)]
<1>3. Marked(kind, ids, spent) = g
  BY <1>1 DEF Marked
<1>4. g \in [1..n -> Artifacts] /\ DOMAIN g = 1..n /\ \A i \in 1..n : g[i] = f(i)
  BY <1>2
<1> HIDE DEF f, n, g
<1>5. g \in Seq(Artifacts) /\ Len(g) = n
  <2>1. g \in Seq(Artifacts)
    BY <1>1, <1>4, SeqDef
  <2> QED
    BY <1>1, <1>4, <2>1, LenProperties
<1> QED
  BY <1>1, <1>2, <1>3, <1>4, <1>5 DEF n

\* Every version of the account that was current or gone is still one of the two.
AccountMoves ==
    \/ account'.version > account.version
    \/ /\ account'.version = account.version /\ account'.password = account.password
       /\ account'.role = account.role \/ account'.role = "SUPER_ADMIN"

LEMMA CurrentStays ==
    ASSUME account \in AccountRows, account' \in AccountRows, AccountMoves,
           NEW x, x.version \in Nat, Current(x)
    PROVE  Current(x)'
BY DEF AccountRows, AccountMoves, Current

\* The rows that calls and sessions have spent stay spent.
TableKeeps == \A i : Spent(i) => Spent(i)'

\* What has to be shown of a step that moves the calls in C: what they rely on,
\* and what it does to the rows that the others rely on.
LEMMA StepOf ==
    ASSUME AInv, NEW C \in SUBSET Calls, \A d \in Calls \ C : call'[d] = call[d],
           Typed', OpenIsNewest', LockedOutStaysOut', AccountMoves, TableKeeps,
           sessions' = sessions,
           \A c \in C : Relies(call[c])',
           \A c \in C, d \in Calls : c # d => Compatible(call[c], call[d])' /\ Compatible(call[d], call[c])',
           Ids("reset") \subseteq Ids("reset")',
           \A d \in Calls \ C : call[d].pc = "insert" => Open(call[d].kind)' = Open(call[d].kind) /\ Len(table[call[d].kind])' = Len(table[call[d].kind]),
           \A d \in Calls \ C : call[d].pc = "verify" => Attemptable(call[d].kind, call[d].row)'
    PROVE  AInv'
<1> USE DEF AInv
<1>1. ASSUME NEW d \in Calls \ C PROVE Relies(call[d])'
  <2> DEFINE t == call[d]
  <2>1. t \in CallRecords /\ Relies(t) /\ t' = t
    BY <1>1 DEF Typed, CallsRely
  <2>2. /\ t.pc = "insert" => Open(t.kind)' = Open(t.kind) /\ Len(table[t.kind])' = Len(table[t.kind])
        /\ t.pc = "verify" => Attemptable(t.kind, t.row)'
    BY <1>1
  <2>3. t.seen.version \in Nat
    BY <2>1 DEF CallRecords, AccountRows
  <2> HIDE DEF t
  <2>4. ASSUME NEW q, q = t PROVE Relies(q)'
    <3>1. Current(q.seen) => Current(q.seen)'
      BY <2>3, <2>4, CurrentStays DEF Typed
    <3>2. /\ q.pc = "insert" => Open(q.kind)' = Open(q.kind) /\ Len(table[q.kind])' = Len(table[q.kind])
          /\ q.pc = "verify" => Attemptable(q.kind, q.row)'
      BY <2>1, <2>2, <2>4
    <3> QED
      BY <2>1, <2>4, <3>1, <3>2 DEF Relies, TableKeeps
  <2> QED
    BY <2>1, <2>4 DEF t
<1>2. CallsRely'
  BY <1>1 DEF CallsRely
<1>3. CallsExclude'
  <2>1. ASSUME NEW c \in Calls \ C, NEW d \in Calls \ C, c # d PROVE Compatible(call[c], call[d])'
    BY <2>1 DEF CallsExclude, Compatible, HoldsAccount
  <2> QED
    BY <2>1 DEF CallsExclude
<1>4. SessionsCurrent'
  <2>1. \A k \in DOMAIN sessions : sessions[k].version \in Nat
    <3>1. \A k \in DOMAIN sessions : sessions[k] \in Tokens
      BY LenProperties, ElementOfSeq DEF Typed
    <3> QED
      BY <3>1 DEF Tokens
  <2> QED
    BY <2>1, CurrentStays DEF SessionsCurrent, Typed
<1>5. SpentOnce'
  BY DEF SpentOnce, TableKeeps
<1> QED
  BY <1>2, <1>3, <1>4, <1>5

\* A step of c to s that leaves the artifacts and the sessions alone.
LEMMA StepAlone ==
    ASSUME AInv, NEW c \in Calls, NEW s \in CallRecords, call' = [call EXCEPT ![c] = s],
           table' = table, sessions' = sessions, account' \in AccountRows, AccountMoves,
           Relies(s)',
           \A d \in Calls \ {c} : Compatible(s, call[d]) /\ Compatible(call[d], s)
    PROVE  AInv'
<1>1. Typed'
  BY DEF AInv, Typed
<1>2. OpenIsNewest' /\ LockedOutStaysOut' /\ TableKeeps
  BY DEF AInv, OpenIsNewest, LockedOutStaysOut, Open, Ids, TableKeeps, Spent
<1>3. \A d \in Calls : call'[d] = IF d = c THEN s ELSE call[d]
  BY DEF AInv, Typed
<1>4. \A d \in Calls \ {c} : call[d].pc = "insert" => Open(call[d].kind)' = Open(call[d].kind) /\ Len(table[call[d].kind])' = Len(table[call[d].kind])
  BY <1>3 DEF Open, Ids
<1>5. \A d \in Calls \ {c} : call[d].pc = "verify" => Attemptable(call[d].kind, call[d].row)'
  BY <1>3 DEF AInv, CallsRely, Relies, Attemptable, Ids
<1>6. \A b \in {c} : Relies(call[b])'
  <2> DEFINE t == call[c]
  <2>1. t' = s
    BY <1>3
  <2> HIDE DEF t
  <2>2. Relies(t)'
    BY <2>1 DEF Relies
  <2> QED
    BY <2>2 DEF t
<1>7. \A b \in {c}, d \in Calls : b # d => Compatible(call[b], call[d])' /\ Compatible(call[d], call[b])'
  BY <1>3 DEF Compatible, HoldsAccount
<1>8. /\ {c} \in SUBSET Calls /\ \A d \in Calls \ {c} : call'[d] = call[d]
      /\ Ids("reset") \subseteq Ids("reset")'
  BY <1>3 DEF Ids
<1> QED
  BY <1>1, <1>2, <1>4, <1>5, <1>6, <1>7, <1>8, StepOf

Quiet == {"idle", "register", "replace", "logout", "role"}

\* A step to a point where the call relies on nothing.
LEMMA StepQuiet ==
    ASSUME AInv, NEW c \in Calls, NEW s \in CallRecords, s.pc \in Quiet, call' = [call EXCEPT ![c] = s],
           table' = table, sessions' = sessions, account' \in AccountRows, AccountMoves
    PROVE  AInv'
<1>1. Relies(s)' /\ \A t : Compatible(s, t) /\ Compatible(t, s)
  BY DEF Relies, Compatible, HoldsAccount, Quiet
<1> QED
  BY <1>1, StepAlone

LEMMA IdleRecord == Idle \in CallRecords /\ Unregistered \in AccountRows
BY DEF Idle, CallRecords, Unregistered, AccountRows, Points, Kinds, Ways, Roles

LEMMA InvInit == Init => AInv
<1> SUFFICES ASSUME Init PROVE AInv
  OBVIOUS
<1> USE IdleRecord DEF Init
<1>1. /\ \A kind \in Kinds : table[kind] = <<>> /\ Ids(kind) = {}
      /\ \A c \in Calls : call[c] = Idle
      /\ DOMAIN sessions = {}
  BY DEF Ids
<1>2. Typed
  <2>1. <<>> \in Seq(Artifacts) /\ <<>> \in Seq(Tokens) /\ Len(<<>>) = 0
    BY EmptySeq
  <2> QED
    BY <2>1 DEF Typed
<1>3. OpenIsNewest /\ LockedOutStaysOut
  BY <1>1 DEF OpenIsNewest, LockedOutStaysOut, Open, Kinds
<1>4. CallsRely /\ CallsExclude
  BY <1>1 DEF CallsRely, CallsExclude, Relies, Compatible, HoldsAccount, Idle
<1> QED
  BY <1>1, <1>2, <1>3, <1>4 DEF AInv, SessionsCurrent, SpentOnce

-----------------------------------------------------------------------------
(* Steps that create, redeem or delete nothing.                              *)

LEMMA AccountTyped ==
    ASSUME AInv PROVE account \in AccountRows /\ account.version \in Nat /\ account.role \in Roles
BY DEF AInv, Typed, AccountRows

LEMMA QuietSteps ==
    ASSUME AInv, NEW c \in Calls,
           \/ Abandon(c) \/ Register(c) \/ CreateUser(c) \/ ResendOtp(c) \/ ForgotPassword(c)
           \/ Logout(c) \/ CommitLogout(c) \/ ChangeRole(c) \/ CommitRole(c)
    PROVE  AInv'
<1> USE IdleRecord, AccountTyped
<1>1. CASE Abandon(c) \/ Register(c) \/ ResendOtp(c) \/ ForgotPassword(c)
  <2>1. PICK s \in CallRecords : s.pc \in Quiet /\ call' = [call EXCEPT ![c] = s]
    BY <1>1 DEF Abandon, Register, ResendOtp, ForgotPassword, Goto, Return, Idle, CallRecords, Points, Kinds, Quiet
  <2> QED
    BY <1>1, <2>1, StepQuiet DEF Abandon, Register, ResendOtp, ForgotPassword, AccountMoves
<1>2. CASE CreateUser(c)
  <2>1. PICK s \in CallRecords : s.pc \in Quiet /\ call' = [call EXCEPT ![c] = s]
    BY <1>2 DEF CreateUser, Goto, Return, Idle, CallRecords, Points, Kinds, Quiet
  <2>2. account' \in AccountRows /\ AccountMoves
    BY <1>2 DEF CreateUser, AccountRows, AccountMoves
  <2> QED
    BY <1>2, <2>1, <2>2, StepQuiet DEF CreateUser
<1>3. CASE Logout(c) \/ ChangeRole(c)
  <2>1. PICK s \in CallRecords : s.pc \in Quiet /\ call' = [call EXCEPT ![c] = s]
    BY <1>3 DEF Logout, ChangeRole, Goto, Idle, CallRecords, Points, Quiet, Roles, AccountRows, Unregistered
  <2> QED
    BY <1>3, <2>1, StepQuiet DEF Logout, ChangeRole, AccountMoves
<1>4. CASE CommitLogout(c) \/ CommitRole(c)
  <2>1. Idle.pc \in Quiet /\ call' = [call EXCEPT ![c] = Idle]
    BY <1>4 DEF CommitLogout, CommitRole, Return, Goto, Idle, Quiet
  <2>2. account' \in AccountRows /\ AccountMoves
    <3>1. /\ account.version < MaxVersion /\ account.version \in 0..MaxVersion
          /\ \E q \in Roles : account' = [account EXCEPT !.role = q, !.version = @ + 1]
      <4>1. call[c].role \in Roles
        BY DEF AInv, Typed, CallRecords
      <4>2. CASE CommitLogout(c)
        BY <4>2 DEF CommitLogout, EndSessions, Bumped, AccountRows
      <4>3. CASE CommitRole(c)
        BY <4>1, <4>3 DEF CommitRole, WithRole, Bumped, AccountRows
      <4> QED
        BY <1>4, <4>2, <4>3
    <3>2. account.version + 1 \in 0..MaxVersion /\ account.version + 1 > account.version
      BY <3>1
    <3> QED
      BY <3>1, <3>2 DEF AccountRows, AccountMoves
  <2> QED
    BY <1>4, <2>1, <2>2, StepQuiet DEF CommitLogout, CommitRole
<1> QED
  BY <1>1, <1>2, <1>3, <1>4
-----------------------------------------------------------------------------
(* Steps that read what the call goes on to rely on.                         *)

LEMMA RowsInRange ==
    ASSUME AInv, NEW kind \in Kinds
    PROVE  /\ table[kind] \in Seq(Artifacts) /\ Len(table[kind]) \in 0..MaxRows
           /\ Ids(kind) = 1..Len(table[kind]) /\ Ids(kind) \subseteq 0..MaxRows
           /\ \A i \in Ids(kind) : table[kind][i] \in Artifacts
<1>1. table[kind] \in Seq(Artifacts) /\ Len(table[kind]) <= MaxRows
  BY DEF AInv, Typed
<1>2. Len(table[kind]) \in Nat /\ Ids(kind) = 1..Len(table[kind])
  BY <1>1, LenProperties DEF Ids
<1> QED
  BY <1>1, <1>2, ElementOfSeq

LEMMA LoginStep ==
    ASSUME AInv, NEW c \in Calls, Login(c) PROVE AInv'
<1> USE IdleRecord, AccountTyped
<1> DEFINE s == IF Privileged(account.role)
                THEN [Idle EXCEPT !.pc = "replace", !.kind = "challenge"]
                ELSE [Idle EXCEPT !.pc = "sign", !.via = "password", !.seen = account]
<1>1. s \in CallRecords /\ call' = [call EXCEPT ![c] = s] /\ s.pc \in Quiet \cup {"sign"}
  BY DEF Login, Goto, Idle, CallRecords, Points, Kinds, Ways, Quiet
<1>2. s.pc = "sign" => s.via = "password" /\ s.seen = account
  BY DEF Idle
<1>3. UNCHANGED <<account, table, sessions>>
  BY DEF Login
<1> HIDE DEF s
<1>4. CASE s.pc \in Quiet
  BY <1>1, <1>3, <1>4, StepQuiet DEF AccountMoves
<1>5. CASE s.pc = "sign"
  <2>1. \A q : q = s => Relies(q)'
    BY <1>2, <1>3, <1>5 DEF Relies, Current
  <2>2. \A t : Compatible(s, t) /\ Compatible(t, s)
    BY <1>2, <1>5 DEF Compatible, HoldsAccount
  <2>3. \E q \in CallRecords : q = s
    BY <1>1
  <2>4. ASSUME NEW q \in CallRecords, q = s PROVE AInv'
    <3>1. call' = [call EXCEPT ![c] = q] /\ \A t : Compatible(q, t) /\ Compatible(t, q)
      BY <1>1, <2>2, <2>4
    <3> QED
      BY <1>3, <2>1, <2>4, <3>1, StepAlone DEF AccountMoves
  <2> QED
    BY <2>3, <2>4
<1> QED
  BY <1>1, <1>4, <1>5

LEMMA RetireStep ==
    ASSUME AInv, NEW c \in Calls, Retire(c) PROVE AInv'
<1> DEFINE r == call[c]
           k == r.kind
<1>1. r \in CallRecords /\ k \in Kinds /\ r.via \in Ways
  BY DEF AInv, Typed, CallRecords
<1>2. Open(k) \in SUBSET Nat
  BY <1>1, RowsInRange DEF Open
<1>3. PICK s \in CallRecords : s.pc = "insert" /\ s.kind = k /\ s.rows = Open(k) /\ call' = [call EXCEPT ![c] = s]
  BY <1>1, <1>2 DEF Retire, Goto, CallRecords, Points
<1>4. UNCHANGED <<account, table, sessions>> /\ ~AccountLockHeld(k) /\ Len(table[k]) < MaxRows
  BY DEF Retire, WithinBounds
<1>5. \A d \in Calls : ~(HoldsAccount(call[d]) /\ call[d].kind = k)
  BY <1>4 DEF AccountLockHeld, HoldsAccount
<1>6. \A d \in Calls \ {c} : Compatible(s, call[d]) /\ Compatible(call[d], s)
  BY <1>3, <1>5 DEF Compatible
<1>7. s.kind = k /\ s.rows = Open(s.kind) /\ Len(table[s.kind]) < MaxRows
  BY <1>3, <1>4
<1> HIDE DEF r, k
<1>8. Relies(s)'
  BY <1>3, <1>4, <1>7 DEF Relies, Open, Ids
<1> QED
  BY <1>3, <1>4, <1>6, <1>8, AccountTyped, StepAlone DEF AccountMoves

LEMMA VerifyOtpStep ==
    ASSUME AInv, NEW c \in Calls, VerifyOtp(c) PROVE AInv'
<1> USE IdleRecord
<1> DEFINE i == Newest(Usable("otp"))
<1>1. i \in Usable("otp")
  <2>1. Usable("otp") \subseteq {Len(table["otp"])} /\ Len(table["otp"]) \in Nat
    BY RowsInRange DEF AInv, OpenIsNewest, Usable, Open, Kinds
  <2>2. \E j \in Usable("otp") : \A k \in Usable("otp") : k <= j
    BY <2>1 DEF VerifyOtp
  <2> QED
    BY <2>2 DEF Newest
<1>2. table["otp"][i].attempts < MaxAttempts
  BY DEF VerifyOtp
<1> HIDE DEF i
<1>3. Attemptable("otp", i) /\ i \in 0..MaxRows
  BY <1>1, <1>2, RowsInRange DEF Attemptable, Usable, Kinds
<1>4. PICK s \in CallRecords : /\ s.pc = "verify" /\ s.kind = "otp" /\ s.row = i
                               /\ call' = [call EXCEPT ![c] = s]
  <2>1. PICK match \in BOOLEAN :
           call' = [call EXCEPT ![c] = [Idle EXCEPT !.pc = "verify", !.kind = "otp", !.row = i, !.match = match]]
    BY DEF VerifyOtp, Goto, i
  <2> QED
    BY <1>3, <2>1 DEF Idle, CallRecords, Points, Kinds
<1>5. UNCHANGED <<account, table, sessions>> /\ ~AccountLockHeld("otp")
  BY DEF VerifyOtp
<1>6. \A d \in Calls : ~(HoldsAccount(call[d]) /\ call[d].kind = "otp")
  BY <1>5 DEF AccountLockHeld, HoldsAccount
<1>7. \A d \in Calls \ {c} : Compatible(s, call[d]) /\ Compatible(call[d], s)
  BY <1>4, <1>6 DEF Compatible
<1>9. Attemptable("otp", s.row)
  BY <1>3, <1>4
<1>8. Relies(s)'
  BY <1>4, <1>5, <1>9 DEF Relies, Attemptable, Ids
<1> QED
  BY <1>4, <1>5, <1>7, <1>8, AccountTyped, StepAlone DEF AccountMoves

LEMMA VerifyChallengeStep ==
    ASSUME AInv, NEW c \in Calls, VerifyChallenge(c) PROVE AInv'
<1> USE IdleRecord
<1>1. PICK i \in Usable("challenge"), match \in BOOLEAN :
         /\ ~ChallengeLockHeld(i)
         /\ table["challenge"][i].attempts < MaxAttempts
         /\ call' = [call EXCEPT ![c] = [Idle EXCEPT !.pc = "verify", !.kind = "challenge", !.row = i,
                                                      !.match = match, !.seen = account]]
  BY DEF VerifyChallenge, Goto
<1>2. Attemptable("challenge", i) /\ i \in 0..MaxRows
  BY <1>1, RowsInRange DEF Attemptable, Usable, Kinds
<1>3. PICK s \in CallRecords : /\ s.pc = "verify" /\ s.kind = "challenge" /\ s.row = i /\ s.seen = account
                               /\ call' = [call EXCEPT ![c] = s]
  BY <1>1, <1>2, AccountTyped DEF Idle, CallRecords, Points, Kinds
<1>4. UNCHANGED <<account, table, sessions>>
  BY DEF VerifyChallenge
<1>5. \A d \in Calls : ~(call[d].pc = "verify" /\ call[d].kind = "challenge" /\ call[d].row = i)
  BY <1>1 DEF ChallengeLockHeld, At
<1>6. \A d \in Calls \ {c} : Compatible(s, call[d]) /\ Compatible(call[d], s)
  BY <1>3, <1>5 DEF Compatible, HoldsAccount
<1>7. Attemptable("challenge", s.row) /\ Current(s.seen)
  BY <1>2, <1>3, AccountTyped DEF Current
<1>8. Relies(s)'
  BY <1>3, <1>4, <1>7 DEF Relies, Attemptable, Ids, Current
<1> QED
  BY <1>3, <1>4, <1>6, <1>8, AccountTyped, StepAlone DEF AccountMoves

LEMMA ResetPasswordStep ==
    ASSUME AInv, NEW c \in Calls, ResetPassword(c) PROVE AInv'
<1> USE IdleRecord
<1>1. PICK i \in Usable("reset") : call' = [call EXCEPT ![c] = [Idle EXCEPT !.pc = "reset", !.row = i]]
  BY DEF ResetPassword, Goto
<1>2. i \in Ids("reset") /\ i \in 0..MaxRows
  BY RowsInRange DEF Usable, Kinds
<1>3. PICK s \in CallRecords : s.pc = "reset" /\ s.row = i /\ call' = [call EXCEPT ![c] = s]
  BY <1>1, <1>2 DEF Idle, CallRecords, Points
<1>4. UNCHANGED <<account, table, sessions>>
  BY DEF ResetPassword
<1>5. Relies(s)'
  BY <1>2, <1>3, <1>4 DEF Relies, Ids
<1>6. \A t : Compatible(s, t) /\ Compatible(t, s)
  BY <1>3 DEF Compatible, HoldsAccount
<1> QED
  BY <1>3, <1>4, <1>5, <1>6, AccountTyped, StepAlone DEF AccountMoves
-----------------------------------------------------------------------------
(* Signing, and the bootstrap script.                                        *)

LEMMA SignStep ==
    ASSUME AInv, NEW c \in Calls, Sign(c) PROVE AInv'
<1> USE IdleRecord
<1> DEFINE r == call[c]
           t == Token(c)
<1>1. r \in CallRecords /\ Relies(r) /\ r.pc = "sign" /\ r.seen \in AccountRows
  BY DEF AInv, Typed, CallsRely, Sign, At, CallRecords
<1>2. t \in Tokens /\ t.via = r.via /\ t.row = r.row /\ Current(t)
  BY <1>1 DEF Token, Tokens, CallRecords, AccountRows, Relies, Current
<1>3. /\ sessions \in Seq(Tokens) /\ Len(sessions) \in Nat /\ DOMAIN sessions = 1..Len(sessions)
      /\ \A k \in DOMAIN sessions : sessions[k] \in Tokens
  BY LenProperties, ElementOfSeq DEF AInv, Typed
<1>4. sessions' = Append(sessions, t) /\ Len(sessions) < MaxSessions /\ UNCHANGED <<account, table>>
  BY DEF Sign
<1>5. \A d \in Calls : call'[d] = IF d = c THEN Idle ELSE call[d]
  BY DEF Sign, Return, Goto, AInv, Typed
<1> HIDE DEF t
<1>6. /\ sessions' \in Seq(Tokens) /\ Len(sessions') = Len(sessions) + 1
      /\ DOMAIN sessions' = 1..(Len(sessions) + 1)
      /\ \A k \in DOMAIN sessions' : sessions'[k] = IF k = Len(sessions) + 1 THEN t ELSE sessions[k]
  BY <1>2, <1>3, <1>4, AppendProperties
<1>7. Typed'
  BY <1>3, <1>4, <1>6 DEF AInv, Typed, Sign, Return, Goto
<1>8. OpenIsNewest' /\ LockedOutStaysOut' /\ \A i : Spent(i)' = Spent(i)
  BY <1>4 DEF AInv, OpenIsNewest, LockedOutStaysOut, Open, Ids, Spent
<1>9. \A x : Current(x)' = Current(x)
  BY <1>4 DEF Current
<1>10. CallsRely'
  <2>1. ASSUME NEW d \in Calls PROVE Relies(call[d])'
    <3>1. CASE d = c
      BY <1>5, <3>1 DEF Relies, Idle
    <3>2. CASE d # c
      <4> DEFINE q == call[d]
      <4>1. q' = q /\ Relies(q) /\ Compatible(r, q)
        BY <1>5, <3>2 DEF AInv, CallsRely, CallsExclude
      <4>2. q.pc = "sign" /\ q.via = "challenge" => ~(t.via = "challenge" /\ t.row = q.row)
        BY <1>1, <1>2, <4>1 DEF Compatible
      <4> HIDE DEF q
      <4>3. Relies(q)'
        BY <1>3, <1>4, <1>6, <1>8, <1>9, <4>1, <4>2 DEF Relies, Open, Ids, Attemptable
      <4> QED
        BY <4>3 DEF q
    <3> QED
      BY <3>1, <3>2
  <2> QED
    BY <2>1 DEF CallsRely
<1>11. CallsExclude'
  BY <1>5 DEF AInv, CallsExclude, Compatible, HoldsAccount, Idle
<1>12. SessionsCurrent'
  <2>1. ASSUME NEW k \in DOMAIN sessions' PROVE Current(sessions'[k])
    BY <1>2, <1>3, <1>6, <2>1 DEF AInv, SessionsCurrent
  <2> QED
    BY <1>4, <2>1 DEF SessionsCurrent, Current
<1>13. t.via = "challenge" =>
          /\ Spent(t.row)
          /\ \A k \in DOMAIN sessions : ~(sessions[k].via = "challenge" /\ sessions[k].row = t.row)
  BY <1>1, <1>2 DEF Relies
<1>14. SpentOnce'
  BY <1>3, <1>6, <1>8, <1>13 DEF AInv, SpentOnce
<1> QED
  BY <1>7, <1>8, <1>10, <1>11, <1>12, <1>14 DEF AInv

LEMMA BootstrapStep ==
    ASSUME AInv, Bootstrap PROVE AInv'
<1>1. account' \in AccountRows /\ AccountMoves
  BY AccountTyped DEF Bootstrap, AccountRows, AccountMoves, Roles
<1>2. UNCHANGED <<table, call, sessions>>
  BY DEF Bootstrap
<1>3. Typed'
  BY <1>1, <1>2 DEF AInv, Typed
<1>4. OpenIsNewest' /\ LockedOutStaysOut' /\ TableKeeps
  BY <1>2 DEF AInv, OpenIsNewest, LockedOutStaysOut, Open, Ids, TableKeeps, Spent
<1>5. \A d \in Calls : call[d].pc = "insert" => Open(call[d].kind)' = Open(call[d].kind) /\ Len(table[call[d].kind])' = Len(table[call[d].kind])
  BY <1>2 DEF Open, Ids
<1>6. \A d \in Calls : call[d].pc = "verify" => Attemptable(call[d].kind, call[d].row)'
  BY <1>2 DEF AInv, CallsRely, Relies, Attemptable, Ids
<1>7. {} \in SUBSET Calls /\ \A d \in Calls \ {} : call'[d] = call[d]
  BY <1>2
<1>8. Ids("reset") \subseteq Ids("reset")'
  BY <1>2 DEF Ids
<1> QED
  BY <1>1, <1>2, <1>3, <1>4, <1>5, <1>6, <1>7, <1>8, StepOf

-----------------------------------------------------------------------------
(* Steps that change artifacts.                                              *)

OpenIn(T) == {i \in 1..Len(T) : T[i].state \in {"usable", "expired"}}

AttemptableIn(T, i) ==
    /\ i \in 1..Len(T)
    /\ T[i].state # "consumed"
    /\ T[i].state = "deleted" \/ T[i].attempts < MaxAttempts

\* T may be the rows of kind K after a step.
GoodRows(K, T) ==
    /\ Len(table[K]) <= Len(T) /\ Len(T) <= MaxRows
    /\ OpenIn(T) \subseteq {Len(T)}
    /\ \A i \in 1..Len(T) : T[i].state = "consumed" => T[i].attempts < MaxAttempts
    /\ K = "reset" => \A i \in 1..Len(T) : T[i].attempts = 0
    /\ K = "challenge" => \A i \in Ids(K) :
          table[K][i].state \in {"consumed", "deleted"} => T[i].state \in {"consumed", "deleted"}

\* ... as far as the calls not in C are concerned.
OthersFit(K, T, C) ==
    \A d \in Calls \ C : call[d].kind = K =>
        /\ call[d].pc = "insert" => OpenIn(T) = Open(K) /\ Len(T) = Len(table[K])
        /\ call[d].pc = "verify" => AttemptableIn(T, call[d].row)

\* Only calls in C move, to where they may be.
MovesOnly(C) ==
    /\ \A d \in Calls \ C : call'[d] = call[d]
    /\ call' \in [Calls -> CallRecords]
    /\ \A c \in C : Relies(call[c])'
    /\ \A c \in C, d \in Calls : c # d => Compatible(call[c], call[d])' /\ Compatible(call[d], call[c])'

\* The rows of kind K become T.
LEMMA RowsStep ==
    ASSUME AInv, NEW C \in SUBSET Calls, MovesOnly(C),
           account' \in AccountRows, AccountMoves, sessions' = sessions,
           NEW K \in Kinds, NEW T \in Seq(Artifacts), table' = [table EXCEPT ![K] = T],
           GoodRows(K, T), OthersFit(K, T, C)
    PROVE  AInv'
<1> USE DEF GoodRows, OthersFit, MovesOnly
<1>1. /\ Len(T) \in Nat /\ DOMAIN T = 1..Len(T)
      /\ \A kind \in Kinds : table'[kind] = IF kind = K THEN T ELSE table[kind]
      /\ \A kind \in Kinds : Ids(kind)' = IF kind = K THEN 1..Len(T) ELSE Ids(kind)
  BY LenProperties DEF AInv, Typed, Ids
<1>2. Typed'
  BY <1>1 DEF AInv, Typed
<1>3. \A kind \in Kinds : Ids(kind) \subseteq Ids(kind)'
  <2>1. Ids(K) = 1..Len(table[K]) /\ Len(table[K]) \in Nat
    BY RowsInRange
  <2>2. 1..Len(table[K]) \subseteq 1..Len(T)
    <3>1. Len(T) \in Nat
      BY <1>1
    <3> QED
      BY ONLY <2>1, <3>1, Len(table[K]) <= Len(T)
  <2>3. ASSUME NEW kind \in Kinds PROVE Ids(kind) \subseteq Ids(kind)'
    <3>1. CASE kind = K
      BY <1>1, <2>1, <2>2, <3>1
    <3>2. CASE kind # K
      BY <1>1, <3>2
    <3> QED
      BY <3>1, <3>2
  <2> QED
    BY <2>3
<1>4. OpenIsNewest'
  <2>1. "reset" \in Kinds
    BY DEF Kinds
  <2>2. \A kind \in Kinds \ {K} : Open(kind)' = Open(kind)
    BY <1>1 DEF Open
  <2>3. Open(K)' \subseteq {Len(T)}
    BY <1>1 DEF Open, OpenIn
  <2> QED
    BY <1>1, <2>1, <2>2, <2>3 DEF AInv, OpenIsNewest
<1>5. LockedOutStaysOut'
  BY <1>1 DEF AInv, LockedOutStaysOut
<1>6. TableKeeps
  <2>1. "challenge" \in Kinds
    BY DEF Kinds
  <2> QED
    BY <1>1, <1>3, <2>1 DEF TableKeeps, Spent
<1>7. ASSUME NEW d \in Calls \ C
      PROVE  call[d].kind \in Kinds /\ Relies(call[d]) /\ call'[d] = call[d]
  BY DEF AInv, Typed, CallsRely, CallRecords
<1>8. Ids("reset") \subseteq Ids("reset")'
  BY <1>3 DEF Kinds
<1>9. \A d \in Calls \ C : call[d].pc = "insert" =>
         Open(call[d].kind)' = Open(call[d].kind) /\ Len(table[call[d].kind])' = Len(table[call[d].kind])
  <2>1. ASSUME NEW d \in Calls \ C, call[d].pc = "insert", NEW k \in Kinds, k = call[d].kind
        PROVE  Len(table'[k]) = Len(table[k]) /\ \A i : i \in Open(k)' <=> i \in Open(k)
    <3>1. CASE k = K
      <4>1. OpenIn(T) = Open(K) /\ Len(T) = Len(table[K])
        BY <2>1, <3>1
      <4> QED
        BY <1>1, <3>1, <4>1 DEF Open, OpenIn
    <3>2. CASE k # K
      BY <1>1, <3>2 DEF Open
    <3> QED
      BY <3>1, <3>2
  <2>2. ASSUME NEW d \in Calls \ C, call[d].pc = "insert", NEW k \in Kinds, k = call[d].kind
        PROVE  Len(table'[k]) = Len(table[k]) /\ Open(k)' = Open(k)
    <3>1. Open(k)' \subseteq Open(k) /\ Open(k) \subseteq Open(k)'
      BY <2>1, <2>2
    <3> QED
      BY <2>1, <2>2, <3>1
  <2> QED
    BY <1>7, <2>2 DEF Open, Ids
<1>10. \A d \in Calls \ C : call[d].pc = "verify" => Attemptable(call[d].kind, call[d].row)'
  <2>1. ASSUME NEW d \in Calls \ C, call[d].pc = "verify", NEW k \in Kinds, k = call[d].kind, NEW i, i = call[d].row
        PROVE  Attemptable(k, i)'
    <3>1. CASE k = K
      BY <1>1, <2>1, <3>1 DEF Attemptable, AttemptableIn
    <3>2. CASE k # K
      BY <1>1, <1>7, <2>1, <3>2 DEF Attemptable, Relies
    <3> QED
      BY <3>1, <3>2
  <2> QED
    BY <1>7, <2>1 DEF Attemptable, Ids
<1> QED
  BY <1>2, <1>4, <1>5, <1>6, <1>8, <1>9, <1>10, StepOf

\* A call moves to s and the rows of kind K become T.
LEMMA CallChangesRows ==
    ASSUME AInv, NEW c \in Calls, NEW s \in CallRecords, call' = [call EXCEPT ![c] = s],
           account' \in AccountRows, AccountMoves, sessions' = sessions,
           NEW K \in Kinds, NEW T \in Seq(Artifacts), table' = [table EXCEPT ![K] = T],
           GoodRows(K, T), OthersFit(K, T, {c}),
           Relies(s)',
           \A d \in Calls \ {c} : Compatible(s, call[d]) /\ Compatible(call[d], s)
    PROVE  AInv'
<1>1. \A d \in Calls : call'[d] = IF d = c THEN s ELSE call[d]
  BY DEF AInv, Typed
<1>2. {c} \in SUBSET Calls /\ (\A d \in Calls \ {c} : call'[d] = call[d]) /\ call' \in [Calls -> CallRecords]
  BY <1>1 DEF AInv, Typed
<1>3. \A b \in {c} : Relies(call[b])'
  <2> DEFINE t == call[c]
  <2>1. t' = s
    BY <1>1
  <2> HIDE DEF t
  <2>2. Relies(t)'
    BY <2>1 DEF Relies
  <2> QED
    BY <2>2 DEF t
<1>4. \A b \in {c}, d \in Calls : b # d => Compatible(call[b], call[d])' /\ Compatible(call[d], call[b])'
  BY <1>1 DEF Compatible, HoldsAccount
<1>5. MovesOnly({c})
  BY <1>2, <1>3, <1>4 DEF MovesOnly
<1> QED
  BY <1>2, <1>5, RowsStep

\* The rows of kind K become T, and no call takes part in it.
LEMMA TimeChangesRows ==
    ASSUME AInv, UNCHANGED <<account, call, sessions>>,
           NEW K \in Kinds, NEW T \in Seq(Artifacts), table' = [table EXCEPT ![K] = T],
           GoodRows(K, T), OthersFit(K, T, {})
    PROVE  AInv'
<1>1. {} \in SUBSET Calls /\ MovesOnly({})
  BY DEF AInv, Typed, MovesOnly
<1>2. account' \in AccountRows /\ AccountMoves /\ sessions' = sessions
  BY DEF AInv, Typed, AccountMoves, AccountRows
<1> QED
  BY <1>1, <1>2, RowsStep

\* A call that returns asks nothing of the others.
LEMMA IdleFacts ==
    Idle \in CallRecords /\ Relies(Idle)' /\ \A t : Compatible(Idle, t) /\ Compatible(t, Idle)
BY IdleRecord DEF Relies, Compatible, HoldsAccount, Idle

LEMMA CallFacts ==
    ASSUME AInv, NEW c \in Calls
    PROVE  /\ call[c] \in CallRecords /\ call[c].kind \in Kinds /\ Relies(call[c])
           /\ call[c].row \in 0..MaxRows /\ call[c].seen \in AccountRows
           /\ \A d \in Calls \ {c} : Compatible(call[c], call[d]) /\ Compatible(call[d], call[c])
BY DEF AInv, Typed, CallsRely, CallsExclude, CallRecords

LEMMA ArtifactFacts ==
    ASSUME AInv, NEW kind \in Kinds, NEW i \in Ids(kind)
    PROVE  /\ i \in Nat /\ i # 0 /\ i \in 1..Len(table[kind])
           /\ table[kind][i] \in Artifacts
           /\ table[kind][i].state \in RowStates /\ table[kind][i].attempts \in 0..MaxAttempts
           /\ i \in Open(kind) => i = Len(table[kind])
           /\ i \in Open(kind) <=> table[kind][i].state \in {"usable", "expired"}
           /\ table[kind][i].state = "consumed" => table[kind][i].attempts < MaxAttempts
           /\ kind = "reset" => table[kind][i].attempts = 0
<1>1. table[kind][i] \in Artifacts /\ i \in 1..Len(table[kind]) /\ Len(table[kind]) \in Nat
  BY RowsInRange
<1> QED
  BY <1>1 DEF AInv, OpenIsNewest, LockedOutStaysOut, Artifacts, Open

LEMMA InsertStep ==
    ASSUME AInv, NEW c \in Calls, Insert(c) PROVE AInv'
<1>1. PICK K \in Kinds : K = call[c].kind
  BY CallFacts
<1>2. call[c].pc = "insert" /\ call[c].rows = Open(K) /\ Len(table[K]) < MaxRows
  BY <1>1, CallFacts DEF Insert, At, Relies
<1>3. table[K] \in Seq(Artifacts) /\ Len(table[K]) \in Nat /\ Ids(K) = 1..Len(table[K])
  BY RowsInRange
<1>4. PICK M \in Seq(Artifacts) :
         /\ M = Marked(K, Open(K), 0) /\ Len(M) = Len(table[K])
         /\ \A i \in Ids(K) : /\ M[i].attempts = table[K][i].attempts
                              /\ M[i].state = IF i \notin Open(K) THEN table[K][i].state
                                              ELSE IF i = 0 THEN "consumed" ELSE "retired"
  BY <1>3, MarkedRows
<1>5. NewRow \in Artifacts /\ NewRow.state = "usable" /\ NewRow.attempts = 0
  BY DEF NewRow, Artifacts, RowStates
<1>6. PICK T \in Seq(Artifacts) :
         /\ T = Append(M, NewRow) /\ Len(T) = Len(table[K]) + 1
         /\ \A i \in Ids(K) : T[i] = M[i]
         /\ T[Len(table[K]) + 1] = NewRow
  <2>1. /\ Append(M, NewRow) \in Seq(Artifacts) /\ Len(Append(M, NewRow)) = Len(M) + 1
        /\ \A i \in 1..Len(M) : Append(M, NewRow)[i] = M[i]
        /\ Append(M, NewRow)[Len(M) + 1] = NewRow
    BY <1>5, AppendProperties
  <2> QED
    BY <1>3, <1>4, <2>1
<1>7. UNCHANGED <<account, sessions>> /\ Return(c) /\ table' = [table EXCEPT ![K] = T]
  BY <1>1, <1>2, <1>4, <1>6 DEF Insert
<1>8. ASSUME NEW i \in 1..Len(T)
      PROVE  /\ T[i].state \in {"usable", "expired"} => i = Len(T)
             /\ T[i].state = "consumed" => T[i].attempts < MaxAttempts
             /\ K = "reset" => T[i].attempts = 0
  <2>1. CASE i \in Ids(K)
    BY <1>4, <1>6, <2>1, ArtifactFacts
  <2>2. CASE i = Len(table[K]) + 1
    BY <1>5, <1>6, <2>2
  <2> QED
    BY <1>3, <1>6, <2>1, <2>2
<1>9. \A i \in Ids(K) : table[K][i].state \in {"consumed", "deleted"} => T[i].state \in {"consumed", "deleted"}
  BY <1>4, <1>6, ArtifactFacts
<1>10. \A d \in Calls \ {c} : ~(HoldsAccount(call[d]) /\ call[d].kind = K)
  BY <1>1, <1>2, CallFacts DEF Compatible, HoldsAccount
<1>11. ASSUME NEW d \in Calls \ {c}, call[d].pc = "verify", call[d].kind = K
       PROVE  AttemptableIn(T, call[d].row)
  <2>1. Attemptable(K, call[d].row)
    BY <1>11, CallFacts DEF Relies
  <2> QED
    BY <1>3, <1>4, <1>6, <2>1, ArtifactFacts DEF Attemptable, AttemptableIn
<1>12. GoodRows(K, T)
  BY <1>2, <1>3, <1>6, <1>8, <1>9 DEF GoodRows, OpenIn
<1>13. OthersFit(K, T, {c})
  BY <1>10, <1>11 DEF OthersFit, HoldsAccount
<1>14. account' \in AccountRows /\ AccountMoves /\ sessions' = sessions
  BY <1>7, AccountTyped DEF AccountMoves
<1>15. call' = [call EXCEPT ![c] = Idle]
  BY <1>7 DEF Return, Goto
<1> QED
  BY <1>7, <1>12, <1>13, <1>14, <1>15, IdleFacts, CallChangesRows

LEMMA WrongCodeStep ==
    ASSUME AInv, NEW c \in Calls, WrongCode(c) PROVE AInv'
<1>1. PICK K \in Kinds : K = call[c].kind
  BY CallFacts
<1>2. PICK n \in 0..MaxRows : n = call[c].row
  BY CallFacts
<1>3. call[c].pc = "verify" /\ K \in {"otp", "challenge"} /\ Attemptable(K, n)
  BY <1>1, <1>2, CallFacts DEF WrongCode, At, Relies
<1>4. n \in Ids(K) /\ n \in 1..Len(table[K]) /\ table[K][n] \in Artifacts /\ table[K] \in Seq(Artifacts)
      /\ Len(table[K]) \in 0..MaxRows /\ Ids(K) = 1..Len(table[K])
  BY <1>3, RowsInRange, ArtifactFacts DEF Attemptable
<1>5. UNCHANGED <<account, sessions>> /\ call' = [call EXCEPT ![c] = Idle]
  BY DEF WrongCode, Return, Goto
<1>7. account' \in AccountRows /\ AccountMoves /\ sessions' = sessions
  BY <1>5, AccountTyped DEF AccountMoves
<1>8. CASE table[K][n].state = "deleted"
  <2>1. table' = table
    BY <1>1, <1>2, <1>8 DEF WrongCode
  <2> QED
    BY <1>5, <1>7, <2>1, IdleFacts, StepAlone
<1>9. CASE table[K][n].state # "deleted"
  <2>1. PICK e \in Artifacts : e = [table[K][n] EXCEPT !.attempts = @ + 1]
    <3>1. table[K][n].attempts \in 0..MaxAttempts /\ table[K][n].attempts < MaxAttempts
      BY <1>3, <1>4, <1>9 DEF Attemptable, Artifacts
    <3>2. table[K][n].attempts + 1 \in 0..MaxAttempts
      BY <3>1
    <3> QED
      BY <1>4, <3>2 DEF Artifacts
  <2>2. PICK T \in Seq(Artifacts) : /\ T = [table[K] EXCEPT ![n] = e] /\ Len(T) = Len(table[K])
                                    /\ \A i \in Ids(K) : T[i] = IF i = n THEN e ELSE table[K][i]
    <3>1. /\ [table[K] EXCEPT ![n] = e] \in Seq(Artifacts) /\ Len([table[K] EXCEPT ![n] = e]) = Len(table[K])
          /\ \A i \in 1..Len(table[K]) : [table[K] EXCEPT ![n] = e][i] = IF i = n THEN e ELSE table[K][i]
      BY <1>4, ExceptSeq
    <3> QED
      BY <1>4, <3>1
  <2>3. table' = [table EXCEPT ![K] = T]
    BY <1>1, <1>2, <1>9, <2>1, <2>2 DEF WrongCode
  <2>4. e.state = table[K][n].state /\ e.state # "consumed"
    BY <1>3, <1>4, <2>1 DEF Artifacts, Attemptable
  <2>5. /\ \A i \in 1..Len(T) : T[i].state = table[K][i].state
        /\ \A i \in 1..Len(T) : T[i].state = "consumed" => T[i].attempts < MaxAttempts
    BY <1>4, <2>2, <2>4, ArtifactFacts
  <2>6. OpenIn(T) = Open(K) /\ OpenIn(T) \subseteq {Len(T)}
    BY <1>4, <2>2, <2>5 DEF AInv, OpenIsNewest, OpenIn, Open
  <2>7. K # "reset"
    BY <1>3
  <2>8. \A i \in Ids(K) : table[K][i].state \in {"consumed", "deleted"} => T[i].state \in {"consumed", "deleted"}
    BY <1>4, <2>2, <2>5
  <2>9. ASSUME NEW d \in Calls \ {c}, call[d].pc = "verify", call[d].kind = K
        PROVE  AttemptableIn(T, call[d].row)
    <3>1. Attemptable(K, call[d].row)
      BY <2>9, CallFacts DEF Relies
    <3>2. call[d].row # n
      BY <1>1, <1>2, <1>3, <2>9, CallFacts DEF Compatible, HoldsAccount
    <3> QED
      BY <1>4, <2>2, <3>1, <3>2 DEF Attemptable, AttemptableIn
  <2>10. GoodRows(K, T)
    BY <1>4, <2>2, <2>5, <2>6, <2>7, <2>8 DEF GoodRows
  <2>11. OthersFit(K, T, {c})
    BY <2>2, <2>6, <2>9 DEF OthersFit
  <2> QED
    BY <1>5, <1>7, <2>3, <2>10, <2>11, IdleFacts, CallChangesRows
<1> QED
  BY <1>8, <1>9
\* Marking rows of kind K: what they are afterwards.
LEMMA MarkedFacts ==
    ASSUME AInv, NEW K \in Kinds, NEW ids, NEW spent
    PROVE  \E T \in Seq(Artifacts) :
              /\ T = Marked(K, ids, spent) /\ Len(T) = Len(table[K])
              /\ \A i \in 1..Len(T) :
                    /\ T[i].attempts = table[K][i].attempts
                    /\ T[i].state = IF i \notin ids THEN table[K][i].state
                                    ELSE IF i = spent THEN "consumed" ELSE "retired"
<1>1. table[K] \in Seq(Artifacts) /\ Ids(K) = 1..Len(table[K])
  BY RowsInRange
<1> QED
  BY <1>1, MarkedRows

LEMMA VerifiedOtpStep ==
    ASSUME AInv, NEW c \in Calls, VerifiedOtp(c) PROVE AInv'
<1> DEFINE K == "otp"
<1>1. K \in Kinds /\ call[c].pc = "verify" /\ call[c].kind = K
  BY DEF Kinds, VerifiedOtp, At
<1>2. PICK n \in 0..MaxRows : n = call[c].row
  BY CallFacts
<1>3. Attemptable(K, n)
  BY <1>1, <1>2, CallFacts DEF Relies
<1>4. PICK T \in Seq(Artifacts) :
         /\ T = Marked(K, Open(K), n) /\ Len(T) = Len(table[K])
         /\ \A i \in 1..Len(T) :
               /\ T[i].attempts = table[K][i].attempts
               /\ T[i].state = IF i \notin Open(K) THEN table[K][i].state
                               ELSE IF i = n THEN "consumed" ELSE "retired"
  BY <1>1, MarkedFacts
<1>5. Ids(K) = 1..Len(table[K]) /\ Len(table[K]) \in 0..MaxRows
  BY <1>1, RowsInRange
<1>6. GoodRows(K, T)
  <2>1. \A i \in 1..Len(T) : T[i].state \notin {"usable", "expired"}
    BY <1>1, <1>4, <1>5, ArtifactFacts
  <2>2. \A i \in 1..Len(T) : T[i].state = "consumed" => T[i].attempts < MaxAttempts
    BY <1>1, <1>3, <1>4, <1>5, ArtifactFacts DEF Attemptable
  <2> QED
    BY <1>4, <1>5, <2>1, <2>2 DEF GoodRows, OpenIn
<1>7. OthersFit(K, T, {c})
  <2>1. \A d \in Calls \ {c} : ~(HoldsAccount(call[d]) /\ call[d].kind = K)
    BY <1>1, CallFacts DEF Compatible, HoldsAccount
  <2> QED
    BY <2>1 DEF OthersFit, HoldsAccount
<1>8. sessions' = sessions /\ table' = [table EXCEPT ![K] = T] /\ account' = [account EXCEPT !.verified = TRUE]
  BY <1>1, <1>2, <1>4 DEF VerifiedOtp
<1>9. account' \in AccountRows /\ AccountMoves
  BY <1>8, AccountTyped DEF AccountRows, AccountMoves
<1>10. PICK s \in CallRecords : s.pc = "sign" /\ s.via = "otp" /\ s.seen = account' /\ call' = [call EXCEPT ![c] = s]
  BY <1>8, <1>9, IdleRecord DEF VerifiedOtp, Goto, Idle, CallRecords, Points, Ways
<1>11. Relies(s)'
  BY <1>9, <1>10 DEF Relies, Current, AccountRows
<1>12. \A t : Compatible(s, t) /\ Compatible(t, s)
  BY <1>10 DEF Compatible, HoldsAccount
<1> HIDE DEF K
<1> QED
  BY <1>1, <1>6, <1>7, <1>8, <1>9, <1>10, <1>11, <1>12, CallChangesRows

LEMMA VerifiedChallengeStep ==
    ASSUME AInv, NEW c \in Calls, VerifiedChallenge(c) PROVE AInv'
<1> DEFINE K == "challenge"
<1>1. K \in Kinds /\ call[c].pc = "verify" /\ call[c].kind = K
  BY DEF Kinds, VerifiedChallenge, At
<1>2. PICK n \in 0..MaxRows : n = call[c].row
  BY CallFacts
<1>3. Attemptable(K, n) /\ Current(call[c].seen) /\ call[c].seen \in AccountRows
  BY <1>1, <1>2, CallFacts DEF Relies
<1>4. UNCHANGED <<account, sessions>> /\ account' \in AccountRows /\ AccountMoves
  BY AccountTyped DEF VerifiedChallenge, AccountMoves
<1>5. CASE ~MaySpend(c)
  <2>1. table' = table /\ call' = [call EXCEPT ![c] = Idle]
    BY <1>5 DEF VerifiedChallenge, Return, Goto
  <2> QED
    BY <1>4, <2>1, IdleFacts, StepAlone
<1>6. CASE MaySpend(c)
  <2>1. n \in Open(K) /\ n \in Ids(K) /\ {n} \cap Open(K) = {n}
    BY <1>2, <1>6 DEF MaySpend, Open
  <2>2. PICK T \in Seq(Artifacts) :
           /\ T = Marked(K, {n}, n) /\ Len(T) = Len(table[K])
           /\ \A i \in 1..Len(T) :
                 /\ T[i].attempts = table[K][i].attempts
                 /\ T[i].state = IF i \notin {n} THEN table[K][i].state
                                 ELSE IF i = n THEN "consumed" ELSE "retired"
    BY <1>1, MarkedFacts
  <2>3. Ids(K) = 1..Len(table[K]) /\ Len(table[K]) \in 0..MaxRows
    BY <1>1, RowsInRange
  <2>4. table' = [table EXCEPT ![K] = T]
    BY <1>2, <1>6, <2>1, <2>2 DEF VerifiedChallenge
  <2>5. GoodRows(K, T)
    <3>0. n = Len(table[K])
      BY <1>1, <2>1, ArtifactFacts
    <3>1. ASSUME NEW i \in 1..Len(T)
          PROVE  T[i].state \notin {"usable", "expired"} /\ (T[i].state = "consumed" => T[i].attempts < MaxAttempts)
      <4>1. CASE i = n
        <5>1. table[K][n].state # "deleted"
          BY <1>1, <2>1, ArtifactFacts
        <5> QED
          BY <1>3, <2>2, <4>1, <5>1 DEF Attemptable
      <4>2. CASE i # n
        <5>1. i \in Ids(K) /\ T[i].state = table[K][i].state /\ T[i].attempts = table[K][i].attempts
          BY <2>2, <2>3, <3>1, <4>2
        <5> QED
          BY <1>1, <3>0, <4>2, <5>1, ArtifactFacts
      <4> QED
        BY <4>1, <4>2
    <3>2. \A i \in 1..Len(T) : T[i].state = "consumed" => T[i].attempts < MaxAttempts
      BY <3>1
    <3>3. \A i \in Ids(K) : table[K][i].state \in {"consumed", "deleted"} => T[i].state \in {"consumed", "deleted"}
      BY <2>2, <2>3
    <3> QED
      <4>1. OpenIn(T) \subseteq {Len(T)}
        BY <3>1 DEF OpenIn
      <4>2. Len(table[K]) <= Len(T) /\ Len(T) <= MaxRows
        BY <2>2, <2>3
      <4> QED
        BY <3>2, <3>3, <4>1, <4>2 DEF GoodRows
  <2>6. OthersFit(K, T, {c})
    <3>1. ASSUME NEW d \in Calls \ {c}, call[d].kind = K, call[d].pc = "insert" PROVE FALSE
      <4>1. call[d].rows = Open(K)
        BY <3>1, CallFacts DEF Relies
      <4>2. ~RowLocked(K, n)
        BY <1>2 DEF VerifiedChallenge
      <4> QED
        BY <2>1, <3>1, <4>1, <4>2 DEF RowLocked, At
    <3>2. ASSUME NEW d \in Calls \ {c}, call[d].kind = K, call[d].pc = "verify"
          PROVE  AttemptableIn(T, call[d].row)
      <4>1. Attemptable(K, call[d].row)
        BY <3>2, CallFacts DEF Relies
      <4>2. call[d].row # n
        BY <1>1, <1>2, <3>2, CallFacts DEF Compatible
      <4>3. PICK i \in 1..Len(T) : i = call[d].row
        BY <2>2, <2>3, <4>1 DEF Attemptable
      <4>4. T[i].state = table[K][i].state /\ T[i].attempts = table[K][i].attempts
        BY <2>2, <4>2, <4>3
      <4> QED
        BY <4>1, <4>3, <4>4 DEF Attemptable, AttemptableIn
    <3> QED
      BY <3>1, <3>2 DEF OthersFit
  <2>7. \/ call' = [call EXCEPT ![c] = Idle]
        \/ \E s \in CallRecords : /\ s.pc = "sign" /\ s.via = "challenge" /\ s.row = n /\ s.seen = call[c].seen
                                  /\ call' = [call EXCEPT ![c] = s]
    BY <1>2, <1>3, <1>6, IdleRecord DEF VerifiedChallenge, Goto, Return, Idle, CallRecords, Points, Ways
  <2>8. CASE call' = [call EXCEPT ![c] = Idle]
    <3> HIDE DEF K
    <3> QED
      BY <1>1, <1>4, <2>4, <2>5, <2>6, <2>8, IdleFacts, CallChangesRows
  <2>9. ASSUME NEW s \in CallRecords, s.pc = "sign", s.via = "challenge", s.row = n, s.seen = call[c].seen,
               call' = [call EXCEPT ![c] = s]
        PROVE  AInv'
    <3>1. ~Spent(n)
      BY <1>1, <2>1, ArtifactFacts DEF Spent
    <3>2. \A k \in DOMAIN sessions : ~(sessions[k].via = "challenge" /\ sessions[k].row = n)
      BY <3>1 DEF AInv, SpentOnce
    <3>3. \A d \in Calls \ {c} : ~(call[d].pc = "sign" /\ call[d].via = "challenge" /\ call[d].row = n)
      BY <3>1, CallFacts DEF Relies
    <3>4. \A d \in Calls \ {c} : Compatible(s, call[d]) /\ Compatible(call[d], s)
      BY <2>9, <3>3 DEF Compatible, HoldsAccount
    <3>5. Spent(n)'
      BY <1>1, <2>1, <2>2, <2>3, <2>4, LenProperties DEF Spent, Ids, AInv, Typed
    <3>6. Current(s.seen)
      BY <1>3, <2>9
    <3>7. Relies(s)'
      BY <1>4, <2>9, <3>2, <3>5, <3>6 DEF Relies, Current
    <3> HIDE DEF K
    <3> QED
      BY <1>1, <1>4, <2>4, <2>5, <2>6, <2>9, <3>4, <3>7, CallChangesRows
  <2> QED
    BY <2>7, <2>8, <2>9
<1> QED
  BY <1>5, <1>6
LEMMA CommitResetStep ==
    ASSUME AInv, NEW c \in Calls, CommitReset(c) PROVE AInv'
<1> DEFINE K == "reset"
<1>1. K \in Kinds /\ sessions' = sessions /\ call' = [call EXCEPT ![c] = Idle]
  BY DEF Kinds, CommitReset, Return, Goto
<1>2. PICK n \in 0..MaxRows : n = call[c].row
  BY CallFacts
<1>3. CASE ~MayReset(c)
  <2>1. UNCHANGED <<account, table>>
    BY <1>3 DEF CommitReset
  <2> QED
    BY <1>1, <2>1, AccountTyped, IdleFacts, StepAlone DEF AccountMoves
<1>4. CASE MayReset(c)
  <2> DEFINE ids == Open(K) \cup {n}
  <2>1. n \in Ids(K) /\ table[K][n].state = "usable"
    BY <1>2, <1>4 DEF MayReset, Usable
  <2>2. PICK T \in Seq(Artifacts) :
           /\ T = Marked(K, ids, n) /\ Len(T) = Len(table[K])
           /\ \A i \in 1..Len(T) :
                 /\ T[i].attempts = table[K][i].attempts
                 /\ T[i].state = IF i \notin ids THEN table[K][i].state
                                 ELSE IF i = n THEN "consumed" ELSE "retired"
    BY <1>1, MarkedFacts
  <2>3. Ids(K) = 1..Len(table[K]) /\ Len(table[K]) \in 0..MaxRows
    BY <1>1, RowsInRange
  <2>4. table' = [table EXCEPT ![K] = T]
    BY <1>2, <1>4, <2>2 DEF CommitReset
  <2>5. GoodRows(K, T)
    <3>1. ASSUME NEW i \in 1..Len(T)
          PROVE  T[i].state \notin {"usable", "expired"} /\ T[i].attempts = 0
      <4>1. i \in Ids(K)
        BY <2>2, <2>3
      <4> QED
        BY <1>1, <2>2, <4>1, ArtifactFacts
    <3>2. OpenIn(T) \subseteq {Len(T)}
      BY <3>1 DEF OpenIn
    <3>3. Len(table[K]) <= Len(T) /\ Len(T) <= MaxRows
      BY <2>2, <2>3
    <3> QED
      BY <3>1, <3>2, <3>3 DEF GoodRows
  <2>6. OthersFit(K, T, {c})
    <3>1. ASSUME NEW d \in Calls, call[d].kind = K PROVE call[d].pc \notin {"insert", "verify"}
      BY <3>1, CallFacts DEF Relies, CommitReset, AccountLockHeld
    <3> QED
      BY <3>1 DEF OthersFit
  <2>7. account' \in AccountRows /\ AccountMoves
    <3>1. account.version \in 0..MaxVersion /\ account.version < MaxVersion /\ account \in AccountRows
      BY AccountTyped DEF AccountRows, CommitReset
    <3>2. account' = [account EXCEPT !.password = Append(@, n), !.version = @ + 1]
      BY <1>2, <1>4, <3>1 DEF CommitReset, Bumped, AccountRows
    <3>4. Append(account.password, n) \in Seq(1..MaxRows)
      <4>1. n \in 1..MaxRows /\ account.password \in Seq(1..MaxRows)
        BY <2>1, <2>3, <3>1 DEF AccountRows
      <4> QED
        BY <4>1, AppendProperties
    <3>3. account.version + 1 \in 0..MaxVersion /\ account.version + 1 > account.version
      BY <3>1
    <3> QED
      BY <3>1, <3>2, <3>3, <3>4 DEF AccountRows, AccountMoves
  <2> HIDE DEF K, ids
  <2> QED
    BY <1>1, <2>4, <2>5, <2>6, <2>7, IdleFacts, CallChangesRows
<1> QED
  BY <1>3, <1>4

\* A row of kind K that becomes e.
LEMMA ExceptFacts ==
    ASSUME AInv, NEW K \in Kinds, NEW n \in Ids(K), NEW e \in Artifacts
    PROVE  \E T \in Seq(Artifacts) : /\ T = [table[K] EXCEPT ![n] = e] /\ Len(T) = Len(table[K])
                                     /\ \A i \in Ids(K) : T[i] = IF i = n THEN e ELSE table[K][i]
<1>1. table[K] \in Seq(Artifacts) /\ n \in 1..Len(table[K]) /\ Ids(K) = 1..Len(table[K])
  BY RowsInRange
<1>2. /\ [table[K] EXCEPT ![n] = e] \in Seq(Artifacts) /\ Len([table[K] EXCEPT ![n] = e]) = Len(table[K])
      /\ \A i \in 1..Len(table[K]) : [table[K] EXCEPT ![n] = e][i] = IF i = n THEN e ELSE table[K][i]
  BY <1>1, ExceptSeq
<1> QED
  BY <1>1, <1>2

LEMMA ExpireStep ==
    ASSUME AInv, NEW K \in Kinds, NEW n \in Ids(K), Expire(K, n) PROVE AInv'
<1>1. table[K][n].state = "usable" /\ table[K][n] \in Artifacts /\ n \in Open(K)
  BY ArtifactFacts DEF Expire, Usable, Open
<1>2. PICK e \in Artifacts : /\ e = [table[K][n] EXCEPT !.state = "expired"]
                             /\ e.state = "expired" /\ e.attempts = table[K][n].attempts
  <2> DEFINE x == [table[K][n] EXCEPT !.state = "expired"]
  <2>1. "expired" \in RowStates
    BY DEF RowStates
  <2>2. x \in Artifacts /\ x.state = "expired" /\ x.attempts = table[K][n].attempts
    BY <1>1, <2>1 DEF Artifacts
  <2> QED
    BY <2>2
<1>3. PICK T \in Seq(Artifacts) : /\ T = [table[K] EXCEPT ![n] = e] /\ Len(T) = Len(table[K])
                                  /\ \A i \in Ids(K) : T[i] = IF i = n THEN e ELSE table[K][i]
  BY ExceptFacts
<1>4. Ids(K) = 1..Len(table[K]) /\ Len(table[K]) \in 0..MaxRows /\ Ids(K) = 1..Len(T)
  BY <1>3, RowsInRange
<1>5. table' = [table EXCEPT ![K] = T] /\ UNCHANGED <<account, call, sessions>>
  BY <1>2, <1>3 DEF Expire
<1>6. OpenIn(T) = Open(K)
  <2>1. \A i \in Ids(K) : T[i].state \in {"usable", "expired"} <=> table[K][i].state \in {"usable", "expired"}
    BY <1>1, <1>2, <1>3
  <2> QED
    BY <1>4, <2>1 DEF OpenIn, Open
<1>7. \A i \in Ids(K) : /\ T[i].attempts = table[K][i].attempts
                        /\ T[i].state \in {"consumed", "deleted"} <=> table[K][i].state \in {"consumed", "deleted"}
                        /\ T[i].state = "consumed" <=> table[K][i].state = "consumed"
                        /\ T[i].state = "deleted" <=> table[K][i].state = "deleted"
  BY <1>1, <1>2, <1>3
<1>8. GoodRows(K, T)
  <2>1. OpenIn(T) \subseteq {Len(T)}
    BY <1>3, <1>6 DEF AInv, OpenIsNewest
  <2>2. \A i \in 1..Len(T) : T[i].state = "consumed" => T[i].attempts < MaxAttempts
    BY <1>4, <1>7, ArtifactFacts
  <2>3. K = "reset" => \A i \in 1..Len(T) : T[i].attempts = 0
    BY <1>4, <1>7, ArtifactFacts
  <2> QED
    BY <1>3, <1>4, <1>7, <2>1, <2>2, <2>3 DEF GoodRows
<1>9. OthersFit(K, T, {})
  <2>1. ASSUME NEW d \in Calls, call[d].kind = K, call[d].pc = "verify" PROVE AttemptableIn(T, call[d].row)
    <3>1. Attemptable(K, call[d].row)
      BY <2>1, CallFacts DEF Relies
    <3> QED
      BY <1>4, <1>7, <3>1 DEF Attemptable, AttemptableIn
  <2> QED
    BY <1>3, <1>6, <2>1 DEF OthersFit
<1> QED
  BY <1>5, <1>8, <1>9, TimeChangesRows

LEMMA CleanUpStep ==
    ASSUME AInv, NEW K \in Kinds, NEW n \in Ids(K), CleanUp(K, n) PROVE AInv'
<1>1. PICK e \in Artifacts : e = [state |-> "deleted", attempts |-> 0] /\ e.state = "deleted" /\ e.attempts = 0
  <2> DEFINE x == [state |-> "deleted", attempts |-> 0]
  <2>1. "deleted" \in RowStates /\ 0 \in 0..MaxAttempts
    BY DEF RowStates
  <2>2. x \in Artifacts /\ x.state = "deleted" /\ x.attempts = 0
    BY <2>1 DEF Artifacts
  <2> QED
    BY <2>2
<1>2. PICK T \in Seq(Artifacts) : /\ T = [table[K] EXCEPT ![n] = e] /\ Len(T) = Len(table[K])
                                  /\ \A i \in Ids(K) : T[i] = IF i = n THEN e ELSE table[K][i]
  BY ExceptFacts
<1>3. Ids(K) = 1..Len(table[K]) /\ Len(table[K]) \in 0..MaxRows /\ Ids(K) = 1..Len(T)
  BY <1>2, RowsInRange
<1>4. table' = [table EXCEPT ![K] = T] /\ UNCHANGED <<account, call, sessions>> /\ ~RowLocked(K, n)
  BY <1>1, <1>2 DEF CleanUp
<1>5. \A i \in Ids(K) : T[i].state \in {"usable", "expired"} => i # n /\ table[K][i].state \in {"usable", "expired"}
  BY <1>1, <1>2
<1>6. GoodRows(K, T)
  <2>1. OpenIn(T) \subseteq {Len(T)}
    BY <1>2, <1>3, <1>5, ArtifactFacts DEF OpenIn
  <2>2. \A i \in 1..Len(T) : T[i].state = "consumed" => T[i].attempts < MaxAttempts
    BY <1>1, <1>2, <1>3, ArtifactFacts
  <2>3. K = "reset" => \A i \in 1..Len(T) : T[i].attempts = 0
    BY <1>1, <1>2, <1>3, ArtifactFacts
  <2>4. \A i \in Ids(K) : table[K][i].state \in {"consumed", "deleted"} => T[i].state \in {"consumed", "deleted"}
    BY <1>1, <1>2
  <2> QED
    BY <1>2, <1>3, <2>1, <2>2, <2>3, <2>4 DEF GoodRows
<1>7. OthersFit(K, T, {})
  <2>1. ASSUME NEW d \in Calls, call[d].kind = K, call[d].pc = "verify" PROVE AttemptableIn(T, call[d].row)
    <3>1. Attemptable(K, call[d].row)
      BY <2>1, CallFacts DEF Relies
    <3>2. PICK i \in Ids(K) : i = call[d].row
      BY <3>1 DEF Attemptable
    <3>3. CASE i = n
      BY <1>1, <1>2, <1>3, <3>2, <3>3 DEF AttemptableIn
    <3>4. CASE i # n
      BY <1>2, <1>3, <3>1, <3>2, <3>4 DEF Attemptable, AttemptableIn
    <3> QED
      BY <3>3, <3>4
  <2>2. ASSUME NEW d \in Calls, call[d].kind = K, call[d].pc = "insert" PROVE OpenIn(T) = Open(K)
    <3>1. call[d].rows = Open(K)
      BY <2>2, CallFacts DEF Relies
    <3>2. n \notin Open(K)
      BY <1>4, <2>2, <3>1 DEF RowLocked, At
    <3>3. \A i \in Ids(K) : T[i].state \in {"usable", "expired"} <=> table[K][i].state \in {"usable", "expired"}
      BY <1>1, <1>2, <3>2 DEF Open
    <3> QED
      BY <1>3, <3>3 DEF OpenIn, Open
  <2> QED
    BY <1>2, <2>1, <2>2 DEF OthersFit
<1> QED
  BY <1>4, <1>6, <1>7, TimeChangesRows

-----------------------------------------------------------------------------
LEMMA InvNext == AInv /\ [Next]_accountVars => AInv'
<1> SUFFICES ASSUME AInv, [Next]_accountVars PROVE AInv'
  OBVIOUS
<1>1. ASSUME NEW c \in Calls,
             \/ Login(c) \/ Retire(c) \/ Insert(c) \/ VerifyOtp(c) \/ VerifyChallenge(c) \/ WrongCode(c)
             \/ VerifiedOtp(c) \/ VerifiedChallenge(c) \/ ResetPassword(c) \/ CommitReset(c) \/ Sign(c)
      PROVE  AInv'
  BY <1>1, LoginStep, RetireStep, InsertStep, VerifyOtpStep, VerifyChallengeStep, WrongCodeStep,
     VerifiedOtpStep, VerifiedChallengeStep, ResetPasswordStep, CommitResetStep, SignStep
<1>2. ASSUME NEW kind \in Kinds, NEW i \in Ids(kind), Expire(kind, i) \/ CleanUp(kind, i) PROVE AInv'
  BY <1>2, ExpireStep, CleanUpStep
<1>3. CASE UNCHANGED accountVars
  BY <1>3 DEF accountVars, AInv, Typed, OpenIsNewest, LockedOutStaysOut, CallsRely, Relies, Attemptable, Current,
     CallsExclude, SessionsCurrent, SpentOnce, Spent, Open, Ids
<1> QED
  BY <1>1, <1>2, <1>3, QuietSteps, BootstrapStep DEF Next

\* What overlapping calls rely on holds at every point where another may run.
THEOREM CallsMayRely == Spec => []AInv
BY InvInit, InvNext, PTL DEF Spec

\* No artifact counts more than MAX_OTP_ATTEMPTS wrong codes (incrementOtpAttempts,
\* incrementLoginChallengeAttempts).
THEOREM AccountTypes == Spec => []AccountTypeOK
<1>1. AInv => AccountTypeOK
  <2> SUFFICES ASSUME AInv PROVE AccountTypeOK
    OBVIOUS
  <2>1. \A kind \in Kinds : Len(table[kind]) <= MaxRows /\ \A i \in Ids(kind) : table[kind][i] \in Artifacts
    BY RowsInRange
  <2>2. \A c \in Calls : call[c].seen \in AccountRows /\ call[c].kind \in Kinds
    BY CallFacts
  <2> QED
    BY <2>1, <2>2 DEF AInv, Typed, AccountTypeOK, Artifacts
<1> QED
  BY <1>1, CallsMayRely, PTL

\* However many logins, resends and forgotten passwords overlap, at most one
\* artifact of each kind can still be redeemed (replaceEmailOtp,
\* createLoginChallenge, createPasswordResetToken).
THEOREM OneArtifact == Spec => []OneOpenArtifact
<1>1. AInv => OneOpenArtifact
  <2> SUFFICES ASSUME AInv, NEW kind \in Kinds PROVE Cardinality(Open(kind)) <= 1
    BY DEF OneOpenArtifact
  <2>1. Open(kind) = {} \/ Open(kind) = {Len(table[kind])}
    BY DEF AInv, OpenIsNewest
  <2>2. Cardinality({}) = 0
    BY FS_EmptySet
  <2>3. Cardinality({Len(table[kind])}) = 1
    BY FS_Singleton
  <2>4. Cardinality(Open(kind)) \in {0, 1}
    BY <2>1, <2>2, <2>3
  <2> QED
    BY <2>4
<1> QED
  BY <1>1, CallsMayRely, PTL

\* A code mistyped MAX_OTP_ATTEMPTS times is never redeemed, not even by a
\* verification that had passed the check before (verifyLoginChallenge).
THEOREM LockedOutForGood == Spec => []LockedOutStaysOut
<1>1. AInv => LockedOutStaysOut
  BY DEF AInv
<1> QED
  BY <1>1, CallsMayRely, PTL

\* A challenge signs at most one session, and only once it is spent.
THEOREM OneSessionPerChallenge == Spec => []ChallengeSignsOnce
<1>1. AInv => ChallengeSignsOnce
  BY DEF AInv, SpentOnce, Spent, ChallengeSignsOnce
<1> QED
  BY <1>1, CallsMayRely, PTL

\* A session signed by a login that compared the password of before a reset is not
\* accepted after it (loginService, resetPasswordWithToken).
THEOREM PasswordStands == Spec => []AcceptedUnderPassword
<1>1. AInv => AcceptedUnderPassword
  BY DEF AInv, SessionsCurrent, Current, Accepted, AcceptedUnderPassword
<1> QED
  BY <1>1, CallsMayRely, PTL

\* An accepted session carries the role the account has, but for the bootstrap
\* script (updateUserRole, createSessionToken).
THEOREM RoleStands == Spec => []AcceptedUnderRole
<1>1. AInv => AcceptedUnderRole
  BY DEF AInv, SessionsCurrent, Current, Accepted, AcceptedUnderRole
<1> QED
  BY <1>1, CallsMayRely, PTL

-----------------------------------------------------------------------------
(* The two action properties.                                                *)

\* Which steps write the password, and what a write of it leaves.
LEMMA PasswordWrites ==
    ASSUME AInv, Next, account'.password # account.password
    PROVE  \E c \in Calls : /\ CommitReset(c) /\ MayReset(c)
                            /\ account' = Bumped([account EXCEPT !.password = Append(@, call[c].row)])
                            /\ sessions' = sessions
<1>1. account \in AccountRows
  BY AccountTyped
<1>2. ASSUME NEW c \in Calls,
             \/ Register(c) \/ ResendOtp(c) \/ ForgotPassword(c) \/ Login(c) \/ Retire(c) \/ Insert(c)
             \/ VerifyOtp(c) \/ WrongCode(c) \/ VerifyChallenge(c) \/ VerifiedChallenge(c)
             \/ ResetPassword(c) \/ Sign(c) \/ Logout(c) \/ ChangeRole(c) \/ Abandon(c)
      PROVE  FALSE
  BY <1>2 DEF Register, ResendOtp, ForgotPassword, Login, Retire, Insert, VerifyOtp, WrongCode,
     VerifyChallenge, VerifiedChallenge, ResetPassword, Sign, Logout, ChangeRole, Abandon
<1>3. ASSUME NEW kind \in Kinds, NEW i \in Ids(kind), Expire(kind, i) \/ CleanUp(kind, i) PROVE FALSE
  BY <1>3 DEF Expire, CleanUp
<1>4. ASSUME NEW c \in Calls, CreateUser(c) \/ VerifiedOtp(c) \/ CommitLogout(c) \/ CommitRole(c) PROVE FALSE
  BY <1>1, <1>4 DEF CreateUser, VerifiedOtp, CommitLogout, EndSessions, CommitRole, WithRole, Bumped, AccountRows
<1>5. ~Bootstrap
  BY <1>1 DEF Bootstrap, AccountRows
<1>6. ASSUME NEW c \in Calls, CommitReset(c)
      PROVE  /\ CommitReset(c) /\ MayReset(c)
             /\ account' = Bumped([account EXCEPT !.password = Append(@, call[c].row)])
             /\ sessions' = sessions
  BY <1>6 DEF CommitReset
<1> QED
  BY <1>2, <1>3, <1>4, <1>5, <1>6 DEF Next

\* The links that have set a password are used up: consumed, or deleted since.
UsedUp(i) == i \in Ids("reset") /\ table["reset"][i].state \in {"consumed", "deleted"}
RedeemedAreUsedUp == \A k \in DOMAIN account.password : UsedUp(account.password[k])

\* A link that is used up stays so.
LEMMA UsedUpStays ==
    ASSUME AInv, [Next]_accountVars, NEW i, UsedUp(i) PROVE UsedUp(i)'
<1>1. "reset" \in Kinds /\ i \in Ids("reset") /\ i \in 1..Len(table["reset"]) /\ i \notin Open("reset")
      /\ i \notin Usable("reset") /\ table \in [Kinds -> Seq(Artifacts)] /\ table["reset"] \in Seq(Artifacts)
  BY RowsInRange DEF UsedUp, Kinds, Open, Usable, AInv, Typed
<1>2. ASSUME table'["reset"] = table["reset"] PROVE UsedUp(i)'
  BY <1>2 DEF UsedUp, Ids
<1>3. ASSUME NEW c \in Calls,
             \/ Register(c) \/ CreateUser(c) \/ ResendOtp(c) \/ ForgotPassword(c) \/ Login(c) \/ Retire(c)
             \/ VerifyOtp(c) \/ VerifyChallenge(c) \/ ResetPassword(c) \/ Sign(c) \/ Logout(c)
             \/ CommitLogout(c) \/ ChangeRole(c) \/ CommitRole(c) \/ Abandon(c)
      PROVE  table' = table
  BY <1>3 DEF Register, CreateUser, ResendOtp, ForgotPassword, Login, Retire, VerifyOtp,
     VerifyChallenge, ResetPassword, Sign, Logout, CommitLogout, ChangeRole, CommitRole, Abandon
<1>4. ASSUME NEW c \in Calls, VerifiedOtp(c) \/ VerifiedChallenge(c) \/ WrongCode(c)
      PROVE  table'["reset"] = table["reset"]
  <2>1. CASE VerifiedOtp(c)
    BY <1>1, <2>1 DEF VerifiedOtp
  <2>2. CASE VerifiedChallenge(c)
    BY <1>1, <2>2 DEF VerifiedChallenge
  <2>3. CASE WrongCode(c)
    <3>1. call[c].kind # "reset"
      BY <2>3, CallFacts DEF Relies, WrongCode, At
    <3> QED
      BY <1>1, <2>3, <3>1 DEF WrongCode
  <2> QED
    BY <1>4, <2>1, <2>2, <2>3
<1>5. ASSUME NEW c \in Calls, Insert(c) PROVE UsedUp(i)'
  <2>1. CASE call[c].kind # "reset"
    BY <1>1, <1>2, <1>5, <2>1 DEF Insert
  <2>2. CASE call[c].kind = "reset"
    <3>1. call[c].rows = Open("reset")
      BY <1>5, <2>2, CallFacts DEF Relies, Insert, At
    <3>2. PICK T \in Seq(Artifacts) :
             /\ T = Marked("reset", call[c].rows, 0) /\ Len(T) = Len(table["reset"])
             /\ T[i].state = table["reset"][i].state
      BY <1>1, <3>1, MarkedRows
    <3>3. table'["reset"] = Append(T, NewRow)
      BY <1>1, <1>5, <2>2, <3>2 DEF Insert
    <3>4. Append(T, NewRow)[i] = T[i] /\ i \in DOMAIN Append(T, NewRow)
      BY <1>1, <3>2
    <3> QED
      BY <3>2, <3>3, <3>4 DEF UsedUp, Ids
  <2> QED
    BY <2>1, <2>2
<1>6. ASSUME NEW c \in Calls, CommitReset(c) PROVE UsedUp(i)'
  <2>1. CASE ~MayReset(c)
    BY <1>2, <1>6, <2>1 DEF CommitReset
  <2>2. CASE MayReset(c)
    <3>1. i \notin Open("reset") \cup {call[c].row}
      BY <1>1, <2>2 DEF MayReset
    <3>2. PICK T \in Seq(Artifacts) :
             /\ T = Marked("reset", Open("reset") \cup {call[c].row}, call[c].row)
             /\ DOMAIN T = Ids("reset") /\ T[i].state = table["reset"][i].state
      BY <1>1, <3>1, MarkedRows
    <3>3. table'["reset"] = T
      BY <1>1, <1>6, <2>2, <3>2 DEF CommitReset
    <3> QED
      BY <1>1, <3>2, <3>3 DEF UsedUp, Ids
  <2> QED
    BY <2>1, <2>2
<1>7. ASSUME NEW kind \in Kinds, NEW j \in Ids(kind), Expire(kind, j) \/ CleanUp(kind, j) PROVE UsedUp(i)'
  <2>1. CASE kind # "reset"
    BY <1>1, <1>2, <1>7, <2>1 DEF Expire, CleanUp
  <2>2. CASE kind = "reset" /\ Expire(kind, j)
    <3>1. j # i /\ table'["reset"] = [table["reset"] EXCEPT ![j].state = "expired"]
      BY <1>1, <2>2 DEF Expire
    <3> QED
      BY <1>1, <3>1 DEF UsedUp, Ids
  <2>3. CASE kind = "reset" /\ CleanUp(kind, j)
    <3>1. table'["reset"] = [table["reset"] EXCEPT ![j] = [state |-> "deleted", attempts |-> 0]]
      BY <1>1, <2>3 DEF CleanUp
    <3> QED
      BY <1>1, <3>1 DEF UsedUp, Ids
  <2> QED
    BY <1>7, <2>1, <2>2, <2>3
<1>8. CASE Bootstrap \/ UNCHANGED accountVars
  BY <1>2, <1>8 DEF Bootstrap, accountVars
<1> QED
  BY <1>2, <1>3, <1>4, <1>5, <1>6, <1>7, <1>8 DEF Next

\* A reset that sets the password uses its link up.
LEMMA ResetUsesUp ==
    ASSUME AInv, NEW c \in Calls, CommitReset(c), MayReset(c), NEW n, n = call[c].row PROVE UsedUp(n)'
<1>1. "reset" \in Kinds /\ n \in Ids("reset") /\ table \in [Kinds -> Seq(Artifacts)]
  BY DEF MayReset, Usable, Kinds, AInv, Typed
<1>2. PICK T \in Seq(Artifacts) :
         /\ T = Marked("reset", Open("reset") \cup {n}, n)
         /\ DOMAIN T = Ids("reset") /\ T[n].state = "consumed"
  BY <1>1, MarkedRows
<1>3. table'["reset"] = T
  BY <1>1, <1>2 DEF CommitReset
<1> QED
  BY <1>1, <1>2, <1>3 DEF UsedUp, Ids

LEMMA RedeemedStep == AInv /\ RedeemedAreUsedUp /\ [Next]_accountVars => RedeemedAreUsedUp'
<1> SUFFICES ASSUME AInv, RedeemedAreUsedUp, [Next]_accountVars PROVE RedeemedAreUsedUp'
  OBVIOUS
<1>1. CASE account'.password = account.password
  <2>1. \A i : UsedUp(i) => UsedUp(i)'
    BY UsedUpStays
  <2> QED
    BY <1>1, <2>1 DEF RedeemedAreUsedUp
<1>2. CASE account'.password # account.password
  <2>1. Next
    BY <1>2 DEF accountVars
  <2>2. PICK c \in Calls : CommitReset(c) /\ MayReset(c) /\ account' = Bumped([account EXCEPT !.password = Append(@, call[c].row)])
    BY <1>2, <2>1, PasswordWrites
  <2>3. PICK old \in Seq(1..MaxRows), n \in Nat : old = account.password /\ n = call[c].row
    BY AccountTyped, RowsInRange, <2>2 DEF AccountRows, MayReset, Usable, Kinds
  <2>4. account'.password = Append(old, n)
    BY <2>2, <2>3, AccountTyped DEF Bumped, AccountRows
  <2>5. \A k \in DOMAIN old : UsedUp(old[k])'
    <3>1. ASSUME NEW i, UsedUp(i) PROVE UsedUp(i)'
      BY <3>1, UsedUpStays
    <3> QED
      BY <2>3, <3>1 DEF RedeemedAreUsedUp
  <2>6. UsedUp(n)'
    BY <2>2, <2>3, ResetUsesUp
  <2>7. ASSUME NEW k \in DOMAIN Append(old, n) PROVE UsedUp(Append(old, n)[k])'
    <3>1. CASE k \in DOMAIN old
      <4>1. Append(old, n)[k] = old[k]
        BY <2>3, <3>1
      <4> QED
        BY <2>5, <3>1, <4>1
    <3>2. CASE k \notin DOMAIN old
      <4>1. Append(old, n)[k] = n
        BY <2>3, <2>7, <3>2
      <4> QED
        BY <2>6, <4>1
    <3> QED
      BY <3>1, <3>2
  <2> QED
    BY <2>4, <2>7 DEF RedeemedAreUsedUp, UsedUp
<1> QED
  BY <1>1, <1>2

\* A password is set only through the newest link, and by its first use
\* (resetPasswordWithToken, createPasswordResetToken), for any number of links
\* and of calls that redeem them.
THEOREM NewestLinkOnly == Spec => NewestLinkResets
<1>1. ASSUME AInv, RedeemedAreUsedUp, Next, account'.password # account.password
      PROVE  LET link == Len(table["reset"])
             IN  /\ account'.password = Append(account.password, link)
                 /\ \A k \in DOMAIN account.password : account.password[k] # link
  <2>1. PICK c \in Calls : MayReset(c) /\ account' = Bumped([account EXCEPT !.password = Append(@, call[c].row)])
    BY <1>1, PasswordWrites
  <2>2. call[c].row \in Open("reset") /\ "reset" \in Kinds
    BY <2>1 DEF MayReset, Usable, Open, Kinds
  <2>3. call[c].row = Len(table["reset"])
    BY <1>1, <2>2 DEF AInv, OpenIsNewest
  <2>4. account \in AccountRows
    BY <1>1, AccountTyped
  <2>5. account'.password = Append(account.password, call[c].row)
    BY <2>1, <2>4 DEF Bumped, AccountRows
  <2>6. ~UsedUp(call[c].row)
    BY <2>2 DEF Open, UsedUp
  <2>7. \A k \in DOMAIN account.password : account.password[k] # call[c].row
    BY <1>1, <2>6 DEF RedeemedAreUsedUp
  <2> QED
    BY <2>3, <2>5, <2>7
<1>2. AInv /\ RedeemedAreUsedUp /\ [Next]_accountVars =>
          (account'.password # account.password =>
              LET link == Len(table["reset"])
              IN  /\ account'.password = Append(account.password, link)
                  /\ \A k \in DOMAIN account.password : account.password[k] # link)
  BY <1>1 DEF accountVars
<1>3. Init => RedeemedAreUsedUp
  <2>1. Init => DOMAIN account.password = {}
    BY DEF Init, Unregistered
  <2> QED
    BY <2>1 DEF RedeemedAreUsedUp
<1> QED
  BY <1>2, <1>3, RedeemedStep, CallsMayRely, PTL DEF Spec, NewestLinkResets

\* A logout, a role change or a reset leaves no accepted session, whatever
\* overlaps it (invalidateUserSessions, updateUserRole, resetPasswordWithToken).
THEOREM SessionsAreEnded == Spec => SessionsEnd
<1>1. AInv /\ [Next]_accountVars =>
          ((\/ \E c \in Calls : CommitLogout(c) \/ CommitRole(c)
            \/ account'.password # account.password) =>
              \A k \in DOMAIN sessions : sessions[k].version < account'.version)
  <2> SUFFICES ASSUME AInv, [Next]_accountVars,
                      \/ \E c \in Calls : CommitLogout(c) \/ CommitRole(c)
                      \/ account'.password # account.password,
                      NEW k \in DOMAIN sessions
               PROVE  sessions[k].version < account'.version
    OBVIOUS
  <2>1. account \in AccountRows /\ account.version \in Nat
    BY AccountTyped DEF AccountRows
  <2>2. account'.version = account.version + 1
    <3>1. CASE \E c \in Calls : CommitLogout(c) \/ CommitRole(c)
      BY <2>1, <3>1 DEF CommitLogout, EndSessions, CommitRole, WithRole, Bumped, AccountRows
    <3>2. CASE account'.password # account.password
      <4>1. Next
        BY <3>2 DEF accountVars
      <4>2. PICK c \in Calls : account' = Bumped([account EXCEPT !.password = Append(@, call[c].row)])
        BY <3>2, <4>1, PasswordWrites
      <4> QED
        BY <2>1, <4>2 DEF Bumped, AccountRows
    <3> QED
      BY <3>1, <3>2
  <2>3. sessions[k].version \in Nat /\ sessions[k].version <= account.version
    <3>1. sessions \in Seq(Tokens) /\ Current(sessions[k])
      BY DEF AInv, Typed, SessionsCurrent
    <3>2. sessions[k] \in Tokens
      BY <3>1
    <3>3. sessions[k].version \in Nat
      BY <3>2 DEF Tokens
    <3> QED
      BY <3>1, <3>3 DEF Current
  <2> QED
    BY <2>1, <2>2, <2>3
<1> QED
  BY <1>1, CallsMayRely, PTL DEF Spec, SessionsEnd
=============================================================================
