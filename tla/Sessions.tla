------------------------------- MODULE Sessions -------------------------------
(* Accounts and sessions: registration, signing in with a password and with a  *)
(* code sent by mail, renewing and ending a session, password resets, profile  *)
(* edits, role changes and the invitations that create accounts.               *)
(*                                                                             *)
(* A request is a handler that runs statement by statement; what it read       *)
(* before stays in req while others run.  Whatever a request reads and signs   *)
(* without another statement in between is one step.  Hashes, signatures and   *)
(* mails are abstracted: a token, a code or a link is its number, and only who *)
(* got it presents it.  Time is abstracted too: an expired token, code or link *)
(* is one that is never presented, and when the last code was entered only     *)
(* decides whether a login asks for another, which it may.                     *)
EXTENDS Integers, FiniteSets

CONSTANTS
  None,
  Users,          \* addresses that may have an account
  Passwords,
  Secret,         \* a random password that is never shown
  StartAccounts,  \* the accounts a run may begin with (bound)
  MaxAttempts,    \* wrong tries after which a code is spent (AUTH_OTP_MAX_ATTEMPTS)
  Tabs,           \* requests handled at once (bound)
  MaxRequests,    \* requests altogether (bound)
  Pairs,          \* numbers of sessions, codes and reset links (bounds)
  Codes,
  Links

ASSUME SessionsAssumption ==
  /\ MaxAttempts \in Nat \ {0} /\ MaxRequests \in Nat
  /\ IsFiniteSet(Users) /\ None \notin Users
  /\ Pairs \subseteq Nat /\ Codes \subseteq Nat /\ Links \subseteq Nat
  /\ Secret \notin Passwords

Roles == {"student", "admin", "instructor", "company"}
Purposes == {"register", "login"}
Account == [password : Passwords \union {Secret}, verified : BOOLEAN, version : Nat,
            roles : SUBSET Roles]

ASSUME StartAccountsAssumption ==
  /\ None \notin Account
  /\ \A start \in StartAccounts :
       /\ start \in [Users -> Account \union {None}]
       /\ \E u \in Users : start[u] # None /\ "admin" \in start[u].roles

Pair == [user : Users, version : Nat]
Code == [user : Users, purpose : Purposes, attempts : Nat, status : {"live", "used", "gone"}]
Link == [user : Users, status : {"live", "used"}]
Tokens == ({"code"} \X Codes) \union ({"link"} \X Links) \union ({"refresh"} \X Pairs)
RoleChanges == <<"roles", 0>>

ASSUME NoneAssumption ==
  None \notin Pair /\ None \notin Code /\ None \notin Link /\ None \notin Tokens /\ None # RoleChanges

VARIABLES
  account,  \* users: the row of each address, or None
  pair,     \* the access and refresh tokens signed so far, or None
  code,     \* auth_email_otps, or None
  link,     \* password_reset_tokens, or None
  black,    \* jwt_blacklist: kinds of tokens of sessions
  req,      \* the requests being handled
  requests, \* requests so far
  revoked,  \* history: sessions opened before a reset of their account's password
  uses,     \* history: how often a token, a code or a link opened something
  tries,    \* history: wrong tries of a code
  raced,    \* history: what two requests handled at once
  stale     \* history: accounts of which a save wrote back a row read before a change
tables == <<account, pair, code, link, black>>
history == <<revoked, uses, tries, raced, stale>>
vars == <<tables, req, requests, history>>

Idle == [pc |-> "idle"]
Request ==
  {Idle} \union
  [pc : {"save"}, user : Users, seen : Account, row : Account, purpose : {"register", "profile"}]
  \union [pc : {"complete"}, user : Users, version : Nat]
  \union [pc : {"clear", "send"}, user : Users, purpose : Purposes]
  \union [pc : {"wrong"}, item : Codes, attempts : Nat]
  \union [pc : {"right"}, item : Codes]
  \union [pc : {"sign", "admin"}, user : Users]
  \union [pc : {"rotate", "renew"}, item : Pairs]
  \union [pc : {"confirm"}, item : Links]
  \union [pc : {"assign"}, user : Users, on : SUBSET Roles, off : SUBSET Roles]

Init ==
  /\ account \in StartAccounts
  /\ pair = [p \in Pairs |-> None] /\ code = [c \in Codes |-> None]
  /\ link = [l \in Links |-> None] /\ black = {}
  /\ req = [h \in Tabs |-> Idle] /\ requests = 0
  /\ revoked = {} /\ uses = [t \in Tokens |-> 0] /\ tries = [c \in Codes |-> 0]
  /\ raced = {} /\ stale = {}

-------------------------------------------------------------------------------
(* Rows, tokens and requests.                                                  *)

Exists(u) == account[u] # None
IsAdmin(u) == Exists(u) /\ "admin" \in account[u].roles
Admins == {u \in Users : IsAdmin(u)}

\* The next number of an auto-incremented table.
Fresh(n, rows) == rows[n] = None /\ \A m \in DOMAIN rows : m < n => rows[m] # None

\* Sessions of an account whose password is reset are to stay out from then on.
PairsOf(u) == {p \in Pairs : pair[p] # None /\ pair[p].user = u}

\* The middleware lets an access token in that is not black-listed, whose account exists and
\* whose version is the account's.
Admitted(p) ==
  /\ pair[p] # None /\ <<"access", p>> \notin black
  /\ Exists(pair[p].user) /\ pair[p].version = account[pair[p].user].version

Enter(h) == req[h] = Idle /\ requests < MaxRequests /\ requests' = requests + 1
Continue(h, r) == req' = [req EXCEPT ![h] = r]
Goes(h, r) == Continue(h, r) /\ UNCHANGED requests

\* What a request in progress holds; another one that takes the same races it.
Holds(h) ==
  CASE req[h].pc \in {"wrong", "right"} -> <<"code", req[h].item>>
    [] req[h].pc \in {"rotate", "renew"} -> <<"refresh", req[h].item>>
    [] req[h].pc = "confirm" -> <<"link", req[h].item>>
    [] req[h].pc = "assign" -> RoleChanges
    [] OTHER -> None
Take(h, t) ==
  raced' = IF \E g \in Tabs \ {h} : Holds(g) = t THEN raced \union {t} ELSE raced

SignPair(u, version) ==
  \E p \in Pairs : Fresh(p, pair)
    /\ pair' = [pair EXCEPT ![p] = [user |-> u, version |-> version]]

AddLink(u) ==
  \E l \in Links : Fresh(l, link) /\ link' = [link EXCEPT ![l] = [user |-> u, status |-> "live"]]

\* Whether mail can be sent decides between a code and completing at once; it is looked up
\* by each request, and settings may change.
ProvesAddress(h, u, version) ==
  \/ Continue(h, [pc |-> "clear", user |-> u, purpose |-> "register"])
  \/ Continue(h, [pc |-> "complete", user |-> u, version |-> version])

-------------------------------------------------------------------------------
(* Registration, signing in, codes.                                            *)

\* Either a student or a company; other roles stay.
Kinds(row, company) ==
  (row.roles \ {"student", "company"}) \union {IF company THEN "company" ELSE "student"}

\* A new row.  The column is_student defaults to true, which is what a zero value inserts.
NewAccount(pwd, verified, roles) ==
  [password |-> pwd, verified |-> verified, version |-> 0, roles |-> {"student"} \union roles]

\* Register with an address that has no account.
RegisterNew(h, u, pwd, company) ==
  /\ Enter(h) /\ ~Exists(u)
  /\ account' = [account EXCEPT ![u] =
       NewAccount(pwd, FALSE, IF company THEN {"company"} ELSE {})]
  /\ ProvesAddress(h, u, 0)
  /\ UNCHANGED <<pair, code, link, black, history>>

\* A slip: a registration may start over on any account.
RegisterOver(h, u, pwd, company) ==
  /\ Enter(h) /\ Exists(u)
  /\ Continue(h, [pc |-> "save", user |-> u, seen |-> account[u],
       row |-> [account[u] EXCEPT !.password = pwd, !.roles = Kinds(account[u], company)],
       purpose |-> "register"])
  /\ UNCHANGED <<tables, history>>

\* Register with an address whose account never was verified: the row read is changed and
\* will be saved as a whole.  That of a verified account is refused.
RegisterAgain(h, u, pwd, company) ==
  /\ Enter(h) /\ Exists(u) /\ ~account[u].verified
  /\ Continue(h, [pc |-> "save", user |-> u, seen |-> account[u],
       row |-> [account[u] EXCEPT !.password = pwd, !.roles = Kinds(account[u], company)],
       purpose |-> "register"])
  /\ UNCHANGED <<tables, history>>

\* Save writes every column, those included that changed since the row was read.
SaveRow(h) ==
  /\ req[h].pc = "save" /\ UNCHANGED requests
  /\ LET u == req[h].user IN
     /\ account' = [account EXCEPT ![u] = req[h].row]
     /\ stale' = IF account[u] = req[h].seen THEN stale ELSE stale \union {u}
     /\ IF req[h].purpose = "register"
        THEN ProvesAddress(h, u, req[h].row.version)
        ELSE Continue(h, Idle)
  /\ UNCHANGED <<pair, code, link, black, revoked, uses, tries, raced>>

\* completeAuthWithoutOTP for an account that was not verified when it was read.
CompleteAuth(h) ==
  /\ req[h].pc = "complete" /\ Goes(h, Idle)
  /\ account' = [account EXCEPT ![req[h].user].verified = TRUE]
  /\ SignPair(req[h].user, req[h].version)
  /\ UNCHANGED <<code, link, black, history>>

LoginUnverified(h, u, pwd) ==
  /\ Enter(h) /\ Exists(u) /\ account[u].password = pwd /\ ~account[u].verified
  /\ ProvesAddress(h, u, account[u].version)
  /\ UNCHANGED <<tables, history>>

\* A verified account is asked for a code, or signed in at once.
LoginWithCode(h, u, pwd) ==
  /\ Enter(h) /\ Exists(u) /\ account[u].password = pwd /\ account[u].verified
  /\ Continue(h, [pc |-> "clear", user |-> u, purpose |-> "login"])
  /\ UNCHANGED <<tables, history>>
Login(h, u, pwd) ==
  /\ Enter(h) /\ Exists(u) /\ account[u].password = pwd /\ account[u].verified
  /\ SignPair(u, account[u].version)
  /\ UNCHANGED <<account, code, link, black, req, history>>

Resend(h, u, purpose) ==
  /\ Enter(h) /\ Exists(u) /\ ~(purpose = "register" /\ account[u].verified)
  /\ Continue(h, [pc |-> "clear", user |-> u, purpose |-> purpose])
  /\ UNCHANGED <<tables, history>>

LiveCodes(u, purpose) ==
  {c \in Codes : code[c] # None /\ code[c].user = u /\ code[c].purpose = purpose
                 /\ code[c].status = "live"}
WithoutLive(u, purpose) ==
  [c \in Codes |-> IF c \in LiveCodes(u, purpose) THEN [code[c] EXCEPT !.status = "gone"]
                   ELSE code[c]]

\* sendAuthOTP deletes the unused codes, then inserts one.
ClearCodes(h) ==
  /\ req[h].pc = "clear"
  /\ code' = WithoutLive(req[h].user, req[h].purpose)
  /\ Goes(h, [req[h] EXCEPT !.pc = "send"])
  /\ UNCHANGED <<account, pair, link, black, history>>
SendCode(h) ==
  /\ req[h].pc = "send" /\ Goes(h, Idle)
  /\ \E c \in Codes : Fresh(c, code)
       /\ code' = [code EXCEPT ![c] = [user |-> req[h].user, purpose |-> req[h].purpose,
                                        attempts |-> 0, status |-> "live"]]
  /\ UNCHANGED <<account, pair, link, black, history>>

Newest(c, live) == c \in live /\ \A d \in live : d <= c

\* VerifyAuthOTP compares with the newest unused code of the address.
EnterCode(h, u, purpose, right) ==
  /\ Enter(h) /\ Exists(u)
  /\ \E c \in Codes :
       /\ Newest(c, LiveCodes(u, purpose)) /\ Take(h, <<"code", c>>)
       /\ Continue(h, IF right THEN [pc |-> "right", item |-> c]
                      ELSE [pc |-> "wrong", item |-> c, attempts |-> code[c].attempts])
  /\ UNCHANGED <<tables, revoked, uses, tries, stale>>

\* The number of attempts that was read, plus one; the last try spends the code.
WrongCode(h) ==
  /\ req[h].pc = "wrong" /\ Goes(h, Idle)
  /\ LET c == req[h].item
         attempts == req[h].attempts + 1 IN
     /\ tries' = [tries EXCEPT ![c] = @ + 1]
     /\ code' = IF code[c].status = "gone" THEN code
                ELSE [code EXCEPT ![c].attempts = attempts,
                                  ![c].status = IF attempts >= MaxAttempts THEN "used" ELSE @]
  /\ UNCHANGED <<account, pair, link, black, revoked, uses, raced, stale>>

\* One transaction: the code is used, the account is verified by a registration's code, and
\* the other unused codes go.
RightCode(h) ==
  /\ req[h].pc = "right"
  /\ LET c == req[h].item
         u == code[c].user
         purpose == code[c].purpose IN
     /\ code' = [WithoutLive(u, purpose) EXCEPT
                   ![c].status = IF code[c].status = "gone" THEN "gone" ELSE "used"]
     /\ account' = [account EXCEPT ![u].verified = @ \/ purpose = "register"]
     /\ uses' = [uses EXCEPT ![<<"code", c>>] = @ + 1]
     /\ Goes(h, [pc |-> "sign", user |-> u])
  /\ UNCHANGED <<pair, link, black, revoked, tries, raced, stale>>

\* The account is read again and signed in.
SignIn(h) ==
  /\ req[h].pc = "sign" /\ Goes(h, Idle)
  /\ SignPair(req[h].user, account[req[h].user].version)
  /\ UNCHANGED <<account, code, link, black, history>>

-------------------------------------------------------------------------------
(* Sessions and passwords.                                                     *)

\* A slip: whether the token was used is not looked up.
RefreshAnyway(h, p) ==
  /\ Enter(h) /\ pair[p] # None
  /\ Take(h, <<"refresh", p>>)
  /\ Continue(h, [pc |-> "rotate", item |-> p])
  /\ UNCHANGED <<tables, revoked, uses, tries, stale>>

\* EnsureTokenAllowed.
Refresh(h, p) ==
  /\ Enter(h) /\ pair[p] # None /\ <<"refresh", p>> \notin black
  /\ Take(h, <<"refresh", p>>)
  /\ Continue(h, [pc |-> "rotate", item |-> p])
  /\ UNCHANGED <<tables, revoked, uses, tries, stale>>

\* BlacklistToken: a row that is there already is found and is no error, or, when the insert
\* runs into it, an error.
Rotate(h) ==
  /\ req[h].pc = "rotate"
  /\ LET t == <<"refresh", req[h].item>> IN
     /\ black' = black \union {t}
     /\ \/ Goes(h, [req[h] EXCEPT !.pc = "renew"])
        \/ t \in black /\ Goes(h, Idle)
  /\ UNCHANGED <<account, pair, code, link, history>>

\* The account is read; another version than the token's refuses it.
Renew(h) ==
  /\ req[h].pc = "renew" /\ Goes(h, Idle)
  /\ LET p == req[h].item
         u == pair[p].user IN
     IF pair[p].version = account[u].version
     THEN /\ SignPair(u, account[u].version)
          /\ uses' = [uses EXCEPT ![<<"refresh", p>>] = @ + 1]
     ELSE UNCHANGED <<pair, uses>>
  /\ UNCHANGED <<account, code, link, black, revoked, tries, raced, stale>>

\* Logout black-lists the tokens whose cookies came along; errors are ignored.
Logout(h, p, kinds) ==
  /\ Enter(h) /\ pair[p] # None
  /\ black' = black \union (kinds \X {p})
  /\ UNCHANGED <<account, pair, code, link, req, history>>

RequestPasswordReset(h, u) ==
  /\ Enter(h) /\ Exists(u) /\ AddLink(u)
  /\ UNCHANGED <<account, pair, code, black, req, history>>

\* The link is looked up before the transaction.
OpenLink(h, l) ==
  /\ Enter(h) /\ link[l] # None /\ link[l].status = "live"
  /\ Take(h, <<"link", l>>)
  /\ Continue(h, [pc |-> "confirm", item |-> l])
  /\ UNCHANGED <<tables, revoked, uses, tries, stale>>

\* A slip: the password alone is changed.
SetPasswordOnly(u, pwd) ==
  /\ account' = [account EXCEPT ![u].password = pwd]
  /\ revoked' = revoked \union PairsOf(u)

\* The version moves on with every reset.
SetPassword(u, pwd) ==
  /\ account' = [account EXCEPT ![u].password = pwd, ![u].version = @ + 1]
  /\ revoked' = revoked \union PairsOf(u)

ConfirmPasswordReset(h, pwd) ==
  /\ req[h].pc = "confirm" /\ Goes(h, Idle)
  /\ LET l == req[h].item IN
     /\ SetPassword(link[l].user, pwd)
     /\ link' = [link EXCEPT ![l].status = "used"]
     /\ uses' = [uses EXCEPT ![<<"link", l>>] = @ + 1]
  /\ UNCHANGED <<pair, code, black, tries, raced, stale>>

-------------------------------------------------------------------------------
(* Requests of a session: the profile, and the administrators'.                *)

\* AuthGuard keeps the row it read for the handler; UpdateProfile saves that row.
UpdateProfile(h, p) ==
  /\ Enter(h) /\ Admitted(p)
  /\ LET u == pair[p].user IN
     Continue(h, [pc |-> "save", user |-> u, seen |-> account[u], row |-> account[u],
                  purpose |-> "profile"])
  /\ UNCHANGED <<tables, history>>

\* AdminNotFoundGuard.
EnterAdmin(h, p) ==
  /\ Enter(h) /\ Admitted(p) /\ IsAdmin(pair[p].user)
  /\ Continue(h, [pc |-> "admin", user |-> pair[p].user])
  /\ UNCHANGED <<tables, history>>

ResetUserPassword(h, u, pwd) ==
  /\ req[h].pc = "admin" /\ Exists(u) /\ Goes(h, Idle)
  /\ SetPassword(u, pwd)
  /\ UNCHANGED <<pair, code, link, black, uses, tries, raced, stale>>

\* The columns a change of role writes: those it sets and those it clears.
RoleColumns(row, role, enabled) ==
  LET plain == "admin" \notin row.roles
      also(columns) == IF plain THEN columns ELSE {}
      teacher == IF "instructor" \in row.roles THEN {"instructor"} ELSE {} IN
  CASE role = "admin" ->
         IF enabled THEN [on |-> {"admin"}, off |-> {}] ELSE [on |-> {}, off |-> {"admin"}]
    [] role = "instructor" ->
         IF enabled THEN [on |-> {"instructor"}, off |-> also({"student", "company"})]
         ELSE [on |-> also({"student"}), off |-> {"instructor"}]
    [] role = "company" ->
         IF enabled THEN [on |-> {"company"}, off |-> also({"student"} \union teacher)]
         ELSE [on |-> also({"student"}), off |-> {"company"}]
    [] role = "student" ->
         [on |-> {"student"}, off |-> also({"company"} \union teacher)]

\* A slip: how many administrators are left is not counted.
MayChangeUncounted(me, u, role, enabled) ==
  /\ role = "student" => enabled
  /\ role = "admin" /\ ~enabled => me # u

\* Student is not disabled; nobody takes the role from themselves, or from the last.
MayChange(me, u, role, enabled) ==
  /\ role = "student" => enabled
  /\ role = "admin" /\ ~enabled =>
       /\ me # u
       /\ IsAdmin(u) => Cardinality(Admins) > 1

\* UpdateUserRole reads the target and counts; a target with courses may be refused too.
ReadRole(h, u, role, enabled) ==
  /\ req[h].pc = "admin" /\ Exists(u) /\ MayChange(req[h].user, u, role, enabled)
  /\ LET columns == RoleColumns(account[u], role, enabled) IN
     Goes(h, [pc |-> "assign", user |-> u, on |-> columns.on, off |-> columns.off])
  /\ Take(h, RoleChanges)
  /\ UNCHANGED <<tables, revoked, uses, tries, stale>>

UpdateUserRole(h) ==
  /\ req[h].pc = "assign" /\ Goes(h, Idle)
  /\ account' = [account EXCEPT ![req[h].user].roles = (@ \union req[h].on) \ req[h].off]
  /\ UNCHANGED <<pair, code, link, black, history>>

\* A handler that is refused, or only reads, ends.
Refused(h) ==
  /\ req[h].pc = "admin" /\ Goes(h, Idle)
  /\ UNCHANGED <<tables, history>>

-------------------------------------------------------------------------------
(* Invitations: a form that names an address without an account creates a      *)
(* verified one with a random password, and mails a link to set it.            *)

\* ensureCompanyPortalInvite: an administrator becomes a company as well, any other account
\* that is not one is left alone.
InviteCompany(h, u) ==
  /\ Enter(h) /\ AddLink(u)
  /\ \/ /\ ~Exists(u)
        /\ account' = [account EXCEPT ![u] = NewAccount(Secret, TRUE, {"company"})]
     \/ /\ Exists(u) /\ "company" \in account[u].roles
        /\ UNCHANGED account
     \/ /\ IsAdmin(u) /\ "company" \notin account[u].roles
        /\ account' = [account EXCEPT ![u].roles = @ \union {"company"}]
  /\ UNCHANGED <<pair, code, black, req, history>>

\* CreateTalentPlusApplication for an address without an account.
InviteTalent(h, u) ==
  /\ Enter(h) /\ ~Exists(u) /\ AddLink(u)
  /\ account' = [account EXCEPT ![u] = NewAccount(Secret, TRUE, {})]
  /\ UNCHANGED <<pair, code, black, req, history>>

-------------------------------------------------------------------------------

Proceed(h) ==
  \/ SaveRow(h) \/ CompleteAuth(h) \/ ClearCodes(h) \/ SendCode(h)
  \/ WrongCode(h) \/ RightCode(h) \/ SignIn(h) \/ Rotate(h) \/ Renew(h)
  \/ \E pwd \in Passwords : ConfirmPasswordReset(h, pwd)
  \/ \E u \in Users, pwd \in Passwords : ResetUserPassword(h, u, pwd)
  \/ \E u \in Users, role \in Roles, enabled \in BOOLEAN : ReadRole(h, u, role, enabled)
  \/ UpdateUserRole(h) \/ Refused(h)

ByAddress(h, u) ==
  \/ \E pwd \in Passwords :
       \/ \E company \in BOOLEAN : RegisterNew(h, u, pwd, company) \/ RegisterAgain(h, u, pwd, company)
       \/ LoginUnverified(h, u, pwd) \/ LoginWithCode(h, u, pwd) \/ Login(h, u, pwd)
  \/ \E purpose \in Purposes :
       Resend(h, u, purpose) \/ \E right \in BOOLEAN : EnterCode(h, u, purpose, right)
  \/ RequestPasswordReset(h, u) \/ InviteCompany(h, u) \/ InviteTalent(h, u)

ByToken(h) ==
  \/ \E p \in Pairs :
       \/ Refresh(h, p) \/ UpdateProfile(h, p) \/ EnterAdmin(h, p)
       \/ \E kinds \in SUBSET {"access", "refresh"} : Logout(h, p, kinds)
  \/ \E l \in Links : OpenLink(h, l)

SessionsNext == \E h \in Tabs : Proceed(h) \/ ByToken(h) \/ \E u \in Users : ByAddress(h, u)
SessionsSpec == Init /\ [][SessionsNext]_vars

-------------------------------------------------------------------------------
(* Properties.                                                                 *)

\* Every row, token and request in progress has the form the code gives it.
SessionsTypeOK ==
  /\ account \in [Users -> Account \union {None}]
  /\ pair \in [Pairs -> Pair \union {None}]
  /\ code \in [Codes -> Code \union {None}]
  /\ link \in [Links -> Link \union {None}]
  /\ black \subseteq {"access", "refresh"} \X Pairs
  /\ req \in [Tabs -> Request] /\ requests \in 0 .. MaxRequests
  /\ revoked \subseteq Pairs
  /\ uses \in [Tokens -> Nat] /\ tries \in [Codes -> Nat]
  /\ raced \subseteq Tokens \union {RoleChanges} /\ stale \subseteq Users

\* A session opened before a reset of the password is never let in again, by the middleware
\* or by renewing it, unless a save of a whole row that was read before the reset (a
\* profile, a registration) put the older version back (AuthGuard, Refresh).
RevokedStaysOut ==
  \A p \in revoked :
    pair[p].user \in stale \/ pair[p].version # account[pair[p].user].version

\* A code, a reset link and a refresh token each open something once, and a code is spent
\* by MaxAttempts wrong tries, unless two requests held it at once: the looks are taken
\* outside the statements that spend it (VerifyAuthOTP, ConfirmPasswordReset, Refresh).
UsedOnce ==
  /\ \A t \in Tokens \ raced : uses[t] <= 1
  /\ \A c \in Codes : <<"code", c>> \notin raced => tries[c] <= MaxAttempts

\* There is an administrator, unless two changes of roles were handled at once or a save put
\* an older row back: an administrator who was let in before losing the role still counts
\* the others (UpdateUserRole).
AdminRemains == Admins # {} \/ RoleChanges \in raced \/ stale # {}

\* A verified address stays verified, and its password changes only together with its
\* version, which ends its sessions; unless a save put an older row back (Register,
\* UpdateProfile).
VerifiedKept ==
  [][\A u \in Users : Exists(u) /\ account[u].verified /\ u \notin stale' =>
       /\ account'[u].verified
       /\ account'[u].password # account[u].password =>
            account'[u].version = account[u].version + 1]_vars
===============================================================================
