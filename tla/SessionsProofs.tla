---------------------------- MODULE SessionsProofs ----------------------------
(***************************************************************************)
(* Theorems about Sessions, for any number of accounts, sessions, codes,   *)
(* links and requests.                                                     *)
(***************************************************************************)
EXTENDS Sessions, FiniteSetTheorems, TLAPS

\* Every session, code and link is of an account that is there.
Owned ==
  /\ \A p \in Pairs : pair[p] # None => Exists(pair[p].user)
  /\ \A c \in Codes : code[c] # None => Exists(code[c].user)
  /\ \A l \in Links : link[l] # None => Exists(link[l].user)

\* What the row a request is about to save has of the one it read.
Carries(row, seen) ==
  /\ row.version = seen.version /\ row.verified = seen.verified
  /\ "admin" \in seen.roles => "admin" \in row.roles
  /\ seen.verified => row.password = seen.password

\* What a request in progress relies on.
Promised(h) ==
  /\ req[h].pc \in {"complete", "clear", "send", "sign", "assign"} => Exists(req[h].user)
  /\ req[h].pc = "save" => Carries(req[h].row, req[h].seen)
  /\ req[h].pc \in {"wrong", "right"} => code[req[h].item] # None
  /\ req[h].pc \in {"rotate", "renew"} => pair[req[h].item] # None
  /\ req[h].pc = "renew" => <<"refresh", req[h].item>> \in black
  /\ req[h].pc = "confirm" => link[req[h].item] # None

Base == SessionsTypeOK /\ Owned /\ \A h \in Tabs : Promised(h)

\* No step takes a row away, gives one to another account, or makes a spent
\* token good again.
RowsKept ==
  /\ \A u \in Users : Exists(u) => Exists(u)'
  /\ \A p \in Pairs : pair[p] # None => pair'[p] = pair[p]
  /\ \A c \in Codes : code[c] # None =>
       /\ code'[c] # None /\ code'[c].user = code[c].user
       /\ code[c].status # "live" => code'[c].status # "live"
  /\ \A l \in Links : link[l] # None =>
       /\ link'[l] # None /\ link'[l].user = link[l].user
       /\ link[l].status # "live" => link'[l].status # "live"
  /\ black \subseteq black'

\* What a step of h has to show.
Sound(h) ==
  /\ SessionsTypeOK' /\ RowsKept /\ Owned'
  /\ \A g \in Tabs \ {h} : req'[g] = req[g]
  /\ Promised(h)'

-----------------------------------------------------------------------------
(* Lemmas about the helpers. *)

\* What each kind of request in progress holds.
LEMMA RequestTypes ==
  ASSUME NEW r \in Request
  PROVE  /\ r.pc \in {"idle", "save", "complete", "clear", "send", "wrong", "right", "sign",
                      "admin", "rotate", "renew", "confirm", "assign"}
         /\ r.pc \in {"save", "complete", "clear", "send", "sign", "admin", "assign"} =>
              r.user \in Users
         /\ r.pc = "save" => r.seen \in Account /\ r.row \in Account
                             /\ r.purpose \in {"register", "profile"}
         /\ r.pc = "complete" => r.version \in Nat
         /\ r.pc \in {"clear", "send"} => r.purpose \in Purposes
         /\ r.pc \in {"wrong", "right"} => r.item \in Codes
         /\ r.pc = "wrong" => r.attempts \in Nat
         /\ r.pc \in {"rotate", "renew"} => r.item \in Pairs
         /\ r.pc = "confirm" => r.item \in Links
         /\ r.pc = "assign" => r.on \subseteq Roles /\ r.off \subseteq Roles
BY DEF Request, Idle

\* Rows that are there are records.
LEMMA RowTypes ==
  ASSUME SessionsTypeOK
  PROVE  /\ \A u \in Users : Exists(u) => account[u] \in Account
         /\ \A p \in Pairs : pair[p] # None =>
              pair[p] \in Pair /\ pair[p].user \in Users /\ pair[p].version \in Nat
         /\ \A c \in Codes : code[c] # None =>
              /\ code[c] \in Code /\ code[c].user \in Users /\ code[c].purpose \in Purposes
              /\ code[c].attempts \in Nat
         /\ \A l \in Links : link[l] # None => link[l] \in Link /\ link[l].user \in Users
BY DEF SessionsTypeOK, Exists, Pair, Code, Link

\* The fields of an account.
LEMMA AccountTypes ==
  ASSUME NEW row \in Account
  PROVE  /\ row.password \in Passwords \cup {Secret} /\ row.verified \in BOOLEAN
         /\ row.version \in Nat /\ row.roles \subseteq Roles
         /\ row = [password |-> row.password, verified |-> row.verified,
                   version |-> row.version, roles |-> row.roles]
         /\ row # None
BY StartAccountsAssumption DEF Account

\* Putting an account together.
LEMMA MakeAccount ==
  ASSUME NEW pwd \in Passwords \cup {Secret}, NEW verified \in BOOLEAN, NEW version \in Nat,
         NEW roles \in SUBSET Roles
  PROVE  [password |-> pwd, verified |-> verified, version |-> version, roles |-> roles] \in Account
BY DEF Account

\* A request takes its turn.
LEMMA TurnTypes ==
  ASSUME SessionsTypeOK, NEW h \in Tabs, NEW r \in Request, Continue(h, r)
  PROVE  /\ req' \in [Tabs -> Request] /\ req'[h] = r
         /\ \A g \in Tabs \ {h} : req'[g] = req[g]
BY DEF SessionsTypeOK, Continue

LEMMA IdleRequest == Idle \in Request /\ Idle.pc = "idle"
BY DEF Request, Idle

\* An idle request promises nothing.
LEMMA IdlePromises ==
  ASSUME NEW h, req'[h] = Idle
  PROVE  Promised(h)'
BY DEF Promised, Idle

\* A request enters when one may.
LEMMA EnterTypes ==
  ASSUME SessionsTypeOK, NEW h \in Tabs, Enter(h)
  PROVE  req[h] = Idle /\ requests' \in 0 .. MaxRequests
BY SessionsAssumption DEF SessionsTypeOK, Enter

\* Taking a token adds to the history of races at most.
LEMMA TakeTypes ==
  ASSUME SessionsTypeOK, NEW h \in Tabs, NEW t \in Tokens \cup {RoleChanges}, Take(h, t)
  PROVE  raced' \subseteq Tokens \cup {RoleChanges} /\ raced \subseteq raced'
BY DEF SessionsTypeOK, Take

\* A step that opens a session.
LEMMA SignTypes ==
  ASSUME Base, NEW u \in Users, NEW version \in Nat, SignPair(u, version)
  PROVE  /\ pair' \in [Pairs -> Pair \cup {None}]
         /\ \A p \in Pairs : pair[p] # None => pair'[p] = pair[p]
         /\ \A p \in Pairs : pair'[p] # pair[p] =>
              pair'[p].user = u /\ pair'[p].version = version /\ pair[p] = None
<1> PICK q \in Pairs :
      Fresh(q, pair) /\ pair' = [pair EXCEPT ![q] = [user |-> u, version |-> version]]
  BY DEF SignPair
<1>1. [user |-> u, version |-> version] \in Pair
  BY DEF Pair
<1> QED
  BY <1>1 DEF Base, SessionsTypeOK, Fresh

\* A step that mails a link.
LEMMA LinkTypes ==
  ASSUME Base, NEW u \in Users, AddLink(u)
  PROVE  /\ link' \in [Links -> Link \cup {None}]
         /\ \A l \in Links : link[l] # None => link'[l] = link[l]
         /\ \A l \in Links : link'[l] # link[l] => link'[l].user = u /\ link[l] = None
<1> PICK k \in Links :
      Fresh(k, link) /\ link' = [link EXCEPT ![k] = [user |-> u, status |-> "live"]]
  BY DEF AddLink
<1>1. [user |-> u, status |-> "live"] \in Link
  BY DEF Link
<1> QED
  BY <1>1 DEF Base, SessionsTypeOK, Fresh

\* A step that writes one account.
LEMMA AccountKept ==
  ASSUME Base, NEW u \in Users, NEW row \in Account, account' = [account EXCEPT ![u] = row]
  PROVE  /\ account' \in [Users -> Account \cup {None}]
         /\ account'[u] = row /\ \A v \in Users \ {u} : account'[v] = account[v]
         /\ Exists(u)' /\ \A v \in Users : Exists(v) => Exists(v)'
BY AccountTypes DEF Base, SessionsTypeOK, Exists

\* A sound step keeps the base.
LEMMA SoundKeeps ==
  ASSUME Base, NEW h \in Tabs, Sound(h)
  PROVE  Base'
<1>1. ASSUME NEW g \in Tabs \ {h} PROVE Promised(g)'
  <2>1. req'[g] = req[g] /\ req[g] \in Request /\ Promised(g) /\ RowsKept
    BY DEF Sound, Base, SessionsTypeOK
  <2> QED
    BY <2>1, RequestTypes DEF Promised, RowsKept
<1> QED
  BY <1>1 DEF Base, Sound

\* What is left to show of a step that takes no row away.
LEMMA SoundBy ==
  ASSUME Base, NEW h \in Tabs, SessionsTypeOK',
         \A u \in Users : Exists(u) => Exists(u)',
         \A p \in Pairs : \/ pair'[p] = pair[p]
                          \/ pair[p] = None /\ pair'[p].user \in Users /\ account'[pair'[p].user] # None,
         \A c \in Codes :
           \/ code'[c] = code[c]
           \/ /\ code[c] # None /\ code'[c] # None /\ code'[c].user = code[c].user
              /\ code[c].status # "live" => code'[c].status # "live"
           \/ code[c] = None /\ code'[c].user \in Users /\ account'[code'[c].user] # None,
         \A l \in Links :
           \/ link'[l] = link[l]
           \/ /\ link[l] # None /\ link'[l] # None /\ link'[l].user = link[l].user
              /\ link[l].status # "live" => link'[l].status # "live"
           \/ link[l] = None /\ link'[l].user \in Users /\ account'[link'[l].user] # None,
         black \subseteq black',
         \A g \in Tabs \ {h} : req'[g] = req[g],
         Promised(h)'
  PROVE  Sound(h)
<1> USE DEF Base
<1>1. RowsKept
  BY DEF RowsKept
<1>2. Owned'
  BY RowTypes DEF Owned, Exists
<1> QED
  BY <1>1, <1>2 DEF Sound

-----------------------------------------------------------------------------
(* Registration, signing in, codes. *)

\* An address is proved by a code or at once.
LEMMA ProvesTypes ==
  ASSUME SessionsTypeOK, NEW h \in Tabs, NEW u \in Users, NEW version \in Nat,
         ProvesAddress(h, u, version), Exists(u)'
  PROVE  /\ req' \in [Tabs -> Request] /\ Promised(h)'
         /\ \A g \in Tabs \ {h} : req'[g] = req[g]
<1>1. /\ [pc |-> "clear", user |-> u, purpose |-> "register"] \in Request
      /\ [pc |-> "complete", user |-> u, version |-> version] \in Request
  BY DEF Request, Purposes
<1>2. PICK r \in Request :
        /\ Continue(h, r) /\ r.pc \in {"clear", "complete"} /\ r.user = u
  BY <1>1 DEF ProvesAddress
<1>3. Promised(h)'
  BY <1>2, TurnTypes DEF Promised
<1> QED
  BY <1>2, <1>3, TurnTypes

LEMMA RegisterNewSound ==
  ASSUME Base, NEW h \in Tabs, NEW u \in Users, NEW pwd \in Passwords, NEW company \in BOOLEAN,
         RegisterNew(h, u, pwd, company)
  PROVE  Sound(h)
<1> USE DEF Base
<1> PICK roles \in SUBSET Roles : roles = {"student"} \cup IF company THEN {"company"} ELSE {}
  BY DEF Roles
<1> DEFINE row == [password |-> pwd, verified |-> FALSE, version |-> 0, roles |-> roles]
<1>1. row \in Account
  BY MakeAccount
<1>2. account' = [account EXCEPT ![u] = row]
  BY DEF RegisterNew, NewAccount
<1>3. /\ account' \in [Users -> Account \cup {None}]
      /\ Exists(u)' /\ \A v \in Users : Exists(v) => Exists(v)'
  BY <1>1, <1>2, AccountKept
<1>4. requests' \in 0 .. MaxRequests
  BY EnterTypes DEF RegisterNew
<1>5. ProvesAddress(h, u, 0) /\ UNCHANGED <<pair, code, link, black, history>>
  BY DEF RegisterNew
<1>6. /\ req' \in [Tabs -> Request] /\ Promised(h)'
      /\ \A g \in Tabs \ {h} : req'[g] = req[g]
  BY <1>3, <1>5, ProvesTypes
<1>7. SessionsTypeOK'
  BY <1>3, <1>4, <1>5, <1>6 DEF SessionsTypeOK, history
<1> QED
  BY <1>3, <1>5, <1>6, <1>7, SoundBy

\* What a registration saves has what the row read had.
LEMMA KindsTypes ==
  ASSUME NEW row \in Account, NEW company \in BOOLEAN
  PROVE  /\ Kinds(row, company) \in SUBSET Roles
         /\ "admin" \in row.roles => "admin" \in Kinds(row, company)
BY AccountTypes DEF Kinds, Roles

\* Steps that only turn to a further statement.
LEMMA TurnSound ==
  ASSUME Base, NEW h \in Tabs, NEW r \in Request, Continue(h, r),
         UNCHANGED <<account, pair, code, link, black, revoked, uses, tries, stale>>,
         requests' \in 0 .. MaxRequests, raced' \subseteq Tokens \cup {RoleChanges},
         Promised(h)'
  PROVE  Sound(h)
<1> USE DEF Base
<1>1. req' \in [Tabs -> Request] /\ \A g \in Tabs \ {h} : req'[g] = req[g]
  BY TurnTypes
<1>2. SessionsTypeOK'
  BY <1>1 DEF SessionsTypeOK
<1>3. \A u \in Users : Exists(u) => Exists(u)'
  BY DEF Exists
<1> QED
  BY <1>1, <1>2, <1>3, SoundBy

LEMMA RegisterAgainSound ==
  ASSUME Base, NEW h \in Tabs, NEW u \in Users, NEW pwd \in Passwords, NEW company \in BOOLEAN,
         RegisterAgain(h, u, pwd, company)
  PROVE  Sound(h)
<1> USE DEF Base
<1>1. account[u] \in Account /\ ~account[u].verified
  BY RowTypes DEF RegisterAgain
<1> PICK seen \in Account : seen = account[u]
  BY <1>1
<1> PICK kinds \in SUBSET Roles : kinds = Kinds(seen, company)
  BY KindsTypes
<1> DEFINE row == [seen EXCEPT !.password = pwd, !.roles = kinds]
           r == [pc |-> "save", user |-> u, seen |-> seen, row |-> row, purpose |-> "register"]
<1>2. /\ row \in Account /\ row.password = pwd /\ row.roles = kinds
      /\ row.verified = seen.verified /\ row.version = seen.version
  BY ONLY seen \in Account, pwd \in Passwords, kinds \in SUBSET Roles DEF Account
<1>3. row \in Account /\ Carries(row, seen)
  BY <1>1, <1>2, KindsTypes DEF Carries
<1>4. r \in Request
  BY <1>3 DEF Request
<1>5. Continue(h, r) /\ UNCHANGED <<tables, history>>
  BY DEF RegisterAgain
<1>6. Promised(h)'
  BY <1>3, <1>4, <1>5, TurnTypes DEF Promised
<1>7. requests' \in 0 .. MaxRequests
  BY EnterTypes DEF RegisterAgain
<1> QED
  BY <1>4, <1>5, <1>6, <1>7, TurnSound DEF tables, history, SessionsTypeOK

LEMMA SaveSound ==
  ASSUME Base, NEW h \in Tabs, SaveRow(h)
  PROVE  Sound(h)
<1> USE DEF Base
<1>1. req[h] \in Request /\ req[h].pc = "save"
  BY DEF SaveRow, SessionsTypeOK
<1> PICK u \in Users, row \in Account : u = req[h].user /\ row = req[h].row
  BY <1>1, RequestTypes
<1>2. account' = [account EXCEPT ![u] = row]
  BY DEF SaveRow
<1>3. /\ account' \in [Users -> Account \cup {None}]
      /\ Exists(u)' /\ \A v \in Users : Exists(v) => Exists(v)'
  BY <1>2, AccountKept
<1>4. stale' \subseteq Users /\ UNCHANGED <<pair, code, link, black, revoked, uses, tries, raced, requests>>
  BY DEF SaveRow, SessionsTypeOK
<1>5. ProvesAddress(h, u, row.version) \/ Continue(h, Idle)
  BY DEF SaveRow
<1>6. /\ req' \in [Tabs -> Request] /\ Promised(h)'
      /\ \A g \in Tabs \ {h} : req'[g] = req[g]
  BY <1>3, <1>5, ProvesTypes, AccountTypes, TurnTypes, IdleRequest, IdlePromises
<1>7. SessionsTypeOK'
  BY <1>3, <1>4, <1>6 DEF SessionsTypeOK
<1> QED
  BY <1>3, <1>4, <1>6, <1>7, SoundBy

LEMMA CompleteSound ==
  ASSUME Base, NEW h \in Tabs, CompleteAuth(h)
  PROVE  Sound(h)
<1> USE DEF Base
<1>1. req[h] \in Request /\ req[h].pc = "complete"
  BY DEF CompleteAuth, SessionsTypeOK
<1> PICK u \in Users, version \in Nat : u = req[h].user /\ version = req[h].version
  BY <1>1, RequestTypes
<1>2. account[u] \in Account
  BY <1>1, RowTypes DEF Promised
<1>3. [account[u] EXCEPT !.verified = TRUE] \in Account
  BY <1>2 DEF Account
<1>4. account' = [account EXCEPT ![u] = [account[u] EXCEPT !.verified = TRUE]]
  BY DEF CompleteAuth
<1>5. /\ account' \in [Users -> Account \cup {None}]
      /\ Exists(u)' /\ \A v \in Users : Exists(v) => Exists(v)'
  BY <1>3, <1>4, AccountKept
<1>6. /\ SignPair(u, version) /\ Continue(h, Idle)
      /\ UNCHANGED <<code, link, black, revoked, uses, tries, raced, stale, requests>>
  BY DEF CompleteAuth, history, Goes
<1>7. /\ req' \in [Tabs -> Request] /\ Promised(h)'
      /\ \A g \in Tabs \ {h} : req'[g] = req[g]
  BY <1>6, TurnTypes, IdleRequest, IdlePromises
<1>8. /\ pair' \in [Pairs -> Pair \cup {None}]
      /\ \A p \in Pairs : pair'[p] # pair[p] => pair[p] = None /\ pair'[p].user = u
  BY <1>6, SignTypes
<1>9. SessionsTypeOK'
  BY <1>5, <1>6, <1>7, <1>8 DEF SessionsTypeOK
<1> QED
  BY <1>5, <1>6, <1>7, <1>8, <1>9, SoundBy DEF Exists

\* Asking to sign in, or for another code.
LEMMA AskSound ==
  ASSUME Base, NEW h \in Tabs, NEW u \in Users,
         \/ \E pwd \in Passwords : LoginUnverified(h, u, pwd) \/ LoginWithCode(h, u, pwd)
         \/ \E purpose \in Purposes : Resend(h, u, purpose)
  PROVE  Sound(h)
<1> USE DEF Base
<1>1. /\ Enter(h) /\ Exists(u) /\ UNCHANGED <<tables, history>>
      /\ \/ ProvesAddress(h, u, account[u].version)
         \/ \E purpose \in Purposes : Continue(h, [pc |-> "clear", user |-> u, purpose |-> purpose])
  BY DEF LoginUnverified, LoginWithCode, Resend, Purposes
<1>2. /\ requests' \in 0 .. MaxRequests
      /\ UNCHANGED <<account, pair, code, link, black, revoked, uses, tries, raced, stale>>
  BY <1>1, EnterTypes DEF tables, history
<1>3. Exists(u)' /\ account[u].version \in Nat
  BY <1>1, <1>2, RowTypes, AccountTypes DEF Exists
<1>4. PICK r \in Request : Continue(h, r) /\ r.pc \in {"clear", "complete"} /\ r.user = u
  <2>1. \A purpose \in Purposes : [pc |-> "clear", user |-> u, purpose |-> purpose] \in Request
    BY DEF Request
  <2>2. \A version \in Nat : [pc |-> "complete", user |-> u, version |-> version] \in Request
    BY DEF Request
  <2> QED
    BY <1>1, <1>3, <2>1, <2>2 DEF ProvesAddress, Purposes
<1>5. Promised(h)'
  BY <1>3, <1>4, TurnTypes DEF Promised
<1> QED
  BY <1>2, <1>4, <1>5, TurnSound DEF SessionsTypeOK

\* What opens a session at once, or reads the account once more and does.
LEMMA OpenSound ==
  ASSUME Base, NEW h \in Tabs, NEW u \in Users, Exists(u), SignPair(u, account[u].version),
         UNCHANGED <<account, code, link, black, revoked, tries, raced, stale>>,
         uses' \in [Tokens -> Nat], requests' \in 0 .. MaxRequests,
         UNCHANGED req \/ Continue(h, Idle), Promised(h)'
  PROVE  Sound(h)
<1> USE DEF Base
<1>1. account[u].version \in Nat
  BY RowTypes, AccountTypes
<1>2. /\ pair' \in [Pairs -> Pair \cup {None}]
      /\ \A p \in Pairs : pair'[p] # pair[p] => pair[p] = None /\ pair'[p].user = u
  BY <1>1, SignTypes
<1>3. req' \in [Tabs -> Request] /\ \A g \in Tabs \ {h} : req'[g] = req[g]
  BY TurnTypes, IdleRequest DEF SessionsTypeOK
<1>4. SessionsTypeOK'
  BY <1>2, <1>3 DEF SessionsTypeOK
<1> QED
  BY <1>2, <1>3, <1>4, SoundBy DEF Exists

LEMMA SignSound ==
  ASSUME Base, NEW h \in Tabs,
         SignIn(h) \/ \E u \in Users, pwd \in Passwords : Login(h, u, pwd)
  PROVE  Sound(h)
<1> USE DEF Base
<1>1. CASE SignIn(h)
  <2>1. req[h] \in Request /\ req[h].pc = "sign"
    BY <1>1 DEF SignIn, SessionsTypeOK
  <2> PICK u \in Users : u = req[h].user
    BY <2>1, RequestTypes
  <2>2. Exists(u)
    BY <2>1 DEF Promised
  <2>3. Promised(h)'
    BY <1>1, TurnTypes, IdleRequest, IdlePromises DEF SignIn, Goes
  <2>4. /\ SignPair(u, account[u].version) /\ Continue(h, Idle)
        /\ UNCHANGED <<account, code, link, black, revoked, uses, tries, raced, stale, requests>>
    BY <1>1 DEF SignIn, history, Goes
  <2> QED
    BY <2>2, <2>3, <2>4, OpenSound DEF SessionsTypeOK
<1>2. ASSUME NEW u \in Users, NEW pwd \in Passwords, Login(h, u, pwd) PROVE Sound(h)
  <2>1. req[h] = Idle /\ requests' \in 0 .. MaxRequests
    BY <1>2, EnterTypes DEF Login
  <2>2. /\ SignPair(u, account[u].version) /\ Exists(u)
        /\ UNCHANGED <<account, code, link, black, revoked, uses, tries, raced, stale, req>>
    BY <1>2 DEF Login, history
  <2>3. Promised(h)'
    BY <2>1, <2>2, IdlePromises
  <2> QED
    BY <2>1, <2>2, <2>3, OpenSound DEF SessionsTypeOK
<1> QED
  BY <1>1, <1>2

\* Clearing codes spends them.
LEMMA ClearTypes ==
  ASSUME SessionsTypeOK, NEW u, NEW purpose
  PROVE  /\ WithoutLive(u, purpose) \in [Codes -> Code \cup {None}]
         /\ \A c \in Codes :
              \/ WithoutLive(u, purpose)[c] = code[c]
              \/ /\ code[c] # None /\ WithoutLive(u, purpose)[c] # None
                 /\ WithoutLive(u, purpose)[c].user = code[c].user
                 /\ WithoutLive(u, purpose)[c].purpose = code[c].purpose
                 /\ WithoutLive(u, purpose)[c].attempts = code[c].attempts
                 /\ WithoutLive(u, purpose)[c].status = "gone"
<1>1. ASSUME NEW c \in Codes, code[c] # None
      PROVE  LET gone == [code[c] EXCEPT !.status = "gone"] IN
             /\ gone \in Code /\ gone # None /\ gone.user = code[c].user
             /\ gone.purpose = code[c].purpose /\ gone.attempts = code[c].attempts
             /\ gone.status = "gone"
  BY <1>1, RowTypes, NoneAssumption DEF Code
<1> QED
  BY <1>1 DEF WithoutLive, LiveCodes, SessionsTypeOK

\* Steps of codes: only the account and the codes, of rows that are there, are written.
LEMMA CodeSound ==
  ASSUME Base, NEW h \in Tabs, NEW r \in Request, Goes(h, r), Promised(h)',
         UNCHANGED <<pair, link, black, revoked, raced, stale>>,
         account' \in [Users -> Account \cup {None}],
         \A u \in Users : Exists(u) => Exists(u)',
         code' \in [Codes -> Code \cup {None}],
         \A c \in Codes :
           \/ code'[c] = code[c]
           \/ /\ code[c] # None /\ code'[c] # None /\ code'[c].user = code[c].user
              /\ code[c].status # "live" => code'[c].status # "live"
           \/ code[c] = None /\ code'[c].user \in Users /\ account'[code'[c].user] # None,
         uses' \in [Tokens -> Nat], tries' \in [Codes -> Nat]
  PROVE  Sound(h)
<1> USE DEF Base
<1>1. req' \in [Tabs -> Request] /\ (\A g \in Tabs \ {h} : req'[g] = req[g]) /\ requests' = requests
  BY TurnTypes DEF Goes
<1>2. SessionsTypeOK'
  BY <1>1 DEF SessionsTypeOK
<1> QED
  BY <1>1, <1>2, SoundBy

LEMMA SendSound ==
  ASSUME Base, NEW h \in Tabs, ClearCodes(h) \/ SendCode(h)
  PROVE  Sound(h)
<1> USE DEF Base
<1>1. req[h] \in Request /\ req[h].pc \in {"clear", "send"}
  BY DEF ClearCodes, SendCode, SessionsTypeOK
<1> PICK u \in Users, purpose \in Purposes : u = req[h].user /\ purpose = req[h].purpose
  BY <1>1, RequestTypes
<1>2. Exists(u) /\ UNCHANGED <<account, pair, link, black, revoked, uses, tries, raced, stale>>
  BY <1>1 DEF Promised, ClearCodes, SendCode, history
<1>3. CASE ClearCodes(h)
  <2> DEFINE r == [req[h] EXCEPT !.pc = "send"]
  <2>1. req[h].pc = "clear" /\ req[h] \in [pc : {"clear", "send"}, user : Users, purpose : Purposes]
    BY <1>1, <1>3 DEF ClearCodes, Request, Idle
  <2>2. r \in [pc : {"clear", "send"}, user : Users, purpose : Purposes] /\ r.pc = "send" /\ r.user = u
    BY <2>1
  <2>3. r \in Request
    BY <2>2 DEF Request
  <2>4. Goes(h, r) /\ code' = WithoutLive(u, purpose)
    BY <1>3 DEF ClearCodes
  <2>5. Promised(h)'
    BY <1>2, <2>2, <2>3, <2>4, TurnTypes DEF Promised, Goes, Exists
  <2>6. \A c \in Codes : code'[c] # code[c] =>
          code[c] # None /\ code'[c] # None /\ code'[c].user = code[c].user /\ code'[c].status = "gone"
    BY <2>4, ClearTypes
  <2>7. code' \in [Codes -> Code \cup {None}]
    BY <2>4, ClearTypes
  <2> QED
    BY <1>2, <2>3, <2>4, <2>5, <2>6, <2>7, CodeSound DEF SessionsTypeOK, Exists
<1>4. CASE SendCode(h)
  <2> DEFINE row == [user |-> u, purpose |-> purpose, attempts |-> 0, status |-> "live"]
  <2>1. PICK c \in Codes : Fresh(c, code) /\ code' = [code EXCEPT ![c] = row]
    BY <1>4 DEF SendCode
  <2>2. row \in Code
    BY DEF Code
  <2>3. /\ code' \in [Codes -> Code \cup {None}] /\ code[c] = None /\ code'[c].user = u
        /\ \A d \in Codes \ {c} : code'[d] = code[d]
    BY <2>1, <2>2 DEF SessionsTypeOK, Fresh
  <2>4. Goes(h, Idle)
    BY <1>4 DEF SendCode
  <2>5. Promised(h)'
    BY <2>4, TurnTypes, IdleRequest, IdlePromises DEF Goes
  <2> QED
    BY <1>2, <2>3, <2>4, <2>5, IdleRequest, CodeSound DEF SessionsTypeOK, Exists
<1> QED
  BY <1>3, <1>4

LEMMA EnterCodeSound ==
  ASSUME Base, NEW h \in Tabs, NEW u \in Users, NEW purpose \in Purposes, NEW right \in BOOLEAN,
         EnterCode(h, u, purpose, right)
  PROVE  Sound(h)
<1> USE DEF Base
<1> PICK c \in Codes :
      /\ Newest(c, LiveCodes(u, purpose)) /\ Take(h, <<"code", c>>)
      /\ Continue(h, IF right THEN [pc |-> "right", item |-> c]
                     ELSE [pc |-> "wrong", item |-> c, attempts |-> code[c].attempts])
  BY DEF EnterCode
<1>1. code[c] # None /\ code[c].attempts \in Nat
  BY RowTypes DEF Newest, LiveCodes
<1>2. /\ [pc |-> "right", item |-> c] \in Request
      /\ [pc |-> "wrong", item |-> c, attempts |-> code[c].attempts] \in Request
  BY <1>1 DEF Request
<1>3. PICK r \in Request : Continue(h, r) /\ r.pc \in {"right", "wrong"} /\ r.item = c
  BY <1>2
<1>4. requests' \in 0 .. MaxRequests /\ UNCHANGED <<tables, revoked, uses, tries, stale>>
  BY EnterTypes DEF EnterCode
<1>5. raced' \subseteq Tokens \cup {RoleChanges}
  BY TakeTypes DEF Tokens
<1>6. Promised(h)'
  BY <1>1, <1>3, <1>4, TurnTypes DEF Promised, tables
<1> QED
  BY <1>3, <1>4, <1>5, <1>6, TurnSound DEF tables

LEMMA WrongSound ==
  ASSUME Base, NEW h \in Tabs, WrongCode(h)
  PROVE  Sound(h)
<1> USE DEF Base
<1>1. req[h] \in Request /\ req[h].pc = "wrong"
  BY DEF WrongCode, SessionsTypeOK
<1> PICK c \in Codes, n \in Nat : c = req[h].item /\ n = req[h].attempts
  BY <1>1, RequestTypes
<1>2. code[c] \in Code
  BY <1>1, RowTypes DEF Promised
<1> DEFINE row == [code[c] EXCEPT !.attempts = n + 1,
                                  !.status = IF n + 1 >= MaxAttempts THEN "used" ELSE @]
<1>3. row \in Code /\ row.user = code[c].user /\ (code[c].status # "live" => row.status # "live")
  <2> PICK status : status = IF n + 1 >= MaxAttempts THEN "used" ELSE code[c].status
    OBVIOUS
  <2>1. status \in {"used", code[c].status} /\ n + 1 \in Nat
    OBVIOUS
  <2>2. row = [code[c] EXCEPT !.attempts = n + 1, !.status = status]
    BY <1>2 DEF Code
  <2> QED
    BY <1>2, <2>1, <2>2 DEF Code
<1>4. code' = code \/ code' = [code EXCEPT ![c] = row]
  BY DEF WrongCode
<1>5. /\ code' \in [Codes -> Code \cup {None}]
      /\ \A d \in Codes : code'[d] # code[d] => d = c /\ code'[d] = row
  BY <1>3, <1>4 DEF SessionsTypeOK
<1>6. tries' \in [Codes -> Nat]
  BY DEF WrongCode, SessionsTypeOK
<1>7. Goes(h, Idle) /\ UNCHANGED <<account, pair, link, black, revoked, uses, raced, stale>>
  BY DEF WrongCode
<1>8. Promised(h)'
  BY <1>7, TurnTypes, IdleRequest, IdlePromises DEF Goes
<1>9. code[c] # None /\ row # None
  BY <1>2, <1>3, NoneAssumption
<1> QED
  BY <1>3, <1>5, <1>6, <1>7, <1>8, <1>9, IdleRequest, CodeSound DEF SessionsTypeOK, Exists

LEMMA RightSound ==
  ASSUME Base, NEW h \in Tabs, RightCode(h)
  PROVE  Sound(h)
<1> USE DEF Base
<1>1. req[h] \in Request /\ req[h].pc = "right"
  BY DEF RightCode, SessionsTypeOK
<1> PICK c \in Codes : c = req[h].item
  BY <1>1, RequestTypes
<1>2. code[c] \in Code /\ code[c] # None
  BY <1>1, RowTypes DEF Promised
<1> PICK u \in Users, purpose \in Purposes : u = code[c].user /\ purpose = code[c].purpose
  BY <1>2, RowTypes
<1>3. Exists(u) /\ account[u] \in Account
  BY <1>2, RowTypes DEF Owned
<1> DEFINE row == [account[u] EXCEPT !.verified = @ \/ purpose = "register"]
<1> PICK base : base = WithoutLive(u, purpose)
  OBVIOUS
<1> DEFINE cell == [base[c] EXCEPT !.status = IF code[c].status = "gone" THEN "gone" ELSE "used"]
<1>4. row \in Account
  BY <1>3, AccountTypes DEF Account
<1>5. account' = [account EXCEPT ![u] = row]
  BY DEF RightCode
<1>6. /\ account' \in [Users -> Account \cup {None}]
      /\ \A v \in Users : Exists(v) => Exists(v)'
  BY <1>4, <1>5, AccountKept
<1>7. /\ base \in [Codes -> Code \cup {None}]
      /\ \A d \in Codes : base[d] # code[d] =>
           /\ code[d] # None /\ base[d] # None /\ base[d].user = code[d].user
           /\ base[d].status = "gone"
  <2> HIDE DEF Base
  <2>1. SessionsTypeOK
    BY DEF Base
  <2>2. base = WithoutLive(u, purpose)
    OBVIOUS
  <2> QED
    BY ONLY <2>1, <2>2, ClearTypes
<1>8. base[c] \in Code /\ base[c].user = code[c].user
  BY <1>2, <1>7
<1>9. cell \in Code /\ cell.user = code[c].user /\ cell.status # "live"
  BY <1>8 DEF Code
<1>10. code' = [base EXCEPT ![c] = cell]
  BY DEF RightCode
<1>11. /\ code' \in [Codes -> Code \cup {None}] /\ code'[c] = cell
       /\ \A d \in Codes \ {c} : code'[d] = base[d]
  BY <1>7, <1>9, <1>10
<1>12. uses' \in [Tokens -> Nat]
  <2>1. uses' = [uses EXCEPT ![<<"code", c>>] = @ + 1]
    BY DEF RightCode
  <2>2. uses \in [Tokens -> Nat]
    BY DEF SessionsTypeOK
  <2>3. <<"code", c>> \in Tokens
    BY DEF Tokens
  <2> QED
    BY <2>1, <2>2, <2>3
<1> DEFINE r == [pc |-> "sign", user |-> u]
<1>13. Goes(h, r) /\ UNCHANGED <<pair, link, black, revoked, tries, raced, stale>>
  BY DEF RightCode
<1>14. r \in Request
  BY DEF Request
<1>15. Promised(h)'
  BY <1>3, <1>6, <1>13, <1>14, TurnTypes DEF Promised, Goes
<1>16. cell # None
  BY <1>9, NoneAssumption
<1>17. \A d \in Codes : code'[d] # code[d] =>
         /\ code[d] # None /\ code'[d] # None /\ code'[d].user = code[d].user
         /\ code'[d].status # "live"
  <2> SUFFICES ASSUME NEW d \in Codes, code'[d] # code[d]
               PROVE  /\ code[d] # None /\ code'[d] # None /\ code'[d].user = code[d].user
                      /\ code'[d].status # "live"
    OBVIOUS
  <2>1. CASE d = c
    BY <1>2, <1>9, <1>11, <1>16, <2>1
  <2>2. CASE d # c
    <3>1. code'[d] = base[d] /\ base[d] # code[d]
      BY <1>11, <2>2
    <3>2. code[d] # None /\ base[d] # None /\ base[d].user = code[d].user /\ base[d].status = "gone"
      BY <1>7, <3>1
    <3> QED
      BY ONLY <3>1, <3>2
  <2> QED
    BY <2>1, <2>2
<1> QED
  BY <1>6, <1>11, <1>12, <1>13, <1>14, <1>15, <1>17, CodeSound DEF SessionsTypeOK

-----------------------------------------------------------------------------
(* Sessions and passwords. *)

LEMMA RefreshSound ==
  ASSUME Base, NEW h \in Tabs,
         \/ \E p \in Pairs : Refresh(h, p)
         \/ \E l \in Links : OpenLink(h, l)
  PROVE  Sound(h)
<1> USE DEF Base
<1>1. ASSUME NEW p \in Pairs, Refresh(h, p) PROVE Sound(h)
  <2> DEFINE r == [pc |-> "rotate", item |-> p]
  <2>1. r \in Request
    BY DEF Request
  <2>2. Continue(h, r) /\ pair[p] # None /\ UNCHANGED <<tables, revoked, uses, tries, stale>>
    BY <1>1 DEF Refresh
  <2>3. raced' \subseteq Tokens \cup {RoleChanges}
    BY <1>1, TakeTypes DEF Tokens, Refresh
  <2>4. Promised(h)'
    BY <2>1, <2>2, TurnTypes DEF Promised, tables
  <2>5. requests' \in 0 .. MaxRequests
    BY <1>1, EnterTypes DEF Refresh
  <2> QED
    BY <2>1, <2>2, <2>3, <2>4, <2>5, TurnSound DEF tables
<1>2. ASSUME NEW l \in Links, OpenLink(h, l) PROVE Sound(h)
  <2> DEFINE r == [pc |-> "confirm", item |-> l]
  <2>1. r \in Request
    BY DEF Request
  <2>2. Continue(h, r) /\ link[l] # None /\ UNCHANGED <<tables, revoked, uses, tries, stale>>
    BY <1>2 DEF OpenLink
  <2>3. raced' \subseteq Tokens \cup {RoleChanges}
    BY <1>2, TakeTypes DEF Tokens, OpenLink
  <2>4. Promised(h)'
    BY <2>1, <2>2, TurnTypes DEF Promised, tables
  <2>5. requests' \in 0 .. MaxRequests
    BY <1>2, EnterTypes DEF OpenLink
  <2> QED
    BY <2>1, <2>2, <2>3, <2>4, <2>5, TurnSound DEF tables
<1> QED
  BY <1>1, <1>2

LEMMA RotateSound ==
  ASSUME Base, NEW h \in Tabs, Rotate(h)
  PROVE  Sound(h)
<1> USE DEF Base
<1>1. req[h] \in Request /\ req[h].pc = "rotate"
  BY DEF Rotate, SessionsTypeOK
<1> PICK p \in Pairs : p = req[h].item
  BY <1>1, RequestTypes
<1> DEFINE r == [req[h] EXCEPT !.pc = "renew"]
<1>2. req[h] \in [pc : {"rotate", "renew"}, item : Pairs]
  BY <1>1 DEF Request, Idle
<1>3. r \in [pc : {"rotate", "renew"}, item : Pairs] /\ r.pc = "renew" /\ r.item = p
  BY <1>2
<1>4. r \in Request
  BY <1>3 DEF Request
<1>5. /\ black' = black \cup {<<"refresh", p>>}
      /\ UNCHANGED <<account, pair, code, link, revoked, uses, tries, raced, stale>>
      /\ Continue(h, r) \/ Continue(h, Idle)
      /\ requests' = requests
  BY DEF Rotate, history, Goes
<1>6. req' \in [Tabs -> Request] /\ \A g \in Tabs \ {h} : req'[g] = req[g]
  BY <1>4, <1>5, TurnTypes, IdleRequest
<1>7. pair[p] # None
  BY <1>1 DEF Promised
<1>8. Promised(h)'
  BY <1>3, <1>4, <1>5, <1>7, TurnTypes, IdleRequest, IdlePromises DEF Promised
<1>9. black' \subseteq {"access", "refresh"} \X Pairs
  BY <1>5 DEF SessionsTypeOK
<1>10. SessionsTypeOK'
  BY <1>5, <1>6, <1>9 DEF SessionsTypeOK
<1> QED
  BY <1>5, <1>6, <1>8, <1>10, SoundBy DEF Exists

LEMMA RenewSound ==
  ASSUME Base, NEW h \in Tabs, Renew(h)
  PROVE  Sound(h)
<1> USE DEF Base
<1>1. req[h] \in Request /\ req[h].pc = "renew"
  BY DEF Renew, SessionsTypeOK
<1> PICK p \in Pairs : p = req[h].item
  BY <1>1, RequestTypes
<1>2. pair[p] # None
  BY <1>1 DEF Promised
<1> PICK u \in Users : u = pair[p].user
  BY <1>2, RowTypes
<1>3. Exists(u)
  BY <1>2 DEF Owned
<1>4. /\ Continue(h, Idle) /\ requests' = requests
      /\ UNCHANGED <<account, code, link, black, revoked, tries, raced, stale>>
  BY DEF Renew, Goes
<1>5. Promised(h)'
  BY <1>4, TurnTypes, IdleRequest, IdlePromises
<1>6. CASE UNCHANGED <<pair, uses>>
  BY <1>4, <1>5, <1>6, IdleRequest, TurnSound DEF SessionsTypeOK
<1>7. CASE SignPair(u, account[u].version) /\ uses' = [uses EXCEPT ![<<"refresh", p>>] = @ + 1]
  <2>1. <<"refresh", p>> \in Tokens
    BY DEF Tokens
  <2>2. uses' \in [Tokens -> Nat]
    BY <1>7, <2>1 DEF SessionsTypeOK
  <2> QED
    BY <1>3, <1>4, <1>5, <1>7, <2>2, OpenSound DEF SessionsTypeOK
<1> QED
  BY <1>6, <1>7 DEF Renew

LEMMA LogoutSound ==
  ASSUME Base, NEW h \in Tabs, NEW p \in Pairs, NEW kinds \in SUBSET {"access", "refresh"},
         Logout(h, p, kinds)
  PROVE  Sound(h)
<1> USE DEF Base
<1>1. req[h] = Idle /\ requests' \in 0 .. MaxRequests
  BY EnterTypes DEF Logout
<1>2. /\ black' = black \cup (kinds \X {p})
      /\ UNCHANGED <<account, pair, code, link, req, revoked, uses, tries, raced, stale>>
  BY DEF Logout, history
<1>3. black' \subseteq {"access", "refresh"} \X Pairs
  BY <1>2 DEF SessionsTypeOK
<1>4. SessionsTypeOK'
  BY <1>1, <1>2, <1>3 DEF SessionsTypeOK
<1>5. Promised(h)'
  BY <1>1, <1>2, IdlePromises
<1> QED
  BY <1>2, <1>4, <1>5, SoundBy DEF Exists

LEMMA RequestResetSound ==
  ASSUME Base, NEW h \in Tabs, NEW u \in Users, RequestPasswordReset(h, u)
  PROVE  Sound(h)
<1> USE DEF Base
<1>1. req[h] = Idle /\ requests' \in 0 .. MaxRequests
  BY EnterTypes DEF RequestPasswordReset
<1>2. /\ AddLink(u) /\ Exists(u)
      /\ UNCHANGED <<account, pair, code, black, req, revoked, uses, tries, raced, stale>>
  BY DEF RequestPasswordReset, history
<1>3. /\ link' \in [Links -> Link \cup {None}]
      /\ \A l \in Links : link'[l] # link[l] => link'[l].user = u /\ link[l] = None
  BY <1>2, LinkTypes
<1>4. SessionsTypeOK'
  BY <1>1, <1>2, <1>3 DEF SessionsTypeOK
<1>5. Promised(h)'
  BY <1>1, <1>2, IdlePromises
<1> QED
  BY <1>2, <1>3, <1>4, <1>5, SoundBy DEF Exists

\* A new password comes with the next version.
LEMMA SetPasswordTypes ==
  ASSUME Base, NEW u \in Users, Exists(u), NEW pwd \in Passwords, SetPassword(u, pwd)
  PROVE  /\ account' \in [Users -> Account \cup {None}]
         /\ \A v \in Users : Exists(v) => Exists(v)'
         /\ \A v \in Users \ {u} : account'[v] = account[v]
         /\ account'[u].password = pwd /\ account'[u].version = account[u].version + 1
         /\ account'[u].verified = account[u].verified /\ account'[u].roles = account[u].roles
         /\ revoked' = revoked \cup PairsOf(u) /\ revoked' \subseteq Pairs
<1> USE DEF Base
<1>1. account[u] \in Account
  BY RowTypes
<1> DEFINE row == [account[u] EXCEPT !.password = pwd, !.version = @ + 1]
<1>2. /\ row \in Account /\ row.password = pwd /\ row.version = account[u].version + 1
      /\ row.verified = account[u].verified /\ row.roles = account[u].roles
  <2>1. account[u].version + 1 \in Nat
    BY <1>1, AccountTypes
  <2> PICK version \in Nat : version = account[u].version + 1
    BY <2>1
  <2>2. row = [account[u] EXCEPT !.password = pwd, !.version = version]
    BY <1>1 DEF Account
  <2> QED
    BY <1>1, <2>2 DEF Account
<1>3. account' = [account EXCEPT ![u] = row]
  BY DEF SetPassword
<1>4. revoked' = revoked \cup PairsOf(u) /\ revoked' \subseteq Pairs
  BY DEF SetPassword, SessionsTypeOK, PairsOf
<1> QED
  BY <1>2, <1>3, <1>4, AccountKept

LEMMA ConfirmSound ==
  ASSUME Base, NEW h \in Tabs, NEW pwd \in Passwords, ConfirmPasswordReset(h, pwd)
  PROVE  Sound(h)
<1> USE DEF Base
<1>1. req[h] \in Request /\ req[h].pc = "confirm"
  BY DEF ConfirmPasswordReset, SessionsTypeOK
<1> PICK l \in Links : l = req[h].item
  BY <1>1, RequestTypes
<1>2. link[l] # None /\ link[l] \in Link
  BY <1>1, RowTypes DEF Promised
<1> PICK u \in Users : u = link[l].user
  BY <1>2, RowTypes
<1>3. Exists(u) /\ SetPassword(u, pwd)
  BY <1>2 DEF Owned, ConfirmPasswordReset
<1>4. /\ account' \in [Users -> Account \cup {None}] /\ revoked' \subseteq Pairs
      /\ \A v \in Users : Exists(v) => Exists(v)'
  BY <1>3, SetPasswordTypes
<1> DEFINE row == [link[l] EXCEPT !.status = "used"]
<1>5. row \in Link /\ row.user = u /\ row.status = "used"
  BY <1>2 DEF Link
<1>6. row # None
  BY <1>5, NoneAssumption
<1>7. /\ link' = [link EXCEPT ![l] = row] /\ uses' = [uses EXCEPT ![<<"link", l>>] = @ + 1]
      /\ Continue(h, Idle) /\ UNCHANGED <<pair, code, black, tries, raced, stale, requests>>
  BY DEF ConfirmPasswordReset, Goes
<1>8. /\ link' \in [Links -> Link \cup {None}] /\ link'[l] = row
      /\ \A k \in Links \ {l} : link'[k] = link[k]
  BY <1>5, <1>7 DEF SessionsTypeOK
<1>9. uses' \in [Tokens -> Nat]
  <2>1. <<"link", l>> \in Tokens
    BY DEF Tokens
  <2> QED
    BY <1>7, <2>1 DEF SessionsTypeOK
<1>10. /\ req' \in [Tabs -> Request] /\ Promised(h)'
       /\ \A g \in Tabs \ {h} : req'[g] = req[g]
  BY <1>7, TurnTypes, IdleRequest, IdlePromises
<1>11. SessionsTypeOK'
  BY <1>4, <1>7, <1>8, <1>9, <1>10 DEF SessionsTypeOK
<1> QED
  BY <1>2, <1>4, <1>5, <1>6, <1>7, <1>8, <1>10, <1>11, SoundBy

-----------------------------------------------------------------------------
(* Requests of a session, and invitations. *)

LEMMA ProfileSound ==
  ASSUME Base, NEW h \in Tabs, NEW p \in Pairs, UpdateProfile(h, p) \/ EnterAdmin(h, p)
  PROVE  Sound(h)
<1> USE DEF Base
<1>1. pair[p] # None /\ Enter(h) /\ UNCHANGED <<tables, history>>
  BY DEF UpdateProfile, EnterAdmin, Admitted
<1> PICK u \in Users : u = pair[p].user
  BY <1>1, RowTypes
<1>2. account[u] \in Account
  BY <1>1, RowTypes DEF Owned
<1> DEFINE save == [pc |-> "save", user |-> u, seen |-> account[u], row |-> account[u],
                    purpose |-> "profile"]
           admin == [pc |-> "admin", user |-> u]
<1>3. save \in Request /\ admin \in Request
  BY <1>2 DEF Request
<1>4. Continue(h, save) \/ Continue(h, admin)
  BY DEF UpdateProfile, EnterAdmin
<1>5. Promised(h)'
  BY <1>3, <1>4, TurnTypes DEF Promised, Carries
<1>6. requests' \in 0 .. MaxRequests
  BY <1>1, EnterTypes
<1> QED
  BY <1>1, <1>3, <1>4, <1>5, <1>6, TurnSound DEF tables, history, SessionsTypeOK

LEMMA ResetUserSound ==
  ASSUME Base, NEW h \in Tabs, NEW u \in Users, NEW pwd \in Passwords,
         ResetUserPassword(h, u, pwd)
  PROVE  Sound(h)
<1> USE DEF Base
<1>1. Exists(u) /\ SetPassword(u, pwd)
  BY DEF ResetUserPassword
<1>2. /\ account' \in [Users -> Account \cup {None}] /\ revoked' \subseteq Pairs
      /\ \A v \in Users : Exists(v) => Exists(v)'
  BY <1>1, SetPasswordTypes
<1>3. /\ Continue(h, Idle)
      /\ UNCHANGED <<pair, code, link, black, uses, tries, raced, stale, requests>>
  BY DEF ResetUserPassword, Goes
<1>4. /\ req' \in [Tabs -> Request] /\ Promised(h)'
      /\ \A g \in Tabs \ {h} : req'[g] = req[g]
  BY <1>3, TurnTypes, IdleRequest, IdlePromises
<1>5. SessionsTypeOK'
  BY <1>2, <1>3, <1>4 DEF SessionsTypeOK
<1> QED
  BY <1>2, <1>3, <1>4, <1>5, SoundBy

\* What a change of role writes are columns of roles, and only taking the
\* role away clears the administrator's.
LEMMA ColumnTypes ==
  ASSUME NEW row, NEW role \in Roles, NEW enabled \in BOOLEAN
  PROVE  /\ RoleColumns(row, role, enabled).on \subseteq Roles
         /\ RoleColumns(row, role, enabled).off \subseteq Roles
         /\ "admin" \in RoleColumns(row, role, enabled).off => role = "admin" /\ ~enabled
BY DEF RoleColumns, Roles

LEMMA RoleSound ==
  ASSUME Base, NEW h \in Tabs,
         \/ \E u \in Users, role \in Roles, enabled \in BOOLEAN : ReadRole(h, u, role, enabled)
         \/ UpdateUserRole(h) \/ Refused(h)
  PROVE  Sound(h)
<1> USE DEF Base
<1>1. ASSUME NEW u \in Users, NEW role \in Roles, NEW enabled \in BOOLEAN,
             ReadRole(h, u, role, enabled)
      PROVE  Sound(h)
  <2> PICK on \in SUBSET Roles, off \in SUBSET Roles :
        /\ on = RoleColumns(account[u], role, enabled).on
        /\ off = RoleColumns(account[u], role, enabled).off
    BY ColumnTypes
  <2> DEFINE r == [pc |-> "assign", user |-> u, on |-> on, off |-> off]
  <2>1. r \in Request
    BY DEF Request
  <2>2. /\ Continue(h, r) /\ requests' = requests /\ Exists(u)
        /\ Take(h, RoleChanges) /\ UNCHANGED <<tables, revoked, uses, tries, stale>>
    BY <1>1 DEF ReadRole, Goes
  <2>3. Promised(h)'
    BY <2>1, <2>2, TurnTypes DEF Promised, Exists, tables
  <2>4. raced' \subseteq Tokens \cup {RoleChanges}
    BY <2>2, TakeTypes
  <2> QED
    BY <2>1, <2>2, <2>3, <2>4, TurnSound DEF tables, SessionsTypeOK
<1>2. CASE UpdateUserRole(h)
  <2>1. req[h] \in Request /\ req[h].pc = "assign"
    BY <1>2 DEF UpdateUserRole, SessionsTypeOK
  <2> PICK u \in Users, on \in SUBSET Roles, off \in SUBSET Roles :
        u = req[h].user /\ on = req[h].on /\ off = req[h].off
    BY <2>1, RequestTypes
  <2>2. account[u] \in Account
    BY <2>1, RowTypes DEF Promised
  <2>3. [account[u] EXCEPT !.roles = (@ \cup on) \ off] \in Account
    BY <2>2 DEF Account
  <2>4. account' = [account EXCEPT ![u] = [account[u] EXCEPT !.roles = (@ \cup on) \ off]]
    BY <1>2 DEF UpdateUserRole
  <2>5. /\ account' \in [Users -> Account \cup {None}]
        /\ \A v \in Users : Exists(v) => Exists(v)'
    BY <2>3, <2>4, AccountKept
  <2>6. /\ Continue(h, Idle)
        /\ UNCHANGED <<pair, code, link, black, revoked, uses, tries, raced, stale, requests>>
    BY <1>2 DEF UpdateUserRole, Goes, history
  <2>7. /\ req' \in [Tabs -> Request] /\ Promised(h)'
        /\ \A g \in Tabs \ {h} : req'[g] = req[g]
    BY <2>6, TurnTypes, IdleRequest, IdlePromises
  <2>8. SessionsTypeOK'
    BY <2>5, <2>6, <2>7 DEF SessionsTypeOK
  <2> QED
    BY <2>5, <2>6, <2>7, <2>8, SoundBy
<1>3. CASE Refused(h)
  <2>1. Continue(h, Idle) /\ requests' = requests /\ UNCHANGED <<tables, history>>
    BY <1>3 DEF Refused, Goes
  <2>2. Promised(h)'
    BY <2>1, TurnTypes, IdleRequest, IdlePromises
  <2> QED
    BY <2>1, <2>2, IdleRequest, TurnSound DEF tables, history, SessionsTypeOK
<1> QED
  BY <1>1, <1>2, <1>3

LEMMA InviteSound ==
  ASSUME Base, NEW h \in Tabs, NEW u \in Users, InviteCompany(h, u) \/ InviteTalent(h, u)
  PROVE  Sound(h)
<1> USE DEF Base
<1>1. /\ req[h] = Idle /\ requests' \in 0 .. MaxRequests /\ AddLink(u)
      /\ UNCHANGED <<pair, code, black, req, revoked, uses, tries, raced, stale>>
  BY EnterTypes DEF InviteCompany, InviteTalent, history
<1>2. /\ account' \in [Users -> Account \cup {None}] /\ Exists(u)'
      /\ \A v \in Users : Exists(v) => Exists(v)'
  <2>1. ASSUME NEW roles \in SUBSET Roles, account' = [account EXCEPT ![u] = NewAccount(Secret, TRUE, roles)]
        PROVE  /\ account' \in [Users -> Account \cup {None}] /\ Exists(u)'
               /\ \A v \in Users : Exists(v) => Exists(v)'
    <3>1. NewAccount(Secret, TRUE, roles) \in Account
      BY DEF NewAccount, Account, Roles
    <3> QED
      BY <2>1, <3>1, AccountKept
  <2>2. CASE Exists(u) /\ UNCHANGED account
    BY <2>2 DEF SessionsTypeOK, Exists
  <2>3. CASE Exists(u) /\ account' = [account EXCEPT ![u].roles = @ \cup {"company"}]
    <3>1. [account[u] EXCEPT !.roles = @ \cup {"company"}] \in Account
      BY <2>3, RowTypes DEF Account, Roles
    <3>2. account' = [account EXCEPT ![u] = [account[u] EXCEPT !.roles = @ \cup {"company"}]]
      BY <2>3
    <3> QED
      BY <3>1, <3>2, AccountKept
  <2>4. {} \in SUBSET Roles /\ {"company"} \in SUBSET Roles
    BY DEF Roles
  <2> QED
    BY <2>1, <2>2, <2>3, <2>4 DEF InviteCompany, InviteTalent, IsAdmin
<1>3. /\ link' \in [Links -> Link \cup {None}]
      /\ \A l \in Links : link'[l] # link[l] => link'[l].user = u /\ link[l] = None
  BY <1>1, LinkTypes
<1>4. SessionsTypeOK'
  BY <1>1, <1>2, <1>3 DEF SessionsTypeOK
<1>5. Promised(h)'
  BY <1>1, IdlePromises
<1> QED
  BY <1>1, <1>2, <1>3, <1>4, <1>5, SoundBy DEF Exists

-----------------------------------------------------------------------------
(* The base. *)

LEMMA StepsSound ==
  ASSUME Base, SessionsNext
  PROVE  \E h \in Tabs : Sound(h)
<1>1. PICK h \in Tabs : Proceed(h) \/ ByToken(h) \/ \E u \in Users : ByAddress(h, u)
  BY DEF SessionsNext
<1>2. CASE Proceed(h)
  BY <1>2, SaveSound, CompleteSound, SendSound, WrongSound, RightSound, SignSound, RotateSound,
     RenewSound, ConfirmSound, ResetUserSound, RoleSound DEF Proceed
<1>3. CASE ByToken(h)
  BY <1>3, RefreshSound, ProfileSound, LogoutSound DEF ByToken
<1>4. ASSUME NEW u \in Users, ByAddress(h, u) PROVE Sound(h)
  BY <1>4, RegisterNewSound, RegisterAgainSound, AskSound, SignSound, EnterCodeSound,
     RequestResetSound, InviteSound DEF ByAddress
<1> QED
  BY <1>1, <1>2, <1>3, <1>4

LEMMA BaseKept ==
  ASSUME Base, [SessionsNext]_vars
  PROVE  Base'
<1>1. CASE SessionsNext
  BY <1>1, StepsSound, SoundKeeps
<1>2. CASE UNCHANGED vars
  <2>1. SessionsTypeOK'
    BY <1>2 DEF vars, tables, history, Base, SessionsTypeOK
  <2>2. Owned'
    BY <1>2 DEF vars, tables, Base, Owned, Exists
  <2>3. ASSUME NEW h \in Tabs PROVE Promised(h)'
    BY <1>2 DEF vars, tables, Base, Promised, Exists
  <2> QED
    BY <2>1, <2>2, <2>3 DEF Base
<1> QED
  BY <1>1, <1>2

LEMMA BaseBegins == Init => Base
<1> SUFFICES ASSUME Init PROVE Base
  OBVIOUS
<1>1. SessionsTypeOK
  BY IdleRequest, StartAccountsAssumption, SessionsAssumption DEF Init, SessionsTypeOK
<1>2. Owned /\ \A h \in Tabs : Promised(h)
  BY DEF Init, Owned, Promised, Idle
<1> QED
  BY <1>1, <1>2 DEF Base

LEMMA AlwaysBase == SessionsSpec => []Base
<1>1. Base /\ [SessionsNext]_vars => Base'
  BY BaseKept
<1> QED
  BY BaseBegins, <1>1, PTL DEF SessionsSpec

\* Every row, token and request in progress has the form the code gives it.
THEOREM AccountsTyped == SessionsSpec => []SessionsTypeOK
<1>1. Base => SessionsTypeOK
  BY DEF Base
<1> QED
  BY AlwaysBase, <1>1, PTL

-----------------------------------------------------------------------------
(* What becomes of an account, unless an older row is put back. *)

\* Its version never goes back, a verified address stays verified, a verified
\* account gets a password only with the next version, and an administrator
\* loses the role only by a change of roles.
Moves(u) ==
  /\ account'[u].version >= account[u].version
  /\ account[u].verified =>
       /\ account'[u].verified
       /\ account'[u].password # account[u].password =>
            account'[u].version = account[u].version + 1
  /\ "admin" \in account[u].roles =>
       \/ "admin" \in account'[u].roles
       \/ \E h \in Tabs : UpdateUserRole(h) /\ req[h].user = u /\ "admin" \in req[h].off

LEMMA StandsStill ==
  ASSUME Base, NEW u \in Users, Exists(u), account'[u] = account[u]
  PROVE  Moves(u)
BY RowTypes, AccountTypes DEF Base, Moves

LEMMA SaveMoves ==
  ASSUME Base, NEW u \in Users, Exists(u), u \notin stale', NEW h \in Tabs, SaveRow(h)
  PROVE  Moves(u)
<1> USE DEF Base
<1>1. req[h] \in Request /\ req[h].pc = "save"
  BY DEF SaveRow, SessionsTypeOK
<1> PICK v \in Users, row \in Account, seen \in Account :
      v = req[h].user /\ row = req[h].row /\ seen = req[h].seen
  BY <1>1, RequestTypes
<1>2. account' = [account EXCEPT ![v] = row] /\ (account[v] # seen => v \in stale')
  BY DEF SaveRow
<1>3. Carries(row, seen)
  BY <1>1 DEF Promised
<1>4. CASE u = v
  <2>1. account'[u] = row /\ account[u] = seen
    BY <1>2, <1>4 DEF SessionsTypeOK
  <2> QED
    BY <1>3, <2>1, AccountTypes DEF Carries, Moves
<1>5. CASE u # v
  BY <1>2, <1>5, StandsStill DEF SessionsTypeOK
<1> QED
  BY <1>4, <1>5

LEMMA VerifiesMoves ==
  ASSUME Base, NEW u \in Users, Exists(u), NEW h \in Tabs, CompleteAuth(h) \/ RightCode(h)
  PROVE  Moves(u)
<1> USE DEF Base
<1>1. account[u] \in Account
  BY RowTypes
<1>2. ASSUME NEW v, NEW verified \in BOOLEAN, account[v].verified => verified,
             account' = [account EXCEPT ![v].verified = verified]
      PROVE  Moves(u)
  <2>1. CASE v = u
    <3>1. account'[u] = [account[u] EXCEPT !.verified = verified]
      BY <1>2, <2>1 DEF SessionsTypeOK
    <3>2. /\ account'[u].version = account[u].version /\ account'[u].roles = account[u].roles
          /\ account'[u].password = account[u].password /\ account'[u].verified = verified
      BY <1>1, <3>1 DEF Account
    <3> QED
      BY <1>1, <1>2, <2>1, <3>2, AccountTypes DEF Moves
  <2>2. CASE v # u
    BY <1>2, <2>2, StandsStill DEF SessionsTypeOK
  <2> QED
    BY <2>1, <2>2
<1>3. CASE CompleteAuth(h)
  BY <1>2, <1>3 DEF CompleteAuth
<1>4. CASE RightCode(h)
  <2> PICK v, purpose : v = code[req[h].item].user /\ purpose = code[req[h].item].purpose
    OBVIOUS
  <2>1. account' = [account EXCEPT ![v].verified = @ \/ purpose = "register"]
    BY <1>4 DEF RightCode
  <2>2. req[h] \in Request /\ req[h].pc = "right"
    BY <1>4 DEF RightCode, SessionsTypeOK
  <2>3. account[v] \in Account
    BY <2>2, RequestTypes, RowTypes DEF Promised, Owned
  <2> PICK verified \in BOOLEAN : verified = (account[v].verified \/ purpose = "register")
    BY <2>3, AccountTypes
  <2>4. account' = [account EXCEPT ![v].verified = verified]
    BY <2>1
  <2> QED
    BY <1>2, <2>4
<1> QED
  BY <1>3, <1>4

LEMMA PasswordMoves ==
  ASSUME Base, NEW u \in Users, Exists(u), NEW v \in Users, Exists(v), NEW pwd \in Passwords,
         SetPassword(v, pwd)
  PROVE  Moves(u)
<1>1. CASE u = v
  BY <1>1, SetPasswordTypes, RowTypes, AccountTypes DEF Moves, Base
<1>2. CASE u # v
  BY <1>2, SetPasswordTypes, StandsStill
<1> QED
  BY <1>1, <1>2

LEMMA RoleMoves ==
  ASSUME Base, NEW u \in Users, Exists(u), NEW h \in Tabs, UpdateUserRole(h)
  PROVE  Moves(u)
<1> USE DEF Base
<1>1. req[h] \in Request /\ req[h].pc = "assign" /\ account[u] \in Account
  BY RowTypes DEF UpdateUserRole, SessionsTypeOK
<1> PICK v \in Users, on \in SUBSET Roles, off \in SUBSET Roles :
      v = req[h].user /\ on = req[h].on /\ off = req[h].off
  BY <1>1, RequestTypes
<1>2. account' = [account EXCEPT ![v].roles = (@ \cup on) \ off]
  BY DEF UpdateUserRole
<1>3. CASE u = v
  <2>1. account'[u] = [account[u] EXCEPT !.roles = (@ \cup on) \ off]
    BY <1>2, <1>3 DEF SessionsTypeOK
  <2>2. /\ account'[u].version = account[u].version /\ account'[u].verified = account[u].verified
        /\ account'[u].password = account[u].password
        /\ account'[u].roles = (account[u].roles \cup on) \ off
    BY <1>1, <2>1 DEF Account
  <2>3. "admin" \in account[u].roles => "admin" \in account'[u].roles \/ "admin" \in off
    BY <2>2
  <2>4. account'[u].version >= account[u].version
    BY <1>1, <2>2, AccountTypes
  <2> QED
    BY <1>3, <2>2, <2>3, <2>4 DEF Moves
<1>4. CASE u # v
  BY <1>2, <1>4, StandsStill DEF SessionsTypeOK
<1> QED
  BY <1>3, <1>4

LEMMA InviteMoves ==
  ASSUME Base, NEW u \in Users, Exists(u), NEW h \in Tabs, NEW v \in Users,
         \/ InviteCompany(h, v) \/ InviteTalent(h, v)
         \/ \E pwd \in Passwords, company \in BOOLEAN : RegisterNew(h, v, pwd, company)
  PROVE  Moves(u)
<1> USE DEF Base
<1>1. \/ account' = account
      \/ ~Exists(v) /\ \E row : account' = [account EXCEPT ![v] = row]
      \/ account' = [account EXCEPT ![v].roles = @ \cup {"company"}]
  BY DEF InviteCompany, InviteTalent, RegisterNew
<1>2. CASE u # v
  BY <1>1, <1>2, StandsStill DEF SessionsTypeOK
<1>3. CASE u = v /\ account' = [account EXCEPT ![v].roles = @ \cup {"company"}]
  <2>1. account[u] \in Account
    BY RowTypes
  <2>2. account'[u] = [account[u] EXCEPT !.roles = @ \cup {"company"}]
    BY <1>3 DEF SessionsTypeOK
  <2>3. /\ account'[u].version = account[u].version /\ account'[u].verified = account[u].verified
        /\ account'[u].password = account[u].password
        /\ account'[u].roles = account[u].roles \cup {"company"}
    BY <2>1, <2>2 DEF Account
  <2> QED
    BY <2>1, <2>3, AccountTypes DEF Moves
<1> QED
  BY <1>1, <1>2, <1>3, StandsStill

\* Steps that write no account.
LEMMA AccountsMove ==
  ASSUME Base, [SessionsNext]_vars, NEW u \in Users, Exists(u), u \notin stale'
  PROVE  Moves(u)
<1> USE DEF Base
<1>1. ASSUME account' = account PROVE Moves(u)
  BY <1>1, StandsStill
<1>2. ASSUME NEW h \in Tabs, Proceed(h) PROVE Moves(u)
  <2>1. CASE \E pwd \in Passwords : ConfirmPasswordReset(h, pwd)
    <3> PICK pwd \in Passwords : ConfirmPasswordReset(h, pwd)
      BY <2>1
    <3>1. req[h] \in Request /\ req[h].pc = "confirm"
      BY DEF ConfirmPasswordReset, SessionsTypeOK
    <3> PICK l \in Links : l = req[h].item /\ link[l] # None
      BY <3>1, RequestTypes DEF Promised
    <3> PICK v \in Users : v = link[l].user
      BY RowTypes
    <3>2. Exists(v)
      BY DEF Owned
    <3> QED
      BY <3>2, PasswordMoves DEF ConfirmPasswordReset
  <2>2. CASE \E v \in Users, pwd \in Passwords : ResetUserPassword(h, v, pwd)
    BY <2>2, PasswordMoves DEF ResetUserPassword
  <2>3. CASE \/ ClearCodes(h) \/ SendCode(h) \/ WrongCode(h) \/ SignIn(h) \/ Rotate(h) \/ Renew(h)
             \/ Refused(h)
             \/ \E v \in Users, role \in Roles, enabled \in BOOLEAN : ReadRole(h, v, role, enabled)
    BY <1>1, <2>3 DEF ClearCodes, SendCode, WrongCode, SignIn, Rotate, Renew, Refused, ReadRole,
       tables
  <2> QED
    BY <1>2, <2>1, <2>2, <2>3, SaveMoves, VerifiesMoves, RoleMoves DEF Proceed
<1>3. ASSUME NEW h \in Tabs, ByToken(h) PROVE Moves(u)
  BY <1>1, <1>3 DEF ByToken, Refresh, UpdateProfile, EnterAdmin, Logout, OpenLink, tables
<1>4. ASSUME NEW h \in Tabs, NEW v \in Users, ByAddress(h, v) PROVE Moves(u)
  BY <1>1, <1>4, InviteMoves DEF ByAddress, RegisterAgain, LoginUnverified, LoginWithCode, Login,
     Resend, EnterCode, RequestPasswordReset, tables
<1>5. CASE UNCHANGED vars
  BY <1>1, <1>5 DEF vars, tables
<1> QED
  BY <1>2, <1>3, <1>4, <1>5 DEF SessionsNext

\* A verified address stays verified, and its password changes only together
\* with its version, unless a save puts an older row back.
THEOREM KeepsVerified == SessionsSpec => VerifiedKept
<1>1. Base /\ [SessionsNext]_vars =>
        [\A u \in Users : Exists(u) /\ account[u].verified /\ u \notin stale' =>
           /\ account'[u].verified
           /\ account'[u].password # account[u].password =>
                account'[u].version = account[u].version + 1]_vars
  BY AccountsMove DEF Moves
<1> QED
  BY AlwaysBase, <1>1, PTL DEF SessionsSpec, VerifiedKept

-----------------------------------------------------------------------------
(* Sessions opened before a reset. *)

\* Unless an older row was put back, no session is of a later version than
\* its account, one opened before a reset is of an earlier one, and no later
\* one will be opened.
Dated ==
  /\ \A p \in revoked : pair[p] # None
  /\ \A p \in Pairs : pair[p] # None /\ pair[p].user \notin stale =>
       /\ pair[p].version <= account[pair[p].user].version
       /\ p \in revoked => pair[p].version < account[pair[p].user].version
  /\ \A h \in Tabs : req[h].pc = "complete" /\ req[h].user \notin stale =>
       req[h].version <= account[req[h].user].version

\* What a new session is of.
NewPairs ==
  \A p \in Pairs : pair'[p] # pair[p] =>
    /\ pair[p] = None /\ pair'[p].user \in Users /\ Exists(pair[p].user)'
    /\ pair'[p].user \notin stale' => pair'[p].version <= account'[pair'[p].user].version

\* Whose sessions are revoked.
NewRevoked ==
  /\ revoked' \subseteq Pairs
  /\ revoked \subseteq revoked'
  /\ \A p \in revoked' \ revoked :
       /\ pair[p] # None /\ pair'[p] = pair[p]
       /\ account'[pair[p].user].version = account[pair[p].user].version + 1

\* What a new request to complete is for.
NewCompletes ==
  \A h \in Tabs : req'[h] # req[h] /\ req'[h].pc = "complete" =>
    req'[h].version <= account'[req'[h].user].version

LEMMA RowsStay ==
  ASSUME Base, [SessionsNext]_vars
  PROVE  RowsKept
<1>1. CASE SessionsNext
  BY <1>1, StepsSound DEF Sound
<1>2. CASE UNCHANGED vars
  BY <1>2 DEF vars, tables, RowsKept, Exists
<1> QED
  BY <1>1, <1>2

LEMMA PairsDated ==
  ASSUME Base, Dated, [SessionsNext]_vars
  PROVE  NewPairs
<1> USE DEF Base
<1>1. ASSUME pair' = pair PROVE NewPairs
  BY <1>1 DEF NewPairs
<1>2. ASSUME NEW u \in Users, Exists(u), NEW version \in Nat, SignPair(u, version),
             u \notin stale => version <= account[u].version, stale' = stale
      PROVE  NewPairs
  <2>1. \A p \in Pairs : pair'[p] # pair[p] =>
          pair'[p].user = u /\ pair'[p].version = version /\ pair[p] = None
    BY <1>2, SignTypes
  <2>2. Exists(u)'
    BY <1>2, RowsStay DEF RowsKept
  <2>3. account[u].version \in Nat /\ account'[u].version \in Nat
    <3>1. account[u] \in Account /\ account'[u] \in Account
      BY <1>2, <2>2, BaseKept, RowTypes DEF SessionsTypeOK, Exists
    <3> QED
      BY <3>1, AccountTypes
  <2>4. u \notin stale' => account'[u].version >= account[u].version
    BY <1>2, AccountsMove DEF Moves
  <2>5. u \notin stale' => version <= account'[u].version
    BY <1>2, <2>3, <2>4
  <2> QED
    BY <2>1, <2>2, <2>5 DEF NewPairs, Exists
<1>3. ASSUME NEW h \in Tabs, CompleteAuth(h) PROVE NewPairs
  <2>1. req[h] \in Request /\ req[h].pc = "complete" /\ Promised(h)
    BY <1>3 DEF CompleteAuth, SessionsTypeOK
  <2> PICK u \in Users, version \in Nat : u = req[h].user /\ version = req[h].version
    BY <2>1, RequestTypes
  <2>2. Exists(u) /\ SignPair(u, version) /\ stale' = stale
    BY <1>3, <2>1 DEF CompleteAuth, Promised, history
  <2>3. u \notin stale => version <= account[u].version
    BY <2>1 DEF Dated
  <2> QED
    BY <1>2, <2>2, <2>3
<1>4. ASSUME NEW u \in Users, Exists(u), SignPair(u, account[u].version), stale' = stale
      PROVE  NewPairs
  <2>1. account[u].version \in Nat
    BY <1>4, RowTypes, AccountTypes
  <2> QED
    BY <1>2, <1>4, <2>1
<1>5. ASSUME NEW h \in Tabs, SignIn(h) PROVE NewPairs
  <2>1. req[h] \in Request /\ req[h].pc = "sign" /\ Promised(h)
    BY <1>5 DEF SignIn, SessionsTypeOK
  <2> PICK u \in Users : u = req[h].user
    BY <2>1, RequestTypes
  <2> QED
    BY <1>4, <1>5, <2>1 DEF SignIn, Promised, history
<1>6. ASSUME NEW h \in Tabs, Renew(h) PROVE NewPairs
  <2>1. req[h] \in Request /\ req[h].pc = "renew" /\ Promised(h)
    BY <1>6 DEF Renew, SessionsTypeOK
  <2> PICK p \in Pairs : p = req[h].item /\ pair[p] # None
    BY <2>1, RequestTypes DEF Promised
  <2> PICK u \in Users : u = pair[p].user /\ Exists(u)
    BY RowTypes DEF Owned
  <2> QED
    BY <1>1, <1>4, <1>6 DEF Renew
<1>7. ASSUME NEW h \in Tabs, Proceed(h) PROVE NewPairs
  <2>1. CASE \/ SaveRow(h) \/ ClearCodes(h) \/ SendCode(h) \/ WrongCode(h) \/ RightCode(h)
             \/ Rotate(h) \/ Refused(h) \/ UpdateUserRole(h)
             \/ \E pwd \in Passwords : ConfirmPasswordReset(h, pwd)
             \/ \E u \in Users, pwd \in Passwords : ResetUserPassword(h, u, pwd)
             \/ \E u \in Users, role \in Roles, enabled \in BOOLEAN : ReadRole(h, u, role, enabled)
    BY <1>1, <2>1 DEF SaveRow, ClearCodes, SendCode, WrongCode, RightCode, Rotate, Refused,
       UpdateUserRole, ConfirmPasswordReset, ResetUserPassword, ReadRole, tables
  <2> QED
    BY <1>3, <1>5, <1>6, <1>7, <2>1 DEF Proceed
<1>8. ASSUME NEW h \in Tabs, ByToken(h) PROVE NewPairs
  BY <1>1, <1>8 DEF ByToken, Refresh, UpdateProfile, EnterAdmin, Logout, OpenLink, tables
<1>9. ASSUME NEW h \in Tabs, NEW u \in Users, ByAddress(h, u) PROVE NewPairs
  BY <1>1, <1>4, <1>9 DEF ByAddress, RegisterNew, RegisterAgain, LoginUnverified, LoginWithCode,
     Login, Resend, EnterCode, RequestPasswordReset, InviteCompany, InviteTalent, tables, history
<1>10. CASE UNCHANGED vars
  BY <1>1, <1>10 DEF vars, tables
<1> QED
  BY <1>7, <1>8, <1>9, <1>10 DEF SessionsNext

LEMMA ResetsRevoke ==
  ASSUME Base, [SessionsNext]_vars
  PROVE  NewRevoked /\ stale \subseteq stale'
<1> USE DEF Base
<1>1. ASSUME revoked' = revoked PROVE NewRevoked
  BY <1>1 DEF NewRevoked, SessionsTypeOK
<1>2. ASSUME NEW u \in Users, Exists(u), NEW pwd \in Passwords, SetPassword(u, pwd), pair' = pair
      PROVE  NewRevoked
  BY <1>2, SetPasswordTypes DEF NewRevoked, PairsOf
<1>3. ASSUME NEW h \in Tabs, NEW pwd \in Passwords, ConfirmPasswordReset(h, pwd)
      PROVE  NewRevoked
  <2>1. req[h] \in Request /\ req[h].pc = "confirm"
    BY <1>3 DEF ConfirmPasswordReset, SessionsTypeOK
  <2> PICK u \in Users : u = link[req[h].item].user /\ Exists(u)
    BY <2>1, RequestTypes, RowTypes DEF Promised, Owned
  <2> QED
    BY <1>2, <1>3 DEF ConfirmPasswordReset
<1>4. ASSUME NEW h \in Tabs, NEW u \in Users, NEW pwd \in Passwords, ResetUserPassword(h, u, pwd)
      PROVE  NewRevoked
  BY <1>2, <1>4 DEF ResetUserPassword
<1>5. ASSUME NEW h \in Tabs, Proceed(h) PROVE NewRevoked
  <2>1. CASE \/ SaveRow(h) \/ ClearCodes(h) \/ SendCode(h) \/ WrongCode(h) \/ RightCode(h)
             \/ Rotate(h) \/ Refused(h) \/ UpdateUserRole(h) \/ CompleteAuth(h) \/ SignIn(h)
             \/ Renew(h)
             \/ \E u \in Users, role \in Roles, enabled \in BOOLEAN : ReadRole(h, u, role, enabled)
    BY <1>1, <2>1 DEF SaveRow, ClearCodes, SendCode, WrongCode, RightCode, Rotate, Refused,
       UpdateUserRole, CompleteAuth, SignIn, Renew, ReadRole, history
  <2> QED
    BY <1>3, <1>4, <1>5, <2>1 DEF Proceed
<1>6. ASSUME NEW h \in Tabs, ByToken(h) PROVE NewRevoked
  BY <1>1, <1>6 DEF ByToken, Refresh, UpdateProfile, EnterAdmin, Logout, OpenLink, history
<1>7. ASSUME NEW h \in Tabs, NEW u \in Users, ByAddress(h, u) PROVE NewRevoked
  BY <1>1, <1>7 DEF ByAddress, RegisterNew, RegisterAgain, LoginUnverified, LoginWithCode,
     Login, Resend, EnterCode, RequestPasswordReset, InviteCompany, InviteTalent, history
<1>8. CASE UNCHANGED vars
  BY <1>1, <1>8 DEF vars, history
<1>9. stale \subseteq stale'
  <2>1. ASSUME NEW h \in Tabs, Proceed(h) PROVE stale \subseteq stale'
    <3>1. CASE SaveRow(h)
      BY <3>1 DEF SaveRow
    <3>2. CASE ~SaveRow(h)
      BY <2>1, <3>2 DEF Proceed, ClearCodes, SendCode, WrongCode, RightCode, Rotate, Refused,
         UpdateUserRole, CompleteAuth, SignIn, Renew, ReadRole, ConfirmPasswordReset,
         ResetUserPassword, history
    <3> QED
      BY <3>1, <3>2
  <2>2. ASSUME NEW h \in Tabs, ByToken(h) PROVE stale \subseteq stale'
    BY <2>2 DEF ByToken, Refresh, UpdateProfile, EnterAdmin, Logout, OpenLink, history
  <2>3. ASSUME NEW h \in Tabs, NEW u \in Users, ByAddress(h, u) PROVE stale \subseteq stale'
    BY <2>3 DEF ByAddress, RegisterNew, RegisterAgain, LoginUnverified, LoginWithCode,
       Login, Resend, EnterCode, RequestPasswordReset, InviteCompany, InviteTalent, history
  <2>4. CASE UNCHANGED vars
    BY <2>4 DEF vars, history
  <2> QED
    BY <2>1, <2>2, <2>3, <2>4 DEF SessionsNext
<1> QED
  BY <1>5, <1>6, <1>7, <1>8, <1>9 DEF SessionsNext

LEMMA CompletesDated ==
  ASSUME Base, [SessionsNext]_vars
  PROVE  NewCompletes
<1> USE DEF Base
<1>1. ASSUME NEW h \in Tabs, NEW r \in Request, Continue(h, r), r.pc # "complete"
      PROVE  NewCompletes
  BY <1>1, TurnTypes DEF NewCompletes
<1>2. ASSUME req' = req PROVE NewCompletes
  BY <1>2 DEF NewCompletes
<1>3. ASSUME NEW h \in Tabs, NEW u \in Users, NEW version \in Nat,
             ProvesAddress(h, u, version), account'[u].version = version
      PROVE  NewCompletes
  <2>1. [pc |-> "clear", user |-> u, purpose |-> "register"] \in Request
    BY DEF Request, Purposes
  <2> DEFINE r == [pc |-> "complete", user |-> u, version |-> version]
  <2>2. r \in Request
    BY DEF Request
  <2>3. CASE Continue(h, r)
    <3>1. req'[h] = r /\ \A g \in Tabs \ {h} : req'[g] = req[g]
      BY <2>2, <2>3, TurnTypes
    <3> QED
      BY <1>3, <3>1 DEF NewCompletes
  <2> QED
    BY <1>1, <1>3, <2>1, <2>3 DEF ProvesAddress
<1>4. ASSUME NEW h \in Tabs, Proceed(h) PROVE NewCompletes
  <2>1. req[h] \in Request
    BY DEF SessionsTypeOK
  <2>2. CASE Continue(h, Idle)
    BY <1>1, <2>2, IdleRequest
  <2>3. CASE SaveRow(h)
    <3>1. req[h].pc = "save"
      BY <2>3 DEF SaveRow
    <3> PICK u \in Users, row \in Account : u = req[h].user /\ row = req[h].row
      BY <2>1, <3>1, RequestTypes
    <3>2. account' = [account EXCEPT ![u] = row]
      BY <2>3 DEF SaveRow
    <3>3. account'[u].version = row.version /\ row.version \in Nat
      BY <3>2, AccountTypes DEF SessionsTypeOK
    <3>4. ProvesAddress(h, u, row.version) \/ Continue(h, Idle)
      BY <2>3 DEF SaveRow
    <3> QED
      BY <1>3, <2>2, <3>3, <3>4
  <2>4. CASE ClearCodes(h)
    <3>1. req[h].pc = "clear" /\ req[h] \in [pc : {"clear", "send"}, user : Users, purpose : Purposes]
      BY <2>1, <2>4 DEF ClearCodes, Request, Idle
    <3> DEFINE r == [req[h] EXCEPT !.pc = "send"]
    <3>2. r \in Request /\ r.pc = "send"
      BY <3>1 DEF Request
    <3> QED
      BY <1>1, <2>4, <3>2 DEF ClearCodes, Goes
  <2>5. CASE RightCode(h)
    <3>1. req[h].pc = "right"
      BY <2>5 DEF RightCode
    <3> PICK u \in Users : u = code[req[h].item].user
      BY <2>1, <3>1, RequestTypes, RowTypes DEF Promised
    <3>2. [pc |-> "sign", user |-> u] \in Request
      BY DEF Request
    <3> QED
      BY <1>1, <2>5, <3>2 DEF RightCode, Goes
  <2>6. CASE Rotate(h)
    <3>1. req[h].pc = "rotate" /\ req[h] \in [pc : {"rotate", "renew"}, item : Pairs]
      BY <2>1, <2>6 DEF Rotate, Request, Idle
    <3> DEFINE r == [req[h] EXCEPT !.pc = "renew"]
    <3>2. r \in Request /\ r.pc = "renew"
      BY <3>1 DEF Request
    <3> QED
      BY <1>1, <2>2, <2>6, <3>2 DEF Rotate, Goes
  <2>7. ASSUME NEW u \in Users, NEW role \in Roles, NEW enabled \in BOOLEAN,
               ReadRole(h, u, role, enabled)
        PROVE  NewCompletes
    <3> PICK on \in SUBSET Roles, off \in SUBSET Roles :
          /\ on = RoleColumns(account[u], role, enabled).on
          /\ off = RoleColumns(account[u], role, enabled).off
      BY ColumnTypes
    <3>1. [pc |-> "assign", user |-> u, on |-> on, off |-> off] \in Request
      BY DEF Request
    <3> QED
      BY <1>1, <2>7, <3>1 DEF ReadRole, Goes
  <2> QED
    BY <1>4, <2>2, <2>3, <2>4, <2>5, <2>6, <2>7 DEF Proceed, CompleteAuth, SendCode, WrongCode,
       SignIn, Renew, ConfirmPasswordReset, ResetUserPassword, UpdateUserRole, Refused, Goes
<1>5. ASSUME NEW h \in Tabs, ByToken(h) PROVE NewCompletes
  <2>1. ASSUME NEW p \in Pairs, UpdateProfile(h, p) \/ EnterAdmin(h, p) PROVE NewCompletes
    <3>1. pair[p] # None
      BY <2>1 DEF UpdateProfile, EnterAdmin, Admitted
    <3> PICK u \in Users : u = pair[p].user /\ account[u] \in Account
      BY <3>1, RowTypes DEF Owned
    <3>2. /\ [pc |-> "save", user |-> u, seen |-> account[u], row |-> account[u],
              purpose |-> "profile"] \in Request
          /\ [pc |-> "admin", user |-> u] \in Request
      BY DEF Request
    <3> QED
      BY <1>1, <2>1, <3>2 DEF UpdateProfile, EnterAdmin
  <2>2. /\ \A p \in Pairs : [pc |-> "rotate", item |-> p] \in Request
        /\ \A l \in Links : [pc |-> "confirm", item |-> l] \in Request
    BY DEF Request
  <2> QED
    BY <1>1, <1>2, <1>5, <2>1, <2>2 DEF ByToken, Refresh, OpenLink, Logout
<1>6. ASSUME NEW h \in Tabs, NEW u \in Users, ByAddress(h, u) PROVE NewCompletes
  <2>1. ASSUME NEW pwd \in Passwords, NEW company \in BOOLEAN, RegisterNew(h, u, pwd, company)
        PROVE  NewCompletes
    <3>1. account'[u].version = 0
      BY <2>1 DEF RegisterNew, NewAccount, SessionsTypeOK
    <3> QED
      <4>1. ProvesAddress(h, u, 0) /\ 0 \in Nat
        BY <2>1 DEF RegisterNew
      <4> QED
        BY <1>3, <3>1, <4>1
  <2>2. ASSUME NEW pwd \in Passwords, NEW company \in BOOLEAN, RegisterAgain(h, u, pwd, company)
        PROVE  NewCompletes
    <3>1. account[u] \in Account
      BY <2>2, RowTypes DEF RegisterAgain
    <3> PICK seen \in Account : seen = account[u]
      BY <3>1
    <3> PICK kinds \in SUBSET Roles : kinds = Kinds(seen, company)
      BY KindsTypes
    <3> DEFINE row == [seen EXCEPT !.password = pwd, !.roles = kinds]
    <3>2. row \in Account
      BY ONLY seen \in Account, pwd \in Passwords, kinds \in SUBSET Roles DEF Account
    <3>3. [pc |-> "save", user |-> u, seen |-> seen, row |-> row, purpose |-> "register"] \in Request
      BY <3>2 DEF Request
    <3>4. Continue(h, [pc |-> "save", user |-> u, seen |-> seen, row |-> row, purpose |-> "register"])
      BY <2>2 DEF RegisterAgain
    <3> QED
      BY <1>1, <3>3, <3>4
  <2>3. ASSUME NEW pwd \in Passwords, LoginUnverified(h, u, pwd) PROVE NewCompletes
    <3>1. account'[u].version = account[u].version /\ account[u].version \in Nat
      BY <2>3, RowTypes, AccountTypes DEF LoginUnverified, tables
    <3> QED
      BY <1>3, <2>3, <3>1 DEF LoginUnverified
  <2>4. \A purpose \in Purposes : [pc |-> "clear", user |-> u, purpose |-> purpose] \in Request
    BY DEF Request
  <2>5. ASSUME NEW purpose \in Purposes, NEW right \in BOOLEAN, EnterCode(h, u, purpose, right)
        PROVE  NewCompletes
    <3> PICK c \in Codes :
          /\ Newest(c, LiveCodes(u, purpose))
          /\ Continue(h, IF right THEN [pc |-> "right", item |-> c]
                         ELSE [pc |-> "wrong", item |-> c, attempts |-> code[c].attempts])
      BY <2>5 DEF EnterCode
    <3>1. code[c] # None /\ code[c].attempts \in Nat
      BY RowTypes DEF Newest, LiveCodes
    <3>2. /\ [pc |-> "right", item |-> c] \in Request
          /\ [pc |-> "wrong", item |-> c, attempts |-> code[c].attempts] \in Request
      BY <3>1 DEF Request
    <3> QED
      BY <1>1, <3>2
  <2> QED
    BY <1>1, <1>2, <1>6, <2>1, <2>2, <2>3, <2>4, <2>5 DEF ByAddress, LoginWithCode, Login, Resend,
       Purposes, RequestPasswordReset, InviteCompany, InviteTalent
<1>7. CASE UNCHANGED vars
  BY <1>2, <1>7 DEF vars
<1> QED
  BY <1>4, <1>5, <1>6, <1>7 DEF SessionsNext

LEMMA DatedKept ==
  ASSUME Base, Dated, [SessionsNext]_vars
  PROVE  Dated'
<1> USE DEF Base
<1>1. NewPairs /\ NewRevoked /\ NewCompletes /\ stale \subseteq stale' /\ RowsKept /\ Base'
  BY PairsDated, ResetsRevoke, CompletesDated, RowsStay, BaseKept
<1>2. \A u \in Users : Exists(u) /\ u \notin stale' =>
        /\ account'[u].version >= account[u].version
        /\ account'[u].version \in Nat /\ account[u].version \in Nat
  <2> SUFFICES ASSUME NEW u \in Users, Exists(u), u \notin stale'
               PROVE  /\ account'[u].version >= account[u].version
                      /\ account'[u].version \in Nat /\ account[u].version \in Nat
    OBVIOUS
  <2>1. account[u] \in Account /\ account'[u] \in Account
    BY <1>1, RowTypes DEF RowsKept, SessionsTypeOK, Exists
  <2> QED
    BY <2>1, AccountsMove, AccountTypes DEF Moves
<1>3. \A p \in revoked' : pair'[p] # None
  BY <1>1 DEF Dated, NewRevoked, RowsKept, SessionsTypeOK
<1>4. ASSUME NEW p \in Pairs, pair'[p] # None, pair'[p].user \notin stale'
      PROVE  /\ pair'[p].version <= account'[pair'[p].user].version
             /\ p \in revoked' => pair'[p].version < account'[pair'[p].user].version
  <2>1. CASE pair'[p] # pair[p]
    <3>1. pair[p] = None /\ p \notin revoked'
      BY <1>1, <2>1 DEF NewPairs, NewRevoked, Dated
    <3> QED
      BY <1>1, <1>4, <2>1, <3>1 DEF NewPairs
  <2>2. CASE pair'[p] = pair[p]
    <3> PICK u \in Users, version \in Nat : u = pair[p].user /\ version = pair[p].version /\ Exists(u)
      BY <1>4, <2>2, RowTypes DEF Owned
    <3>1. u \notin stale
      BY <1>1, <1>4, <2>2
    <3>2. version <= account[u].version /\ (p \in revoked => version < account[u].version)
      BY <1>4, <2>2, <3>1 DEF Dated
    <3>3. /\ account'[u].version >= account[u].version
          /\ account'[u].version \in Nat /\ account[u].version \in Nat
      BY <1>2, <1>4, <2>2
    <3>4. p \in revoked' \ revoked => account'[u].version = account[u].version + 1
      BY <1>1 DEF NewRevoked
    <3>5. p \in revoked' => version < account'[u].version
      BY <3>2, <3>3, <3>4
    <3> QED
      BY <2>2, <3>2, <3>3, <3>5
  <2> QED
    BY <2>1, <2>2
<1>5. ASSUME NEW h \in Tabs, req'[h].pc = "complete", req'[h].user \notin stale'
      PROVE  req'[h].version <= account'[req'[h].user].version
  <2>1. CASE req'[h] # req[h]
    BY <1>1, <1>5, <2>1 DEF NewCompletes
  <2>2. CASE req'[h] = req[h]
    <3>1. req[h] \in Request /\ Promised(h)
      BY DEF SessionsTypeOK
    <3> PICK u \in Users, version \in Nat : u = req[h].user /\ version = req[h].version
      BY <1>5, <2>2, <3>1, RequestTypes
    <3>2. Exists(u) /\ u \notin stale /\ version <= account[u].version
      BY <1>1, <1>5, <2>2, <3>1 DEF Promised, Dated
    <3>3. version <= account'[u].version
      BY <1>2, <1>5, <2>2, <3>2
    <3> QED
      BY <2>2, <3>3
  <2> QED
    BY <2>1, <2>2
<1> QED
  BY <1>3, <1>4, <1>5 DEF Dated

\* A session opened before a reset of the password stays out, by the
\* middleware as by renewal, unless a save puts the older version back.
THEOREM RevokedOut == SessionsSpec => []RevokedStaysOut
<1>1. Init => Dated
  BY DEF Init, Dated, Idle
<1>2. Base /\ Dated /\ [SessionsNext]_vars => Dated'
  BY DatedKept
<1>3. Base /\ Dated => RevokedStaysOut
  <2> SUFFICES ASSUME Base, Dated, NEW p \in revoked, pair[p].user \notin stale
               PROVE  pair[p].version # account[pair[p].user].version
    BY DEF RevokedStaysOut
  <2>1. p \in Pairs /\ pair[p] # None
    BY DEF Base, SessionsTypeOK, Dated
  <2>2. pair[p].version \in Nat /\ account[pair[p].user].version \in Nat
    BY <2>1, RowTypes, AccountTypes DEF Base, Owned
  <2>3. pair[p].version < account[pair[p].user].version
    BY <2>1 DEF Dated
  <2> QED
    BY <2>2, <2>3
<1> QED
  BY AlwaysBase, <1>1, <1>2, <1>3, PTL DEF SessionsSpec

-----------------------------------------------------------------------------
(* What two requests hold at once. *)

\* The step of a request: nobody else moves, and it takes something only by
\* one of the four looks.
Turned(h) ==
  /\ \A g \in Tabs \ {h} : req'[g] = req[g]
  /\ raced \subseteq raced'
  /\ \/ req'[h] = req[h]
     \/ req'[h].pc \in {"idle", "save", "clear", "send", "sign", "admin", "complete"}
     \/ req[h].pc = "rotate" /\ req'[h].pc = "renew" /\ req'[h].item = req[h].item
     \/ \E u \in Users, purpose \in Purposes, right \in BOOLEAN : EnterCode(h, u, purpose, right)
     \/ \E p \in Pairs : Refresh(h, p)
     \/ \E l \in Links : OpenLink(h, l)
     \/ \E u \in Users, role \in Roles, enabled \in BOOLEAN : ReadRole(h, u, role, enabled)

LEMMA TurnsOf ==
  ASSUME Base, SessionsNext
  PROVE  \E h \in Tabs : Turned(h)
<1> USE DEF Base
<1> DEFINE Plain == {"idle", "save", "clear", "send", "sign", "admin", "complete"}
<1>1. PICK h \in Tabs : Proceed(h) \/ ByToken(h) \/ \E u \in Users : ByAddress(h, u)
  BY DEF SessionsNext
<1>2. ASSUME NEW r, Continue(h, r)
      PROVE  req'[h] = r /\ \A g \in Tabs \ {h} : req'[g] = req[g]
  BY <1>2 DEF Continue, SessionsTypeOK
<1>3. ASSUME NEW r, Continue(h, r), r.pc \in Plain, raced' = raced PROVE Turned(h)
  BY <1>2, <1>3 DEF Turned
<1>4. ASSUME req' = req, raced' = raced PROVE Turned(h)
  BY <1>4 DEF Turned
<1>5. ASSUME NEW u, NEW version, ProvesAddress(h, u, version), raced' = raced PROVE Turned(h)
  BY <1>3, <1>5 DEF ProvesAddress
<1>6. Idle.pc = "idle" /\ req[h] \in Request
  BY DEF Idle, SessionsTypeOK
<1>7. ASSUME NEW t, Take(h, t) PROVE raced \subseteq raced'
  BY <1>7 DEF Take
<1>8. CASE Proceed(h)
  <2>1. CASE ClearCodes(h)
    <3>1. req[h].pc = "clear" /\ req[h] \in [pc : {"clear", "send"}, user : Users, purpose : Purposes]
      BY <1>6, <2>1 DEF ClearCodes, Request, Idle
    <3>2. [req[h] EXCEPT !.pc = "send"].pc = "send"
      BY <3>1
    <3>3. Continue(h, [req[h] EXCEPT !.pc = "send"]) /\ raced' = raced
      BY <2>1 DEF ClearCodes, Goes, history
    <3> QED
      BY <1>3, <3>2, <3>3
  <2>2. CASE Rotate(h)
    <3>1. req[h].pc = "rotate" /\ req[h] \in [pc : {"rotate", "renew"}, item : Pairs]
      BY <1>6, <2>2 DEF Rotate, Request, Idle
    <3> DEFINE r == [req[h] EXCEPT !.pc = "renew"]
    <3>2. r.pc = "renew" /\ r.item = req[h].item
      BY <3>1
    <3>3. (Continue(h, r) \/ Continue(h, Idle)) /\ raced' = raced
      BY <2>2 DEF Rotate, Goes, history
    <3>4. CASE Continue(h, r)
      BY <1>2, <3>1, <3>2, <3>3, <3>4 DEF Turned
    <3> QED
      BY <1>3, <1>6, <3>3, <3>4
  <2>3. CASE RightCode(h)
    <3>1. /\ Continue(h, [pc |-> "sign", user |-> code[req[h].item].user])
          /\ raced' = raced
      BY <2>3 DEF RightCode, Goes
    <3> QED
      BY <1>3, <3>1
  <2>4. ASSUME NEW u \in Users, NEW role \in Roles, NEW enabled \in BOOLEAN,
               ReadRole(h, u, role, enabled)
        PROVE  Turned(h)
    <3>1. PICK r : Continue(h, r)
      BY <2>4 DEF ReadRole, Goes
    <3>2. raced \subseteq raced'
      BY <1>7, <2>4 DEF ReadRole
    <3> QED
      BY <1>2, <2>4, <3>1, <3>2 DEF Turned
  <2>5. CASE SaveRow(h)
    BY <1>3, <1>5, <1>6, <2>5 DEF SaveRow
  <2>6. CASE Continue(h, Idle) /\ raced' = raced
    BY <1>3, <1>6, <2>6
  <2> QED
    BY <1>8, <2>1, <2>2, <2>3, <2>4, <2>5, <2>6 DEF Proceed, CompleteAuth, SendCode, WrongCode,
       SignIn, Renew, ConfirmPasswordReset, ResetUserPassword, UpdateUserRole, Refused, Goes, history
<1>9. CASE ByToken(h)
  <2>1. ASSUME NEW p \in Pairs, Refresh(h, p) PROVE Turned(h)
    <3>1. raced \subseteq raced'
      BY <1>7, <2>1 DEF Refresh
    <3> QED
      BY <1>2, <2>1, <3>1 DEF Turned, Refresh
  <2>2. ASSUME NEW l \in Links, OpenLink(h, l) PROVE Turned(h)
    <3>1. raced \subseteq raced'
      BY <1>7, <2>2 DEF OpenLink
    <3> QED
      BY <1>2, <2>2, <3>1 DEF Turned, OpenLink
  <2> QED
    BY <1>3, <1>4, <1>9, <2>1, <2>2 DEF ByToken, UpdateProfile, EnterAdmin, Logout, history
<1>10. ASSUME NEW u \in Users, ByAddress(h, u) PROVE Turned(h)
  <2>1. ASSUME NEW purpose \in Purposes, NEW right \in BOOLEAN, EnterCode(h, u, purpose, right)
        PROVE  Turned(h)
    <3>1. raced \subseteq raced'
      BY <1>7, <2>1 DEF EnterCode
    <3>2. PICK r : Continue(h, r)
      BY <2>1 DEF EnterCode
    <3> QED
      BY <1>2, <2>1, <3>1, <3>2 DEF Turned
  <2>2. ASSUME NEW pwd \in Passwords, NEW company \in BOOLEAN, RegisterAgain(h, u, pwd, company)
        PROVE  Turned(h)
    <3>1. PICK row : Continue(h, [pc |-> "save", user |-> u, seen |-> account[u], row |-> row,
                                  purpose |-> "register"])
      BY <2>2 DEF RegisterAgain
    <3> QED
      BY <1>3, <2>2, <3>1 DEF RegisterAgain, history
  <2>3. ASSUME NEW pwd \in Passwords, LoginUnverified(h, u, pwd) PROVE Turned(h)
    BY <1>5, <2>3 DEF LoginUnverified, history
  <2>4. ASSUME NEW pwd \in Passwords, NEW company \in BOOLEAN, RegisterNew(h, u, pwd, company)
        PROVE  Turned(h)
    BY <1>5, <2>4 DEF RegisterNew, history
  <2>5. ASSUME NEW purpose, Continue(h, [pc |-> "clear", user |-> u, purpose |-> purpose]),
               raced' = raced
        PROVE  Turned(h)
    BY <1>3, <2>5
  <2>6. ASSUME NEW pwd \in Passwords, LoginWithCode(h, u, pwd) PROVE Turned(h)
    BY <2>5, <2>6 DEF LoginWithCode, history
  <2>7. ASSUME NEW purpose \in Purposes, Resend(h, u, purpose) PROVE Turned(h)
    BY <2>5, <2>7 DEF Resend, history
  <2>8. ASSUME \/ \E pwd \in Passwords : Login(h, u, pwd)
               \/ RequestPasswordReset(h, u) \/ InviteCompany(h, u) \/ InviteTalent(h, u)
        PROVE  Turned(h)
    BY <1>4, <2>8 DEF Login, RequestPasswordReset, InviteCompany, InviteTalent, history
  <2> QED
    BY <1>10, <2>1, <2>2, <2>3, <2>4, <2>6, <2>7, <2>8 DEF ByAddress
<1> QED
  BY <1>1, <1>8, <1>9, <1>10

\* Whoever holds the same raced.
Single ==
  \A g, h \in Tabs :
    g # h /\ Holds(g) = Holds(h) /\ Holds(g) \in Tokens \cup {RoleChanges} => Holds(g) \in raced

\* What a request that turned holds now.
LEMMA HoldsNow ==
  ASSUME Base, NEW h \in Tabs, Turned(h)
  PROVE  /\ \A g \in Tabs \ {h} : Holds(g)' = Holds(g)
         /\ \/ Holds(h)' = Holds(h)
            \/ Holds(h)' = None
            \/ \E u \in Users, purpose \in Purposes, c \in Codes :
                 /\ Newest(c, LiveCodes(u, purpose)) /\ Holds(h)' = <<"code", c>>
                 /\ Take(h, <<"code", c>>)
            \/ \E p \in Pairs : Holds(h)' = <<"refresh", p>> /\ Take(h, <<"refresh", p>>)
                                /\ <<"refresh", p>> \notin black
            \/ \E l \in Links : Holds(h)' = <<"link", l>> /\ Take(h, <<"link", l>>)
                                /\ link[l].status = "live"
            \/ Holds(h)' = RoleChanges /\ Take(h, RoleChanges)
<1> USE DEF Base
<1>1. \A g \in Tabs \ {h} : Holds(g)' = Holds(g)
  BY DEF Turned, Holds
<1>2. ASSUME NEW r, Continue(h, r) PROVE req'[h] = r
  BY <1>2 DEF Continue, SessionsTypeOK
<1>3. CASE req'[h] = req[h]
  BY <1>1, <1>3 DEF Holds
<1>4. CASE req'[h].pc \in {"idle", "save", "clear", "send", "sign", "admin", "complete"}
  BY <1>1, <1>4 DEF Holds
<1>5. CASE req[h].pc = "rotate" /\ req'[h].pc = "renew" /\ req'[h].item = req[h].item
  BY <1>1, <1>5 DEF Holds
<1>6. ASSUME NEW u \in Users, NEW purpose \in Purposes, NEW right \in BOOLEAN,
             EnterCode(h, u, purpose, right)
      PROVE  \E c \in Codes :
               /\ Newest(c, LiveCodes(u, purpose)) /\ Holds(h)' = <<"code", c>>
               /\ Take(h, <<"code", c>>)
  <2> PICK c \in Codes :
        /\ Newest(c, LiveCodes(u, purpose)) /\ Take(h, <<"code", c>>)
        /\ Continue(h, IF right THEN [pc |-> "right", item |-> c]
                       ELSE [pc |-> "wrong", item |-> c, attempts |-> code[c].attempts])
    BY <1>6 DEF EnterCode
  <2>1. req'[h].pc \in {"right", "wrong"} /\ req'[h].item = c
    BY <1>2
  <2> QED
    BY <2>1 DEF Holds
<1>7. ASSUME NEW p \in Pairs, Refresh(h, p)
      PROVE  Holds(h)' = <<"refresh", p>> /\ Take(h, <<"refresh", p>>) /\ <<"refresh", p>> \notin black
  BY <1>2, <1>7 DEF Refresh, Holds
<1>8. ASSUME NEW l \in Links, OpenLink(h, l)
      PROVE  Holds(h)' = <<"link", l>> /\ Take(h, <<"link", l>>) /\ link[l].status = "live"
  BY <1>2, <1>8 DEF OpenLink, Holds
<1>9. ASSUME NEW u \in Users, NEW role \in Roles, NEW enabled \in BOOLEAN,
             ReadRole(h, u, role, enabled)
      PROVE  Holds(h)' = RoleChanges /\ Take(h, RoleChanges)
  <2>1. req'[h].pc = "assign"
    BY <1>2, <1>9 DEF ReadRole, Goes
  <2> QED
    BY <1>9, <2>1 DEF ReadRole, Holds
<1>10. CASE \E u \in Users, purpose \in Purposes, right \in BOOLEAN : EnterCode(h, u, purpose, right)
  BY <1>1, <1>6, <1>10
<1>11. CASE (\E p \in Pairs : Refresh(h, p)) \/ \E l \in Links : OpenLink(h, l)
  BY <1>1, <1>7, <1>8, <1>11
<1>12. CASE \E u \in Users, role \in Roles, enabled \in BOOLEAN : ReadRole(h, u, role, enabled)
  BY <1>1, <1>9, <1>12
<1> QED
  BY <1>3, <1>4, <1>5, <1>10, <1>11, <1>12 DEF Turned

LEMMA SingleKept ==
  ASSUME Base, Single, [SessionsNext]_vars
  PROVE  Single'
<1>1. CASE UNCHANGED vars
  <2>1. \A g \in Tabs : Holds(g)' = Holds(g)
    BY <1>1 DEF vars, Holds
  <2> QED
    BY <1>1, <2>1 DEF vars, history, Single
<1>2. ASSUME NEW h \in Tabs, Turned(h) PROVE Single'
  <2>1. \A g \in Tabs \ {h} : Holds(g)' = Holds(g)
    BY <1>2, HoldsNow
  <2>2. raced \subseteq raced'
    BY <1>2 DEF Turned
  <2>3. ASSUME NEW t \in Tokens \cup {RoleChanges}, Holds(h)' = t, NEW g \in Tabs \ {h}, Holds(g) = t
        PROVE  t \in raced'
    <3>1. Holds(h) = t \/ Take(h, t)
      BY <1>2, <2>3, HoldsNow, NoneAssumption
    <3> QED
      BY <2>2, <2>3, <3>1 DEF Single, Take
  <2> QED
    BY <2>1, <2>2, <2>3 DEF Single
<1> QED
  BY <1>1, <1>2, TurnsOf

-----------------------------------------------------------------------------
(* An administrator remains. *)

\* While no two changes of roles raced and no older row was put back, a
\* change that takes the role from somebody leaves it to somebody else.
AdminLeft ==
  \/ RoleChanges \in raced
  \/ stale # {}
  \/ /\ \E v \in Users : IsAdmin(v)
     /\ \A h \in Tabs : req[h].pc = "assign" /\ "admin" \in req[h].off =>
          \E v \in Users : IsAdmin(v) /\ v # req[h].user

\* A change that is read in time leaves an administrator.
LEMMA ReadLeaves ==
  ASSUME Base, NEW h \in Tabs, NEW u \in Users, NEW role \in Roles, NEW enabled \in BOOLEAN,
         ReadRole(h, u, role, enabled), \E v \in Users : IsAdmin(v), req'[h].pc = "assign",
         "admin" \in req'[h].off
  PROVE  \E v \in Users : IsAdmin(v) /\ v # req'[h].user
<1> PICK on \in SUBSET Roles, off \in SUBSET Roles :
      /\ on = RoleColumns(account[u], role, enabled).on
      /\ off = RoleColumns(account[u], role, enabled).off
      /\ "admin" \in off => role = "admin" /\ ~enabled
  BY ColumnTypes
<1>1. req'[h] = [pc |-> "assign", user |-> u, on |-> on, off |-> off]
  BY DEF ReadRole, Goes, Continue, Base, SessionsTypeOK
<1>2. IsAdmin(u) => Cardinality(Admins) > 1
  BY <1>1 DEF ReadRole, MayChange
<1>3. IsAdmin(u) => Admins # {u}
  <2>1. Cardinality({u}) = 1
    BY FS_Singleton
  <2>2. ASSUME IsAdmin(u), Admins = {u} PROVE FALSE
    <3>1. Cardinality({u}) > 1
      BY <1>2, <2>2
    <3> QED
      BY <2>1, <3>1
  <2> QED
    BY <2>2
<1> QED
  BY <1>1, <1>3 DEF Admins

LEMMA AdminLeftKept ==
  ASSUME Base, Single, Single', AdminLeft, [SessionsNext]_vars
  PROVE  AdminLeft'
<1> USE DEF Base
<1>1. SUFFICES ASSUME RoleChanges \notin raced', stale' = {}
      PROVE  /\ \E v \in Users : IsAdmin(v)'
             /\ \A h \in Tabs : req'[h].pc = "assign" /\ "admin" \in req'[h].off =>
                  \E v \in Users : IsAdmin(v)' /\ v # req'[h].user
  BY DEF AdminLeft
<1>2. stale = {} /\ raced \subseteq raced'
  BY <1>1, ResetsRevoke, TurnsOf DEF Turned, vars, history
<1>3. /\ \E v \in Users : IsAdmin(v)
      /\ \A h \in Tabs : req[h].pc = "assign" /\ "admin" \in req[h].off =>
           \E v \in Users : IsAdmin(v) /\ v # req[h].user
  BY <1>1, <1>2 DEF AdminLeft
<1>4. \A v \in Users : IsAdmin(v) =>
        \/ IsAdmin(v)'
        \/ \E h \in Tabs : UpdateUserRole(h) /\ req[h].user = v /\ "admin" \in req[h].off
  BY <1>1, AccountsMove, RowsStay DEF Moves, IsAdmin, RowsKept
<1>5. \A g, h \in Tabs : req[g].pc = "assign" /\ req[h].pc = "assign" => g = h
  BY <1>1, <1>2 DEF Single, Holds
<1>6. \A h \in Tabs : UpdateUserRole(h) => req[h].pc = "assign"
  BY DEF UpdateUserRole
<1>7. \E v \in Users : IsAdmin(v)'
  BY <1>3, <1>4, <1>5, <1>6
<1>8. ASSUME NEW h \in Tabs, req'[h].pc = "assign", "admin" \in req'[h].off
      PROVE  \E v \in Users : IsAdmin(v)' /\ v # req'[h].user
  <2>1. CASE req'[h] = req[h]
    <3> PICK v \in Users : IsAdmin(v) /\ v # req[h].user
      BY <1>3, <1>8, <2>1
    <3>1. IsAdmin(v)'
      BY <1>4, <1>5, <1>6, <1>8, <2>1
    <3> QED
      BY <2>1, <3>1
  <2>2. CASE req'[h] # req[h]
    <3>1. \E u \in Users, role \in Roles, enabled \in BOOLEAN : ReadRole(h, u, role, enabled)
      <4>1. \E g \in Tabs : Turned(g)
        BY <2>2, TurnsOf DEF vars
      <4>2. Turned(h)
        BY <2>2, <4>1 DEF Turned
      <4>3. ~(\E u \in Users, purpose \in Purposes, right \in BOOLEAN : EnterCode(h, u, purpose, right))
        <5>1. ASSUME NEW r, Continue(h, r), r.pc \in {"right", "wrong"} PROVE FALSE
          BY <1>8, <5>1 DEF Continue, SessionsTypeOK
        <5> QED
          BY <5>1 DEF EnterCode
      <4>4. ~(\E p \in Pairs : Refresh(h, p)) /\ ~(\E l \in Links : OpenLink(h, l))
        <5>1. ASSUME NEW r, Continue(h, r), r.pc \in {"rotate", "confirm"} PROVE FALSE
          BY <1>8, <5>1 DEF Continue, SessionsTypeOK
        <5> QED
          BY <5>1 DEF Refresh, OpenLink
      <4> QED
        BY <1>8, <2>2, <4>2, <4>3, <4>4 DEF Turned
    <3>2. \E v \in Users : IsAdmin(v) /\ v # req'[h].user
      BY <1>3, <1>8, <3>1, ReadLeaves
    <3>3. account' = account
      BY <3>1 DEF ReadRole, tables
    <3> QED
      BY <3>2, <3>3 DEF IsAdmin, Exists
  <2> QED
    BY <2>1, <2>2
<1> QED
  BY <1>7, <1>8

\* There is an administrator, unless two changes of roles were handled at
\* once or a save put an older row back.
THEOREM AnAdminRemains == SessionsSpec => []AdminRemains
<1>1. Init => Single /\ AdminLeft
  <2> SUFFICES ASSUME Init PROVE Single /\ AdminLeft
    OBVIOUS
  <2>1. \A h \in Tabs : Holds(h) = None /\ req[h].pc = "idle"
    BY DEF Init, Holds, Idle
  <2>2. \E v \in Users : IsAdmin(v)
    BY StartAccountsAssumption DEF Init, IsAdmin, Exists
  <2> QED
    BY <2>1, <2>2, NoneAssumption DEF Single, AdminLeft
<1>2. Base /\ Single /\ [SessionsNext]_vars => Single'
  BY SingleKept
<1>3. Base /\ Single /\ Single' /\ AdminLeft /\ [SessionsNext]_vars => AdminLeft'
  BY AdminLeftKept
<1>4. AdminLeft => AdminRemains
  BY DEF AdminLeft, AdminRemains, Admins
<1> QED
  BY AlwaysBase, <1>1, <1>2, <1>3, <1>4, PTL DEF SessionsSpec

-----------------------------------------------------------------------------
(* Used once. *)

\* What keeps a code, a token or a link from being taken again.
Spent(t) ==
  \/ \E c \in Codes : t = <<"code", c>> /\ code[c] # None /\ code[c].status # "live"
  \/ t \in black
  \/ \E l \in Links : t = <<"link", l>> /\ link[l] # None /\ link[l].status # "live"

\* What nobody raced for was not used, or once, is spent and held by nobody.
OpenedOnce ==
  \A t \in Tokens \ raced :
    \/ uses[t] = 0
    \/ uses[t] = 1 /\ Spent(t) /\ \A h \in Tabs : Holds(h) # t

LEMMA StaysSpent ==
  ASSUME RowsKept, NEW t, Spent(t)
  PROVE  Spent(t)'
BY DEF RowsKept, Spent

\* Only who holds it uses it, and then holds nothing.
LEMMA UsesOf ==
  ASSUME Base, [SessionsNext]_vars, NEW t \in Tokens, uses'[t] # uses[t]
  PROVE  \E h \in Tabs : /\ Holds(h) = t /\ Holds(h)' = None
                         /\ \A g \in Tabs \ {h} : Holds(g)' = Holds(g)
                         /\ uses'[t] = uses[t] + 1 /\ Spent(t)'
<1> USE DEF Base
<1>1. ASSUME NEW h \in Tabs, NEW s \in Tokens, uses' = [uses EXCEPT ![s] = @ + 1]
      PROVE  t = s /\ uses'[t] = uses[t] + 1
  BY <1>1 DEF SessionsTypeOK
<1>2. ASSUME NEW h \in Tabs, NEW r, Continue(h, r), r.pc \in {"idle", "sign"}
      PROVE  Holds(h)' = None /\ \A g \in Tabs \ {h} : Holds(g)' = Holds(g)
  BY <1>2 DEF Continue, SessionsTypeOK, Holds
<1>3. Idle.pc = "idle"
  BY DEF Idle
<1>4. ASSUME NEW h \in Tabs, RightCode(h)
      PROVE  /\ Holds(h) = t /\ Holds(h)' = None
             /\ \A g \in Tabs \ {h} : Holds(g)' = Holds(g)
             /\ uses'[t] = uses[t] + 1 /\ Spent(t)'
  <2>1. req[h] \in Request /\ req[h].pc = "right"
    BY <1>4 DEF RightCode, SessionsTypeOK
  <2> PICK c \in Codes : c = req[h].item /\ code[c] # None
    BY <2>1, RequestTypes DEF Promised
  <2>2. <<"code", c>> \in Tokens
    BY DEF Tokens
  <2>3. uses' = [uses EXCEPT ![<<"code", c>>] = @ + 1]
    BY <1>4 DEF RightCode
  <2>4. t = <<"code", c>> /\ uses'[t] = uses[t] + 1
    BY <1>1, <2>2, <2>3
  <2>5. Continue(h, [pc |-> "sign", user |-> code[c].user])
    BY <1>4 DEF RightCode, Goes
  <2> PICK base : base = WithoutLive(code[c].user, code[c].purpose)
    OBVIOUS
  <2>6. code' = [base EXCEPT ![c].status = IF code[c].status = "gone" THEN "gone" ELSE "used"]
    BY <1>4 DEF RightCode
  <2>7. base \in [Codes -> Code \cup {None}] /\ base[c] \in Code
    BY ClearTypes, RowTypes
  <2>8. code'[c] = [base[c] EXCEPT !.status = IF code[c].status = "gone" THEN "gone" ELSE "used"]
    BY <2>6, <2>7
  <2>9. code'[c].status \in {"gone", "used"}
    BY <2>7, <2>8 DEF Code
  <2>10. code'[c] # None
    BY RowsStay DEF RowsKept
  <2>11. Holds(h) = t
    BY <2>1, <2>4 DEF Holds
  <2> QED
    BY <1>2, <2>4, <2>5, <2>9, <2>10, <2>11 DEF Spent
<1>5. ASSUME NEW h \in Tabs, Renew(h)
      PROVE  /\ Holds(h) = t /\ Holds(h)' = None
             /\ \A g \in Tabs \ {h} : Holds(g)' = Holds(g)
             /\ uses'[t] = uses[t] + 1 /\ Spent(t)'
  <2>1. req[h] \in Request /\ req[h].pc = "renew"
    BY <1>5 DEF Renew, SessionsTypeOK
  <2> PICK p \in Pairs : p = req[h].item /\ <<"refresh", p>> \in black
    BY <2>1, RequestTypes DEF Promised
  <2>2. <<"refresh", p>> \in Tokens
    BY DEF Tokens
  <2>3. uses' = [uses EXCEPT ![<<"refresh", p>>] = @ + 1]
    BY <1>5 DEF Renew
  <2>4. t = <<"refresh", p>> /\ uses'[t] = uses[t] + 1
    BY <1>1, <2>2, <2>3
  <2>5. Continue(h, Idle) /\ black' = black
    BY <1>5 DEF Renew, Goes
  <2>6. Holds(h) = t
    BY <2>1, <2>4 DEF Holds
  <2> QED
    BY <1>2, <1>3, <2>4, <2>5, <2>6 DEF Spent
<1>6. ASSUME NEW h \in Tabs, NEW pwd \in Passwords, ConfirmPasswordReset(h, pwd)
      PROVE  /\ Holds(h) = t /\ Holds(h)' = None
             /\ \A g \in Tabs \ {h} : Holds(g)' = Holds(g)
             /\ uses'[t] = uses[t] + 1 /\ Spent(t)'
  <2>1. req[h] \in Request /\ req[h].pc = "confirm"
    BY <1>6 DEF ConfirmPasswordReset, SessionsTypeOK
  <2> PICK l \in Links : l = req[h].item /\ link[l] # None
    BY <2>1, RequestTypes DEF Promised
  <2>2. <<"link", l>> \in Tokens
    BY DEF Tokens
  <2>3. /\ uses' = [uses EXCEPT ![<<"link", l>>] = @ + 1]
        /\ link' = [link EXCEPT ![l].status = "used"] /\ Continue(h, Idle)
    BY <1>6 DEF ConfirmPasswordReset, Goes
  <2>4. t = <<"link", l>> /\ uses'[t] = uses[t] + 1
    BY <1>1, <2>2, <2>3
  <2>5. link'[l].status = "used"
    BY <2>3, RowTypes DEF SessionsTypeOK, Link
  <2>6. link'[l] # None
    BY RowsStay DEF RowsKept
  <2>7. Holds(h) = t
    BY <2>1, <2>4 DEF Holds
  <2> QED
    BY <1>2, <1>3, <2>3, <2>4, <2>5, <2>6, <2>7 DEF Spent
<1>7. ASSUME NEW h \in Tabs, Proceed(h)
      PROVE  \/ RightCode(h) \/ Renew(h)
             \/ \E pwd \in Passwords : ConfirmPasswordReset(h, pwd)
  BY <1>7 DEF Proceed, SaveRow, CompleteAuth, ClearCodes, SendCode, WrongCode, SignIn, Rotate,
     ResetUserPassword, ReadRole, UpdateUserRole, Refused, history
<1>8. ASSUME NEW h \in Tabs, ByToken(h) PROVE FALSE
  BY <1>8 DEF ByToken, Refresh, UpdateProfile, EnterAdmin, Logout, OpenLink, history
<1>9. ASSUME NEW h \in Tabs, NEW u \in Users, ByAddress(h, u) PROVE FALSE
  BY <1>9 DEF ByAddress, RegisterNew, RegisterAgain, LoginUnverified, LoginWithCode,
     Login, Resend, EnterCode, RequestPasswordReset, InviteCompany, InviteTalent, history
<1>10. ~UNCHANGED vars
  BY DEF vars, history
<1> QED
  BY <1>4, <1>5, <1>6, <1>7, <1>8, <1>9, <1>10 DEF SessionsNext

LEMMA OpenedOnceKept ==
  ASSUME Base, Single, OpenedOnce, [SessionsNext]_vars
  PROVE  OpenedOnce'
<1> USE DEF Base
<1>1. raced \subseteq raced'
  BY TurnsOf DEF Turned, vars, history
<1> SUFFICES ASSUME NEW t \in Tokens, t \notin raced'
             PROVE  \/ uses'[t] = 0
                    \/ uses'[t] = 1 /\ Spent(t)' /\ \A h \in Tabs : Holds(h)' # t
  BY DEF OpenedOnce
<1>2. \/ uses[t] = 0
      \/ uses[t] = 1 /\ Spent(t) /\ \A h \in Tabs : Holds(h) # t
  BY <1>1 DEF OpenedOnce
<1>3. CASE uses'[t] # uses[t]
  <2> PICK h \in Tabs : /\ Holds(h) = t /\ Holds(h)' = None
                        /\ \A g \in Tabs \ {h} : Holds(g)' = Holds(g)
                        /\ uses'[t] = uses[t] + 1 /\ Spent(t)'
    BY <1>3, UsesOf
  <2>1. \A g \in Tabs \ {h} : Holds(g) # t
    BY <1>1 DEF Single
  <2> QED
    BY <1>2, <2>1, NoneAssumption
<1>4. CASE uses'[t] = uses[t] /\ uses[t] = 1
  <2>1. Spent(t)'
    BY <1>2, <1>4, RowsStay, StaysSpent
  <2>2. ASSUME NEW h \in Tabs, Holds(h)' = t PROVE FALSE
    <3>1. Holds(h) # t /\ Spent(t)
      BY <1>2, <1>4
    <3>2. \E g \in Tabs : Turned(g)
      <4>1. CASE UNCHANGED vars
        BY <2>2, <3>1, <4>1 DEF vars, Holds
      <4> QED
        BY <4>1, TurnsOf
    <3>3. Turned(h)
      BY <2>2, <3>1, <3>2, HoldsNow
    <3>4. \/ \E u \in Users, purpose \in Purposes, c \in Codes :
               Newest(c, LiveCodes(u, purpose)) /\ t = <<"code", c>>
          \/ \E p \in Pairs : t = <<"refresh", p>> /\ t \notin black
          \/ \E l \in Links : t = <<"link", l>> /\ link[l].status = "live"
          \/ t = RoleChanges
      BY <2>2, <3>1, <3>3, HoldsNow, NoneAssumption
    <3>5. \A c \in Codes, p \in Pairs, l \in Links :
            <<"code", c>> \notin black /\ <<"link", l>> \notin black
      BY DEF SessionsTypeOK
    <3>6. t # RoleChanges
      BY DEF Tokens, RoleChanges
    <3> QED
      BY <3>1, <3>4, <3>5, <3>6 DEF Spent, Newest, LiveCodes, SessionsTypeOK
  <2> QED
    BY <1>4, <2>1, <2>2
<1> QED
  BY <1>2, <1>3, <1>4

\* The wrong tries of a code that was never raced for are those its row and
\* whoever holds it know of.
Counted(c) ==
  /\ tries[c] <= MaxAttempts
  /\ code[c] = None => tries[c] = 0
  /\ code[c] # None /\ code[c].status = "live" =>
       tries[c] = code[c].attempts /\ tries[c] < MaxAttempts
  /\ \A h \in Tabs : req[h].pc = "wrong" /\ req[h].item = c =>
       tries[c] = req[h].attempts /\ tries[c] < MaxAttempts
TriesCounted == \A c \in Codes : <<"code", c>> \notin raced => Counted(c)

\* Other steps than a wrong try leave the tries, and a live code as it is.
LEMMA CodesMove ==
  ASSUME Base, [SessionsNext]_vars, \A h \in Tabs : ~WrongCode(h)
  PROVE  /\ tries' = tries
         /\ \A c \in Codes :
              \/ code'[c] = code[c]
              \/ code'[c] # None /\ code'[c].status # "live"
              \/ code[c] = None /\ code'[c].attempts = 0
<1> USE DEF Base
<1>1. CASE UNCHANGED vars
  BY <1>1 DEF vars, tables, history
<1>2. ASSUME NEW h \in Tabs, ClearCodes(h)
      PROVE  /\ tries' = tries
             /\ \A c \in Codes : code'[c] # code[c] => code'[c] # None /\ code'[c].status = "gone"
  <2> PICK base : base = WithoutLive(req[h].user, req[h].purpose)
    OBVIOUS
  <2>1. code' = base /\ tries' = tries
    BY <1>2 DEF ClearCodes, history
  <2>2. \A c \in Codes : base[c] # code[c] => base[c] # None /\ base[c].status = "gone"
    BY ClearTypes
  <2> QED
    BY ONLY <2>1, <2>2
<1>3. ASSUME NEW h \in Tabs, SendCode(h)
      PROVE  /\ tries' = tries
             /\ \A c \in Codes : code'[c] # code[c] => code[c] = None /\ code'[c].attempts = 0
  <2> PICK n \in Codes : Fresh(n, code) /\
             code' = [code EXCEPT ![n] = [user |-> req[h].user, purpose |-> req[h].purpose,
                                        attempts |-> 0, status |-> "live"]]
    BY <1>3 DEF SendCode
  <2>1. tries' = tries
    BY <1>3 DEF SendCode, history
  <2>2. code \in [Codes -> Code \cup {None}] /\ code[n] = None
    BY DEF Fresh, SessionsTypeOK
  <2>3. code'[n].attempts = 0 /\ \A c \in Codes \ {n} : code'[c] = code[c]
    BY <2>2
  <2>4. \A c \in Codes : code'[c] # code[c] => code[c] = None /\ code'[c].attempts = 0
    BY <2>2, <2>3
  <2> QED
    BY ONLY <2>1, <2>4
<1>4. ASSUME NEW h \in Tabs, RightCode(h)
      PROVE  /\ tries' = tries
             /\ \A c \in Codes : code'[c] # code[c] => code'[c] # None /\ code'[c].status # "live"
  <2>1. req[h] \in Request /\ req[h].pc = "right"
    BY <1>4 DEF RightCode, SessionsTypeOK
  <2> PICK n \in Codes : n = req[h].item /\ code[n] # None
    BY <2>1, RequestTypes DEF Promised
  <2> PICK base : base = WithoutLive(code[n].user, code[n].purpose)
    OBVIOUS
  <2> PICK status : status = IF code[n].status = "gone" THEN "gone" ELSE "used"
    OBVIOUS
  <2>2. code' = [base EXCEPT ![n].status = status] /\ tries' = tries
    BY <1>4 DEF RightCode
  <2>3. base \in [Codes -> Code \cup {None}] /\ base[n] \in Code
    BY ClearTypes, RowTypes
  <2>4. code'[n] = [base[n] EXCEPT !.status = status] /\ \A c \in Codes \ {n} : code'[c] = base[c]
    BY <2>2, <2>3
  <2>5. code'[n].status = status /\ status # "live"
    BY <2>3, <2>4 DEF Code
  <2>6. code'[n] # None
    BY RowsStay DEF RowsKept
  <2>7. \A c \in Codes : base[c] # code[c] => base[c] # None /\ base[c].status = "gone"
    BY ClearTypes
  <2>8. \A c \in Codes : code'[c] # code[c] => code'[c] # None /\ code'[c].status # "live"
    <3> SUFFICES ASSUME NEW c \in Codes, code'[c] # code[c]
                 PROVE  code'[c] # None /\ code'[c].status # "live"
      OBVIOUS
    <3>1. CASE c = n
      BY ONLY <2>5, <2>6, <3>1
    <3>2. CASE c # n
      <4>1. code'[c] = base[c]
        BY <2>4, <3>2
      <4>2. base[c] # code[c]
        BY <4>1
      <4> QED
        BY <2>7, <4>1, <4>2
    <3> QED
      BY <3>1, <3>2
  <2> QED
    BY <2>2, <2>8
<1>5. ASSUME NEW h \in Tabs, Proceed(h)
      PROVE  ClearCodes(h) \/ SendCode(h) \/ RightCode(h) \/ UNCHANGED <<code, tries>>
  BY <1>5 DEF Proceed, SaveRow, CompleteAuth, SignIn, Rotate, Renew, ConfirmPasswordReset,
     ResetUserPassword, ReadRole, UpdateUserRole, Refused, history, tables
<1>6. ASSUME NEW h \in Tabs, ByToken(h) PROVE UNCHANGED <<code, tries>>
  BY <1>6 DEF ByToken, Refresh, UpdateProfile, EnterAdmin, Logout, OpenLink, history, tables
<1>7. ASSUME NEW h \in Tabs, NEW u \in Users, ByAddress(h, u) PROVE UNCHANGED <<code, tries>>
  BY <1>7 DEF ByAddress, RegisterNew, RegisterAgain, LoginUnverified, LoginWithCode,
     Login, Resend, EnterCode, RequestPasswordReset, InviteCompany, InviteTalent, history, tables
<1> QED
  BY <1>1, <1>2, <1>3, <1>4, <1>5, <1>6, <1>7 DEF SessionsNext

\* Who has just read a code that was wrong read a live one.
LEMMA WrongHolders ==
  ASSUME Base, [SessionsNext]_vars, NEW h \in Tabs, req'[h] # req[h], req'[h].pc = "wrong"
  PROVE  /\ code[req'[h].item] # None /\ code[req'[h].item].status = "live"
         /\ req'[h].attempts = code[req'[h].item].attempts
<1> USE DEF Base
<1>1. \E g \in Tabs : Turned(g)
  BY TurnsOf DEF vars
<1>2. Turned(h)
  BY <1>1 DEF Turned
<1>3. ASSUME NEW r, Continue(h, r) PROVE req'[h] = r
  BY <1>3 DEF Continue, SessionsTypeOK
<1>4. /\ ~(\E p \in Pairs : Refresh(h, p)) /\ ~(\E l \in Links : OpenLink(h, l))
      /\ ~(\E u \in Users, role \in Roles, enabled \in BOOLEAN : ReadRole(h, u, role, enabled))
  <2>1. ASSUME NEW r, Continue(h, r), r.pc \in {"rotate", "confirm", "assign"} PROVE FALSE
    BY <1>3, <2>1
  <2> QED
    BY <2>1 DEF Refresh, OpenLink, ReadRole, Goes
<1> PICK u \in Users, purpose \in Purposes, right \in BOOLEAN : EnterCode(h, u, purpose, right)
  BY <1>2, <1>4 DEF Turned
<1> PICK c \in Codes :
      /\ Newest(c, LiveCodes(u, purpose))
      /\ Continue(h, IF right THEN [pc |-> "right", item |-> c]
                     ELSE [pc |-> "wrong", item |-> c, attempts |-> code[c].attempts])
  BY DEF EnterCode
<1>5. req'[h] = [pc |-> "wrong", item |-> c, attempts |-> code[c].attempts]
  BY <1>3
<1>6. code[c] # None /\ code[c].status = "live"
  BY DEF Newest, LiveCodes
<1> QED
  BY <1>5, <1>6

\* A wrong try adds one to what its holder read.
LEMMA TryCounted ==
  ASSUME Base, Single, TriesCounted, [SessionsNext]_vars, NEW h \in Tabs, WrongCode(h)
  PROVE  TriesCounted'
<1> USE DEF Base
<1>1. req[h] \in Request /\ req[h].pc = "wrong"
  BY DEF WrongCode, SessionsTypeOK
<1> PICK d \in Codes, n \in Nat : d = req[h].item /\ n = req[h].attempts /\ code[d] # None
  BY <1>1, RequestTypes DEF Promised
<1>2. code[d] \in Code
  BY RowTypes
<1>3. tries' = [tries EXCEPT ![d] = @ + 1] /\ raced' = raced /\ Goes(h, Idle)
  BY DEF WrongCode
<1>4. req'[h].pc = "idle" /\ \A g \in Tabs \ {h} : req'[g] = req[g]
  BY <1>3 DEF Goes, Continue, SessionsTypeOK, Idle
<1> PICK row : row = [code[d] EXCEPT !.attempts = n + 1,
                                     !.status = IF n + 1 >= MaxAttempts THEN "used" ELSE @]
  OBVIOUS
<1>5. \/ code' = code /\ code[d].status = "gone"
      \/ code' = [code EXCEPT ![d] = row]
  BY DEF WrongCode
<1>6. row.attempts = n + 1 /\ (row.status = "live" => ~(n + 1 >= MaxAttempts))
  <2> PICK status : status = IF n + 1 >= MaxAttempts THEN "used" ELSE code[d].status
    OBVIOUS
  <2>1. row = [code[d] EXCEPT !.attempts = n + 1, !.status = status]
    BY <1>2 DEF Code
  <2>2. row.attempts = n + 1 /\ row.status = status
    BY <1>2, <2>1 DEF Code
  <2> QED
    BY ONLY <2>2, status = IF n + 1 >= MaxAttempts THEN "used" ELSE code[d].status
<1> SUFFICES ASSUME NEW c \in Codes, <<"code", c>> \notin raced PROVE Counted(c)'
  BY <1>3 DEF TriesCounted
<1>7. Counted(c)
  BY DEF TriesCounted
<1>8. CASE c # d
  <2>1. code'[c] = code[c] /\ tries'[c] = tries[c]
    BY <1>3, <1>5, <1>8 DEF SessionsTypeOK
  <2> QED
    BY <1>4, <1>7, <2>1 DEF Counted
<1>9. CASE c = d
  <2>1. tries[c] = n /\ n < MaxAttempts
    BY <1>1, <1>7, <1>9 DEF Counted
  <2>2. tries'[c] = n + 1
    BY <1>3, <1>9, <2>1 DEF SessionsTypeOK
  <2>3. n + 1 <= MaxAttempts /\ (n + 1 >= MaxAttempts \/ n + 1 < MaxAttempts)
    BY <2>1, SessionsAssumption
  <2>4. code'[c] # None
    BY <1>9, RowsStay DEF RowsKept
  <2>5. code'[c].status = "live" => code'[c].attempts = n + 1 /\ n + 1 < MaxAttempts
    <3>1. \/ code'[c].status = "gone"
          \/ code'[c] = row
      BY <1>5, <1>9 DEF SessionsTypeOK
    <3> QED
      BY ONLY <1>6, <2>3, <3>1
  <2>6. \A g \in Tabs : ~(req'[g].pc = "wrong" /\ req'[g].item = c)
    <3> SUFFICES ASSUME NEW g \in Tabs, req'[g].pc = "wrong", req'[g].item = c PROVE FALSE
      OBVIOUS
    <3>1. g # h /\ req'[g] = req[g]
      BY <1>4
    <3>2. Holds(g) = <<"code", c>> /\ Holds(h) = <<"code", c>>
      BY <1>1, <1>9, <3>1 DEF Holds
    <3>3. <<"code", c>> \in Tokens
      BY DEF Tokens
    <3> QED
      BY <3>1, <3>2, <3>3 DEF Single
  <2> QED
    BY <2>2, <2>3, <2>4, <2>5, <2>6 DEF Counted
<1> QED
  BY <1>8, <1>9

LEMMA TriesKept ==
  ASSUME Base, Single, TriesCounted, [SessionsNext]_vars
  PROVE  TriesCounted'
<1> USE DEF Base
<1>1. CASE \E h \in Tabs : WrongCode(h)
  BY <1>1, TryCounted
<1>2. CASE \A h \in Tabs : ~WrongCode(h)
  <2>1. tries' = tries /\ raced \subseteq raced'
    BY <1>2, CodesMove, TurnsOf DEF Turned, vars, history
  <2> SUFFICES ASSUME NEW c \in Codes, <<"code", c>> \notin raced' PROVE Counted(c)'
    BY DEF TriesCounted
  <2>2. Counted(c)
    BY <2>1 DEF TriesCounted
  <2>3. \/ code'[c] = code[c]
        \/ code'[c] # None /\ code'[c].status # "live"
        \/ code[c] = None /\ code'[c].attempts = 0
    BY <1>2, CodesMove
  <2>4. code[c] # None => code'[c] # None
    BY RowsStay DEF RowsKept
  <2>5. code'[c] = None => tries'[c] = 0
    BY <2>1, <2>2, <2>4 DEF Counted
  <2>6. code'[c] # None /\ code'[c].status = "live" =>
          tries'[c] = code'[c].attempts /\ tries'[c] < MaxAttempts
    BY <2>1, <2>2, <2>3, SessionsAssumption DEF Counted
  <2>7. ASSUME NEW h \in Tabs, req'[h].pc = "wrong", req'[h].item = c
        PROVE  tries'[c] = req'[h].attempts /\ tries'[c] < MaxAttempts
    BY <2>1, <2>2, <2>7, WrongHolders DEF Counted
  <2> QED
    BY <2>1, <2>2, <2>5, <2>6, <2>7 DEF Counted
<1> QED
  BY <1>1, <1>2

\* A code, a reset link and a refresh token each open something once, and a
\* code is spent by MaxAttempts wrong tries, unless two requests held it at
\* once (VerifyAuthOTP, ConfirmPasswordReset, Refresh).
THEOREM OpensOnce == SessionsSpec => []UsedOnce
<1>1. Init => Single /\ OpenedOnce /\ TriesCounted
  <2> SUFFICES ASSUME Init PROVE Single /\ OpenedOnce /\ TriesCounted
    OBVIOUS
  <2>1. \A h \in Tabs : Holds(h) = None /\ req[h].pc = "idle"
    BY DEF Init, Holds, Idle
  <2>2. \A c \in Codes : code[c] = None /\ tries[c] = 0
    BY DEF Init
  <2>3. \A t \in Tokens : uses[t] = 0
    BY DEF Init
  <2>4. 0 <= MaxAttempts
    BY SessionsAssumption
  <2> QED
    BY <2>1, <2>2, <2>3, <2>4, NoneAssumption DEF Single, OpenedOnce, TriesCounted, Counted
<1>2. Base /\ Single /\ [SessionsNext]_vars => Single'
  BY SingleKept
<1>3. Base /\ Single /\ OpenedOnce /\ [SessionsNext]_vars => OpenedOnce'
  BY OpenedOnceKept
<1>4. Base /\ Single /\ TriesCounted /\ [SessionsNext]_vars => TriesCounted'
  BY TriesKept
<1>5. Base /\ OpenedOnce /\ TriesCounted => UsedOnce
  <2> SUFFICES ASSUME OpenedOnce, TriesCounted PROVE UsedOnce
    OBVIOUS
  <2>1. \A t \in Tokens \ raced : uses[t] <= 1
    BY DEF OpenedOnce
  <2> QED
    BY <2>1 DEF TriesCounted, Counted, UsedOnce
<1> QED
  BY AlwaysBase, <1>1, <1>2, <1>3, <1>4, <1>5, PTL DEF SessionsSpec
===============================================================================
