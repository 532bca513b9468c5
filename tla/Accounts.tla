------------------------------ MODULE Accounts ------------------------------
(***************************************************************************)
(* Registration, login, refresh, logout and the check of the bearer token  *)
(* (api/v1/auth.py, core/security.py, schemas/user.py, get_current_user in *)
(* api/deps.py) over the users table.  Requests of several people overlap: *)
(* registration asks whether the address is taken, hashes the password,    *)
(* and inserts the row some time later.  Tokens live in people's hands     *)
(* only; a clock ages them.                                                *)
(***************************************************************************)
EXTENDS Integers, Sequences, Errors

CONSTANTS
  Persons,      \* people, each with a password nobody else has
  Addresses,    \* e-mail addresses as people may spell them
  Lower,        \* what str.lower() makes of each
  None,         \* the e-mail of a User that was given none
  AccessLife,   \* jwt_access_token_expire_minutes
  RefreshLife,  \* jwt_refresh_token_expire_days
  MaxTime       \* bound: how far the clock runs

ASSUME AccountsAssumption ==
  /\ Lower \in [Addresses -> Addresses]
  /\ \A a \in Addresses : Lower[Lower[a]] = Lower[a]
  /\ None \notin Addresses
  /\ AccessLife \in Nat \ {0}
  /\ RefreshLife \in Nat \ {0}
  /\ MaxTime \in Nat

VARIABLES
  users,   \* rows of the users table; an id is a row's place
  asked,   \* the address a person's registration has found free, or None
  held,    \* the tokens each person has been given
  now,     \* the clock
  reply,   \* the response sent last, and the account it was made for
  proved   \* history: when the password of each account was given last

vars == <<users, asked, held, now, reply, proved>>

Ids     == 1..Len(users)
Lowered == {Lower[a] : a \in Addresses}

Found(email) == {i \in Ids : users[i].email = email}

Respond(p, status, id) == reply' = [to |-> p, status |-> status, as |-> id]
NoReply == [to |-> None, status |-> 0, as |-> 0]
-----------------------------------------------------------------------------
Init ==
  /\ users = <<>>
  /\ asked = [p \in Persons |-> None]
  /\ held = [p \in Persons |-> {}]
  /\ now = 0
  /\ reply = NoReply
  /\ proved = <<>>

Token(id, kind, life) == [sub |-> id, type |-> kind, exp |-> now + life]

\* Mutant of Decode: the type is not looked at.
DecodeAnyType(t, expected) == now < t.exp
\* decode_token: the signature, the expiry and the type of a token.
Decode(t, expected) == now < t.exp /\ t.type = expected

\* The response model takes an e-mail address only.
UserOut(email) == email \in Addresses

\* _token_pair_for: both tokens go out with the account, or nothing does.
TokenPairFor(p, id, email) ==
  IF UserOut(email)
  THEN /\ held' = [held EXCEPT ![p] = @ \cup {Token(id, "access", AccessLife),
                                              Token(id, "refresh", RefreshLife)}]
       /\ Respond(p, Accepted, 0)
  ELSE Respond(p, Unhandled, 0) /\ UNCHANGED held

-----------------------------------------------------------------------------
\* Mutant of Spelling: the address is taken as it was typed.
SpellingAsTyped(a) == a
\* body.email.lower()
Spelling(a) == Lower[a]

\* register, the query for an account of that address.
Ask(p, a) ==
  /\ asked[p] = None
  /\ IF Found(Spelling(a)) # {}
     THEN Respond(p, Refusal.ConflictError, 0) /\ UNCHANGED asked
     ELSE asked' = [asked EXCEPT ![p] = Spelling(a)] /\ UNCHANGED reply
  /\ UNCHANGED <<users, held, now, proved>>

\* Mutant of Insert: the loser of a race is taken for the owner of the row.
InsertOrFind(p) ==
  /\ asked[p] # None
  /\ asked' = [asked EXCEPT ![p] = None]
  /\ LET row == [email |-> asked[p], password |-> p, is_active |-> TRUE] IN
     IF Found(asked[p]) = {}
     THEN /\ users' = Append(users, row)
          /\ proved' = Append(proved, now)
          /\ TokenPairFor(p, Len(users'), row.email)
     ELSE /\ \E i \in Found(asked[p]) : TokenPairFor(p, i, users[i].email)
          /\ UNCHANGED <<users, proved>>
  /\ UNCHANGED now
\* register, the commit: the unique index refuses an address that was taken
\* meanwhile, and nobody catches what it raises.
Insert(p) ==
  /\ asked[p] # None
  /\ asked' = [asked EXCEPT ![p] = None]
  /\ IF Found(asked[p]) = {}
     THEN /\ users' = Append(users, [email |-> asked[p], password |-> p, is_active |-> TRUE])
          /\ proved' = Append(proved, now)
          /\ TokenPairFor(p, Len(users'), asked[p])
     ELSE Respond(p, Unhandled, 0) /\ UNCHANGED <<users, held, proved>>
  /\ UNCHANGED now

\* login, with the one password the person has.
Login(p, a) ==
  /\ LET good == {i \in Found(Spelling(a)) : users[i].password = p /\ users[i].is_active} IN
     \/ good = {} /\ Respond(p, Refusal.AuthorizationError, 0) /\ UNCHANGED <<held, proved>>
     \/ \E i \in good : /\ TokenPairFor(p, i, users[i].email)
                         /\ proved' = [proved EXCEPT ![i] = now]
  /\ UNCHANGED <<users, asked, now>>

\* refresh: a good token is answered for a User made of its id alone.
Refresh(p, t) ==
  /\ IF Decode(t, "refresh")
     THEN TokenPairFor(p, t.sub, None)
     ELSE Respond(p, Refusal.AuthorizationError, 0) /\ UNCHANGED held
  /\ UNCHANGED <<users, asked, now, proved>>

\* get_current_user in front of an endpoint.
Call(p, t) ==
  /\ IF Decode(t, "access") /\ users[t.sub].is_active
     THEN Respond(p, Accepted, t.sub)
     ELSE Respond(p, Refusal.AuthorizationError, 0)
  /\ UNCHANGED <<users, asked, held, now, proved>>

\* logout asks for a good token and does no more: both tokens stay good.
Logout(p, t) == Call(p, t)

\* An operator sets is_active; nothing in the program does.
SetActive(i, b) ==
  /\ users[i].is_active # b
  /\ users' = [users EXCEPT ![i].is_active = b]
  /\ reply' = NoReply
  /\ UNCHANGED <<asked, held, now, proved>>

Tick ==
  /\ now < MaxTime
  /\ now' = now + 1
  /\ reply' = NoReply
  /\ UNCHANGED <<users, asked, held, proved>>

Next ==
  \/ \E p \in Persons :
       \/ \E a \in Addresses : Ask(p, a) \/ Login(p, a)
       \/ Insert(p)
       \/ \E t \in held[p] : Refresh(p, t) \/ Logout(p, t) \/ Call(p, t)
  \/ \E i \in Ids, b \in BOOLEAN : SetActive(i, b)
  \/ Tick

Spec == Init /\ [][Next]_vars
-----------------------------------------------------------------------------
TypeOK ==
  /\ users \in Seq([email : Lowered, password : Persons, is_active : BOOLEAN])
  /\ asked \in [Persons -> Lowered \cup {None}]
  /\ held \in [Persons -> SUBSET [sub : Ids, type : {"access", "refresh"}, exp : Nat]]
  /\ now \in Nat
  /\ reply \in [to : Persons \cup {None}, status : Nat, as : Ids \cup {0}]
  /\ proved \in Seq(Nat) /\ Len(proved) = Len(users)

\* However registrations of one address overlap and however they spell it,
\* they leave one account (auth.py:31-36, the unique index at models.py:49).
OneAccountPerAddress ==
  \A i, j \in Ids : Lower[users[i].email] = Lower[users[j].email] => i = j

\* The tokens a person holds are for accounts with that person's password,
\* those that lost a race for an address included (auth.py:34-38).
TokensFollowPasswords ==
  \A p \in Persons : \A t \in held[p] : users[t.sub].password = p

\* Nobody is served longer than one access token lives after giving the
\* password: no other token opens an endpoint, and since refresh fails
\* (auth.py:58), none is traded for a new one (docs/12-security.md:35).
ServedWithinLife ==
  reply.as # 0 => now < proved[reply.as] + AccessLife

\* However requests of several people, tokens and the clock mix, the accounts
\* carry out a Registry: nobody is served as an account but the person who
\* registered its address first, and only within AccessLife of a login.
Book == INSTANCE Registry WITH
  Addresses <- Lowered,
  Life      <- AccessLife,
  accounts  <- {[address |-> users[i].email, owner  |-> users[i].password,
                 proved  |-> proved[i],      active |-> users[i].is_active] : i \in Ids},
  served    <- IF reply.as = 0 THEN [to |-> None, as |-> None]
               ELSE [to |-> reply.to, as |-> users[reply.as].email]

\* Every step is one of the registry, or nothing it knows of.
ImplementsRegistry == Book!Spec
=============================================================================
