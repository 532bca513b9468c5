--------------------------- MODULE AccountsProofs ---------------------------
(***************************************************************************)
(* The invariants of Accounts hold for any people, addresses and lives.    *)
(* All but TypeOK need the same strengthening: e-mails in the table are    *)
(* lower-cased, so that the unique index tells accounts apart, and an      *)
(* access token expires within its life after a password was last given.   *)
(***************************************************************************)
EXTENDS Accounts, TLAPS

Unique == \A i, j \in Ids : users[i].email = users[j].email => i = j

Aged ==
  /\ \A i \in Ids : proved[i] <= now
  /\ \A p \in Persons : \A t \in held[p] :
       t.type = "access" => t.exp <= proved[t.sub] + AccessLife

IInv == TypeOK /\ Unique /\ TokensFollowPasswords /\ Aged /\ ServedWithinLife

USE AccountsAssumption DEF AccountsAssumption
-----------------------------------------------------------------------------
\* Before anybody registers.
LEMMA InitIInv == Init => IInv
  BY DEF Init, IInv, TypeOK, Unique, TokensFollowPasswords, Aged, ServedWithinLife, Ids,
         NoReply

\* The query of a registration stores lower-cased addresses only.
LEMMA AskIInv ==
  ASSUME IInv, NEW p \in Persons, NEW a \in Addresses, Ask(p, a)
  PROVE  IInv'
<1>1. TypeOK'
  BY DEF Ask, IInv, TypeOK, Ids, Respond, Refusal, Spelling, Lowered
<1>2. (Unique /\ TokensFollowPasswords /\ Aged)'
  BY DEF Ask, IInv, Unique, TokensFollowPasswords, Aged, Ids
<1>3. ServedWithinLife'
  BY DEF Ask, IInv, ServedWithinLife, Respond
<1> QED BY <1>1, <1>2, <1>3 DEF IInv

\* The commit of a registration.
LEMMA InsertIInv ==
  ASSUME IInv, NEW p \in Persons, Insert(p)
  PROVE  IInv'
<1> USE DEF IInv
<1>1. CASE Found(asked[p]) # {}
  <2>1. /\ UNCHANGED <<users, held, proved, now>>
        /\ asked' = [asked EXCEPT ![p] = None]
        /\ reply' = [to |-> p, status |-> 500, as |-> 0]
    BY <1>1 DEF Insert, Respond, Unhandled, Accepted
  <2>2. TypeOK'
    BY <2>1 DEF TypeOK, Ids, Lowered
  <2>3. (Unique /\ TokensFollowPasswords /\ Aged /\ ServedWithinLife)'
    BY <2>1 DEF Unique, TokensFollowPasswords, Aged, ServedWithinLife, Ids
  <2> QED BY <2>2, <2>3
<1>2. CASE Found(asked[p]) = {}
  <2> DEFINE row == [email |-> asked[p], password |-> p, is_active |-> TRUE]
             n   == Len(users) + 1
             two == {Token(n, "access", AccessLife), Token(n, "refresh", RefreshLife)}
  <2>1. /\ users' = Append(users, row) /\ proved' = Append(proved, now)
        /\ asked' = [asked EXCEPT ![p] = None] /\ now' = now
        /\ TokenPairFor(p, n, asked[p])
    BY <1>2 DEF Insert, TypeOK
  <2>2. row \in [email : Lowered, password : Persons, is_active : BOOLEAN]
    BY DEF Insert, TypeOK
  <2>3. /\ n \in Nat /\ Len(users') = n /\ Len(proved') = n /\ Ids' = 1..n
        /\ users'[n] = row /\ proved'[n] = now
        /\ \A i \in Ids : users'[i] = users[i] /\ proved'[i] = proved[i]
        /\ Ids' = Ids \cup {n} /\ n \notin Ids
    BY <2>1, <2>2 DEF TypeOK, Ids
  <2>4. /\ reply' \in [to : Persons \cup {None}, status : Nat, as : {0}]
        /\ held' = held \/ held' = [held EXCEPT ![p] = @ \cup two]
    BY <2>1 DEF TokenPairFor, Respond, Unhandled, Accepted, TypeOK
  <2>5. two \subseteq [sub : 1..n, type : {"access", "refresh"}, exp : Nat]
    BY <2>3 DEF Token, TypeOK
  <2>6. \A q \in Persons : \A t \in held'[q] :
          t \in held[q] \/ (q = p /\ t \in two)
    BY <2>4 DEF TypeOK
  <2>7. TypeOK'
    <3>1. users' \in Seq([email : Lowered, password : Persons, is_active : BOOLEAN])
      BY <2>1, <2>2 DEF TypeOK
    <3>2. held' \in [Persons -> SUBSET [sub : Ids', type : {"access", "refresh"}, exp : Nat]]
      <4>1. \A q \in Persons : held[q] \subseteq [sub : 1..n, type : {"access", "refresh"}, exp : Nat]
        BY <2>3 DEF TypeOK, Ids
      <4> HIDE DEF two, n
      <4> QED BY <4>1, <2>3, <2>4, <2>5 DEF TypeOK
    <3>3. reply' \in [to : Persons \cup {None}, status : Nat, as : Ids' \cup {0}]
      BY <2>4
    <3>4. proved' \in Seq(Nat) /\ Len(proved') = Len(users')
      BY <2>1, <2>3 DEF TypeOK
    <3> QED BY <2>1, <3>1, <3>2, <3>3, <3>4 DEF TypeOK, Lowered
  <2>8. Unique'
    BY <1>2, <2>3 DEF Unique, Found
  <2>9. TokensFollowPasswords'
    BY <2>3, <2>6 DEF TokensFollowPasswords, Token, TypeOK
  <2>10. Aged'
    <3>1. \A i \in Ids' : proved'[i] <= now'
      BY <2>1, <2>3 DEF Aged, TypeOK
    <3>2. \A t \in two : t.sub = n /\ t.type = "access" => t.exp = now + AccessLife
      BY DEF Token
    <3>3. \A q \in Persons : \A t \in held'[q] :
            t.type = "access" => t.exp <= proved'[t.sub] + AccessLife
      <4> SUFFICES ASSUME NEW q \in Persons, NEW t \in held'[q], t.type = "access"
                   PROVE  t.exp <= proved'[t.sub] + AccessLife
        OBVIOUS
      <4>1. CASE t \in held[q]
        BY <2>3, <4>1 DEF Aged, TypeOK
      <4>2. CASE t \in two
        BY <2>3, <4>2 DEF Token, TypeOK
      <4> QED BY <2>6, <4>1, <4>2
    <3> QED BY <3>1, <3>3 DEF Aged
  <2>11. ServedWithinLife'
    BY <2>4 DEF ServedWithinLife
  <2> QED BY <2>7, <2>8, <2>9, <2>10, <2>11
<1> QED BY <1>1, <1>2

\* login gives tokens to the one whose password the row has.
LEMMA LoginIInv ==
  ASSUME IInv, NEW p \in Persons, NEW a \in Addresses, Login(p, a)
  PROVE  IInv'
<1> USE DEF IInv
<1>1. UNCHANGED <<users, asked, now>> /\ Ids' = Ids
  BY DEF Login, Ids
<1>2. CASE UNCHANGED <<held, proved>> /\ Respond(p, Refusal.AuthorizationError, 0)
  <2>1. TypeOK'
    BY <1>1, <1>2 DEF TypeOK, Respond, Refusal, Lowered
  <2>2. (Unique /\ TokensFollowPasswords /\ Aged /\ ServedWithinLife)'
    BY <1>1, <1>2 DEF Unique, TokensFollowPasswords, Aged, ServedWithinLife, Respond
  <2> QED BY <2>1, <2>2
<1>3. ASSUME NEW i \in Ids, users[i].password = p, TokenPairFor(p, i, users[i].email),
             proved' = [proved EXCEPT ![i] = now]
      PROVE  IInv'
  <2> DEFINE two == {Token(i, "access", AccessLife), Token(i, "refresh", RefreshLife)}
  <2>1. /\ reply' \in [to : Persons \cup {None}, status : Nat, as : {0}]
        /\ held' = held \/ held' = [held EXCEPT ![p] = @ \cup two]
    BY <1>3 DEF TokenPairFor, Respond, Unhandled, Accepted
  <2>2. two \subseteq [sub : Ids, type : {"access", "refresh"}, exp : Nat]
    BY DEF Token, TypeOK
  <2>3. \A t \in two : t.sub = i /\ t.exp \in Nat /\ (t.type = "access" => t.exp = now + AccessLife)
    BY DEF Token, TypeOK
  <2> HIDE DEF two
  <2>4. \A q \in Persons : \A t \in held'[q] : t \in held[q] \/ (q = p /\ t \in two)
    BY <2>1 DEF TypeOK
  <2>5. /\ Len(proved') = Len(proved) /\ proved' \in Seq(Nat)
        /\ \A j \in Ids : proved[j] \in Nat /\ proved'[j] = IF j = i THEN now ELSE proved[j]
    BY <1>3 DEF TypeOK, Ids
  <2>6. TypeOK'
    BY <1>1, <2>1, <2>2, <2>5 DEF TypeOK, Lowered
  <2>7. Unique'
    BY <1>1 DEF Unique
  <2>8. TokensFollowPasswords'
    BY <1>1, <1>3, <2>3, <2>4 DEF TokensFollowPasswords
  <2>9. Aged'
    <3>1. \A j \in Ids : proved'[j] <= now /\ proved[j] <= proved'[j]
      BY <2>5 DEF Aged, TypeOK
    <3>2. ASSUME NEW q \in Persons, NEW t \in held'[q], t.type = "access"
          PROVE  t.exp <= proved'[t.sub] + AccessLife
      <4>1. CASE t \in held[q]
        <5>1. t.sub \in Ids /\ t.exp \in Nat /\ t.exp <= proved[t.sub] + AccessLife
          BY <3>2, <4>1 DEF TypeOK, Aged
        <5>2. proved'[t.sub] \in Nat /\ proved[t.sub] \in Nat
          BY <5>1, <2>5 DEF TypeOK
        <5> QED BY <5>1, <5>2, <3>1
      <4>2. CASE t \in two
        BY <2>3, <2>5, <3>2, <4>2 DEF TypeOK
      <4> QED BY <2>4, <4>1, <4>2
    <3> QED BY <1>1, <3>1, <3>2 DEF Aged
  <2>10. ServedWithinLife'
    BY <2>1 DEF ServedWithinLife
  <2> QED BY <2>6, <2>7, <2>8, <2>9, <2>10
<1> QED BY <1>2, <1>3 DEF Login, Found

\* refresh gives nothing: the User it answers for has no e-mail.
LEMMA RefreshIInv ==
  ASSUME IInv, NEW p \in Persons, NEW t \in held[p], Refresh(p, t)
  PROVE  IInv'
<1> USE DEF IInv
<1>1. /\ UNCHANGED <<users, asked, now, proved, held>>
      /\ reply' \in [to : Persons, status : Nat, as : {0}]
  BY DEF Refresh, TokenPairFor, UserOut, Respond, Unhandled, Accepted, Refusal
<1>2. TypeOK'
  BY <1>1 DEF TypeOK, Ids, Lowered
<1>3. (Unique /\ TokensFollowPasswords /\ Aged /\ ServedWithinLife)'
  BY <1>1 DEF Unique, TokensFollowPasswords, Aged, ServedWithinLife, Ids
<1> QED BY <1>2, <1>3

\* A call is served for an access token that has not expired.
LEMMA CallIInv ==
  ASSUME IInv, NEW p \in Persons, NEW t \in held[p], Call(p, t)
  PROVE  IInv'
<1> USE DEF IInv
<1>1. /\ UNCHANGED <<users, asked, now, proved, held>> /\ Ids' = Ids
      /\ t.sub \in Ids /\ t.exp \in Nat /\ proved[t.sub] \in Nat
      /\ \/ reply' = [to |-> p, status |-> 401, as |-> 0]
         \/ /\ reply' = [to |-> p, status |-> 200, as |-> t.sub]
            /\ now < t.exp /\ t.type = "access"
  BY DEF Call, Respond, Accepted, Refusal, Decode, TypeOK, Ids
<1>2. TypeOK'
  BY <1>1 DEF TypeOK, Lowered
<1>3. (Unique /\ TokensFollowPasswords /\ Aged)'
  BY <1>1 DEF Unique, TokensFollowPasswords, Aged
<1>4. ServedWithinLife'
  BY <1>1 DEF ServedWithinLife, Aged, TypeOK
<1> QED BY <1>2, <1>3, <1>4

\* Operators change no e-mail and no password; the clock only runs.
LEMMA OtherIInv ==
  ASSUME IInv, \/ \E i \in Ids, b \in BOOLEAN : SetActive(i, b)
               \/ Tick
  PROVE  IInv'
<1> USE DEF IInv
<1>1. ASSUME NEW i \in Ids, NEW b \in BOOLEAN, SetActive(i, b) PROVE IInv'
  <2>1. /\ UNCHANGED <<asked, held, now, proved>> /\ reply' = NoReply
        /\ users' \in Seq([email : Lowered, password : Persons, is_active : BOOLEAN])
        /\ Len(users') = Len(users) /\ Ids' = Ids
        /\ \A j \in Ids : users'[j].email = users[j].email /\ users'[j].password = users[j].password
    <3> DEFINE Row == [email : Lowered, password : Persons, is_active : BOOLEAN]
    <3>1. /\ UNCHANGED <<asked, held, now, proved>> /\ reply' = NoReply
          /\ users' = [users EXCEPT ![i] = [users[i] EXCEPT !.is_active = b]]
      BY <1>1 DEF SetActive
    <3>2. users \in Seq(Row) /\ i \in 1..Len(users)
      BY DEF TypeOK, Ids
    <3>3. \A j \in Ids : users[j] \in Row
      <4> HIDE DEF Row
      <4> QED BY <3>2 DEF Ids
    <3>4. [users[i] EXCEPT !.is_active = b] \in Row
      BY <3>3
    <3>5. Len(users') = Len(users) /\ users' \in Seq(Row)
      <4> HIDE DEF Row
      <4> QED BY <3>1, <3>2, <3>4
    <3>6. \A j \in Ids : users'[j].email = users[j].email /\ users'[j].password = users[j].password
      BY <3>1, <3>2, <3>3 DEF Ids
    <3> QED BY <3>1, <3>5, <3>6 DEF Ids
  <2>2. TypeOK'
    BY <2>1 DEF TypeOK, NoReply, Lowered
  <2>3. TokensFollowPasswords'
    BY <2>1 DEF TokensFollowPasswords, TypeOK
  <2>4. (Unique /\ Aged /\ ServedWithinLife)'
    BY <2>1 DEF Unique, Aged, ServedWithinLife, NoReply
  <2> QED BY <2>2, <2>3, <2>4
<1>2. CASE Tick
  <2>1. UNCHANGED <<users, asked, held, proved>> /\ now' = now + 1 /\ reply' = NoReply
    BY <1>2 DEF Tick
  <2>2. TypeOK'
    BY <2>1 DEF TypeOK, NoReply, Ids, Lowered
  <2>3. \A i \in Ids : proved[i] \in Nat
    BY DEF TypeOK, Ids
  <2>4. (Unique /\ TokensFollowPasswords /\ Aged /\ ServedWithinLife)'
    BY <2>1, <2>3 DEF Unique, TokensFollowPasswords, Aged, ServedWithinLife, NoReply, Ids, TypeOK
  <2> QED BY <2>2, <2>4
<1> QED BY <1>1, <1>2

\* The invariant holds in every reachable state.
THEOREM Inductive == Spec => []IInv
<1>1. IInv /\ [Next]_vars => IInv'
  <2> SUFFICES ASSUME IInv, [Next]_vars PROVE IInv'
    OBVIOUS
  <2>1. CASE Next
    BY <2>1, AskIInv, InsertIInv, LoginIInv, RefreshIInv, CallIInv, OtherIInv DEF Next, Logout
  <2>2. CASE UNCHANGED vars
    BY <2>2 DEF vars, IInv, TypeOK, Unique, TokensFollowPasswords, Aged, ServedWithinLife,
                Ids, Lowered
  <2> QED BY <2>1, <2>2
<1> QED BY InitIInv, <1>1, PTL DEF Spec

\* Rows, tokens and replies have their types: no token or reply names an
\* account that is not in the table.
THEOREM TypeCorrect == Spec => []TypeOK
  BY Inductive, PTL DEF IInv

\* However many people race for an address, in whatever spellings, it has one
\* account.
THEOREM OneAccount == Spec => []OneAccountPerAddress
<1>1. IInv => OneAccountPerAddress
  <2> SUFFICES ASSUME IInv, NEW i \in Ids, NEW j \in Ids,
                      Lower[users[i].email] = Lower[users[j].email]
               PROVE  i = j
    BY DEF OneAccountPerAddress
  <2>1. \A k \in Ids : users[k].email \in Lowered
    <3> DEFINE Row == [email : Lowered, password : Persons, is_active : BOOLEAN]
    <3>1. users \in Seq(Row)
      BY DEF IInv, TypeOK
    <3>2. \A k \in Ids : users[k] \in Row
      <4> HIDE DEF Row
      <4> QED BY <3>1 DEF Ids
    <3> QED BY <3>2
  <2>2. \A k \in Ids : Lower[users[k].email] = users[k].email
    BY <2>1 DEF Lowered
  <2> QED BY <2>2 DEF IInv, Unique
<1> QED BY <1>1, Inductive, PTL

\* Nobody ever holds a token for an account with another's password.
THEOREM OwnTokens == Spec => []TokensFollowPasswords
  BY Inductive, PTL DEF IInv

\* Nobody is served longer than an access token's life after the password.
THEOREM Served == Spec => []ServedWithinLife
  BY Inductive, PTL DEF IInv
-----------------------------------------------------------------------------
\* The table as a set of accounts, and the reply as a person served.
Entry(i) == [address |-> users[i].email,  owner  |-> users[i].password,
             proved  |-> proved[i],       active |-> users[i].is_active]
Entries  == {Entry(i) : i \in Ids}
Service  == IF reply.as = 0 THEN [to |-> None, as |-> None]
            ELSE [to |-> reply.to, as |-> users[reply.as].email]

\* Accounts are told apart by their addresses.
LEMMA EntriesDiffer ==
  ASSUME Unique, NEW i \in Ids, NEW j \in Ids, Entry(i) = Entry(j)
  PROVE  i = j
  BY DEF Unique, Entry

\* One row changed is one account replaced.
LEMMA ReplaceEntry ==
  ASSUME Unique, Ids' = Ids, NEW i \in Ids, NEW y, Entry(i)' = y,
         \A j \in Ids : j # i => Entry(j)' = Entry(j)
  PROVE  Entries' = (Entries \ {Entry(i)}) \cup {y}
<1>1. \A j \in Ids : j # i => Entry(j) # Entry(i)
  BY EntriesDiffer
<1>2. \A x : x \in Entries' <=> \E j \in Ids : x = Entry(j)'
  BY DEF Entries
<1>3. \A x : x \in Entries <=> \E j \in Ids : x = Entry(j)
  BY DEF Entries
<1> HIDE DEF Entries
<1>4. \A x : x \in Entries' <=> x \in (Entries \ {Entry(i)}) \cup {y}
  BY <1>1, <1>2, <1>3
<1> QED BY <1>4

\* A response that serves nobody, and changes no row, refuses.
LEMMA Refused ==
  ASSUME UNCHANGED <<users, proved, now>>, reply'.as = 0
  PROVE  Book!Refuse
  BY DEF Book!Refuse, Book!Nobody, Ids

\* Registration writes a new account, or nothing.
LEMMA InsertKeeps ==
  ASSUME IInv, NEW p \in Persons, Insert(p)
  PROVE  Book!Next
<1>1. CASE Found(asked[p]) # {}
  <2>1. UNCHANGED <<users, proved, now>> /\ reply'.as = 0
    BY <1>1 DEF Insert, Respond
  <2> QED BY <2>1, Refused DEF Book!Next
<1>2. CASE Found(asked[p]) = {}
  <2> DEFINE row == [email |-> asked[p], password |-> p, is_active |-> TRUE]
  <2>0. PICK n : n = Len(users) + 1
    OBVIOUS
  <2>1. /\ users' = Append(users, row) /\ proved' = Append(proved, now) /\ now' = now
        /\ reply'.as = 0 /\ asked[p] \in Lowered
    BY <1>2 DEF Insert, IInv, TypeOK, TokenPairFor, Respond
  <2>2. /\ Ids' = Ids \cup {n} /\ n \notin Ids /\ users'[n] = row /\ proved'[n] = now
        /\ \A i \in Ids : users'[i] = users[i] /\ proved'[i] = proved[i]
    BY <2>0, <2>1 DEF IInv, TypeOK, Ids
  <2>3. Entry(n)' = [address |-> asked[p], owner |-> p, proved |-> now, active |-> TRUE]
    BY <2>2 DEF Entry
  <2>4. \A i \in Ids : Entry(i)' = Entry(i)
    BY <2>2 DEF Entry
  <2>5. Entries' = Entries \cup {Entry(n)'}
    <3>1. Entries' = {Entry(i)' : i \in Ids'}
      BY DEF Entries
    <3> QED BY <2>2, <2>4, <3>1 DEF Entries
  <2>6. \A x \in Entries : x.address # asked[p]
    BY <1>2 DEF Entries, Entry, Found
  <2>7. PICK a : a = asked[p] /\ a \in Lowered
    BY <2>1
  <2>8. Book!Register(p, a)
    BY <2>1, <2>3, <2>5, <2>6, <2>7 DEF Book!Register, Book!Nobody, Entries, Entry
  <2> QED BY <2>7, <2>8 DEF Book!Next
<1> QED BY <1>1, <1>2

\* A login proves the password of an active account, or is refused.
LEMMA LoginKeeps ==
  ASSUME IInv, NEW p \in Persons, NEW a \in Addresses, Login(p, a)
  PROVE  Book!Next
<1>1. CASE UNCHANGED proved /\ Respond(p, Refusal.AuthorizationError, 0)
  <2>1. UNCHANGED <<users, proved, now>> /\ reply'.as = 0
    BY <1>1 DEF Login, Respond
  <2> QED BY <2>1, Refused DEF Book!Next
<1>2. ASSUME NEW i \in Ids, users[i].is_active, TokenPairFor(p, i, users[i].email),
             proved' = [proved EXCEPT ![i] = now]
      PROVE  Book!Next
  <2>1. UNCHANGED <<users, now>> /\ Ids' = Ids /\ reply'.as = 0
    BY <1>2 DEF Login, TokenPairFor, Respond, Ids
  <2>2. /\ proved'[i] = now
        /\ \A j \in Ids : j # i => proved'[j] = proved[j]
    BY <1>2 DEF IInv, TypeOK, Ids
  <2>3. Entry(i)' = [Entry(i) EXCEPT !.proved = now] /\ \A j \in Ids : j # i => Entry(j)' = Entry(j)
    BY <2>1, <2>2 DEF Entry
  <2>4. Entries' = (Entries \ {Entry(i)}) \cup {[Entry(i) EXCEPT !.proved = now]}
    BY <2>1, <2>3, ReplaceEntry DEF IInv
  <2>5. Entry(i) \in Entries /\ Entry(i).active
    BY <1>2 DEF Entries, Entry
  <2>6. PICK x : x = Entry(i)
    OBVIOUS
  <2>7. Book!Prove(x)
    BY <2>1, <2>4, <2>5, <2>6 DEF Book!Prove, Book!Replace, Book!Nobody, Entries, Entry
  <2> QED BY <2>5, <2>6, <2>7 DEF Book!Next, Entries, Entry
<1> QED BY <1>1, <1>2 DEF Login, Found

\* A good access token is in the hands of the owner, and young enough.
LEMMA CallKeeps ==
  ASSUME IInv, NEW p \in Persons, NEW t \in held[p], Call(p, t)
  PROVE  Book!Next
<1>0. UNCHANGED <<users, proved, now>>
  BY DEF Call
<1>1. CASE reply' = [to |-> p, status |-> Refusal.AuthorizationError, as |-> 0]
  BY <1>0, <1>1, Refused DEF Book!Next
<1>2. CASE Decode(t, "access") /\ users[t.sub].is_active /\ reply' = [to |-> p, status |-> Accepted, as |-> t.sub]
  <2>1. /\ t.sub \in Ids /\ t.sub # 0 /\ t.exp \in Nat /\ proved[t.sub] \in Nat
        /\ users[t.sub].password = p /\ t.exp <= proved[t.sub] + AccessLife /\ now < t.exp /\ now \in Nat
    BY <1>2 DEF IInv, TypeOK, TokensFollowPasswords, Aged, Decode, Ids
  <2>2. PICK x : x = Entry(t.sub)
    OBVIOUS
  <2>7. x \in Entries
    BY <2>1, <2>2 DEF Entries
  <2>6. /\ x.owner = p /\ x.address = users[t.sub].email
        /\ x.active = users[t.sub].is_active /\ x.proved = proved[t.sub]
    BY <2>1, <2>2 DEF Entry
  <2>3. Service' = [to |-> p, as |-> users[t.sub].email]
    BY <1>0, <1>2, <2>1 DEF Service
  <2>4. Book!Serve(x)
    <3>1. now < x.proved + AccessLife
      BY <2>1, <2>6
    <3> QED BY <1>0, <1>2, <2>3, <2>6, <3>1 DEF Book!Serve, Service, Ids
  <2> QED BY <2>4, <2>7 DEF Book!Next, Entries, Entry
<1> QED BY <1>1, <1>2 DEF Call, Respond

\* An operator switches one account on or off; the clock runs for all.
LEMMA OtherKeeps ==
  ASSUME IInv, \/ \E i \in Ids, b \in BOOLEAN : SetActive(i, b)
               \/ Tick
  PROVE  Book!Next
<1>1. ASSUME NEW i \in Ids, NEW b \in BOOLEAN, SetActive(i, b) PROVE Book!Next
  <2> DEFINE Row == [email : Lowered, password : Persons, is_active : BOOLEAN]
  <2>1. /\ UNCHANGED <<now, proved>> /\ reply' = NoReply
        /\ users' = [users EXCEPT ![i] = [users[i] EXCEPT !.is_active = b]]
        /\ users \in Seq(Row)
    BY <1>1 DEF SetActive, IInv, TypeOK
  <2>2. \A j \in Ids : users[j] \in Row
    <3> HIDE DEF Row
    <3> QED BY <2>1 DEF Ids
  <2>3. /\ Len(users') = Len(users) /\ users'[i] = [users[i] EXCEPT !.is_active = b]
        /\ \A j \in Ids : j # i => users'[j] = users[j]
    <3> HIDE DEF Row
    <3> QED BY <2>1 DEF Ids
  <2>4. users[i] \in Row
    BY <2>2
  <2>5. /\ users'[i].email = users[i].email /\ users'[i].password = users[i].password
        /\ users'[i].is_active = b
    BY <2>3, <2>4
  <2>6. Entry(i)' = [Entry(i) EXCEPT !.active = b] /\ \A j \in Ids : j # i => Entry(j)' = Entry(j)
    BY <2>1, <2>3, <2>5 DEF Entry
  <2>7. Ids' = Ids
    BY <2>3 DEF Ids
  <2>8. Entries' = (Entries \ {Entry(i)}) \cup {[Entry(i) EXCEPT !.active = b]}
    BY <2>6, <2>7, ReplaceEntry DEF IInv
  <2>9. PICK x : x = Entry(i) /\ x \in Entries
    BY DEF Entries
  <2>10. Book!SetActive(x, b)
    BY <2>1, <2>8, <2>9 DEF Book!SetActive, Book!Replace, Book!Nobody, Entries, Entry, NoReply
  <2> QED BY <2>9, <2>10 DEF Book!Next, Entries, Entry
<1>2. CASE Tick
  <2>1. Book!Tick
    BY <1>2 DEF Tick, Book!Tick, Book!Nobody, NoReply, Ids
  <2> QED BY <2>1 DEF Book!Next
<1> QED BY <1>1, <1>2

\* The accounts carry out the registry for any people, addresses and lives:
\* requests that overlap, tokens and the clock add no way to be served.
THEOREM RegistrySimulation == Spec => ImplementsRegistry
<1>1. Init => Book!Init
  BY DEF Init, Book!Init, Book!Nobody, NoReply, Ids
<1>2. IInv /\ [Next]_vars => [Book!Next]_(Book!vars)
  <2> SUFFICES ASSUME IInv, [Next]_vars PROVE [Book!Next]_(Book!vars)
    OBVIOUS
  <2>1. ASSUME NEW p \in Persons, NEW a \in Addresses, Ask(p, a)
        PROVE  [Book!Next]_(Book!vars)
    <3>1. UNCHANGED <<users, proved, now>> /\ (reply' = reply \/ reply'.as = 0)
      BY <2>1 DEF Ask, Respond
    <3>2. CASE reply' = reply
      BY <3>1, <3>2 DEF Book!vars, Ids
    <3>3. CASE reply'.as = 0
      BY <3>1, <3>3, Refused DEF Book!Next
    <3> QED BY <3>1, <3>2, <3>3
  <2>2. ASSUME NEW p \in Persons, NEW t \in held[p], Refresh(p, t)
        PROVE  Book!Next
    <3>1. UNCHANGED <<users, proved, now>> /\ reply'.as = 0
      BY <2>2 DEF Refresh, TokenPairFor, UserOut, Respond
    <3> QED BY <3>1, Refused DEF Book!Next
  <2>3. CASE UNCHANGED vars
    BY <2>3 DEF vars, Book!vars, Ids
  <2> QED BY <2>1, <2>2, <2>3, InsertKeeps, LoginKeeps, CallKeeps, OtherKeeps DEF Next, Logout
<1> QED BY <1>1, <1>2, Inductive, PTL DEF Spec, ImplementsRegistry, Book!Spec
=============================================================================
