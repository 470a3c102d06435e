-------------------------------- MODULE Accounts --------------------------------
(* Accounts and tokens: signup, login, profile and profile update as api-gateway  *)
(* forwards them to user-service.  A client has one password of its own and one   *)
(* request under way; its answer can get lost, and the next request be a retry.   *)
(* A token carries the user id and the mail at login and is valid for JWT_TTL;    *)
(* nothing revokes it.  Mail addresses are typed in several spellings.            *)
EXTENDS Integers

CONSTANTS
    Clients,
    Ids,        \* user ids the database hands out
    Spellings,  \* what clients type into the mail field
    Normal,     \* Normal[s]: s trimmed and in lower case
    None,
    TTL,        \* JWT_TTL, in ticks
    MaxClock, MaxUserFaults   \* bounds: ticks, failed calls

ASSUME AccountAssumption ==
    /\ Normal \in [Spellings -> Spellings]
    /\ \A s \in Spellings : Normal[Normal[s]] = Normal[s]
    /\ None \notin Spellings \union Ids \union Clients
    /\ TTL \in Nat \ {0} /\ MaxClock \in Nat /\ MaxUserFaults \in Nat

VARIABLES
    mail,     \* mail[i]: email of row i of users, None while there is no such row
    owner,    \* owner[i]: whose password hash the row has
    token,    \* token[c]: the last token client c got
    answer,   \* answer[c]: id and mail as user-service has read or written them for c
    shown,    \* history: shown[c]: the row c's last profile request led to
    refused,  \* history: a client was refused with its own mail and password
    clock, userFaults

accountVars == <<mail, owner, token, answer, shown, refused, clock, userFaults>>

NoAnswer == [id |-> None, mail |-> None]
NoToken  == [id |-> None, mail |-> None, until |-> 0]

UserFault == userFaults < MaxUserFaults /\ userFaults' = userFaults + 1
UserFine  == UNCHANGED userFaults

Rows == {i \in Ids : mail[i] /= None}

\* The rows a mail address finds; users.email is UNIQUE.
Found(m) == {i \in Rows : mail[i] = m}

\* Mutant of Entered: the address is stored and looked up as typed.
EnteredRaw(s) == s

\* strings.TrimSpace(strings.ToLower(req.Email)), in all three handlers.
Entered(s) == Normal[s]

\* A token ParseToken accepts.
Valid(c) == token[c].id /= None /\ clock < token[c].until

-----------------------------------------------------------------------------
AccountInit ==
    /\ mail = [i \in Ids |-> None] /\ owner = [i \in Ids |-> None]
    /\ token = [c \in Clients |-> NoToken]
    /\ answer = [c \in Clients |-> NoAnswer] /\ shown = [c \in Clients |-> None]
    /\ refused = FALSE /\ clock = 0 /\ userFaults = 0

\* The UNIQUE constraint: an INSERT or UPDATE to address m of row i.
Unique(i, m) == Found(m) \subseteq {i}

\* user-service, handleSignup: 201, 409 for an address that is taken, or an error
\* after which the row may be there.  The welcome mail is left out.
Signup(c, s) ==
    /\ answer[c] = NoAnswer
    /\ \E i \in Ids \ Rows :
          /\ Unique(i, Entered(s))
          /\ mail' = [mail EXCEPT ![i] = Entered(s)] /\ owner' = [owner EXCEPT ![i] = c]
          /\ \/ answer' = [answer EXCEPT ![c] = [id |-> i, mail |-> Entered(s)]] /\ UserFine
             \/ UNCHANGED answer /\ UserFault
    /\ UNCHANGED <<token, shown, refused, clock>>

\* user-service, handleLogin: the row of the address, then the password; 401 if
\* either is wrong.
Login(c, s) ==
    /\ answer[c] = NoAnswer
    /\ \/ \E i \in Found(Entered(s)) :
             /\ owner[i] = c /\ UNCHANGED refused
             /\ answer' = [answer EXCEPT ![c] = [id |-> i, mail |-> mail[i]]]
       \/ /\ \A i \in Found(Entered(s)) : owner[i] /= c
          /\ refused' = (refused \/ \E i \in Rows : owner[i] = c /\ Normal[mail[i]] = Normal[s])
          /\ UNCHANGED answer
    /\ UNCHANGED <<mail, owner, token, shown, clock, userFaults>>

\* GenerateToken.
TokenFor(a) == [id |-> a.id, mail |-> a.mail, until |-> clock + TTL]

\* api-gateway, handleSignup and handleLogin: a token from the answer, or 502 when
\* it does not arrive.  The row may have got another address since.
IssueToken(c) ==
    /\ answer[c] /= NoAnswer /\ answer' = [answer EXCEPT ![c] = NoAnswer]
    /\ \/ token' = [token EXCEPT ![c] = TokenFor(answer[c])] /\ UserFine
       \/ UNCHANGED token /\ UserFault
    /\ UNCHANGED <<mail, owner, shown, refused, clock>>

\* Mutant of RowsOf: the row is looked up by the address in the token.
RowsOfMail(c) == Found(token[c].mail)

\* jwtMiddleware puts the claims in the context, the handlers pass on X-User-ID.
RowsOf(c) == {i \in Rows : i = token[c].id}

\* handleProfile.
Profile(c) ==
    /\ Valid(c)
    /\ \E i \in RowsOf(c) : shown' = [shown EXCEPT ![c] = i]
    /\ UNCHANGED <<mail, owner, token, answer, refused, clock, userFaults>>

\* handleUpdateProfile: the UPDATE, with an answer or without; a taken address is a 409.
UpdateProfile(c, s) ==
    /\ Valid(c)
    /\ \E i \in RowsOf(c) : Unique(i, Entered(s)) /\ mail' = [mail EXCEPT ![i] = Entered(s)]
    /\ UNCHANGED <<owner, token, answer, shown, refused, clock, userFaults>>

\* Time passes, tokens expire.
ClockTick == clock < MaxClock /\ clock' = clock + 1
        /\ UNCHANGED <<mail, owner, token, answer, shown, refused, userFaults>>

AccountNext ==
    \/ \E c \in Clients :
          \/ IssueToken(c) \/ Profile(c)
          \/ \E s \in Spellings : Signup(c, s) \/ Login(c, s) \/ UpdateProfile(c, s)
    \/ ClockTick

AccountSpec == AccountInit /\ [][AccountNext]_accountVars

-----------------------------------------------------------------------------
(* Types and invariants *)

\* Every variable keeps its type, and no token outlives its TTL.
AccountTypeOK ==
    /\ mail \in [Ids -> Spellings \union {None}] /\ owner \in [Ids -> Clients \union {None}]
    /\ token \in [Clients -> [id : Ids \union {None}, mail : Spellings \union {None},
                              until : 0..MaxClock + TTL]]
    /\ \A c \in Clients : token[c].until <= clock + TTL
    /\ answer \in [Clients -> [id : Ids \union {None}, mail : Spellings \union {None}]]
    /\ shown \in [Clients -> Ids \union {None}] /\ refused \in BOOLEAN
    /\ clock \in 0..MaxClock /\ userFaults \in 0..MaxUserFaults

\* Signups, retries and profile updates at the same time never give one address, in
\* whatever spelling, to two accounts.
OneAccountPerAddress ==
    \A i, j \in Rows : Normal[mail[i]] = Normal[mail[j]] => i = j

\* Whoever has an account can log in with any spelling of its present address, also
\* when the answer to the signup or the update got lost.
NobodyLockedOut == ~refused

\* A token leads to the account it was issued for, although the addresses of accounts
\* change and may be taken over by others while it is valid.
ProfileIsOwn == \A c \in Clients : shown[c] /= None => owner[shown[c]] = c
=================================================================================
