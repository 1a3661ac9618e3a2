------------------------------ MODULE Accounts ------------------------------
(***************************************************************************)
(* The accounts and access tokens of the API (security.py, seed.py, login   *)
(* and me in main.py), shared by the modules of the parts that ask for      *)
(* them.  A token is signed and holds its user and its expiry; nothing      *)
(* about it is stored, so a token ends by time or with its account only.    *)
(***************************************************************************)
EXTENDS Naturals, FiniteSets

CONSTANTS
    User,
    Admin,           \* the users whose role is "admin"
    TokenLife,       \* access_token_minutes
    MaxClock         \* bound: minutes

ASSUME AccountsAssumption ==
    Admin \subseteq User /\ TokenLife \in Nat \ {0} /\ MaxClock \in Nat

VARIABLES
    active,          \* users with active = true
    tokens,          \* tokens handed out: [user, expires]
    clock

accountVars == <<active, tokens, clock>>

AccountsInit ==
    /\ active = User
    /\ tokens = {}
    /\ clock = 0

AccountsTypeOK ==
    /\ active \subseteq User
    /\ tokens \subseteq [user : User, expires : Nat]
    /\ clock \in 0..MaxClock

\* decode_access_token: the signature, the audience and the expiry.
DecodeAccessToken(t) == t \in tokens /\ clock < t.expires

\* get_current_user: the user behind the token is still active.
CurrentUser(t) == DecodeAccessToken(t) /\ t.user \in active

\* ensure_admin
EnsureAdmin(t) == t.user \in Admin

\* create_access_token
AccessToken(u) == [user |-> u, expires |-> clock + TokenLife]

\* login: the right password of an active user.
Login(u) ==
    /\ u \in active
    /\ tokens' = tokens \cup {AccessToken(u)}
    /\ UNCHANGED <<active, clock>>

\* External: an account is switched off or on in the database (seed creates the
\* first one and never changes an existing one).
SetActive(u, on) ==
    /\ (u \in active) # on
    /\ active' = IF on THEN active \cup {u} ELSE active \ {u}
    /\ UNCHANGED <<tokens, clock>>

Minute ==
    /\ clock < MaxClock
    /\ clock' = clock + 1
    /\ UNCHANGED <<active, tokens>>
=============================================================================
