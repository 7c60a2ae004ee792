---------------------------- MODULE Authentication ----------------------------
(***************************************************************************)
(* Logging in, the tokens this hands out and their verification            *)
(* (handlers/auth.rs, utils/jwt.rs, middleware/auth.rs), and the           *)
(* configuration a server is started with (config.rs, main.rs).  Tokens    *)
(* are not stored anywhere: whoever has one keeps it, over restarts too.   *)
(*                                                                         *)
(* Time passes in units, from 0 to MaxTime; a token lives for Lifetime of  *)
(* them (24 hours), and Leeway more (60 seconds).  A password is a         *)
(* sequence of bytes, a JWT secret an atom, and a token is its claims with *)
(* the secret that signed it, which nobody can change without the secret.  *)
(***************************************************************************)
EXTENDS Naturals, Sequences, FiniteSets

CONSTANTS
  Configs,     \* the environments an operator may start the server with
  Attempts,    \* the passwords that may be typed
  TooShort,    \* the secrets of less than 32 characters
  MinPassword, \* the least length of a password (8)
  Lifetime,    \* TOKEN_EXPIRY_HOURS
  Leeway,      \* Validation::new(Algorithm::HS256).leeway
  MaxTime,     \* bound on the clock
  MaxLogins,   \* bound on the tokens
  Down         \* no server

Byte == 0 .. 255

ASSUME AuthenticationAssumption ==
  /\ Configs # {} /\ Down \notin Configs
  /\ \A c \in Configs : /\ DOMAIN c = {"password", "jwt", "key", "connections"}
                         /\ c.password \in Seq(Byte)
  /\ Attempts \subseteq Seq(Byte)
  /\ \A n \in {MinPassword, Lifetime, Leeway, MaxTime, MaxLogins} : n \in Nat

VARIABLES
  now,       \* the clock
  server,    \* the configuration of the running server, or Down
  tokens     \* the tokens that have been handed out

authVars == <<now, server, tokens>>

(* Config::from_env, then connect, which takes a connection from the pool  *)
(* and fails if there can be none.                                         *)
Starts(c) ==
  /\ Len(c.password) >= MinPassword
  /\ c.jwt \notin TooShort /\ c.key \notin TooShort
  /\ c.connections > 0

AuthInit ==
  /\ now = 0
  /\ server \in {c \in Configs : Starts(c)}
  /\ tokens = {}

-----------------------------------------------------------------------------

(* The bits of a number, by their positions; XOR leaves those that differ, *)
(* and OR collects them.                                                   *)
Bits(n) ==
  LET bits[m \in 0 .. n] ==
        IF m = 0 THEN {}
        ELSE (IF m % 2 = 1 THEN {0} ELSE {}) \union {k + 1 : k \in bits[m \div 2]}
  IN  bits[n]

Xor(a, b) == (Bits(a) \ Bits(b)) \union (Bits(b) \ Bits(a))

(* A byte that is not there counts as 0.                                   *)
ByteAt(s, i) == IF i \in DOMAIN s THEN s[i] ELSE 0

ConstantTimeEq(left, right) ==
  LET longest == IF Len(left) > Len(right) THEN Len(left) ELSE Len(right)
      diff == Xor(Len(left), Len(right))
                \union UNION {Xor(ByteAt(left, i), ByteAt(right, i)) :
                              i \in 1 .. longest}
  IN  diff = {}

(* create_token; "typed" and "set" are ghosts.                             *)
ExpiringNow(t) == t             \* slip: TOKEN_EXPIRY_HOURS is not added
Expiry(t) == t + Lifetime

Login(attempt) ==
  /\ server # Down
  /\ Cardinality(tokens) < MaxLogins
  /\ ConstantTimeEq(attempt, server.password)
  /\ tokens' = tokens \union {[iat |-> now, exp |-> Expiry(now),
                               jwt |-> server.jwt,
                               typed |-> attempt, set |-> server.password]}
  /\ UNCHANGED <<now, server>>

(* verify_token: the signature, and exp with the library's leeway.         *)
Verifies(t) == t.jwt = server.jwt /\ now <= t.exp + Leeway

Tick == now < MaxTime /\ now' = now + 1 /\ UNCHANGED <<server, tokens>>

(* The process ends, or is ended; and starts with what the environment     *)
(* says by then.                                                           *)
Stop == server # Down /\ server' = Down /\ UNCHANGED <<now, tokens>>

Start(c) ==
  /\ server = Down
  /\ Starts(c)
  /\ server' = c
  /\ UNCHANGED <<now, tokens>>

=============================================================================
