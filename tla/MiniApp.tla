------------------------------ MODULE MiniApp ------------------------------
(***************************************************************************)
(* tgkit: authentication of a Mini App's requests by the initialization    *)
(* data Telegram gives to the app (miniapp_auth.go).                       *)
(*                                                                         *)
(* Telegram issues data for one bot, with a hash made with the bot's token *)
(* and a signature made with the key of its environment.  The data passes  *)
(* through the user's client, which sends it with every request, late,     *)
(* often, to services of other bots, or not as it was.  A hash and a       *)
(* signature are known by what they were made with and made over; the      *)
(* clocks of Telegram and of the service differ.                           *)
(***************************************************************************)
EXTENDS Integers, FiniteSets

CONSTANTS Bots,         \* records [id, env]; each has a token of its own
          Users,
          MaxAge,       \* the validators' maxAge
          FutureSkew,   \* miniAppFutureClockSkew
          Skews,        \* how far Telegram's clock may be ahead
          Start,        \* the service's clock in the beginning
          MaxTime,      \* bound: where it stops
          MaxIssued     \* bound: initialization data that Telegram issues

MiniAppConstants ==
    /\ Bots \subseteq [id : Nat, env : STRING]
    /\ MaxAge \in Nat \ {0} /\ FutureSkew \in Nat
    /\ Skews \subseteq Int
    /\ Start \in Nat /\ MaxTime \in Nat /\ MaxIssued \in Nat
    /\ \A s \in Skews : Start + s > 0

VARIABLES
    now,      \* the service's clock
    skew,
    issued,   \* what Telegram has issued: [bot, at, data]
    last,     \* the request that is being answered, with its status
    first     \* history: when some data was first accepted: at most one [bot, user, date, at]

vars == <<now, skew, issued, last, first>>

-----------------------------------------------------------------------------
(* Initialization data: its form as a query string, the fields that count, *)
(* and the hash and signature.                                             *)
NoHash == [bot |-> [id |-> 0, env |-> "none"], over |-> <<>>]
NoSignature == [id |-> 0, env |-> "none", over |-> <<>>]

(* External: what Telegram issues. *)
Issued(bot, user, date) ==
    LET signature == [id |-> bot.id, env |-> bot.env, over |-> <<user, date>>]
    IN  [form |-> "query", user |-> user, date |-> date, signature |-> signature,
         hash |-> [bot |-> bot, over |-> <<user, date, signature>>]]

(* What may become of data in the client. *)
Altered(data) ==
    {[data EXCEPT !.user = u] : u \in Users}
        \cup {[data EXCEPT !.date = t] : t \in {0, data.date + 1}}
        \cup {[data EXCEPT !.form = "invalid"]}   \* empty, too long, malformed, duplicate
        \cup {[data EXCEPT !.hash = i.data.hash] : i \in issued}
        \cup {[data EXCEPT !.signature = i.data.signature] : i \in issued}
        \cup {[data EXCEPT !.hash = NoHash], [data EXCEPT !.signature = NoSignature]}

NoRequest == [status |-> 0]

Validators == [by : {"hash", "signature"}, bot : Bots]

Init ==
    /\ now = Start
    /\ skew \in Skews
    /\ issued = {}
    /\ last = NoRequest
    /\ first = {}

-----------------------------------------------------------------------------
(* Mutant: the signature is left out of what the hash is made over. *)
HashCheckStringShort(data) == <<data.user, data.date>>

(* miniAppDataCheckString(values, "hash") *)
HashCheckString(data) == <<data.user, data.date, data.signature>>

(* miniAppDataCheckString(values, "hash", "signature") *)
SignatureCheckString(data) == <<data.user, data.date>>

ValidHash(data, bot) ==
    data.hash.bot = bot /\ data.hash.over = HashCheckString(data)

(* Mutant: every environment has the key of production. *)
ProductionKey(environment) == "production"

(* miniAppPublicKeyHex *)
PublicKey(environment) == environment

ValidSignature(data, bot) ==
    /\ data.signature.env = PublicKey(bot.env)
    /\ data.signature.id = bot.id
    /\ data.signature.over = SignatureCheckString(data)

(* validateMiniAppAuthDate *)
ValidAuthDate(date, at) ==
    /\ date <= at + FutureSkew
    /\ at - date <= MaxAge

(* ValidateAt: parse, authenticate, decode. *)
ValidateAt(validator, data, at) ==
    /\ data.form = "query"
    /\ \/ validator.by = "hash" /\ ValidHash(data, validator.bot)
       \/ validator.by = "signature" /\ ValidSignature(data, validator.bot)
    /\ data.date > 0
    /\ ValidAuthDate(data.date, at)

(* External: Telegram opens the app for a user. *)
Issue(bot, user) ==
    /\ last = NoRequest
    /\ Cardinality(issued) < MaxIssued
    /\ issued' = issued \cup {[bot |-> bot, at |-> now, data |-> Issued(bot, user, now + skew)]}
    /\ UNCHANGED <<now, skew, last, first>>

(* miniAppMiddleware: a request of the client, answered with 401 or passed *)
(* on.  Which data's first acceptance is remembered does not matter.       *)
Request(validator, data) ==
    LET accepted == ValidateAt(validator, data, now)
        this == [bot |-> validator.bot, user |-> data.user, date |-> data.date, at |-> now]
    IN  /\ last = NoRequest
        /\ last' = [status |-> IF accepted THEN 200 ELSE 401,
                    validator |-> validator, data |-> data, at |-> now]
        /\ first' \in IF accepted /\ first = {} THEN {{}, {this}} ELSE {first}
        /\ UNCHANGED <<now, skew, issued>>

Reply ==
    /\ last # NoRequest
    /\ last' = NoRequest
    /\ UNCHANGED <<now, skew, issued, first>>

Tick ==
    /\ last = NoRequest
    /\ now < MaxTime
    /\ now' = now + 1
    /\ UNCHANGED <<skew, issued, last, first>>

Next ==
    \/ Tick \/ Reply
    \/ \E bot \in Bots, user \in Users : Issue(bot, user)
    \/ \E validator \in Validators, i \in issued :
          \E data \in {i.data} \cup Altered(i.data) : Request(validator, data)

Spec == Init /\ [][Next]_vars

-----------------------------------------------------------------------------
TypeOK ==
    /\ now \in Start .. MaxTime
    /\ skew \in Skews
    /\ \A i \in issued : i.bot \in Bots /\ i.at <= now /\ i.data.user \in Users
    /\ last.status \in {0, 200, 401}
    /\ \A f \in first : f.bot \in Bots /\ f.at <= now

(* A handler runs only with data that Telegram issued to this bot, in this *)
(* environment, with the user and the date it was issued with; and the     *)
(* same data is good for no longer than its age and the skew of the clocks *)
(* allow, counted from when it was first accepted.                         *)
AcceptedIsAuthentic ==
    last.status = 200 =>
        /\ \E i \in issued :
              /\ i.bot = last.validator.bot
              /\ i.data.user = last.data.user /\ i.data.date = last.data.date
        /\ \A f \in first :
              f.bot = last.validator.bot /\ f.user = last.data.user /\ f.date = last.data.date
                  => last.at - f.at <= MaxAge + FutureSkew

(* Data that arrives as it was issued, at a service of its bot, is not     *)
(* refused as long as Telegram's clock is not too far ahead and the data's *)
(* age is within the maximum (less what Telegram's clock is behind).       *)
AuthenticIsAccepted ==
    last.status = 401 =>
        \A i \in issued :
            ~ /\ last.data = i.data /\ last.validator.bot = i.bot
              /\ skew <= FutureSkew
              /\ last.at - i.at <= MaxAge + skew
=============================================================================
