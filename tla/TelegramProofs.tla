----------------------------- MODULE TelegramProofs -----------------------------
(***************************************************************************)
(* The two parts of tgkit: the authentication of a Mini App's requests,    *)
(* for any bots, users, ages and clocks; and the sale, for any options of  *)
(* the bot and any invoices.                                               *)
(***************************************************************************)
EXTENDS Tgkit, WellFoundedInduction, TLAPS

-----------------------------------------------------------------------------
(* The Mini App.                                                           *)

(* Telegram issues data for its bots, dated by its own clock. *)
IssuedInv ==
    \A i \in issued :
        /\ i.bot \in Bots
        /\ i.at \in Start .. now
        /\ \E user \in Users : i.data = A!Issued(i.bot, user, i.at + skew)

(* A client knows the hashes and signatures of what was issued. *)
Known(data) ==
    /\ data.hash = A!NoHash \/ \E i \in issued : data.hash = i.data.hash
    /\ data.signature = A!NoSignature \/ \E i \in issued : data.signature = i.data.signature

(* The request that is being answered was judged at this time. *)
LastInv ==
    \/ last = A!NoRequest
    \/ /\ last.validator \in A!Validators
       /\ last.at = now
       /\ Known(last.data)
       /\ last.status = IF A!ValidateAt(last.validator, last.data, last.at) THEN 200 ELSE 401

FirstInv == \A f \in first : f.at \in Nat /\ f.date <= f.at + FutureSkew

MiniAppInv ==
    /\ now \in Nat /\ Start <= now /\ skew \in Skews
    /\ IssuedInv /\ LastInv /\ FirstInv

(* What the proofs use of the constants. *)
LEMMA MiniAppTypes ==
    ASSUME A!MiniAppConstants
    PROVE  /\ Start \in Nat /\ MaxAge \in Nat /\ FutureSkew \in Nat
           /\ \A s \in Skews : s \in Int /\ Start + s > 0
           /\ \A b, c \in Bots : b.id = c.id /\ b.env = c.env => b = c
  <1>1. Bots \subseteq [id : Nat, env : STRING]
    BY DEF A!MiniAppConstants
  <1>2. \A b, c \in [id : Nat, env : STRING] : b.id = c.id /\ b.env = c.env => b = c
    OBVIOUS
  <1>3. QED
    BY <1>1, <1>2 DEF A!MiniAppConstants

(* The service starts in a state of the inductive invariant. *)
LEMMA InitMiniApp == ASSUME A!MiniAppConstants PROVE A!Init => MiniAppInv
  BY MiniAppTypes DEF A!Init, MiniAppInv, IssuedInv, LastInv, FirstInv

(* Whatever a client does to data, it has hashes and signatures only from  *)
(* what was issued.                                                        *)
LEMMA AlteredIsKnown ==
    ASSUME IssuedInv, NEW i \in issued, NEW data \in {i.data} \cup A!Altered(i.data)
    PROVE  Known(data)
  <1>1. PICK user \in Users : i.data = A!Issued(i.bot, user, i.at + skew)
    BY DEF IssuedInv
  <1> DEFINE old == i.data
  <1>2. Known(old)
    BY DEF Known
  <1>3. CASE data = old
    BY <1>2, <1>3
  <1>4. CASE data \in A!Altered(old)
    <2>1. \/ data.hash = old.hash \/ data.hash = A!NoHash
          \/ \E j \in issued : data.hash = j.data.hash
      BY <1>1, <1>4 DEF A!Altered, A!Issued
    <2>2. \/ data.signature = old.signature \/ data.signature = A!NoSignature
          \/ \E j \in issued : data.signature = j.data.signature
      BY <1>1, <1>4 DEF A!Altered, A!Issued
    <2>3. QED
      BY <2>1, <2>2 DEF Known
  <1>5. QED
    BY <1>3, <1>4

(* Every step keeps the inductive invariant. *)
LEMMA StepMiniApp ==
    ASSUME A!MiniAppConstants, MiniAppInv, [A!Next]_(A!vars)
    PROVE  MiniAppInv'
  <1> USE DEF MiniAppInv
  <1>1. CASE A!Tick
    <2>1. /\ last = A!NoRequest /\ last' = last /\ now' = now + 1
          /\ skew' = skew /\ issued' = issued /\ first' = first
      BY <1>1 DEF A!Tick
    <2>2. IssuedInv'
      BY <2>1, MiniAppTypes DEF IssuedInv
    <2>3. QED
      BY <2>1, <2>2, MiniAppTypes DEF LastInv, FirstInv
  <1>2. CASE A!Reply
    <2>1. now' = now /\ skew' = skew /\ issued' = issued /\ first' = first /\ last' = A!NoRequest
      BY <1>2 DEF A!Reply
    <2>2. QED
      BY <2>1 DEF IssuedInv, LastInv, FirstInv
  <1>3. ASSUME NEW b \in Bots, NEW user \in Users, A!Issue(b, user) PROVE MiniAppInv'
    <2> DEFINE i == [bot |-> b, at |-> now, data |-> A!Issued(b, user, now + skew)]
    <2>1. /\ last' = last /\ last = A!NoRequest /\ now' = now /\ skew' = skew
          /\ first' = first /\ issued' = issued \cup {i}
      BY <1>3 DEF A!Issue
    <2>2. i.bot \in Bots /\ i.at \in Start .. now /\ i.data = A!Issued(i.bot, user, i.at + skew)
      BY MiniAppTypes
    <2>3. IssuedInv'
      BY <2>1, <2>2 DEF IssuedInv
    <2>4. QED
      BY <2>1, <2>3 DEF LastInv, FirstInv
  <1>4. ASSUME NEW validator \in A!Validators, NEW i \in issued,
               NEW data \in {i.data} \cup A!Altered(i.data), A!Request(validator, data)
        PROVE  MiniAppInv'
    <2> DEFINE accepted == A!ValidateAt(validator, data, now)
               this == [bot |-> validator.bot, user |-> data.user, date |-> data.date,
                        at |-> now]
    <2>1. /\ now' = now /\ skew' = skew /\ issued' = issued
          /\ last' = [status |-> IF accepted THEN 200 ELSE 401,
                      validator |-> validator, data |-> data, at |-> now]
          /\ first' \in IF accepted /\ first = {} THEN {{}, {this}} ELSE {first}
      BY <1>4 DEF A!Request
    <2>2. IssuedInv'
      BY <2>1 DEF IssuedInv
    <2>3. LastInv'
      <3>1. Known(data)
        BY AlteredIsKnown
      <3>2. Known(data)'
        BY <2>1, <3>1 DEF Known
      <3>3. /\ last'.validator = validator /\ last'.data = data /\ last'.at = now
            /\ last'.status = IF A!ValidateAt(validator, data, now) THEN 200 ELSE 401
        BY <2>1
      <3>4. QED
        BY <2>1, <3>2, <3>3 DEF LastInv, A!Validators
    <2>4. FirstInv'
      <3>1. accepted => data.date <= now + FutureSkew
        BY DEF A!ValidateAt, A!ValidAuthDate
      <3>2. this.at = now /\ this.date = data.date
        OBVIOUS
      <3>3. first' \subseteq first \/ (accepted /\ first' \subseteq {this})
        BY <2>1
      <3>4. QED
        BY <3>1, <3>2, <3>3 DEF FirstInv
    <2>5. QED
      BY <2>1, <2>2, <2>3, <2>4
  <1>5. CASE UNCHANGED A!vars
    BY <1>5 DEF A!vars, IssuedInv, LastInv, FirstInv, Known, A!Validators
  <1>6. QED
    BY <1>1, <1>2, <1>3, <1>4, <1>5 DEF A!Next
(* The inductive invariant holds of every behaviour. *)
THEOREM MiniAppInductive == ASSUME A!MiniAppConstants PROVE A!Spec => []MiniAppInv
  BY InitMiniApp, StepMiniApp, PTL DEF A!Spec

(* What a validator accepts was issued to its bot, as it is. *)
LEMMA ValidIsIssued ==
    ASSUME A!MiniAppConstants, IssuedInv, skew \in Skews,
           NEW validator \in A!Validators, NEW data, Known(data), NEW at,
           A!ValidateAt(validator, data, at)
    PROVE  \E i \in issued :
              /\ i.bot = validator.bot
              /\ i.data.user = data.user /\ i.data.date = data.date
              /\ data.date \in Int
  <1>1. validator.bot \in Bots
    BY DEF A!Validators
  <1>2. CASE A!ValidHash(data, validator.bot)
    <2>1. data.hash.over = <<data.user, data.date, data.signature>>
      BY <1>2 DEF A!ValidHash, A!HashCheckString
    <2>2. data.hash # A!NoHash
      <3>1. A!NoHash.over = <<>>
        BY DEF A!NoHash
      <3>2. <<data.user, data.date, data.signature>> # <<>>
        OBVIOUS
      <3>3. QED
        BY <2>1, <3>1, <3>2
    <2>3. PICK i \in issued : data.hash = i.data.hash
      BY <2>2 DEF Known
    <2>4. PICK user \in Users : i.data = A!Issued(i.bot, user, i.at + skew)
      BY DEF IssuedInv
    <2>5. /\ i.data.hash.bot = i.bot /\ i.data.user = user /\ i.data.date = i.at + skew
          /\ i.data.hash.over = <<user, i.at + skew, i.data.signature>>
      BY <2>4 DEF A!Issued
    <2>6. i.at + skew \in Int
      BY MiniAppTypes DEF IssuedInv
    <2>7. QED
      BY <1>2, <2>1, <2>3, <2>5, <2>6 DEF A!ValidHash
  <1>3. CASE A!ValidSignature(data, validator.bot)
    <2>1. data.signature.over = <<data.user, data.date>>
      BY <1>3 DEF A!ValidSignature, A!SignatureCheckString
    <2>2. data.signature # A!NoSignature
      <3>1. A!NoSignature.over = <<>>
        BY DEF A!NoSignature
      <3>2. <<data.user, data.date>> # <<>>
        OBVIOUS
      <3>3. QED
        BY <2>1, <3>1, <3>2
    <2>3. PICK i \in issued : data.signature = i.data.signature
      BY <2>2 DEF Known
    <2>4. PICK user \in Users : i.data = A!Issued(i.bot, user, i.at + skew)
      BY DEF IssuedInv
    <2>5. /\ i.data.signature.id = i.bot.id /\ i.data.signature.env = i.bot.env
          /\ i.data.signature.over = <<user, i.at + skew>>
          /\ i.data.user = user /\ i.data.date = i.at + skew
      BY <2>4 DEF A!Issued
    <2>6. i.bot = validator.bot
      BY <1>1, <1>3, <2>3, <2>5, MiniAppTypes DEF A!ValidSignature, A!PublicKey, IssuedInv
    <2>7. i.at + skew \in Int
      BY MiniAppTypes DEF IssuedInv
    <2>8. QED
      BY <2>1, <2>3, <2>5, <2>6, <2>7
  <1>4. QED
    BY <1>2, <1>3 DEF A!ValidateAt

(* A handler runs only with data that was issued to its bot as it is, and  *)
(* for no longer than the maximum age and the skew from the first time.    *)
THEOREM AcceptedWasIssued ==
    ASSUME A!MiniAppConstants
    PROVE  A!Spec => []AcceptedIsAuthentic
  <1>1. MiniAppInv => AcceptedIsAuthentic
    <2> SUFFICES ASSUME MiniAppInv, last.status = 200
                 PROVE  /\ \E i \in issued :
                              /\ i.bot = last.validator.bot
                              /\ i.data.user = last.data.user
                              /\ i.data.date = last.data.date
                        /\ \A f \in first :
                              /\ f.bot = last.validator.bot
                              /\ f.user = last.data.user
                              /\ f.date = last.data.date
                              => last.at - f.at <= MaxAge + FutureSkew
      BY DEF AcceptedIsAuthentic, A!AcceptedIsAuthentic
    <2>1. last # A!NoRequest
      BY DEF A!NoRequest
    <2>2. /\ last.validator \in A!Validators /\ last.at = now /\ Known(last.data)
          /\ A!ValidateAt(last.validator, last.data, last.at)
      BY <2>1 DEF MiniAppInv, LastInv
    <2>3. PICK i \in issued :
             /\ i.bot = last.validator.bot
             /\ i.data.user = last.data.user /\ i.data.date = last.data.date
             /\ last.data.date \in Int
      BY <2>2, ValidIsIssued DEF MiniAppInv
    <2>4. last.at - last.data.date <= MaxAge
      BY <2>2 DEF A!ValidateAt, A!ValidAuthDate
    <2>5. ASSUME NEW f \in first, f.date = last.data.date
          PROVE  last.at - f.at <= MaxAge + FutureSkew
      <3>1. f.at \in Nat /\ f.date <= f.at + FutureSkew /\ now \in Nat
        BY DEF MiniAppInv, FirstInv
      <3>2. MaxAge \in Nat /\ FutureSkew \in Nat
        BY MiniAppTypes
      <3>3. QED
        BY <2>2, <2>3, <2>4, <2>5, <3>1, <3>2
    <2>6. QED
      BY <2>3, <2>5
  <1>2. QED
    BY MiniAppInductive, <1>1, PTL

(* Data that comes as it was issued, to its bot and in time, is accepted. *)
THEOREM IssuedIsAccepted ==
    ASSUME A!MiniAppConstants
    PROVE  A!Spec => []AuthenticIsAccepted
  <1>1. MiniAppInv => AuthenticIsAccepted
    <2> SUFFICES ASSUME MiniAppInv, last.status = 401, NEW i \in issued,
                        last.data = i.data, last.validator.bot = i.bot,
                        skew <= FutureSkew, last.at - i.at <= MaxAge + skew
                 PROVE  FALSE
      BY DEF AuthenticIsAccepted, A!AuthenticIsAccepted
    <2>1. last # A!NoRequest
      BY DEF A!NoRequest
    <2>2. /\ last.validator \in A!Validators /\ last.at = now
          /\ ~A!ValidateAt(last.validator, last.data, last.at)
      BY <2>1 DEF MiniAppInv, LastInv
    <2>3. PICK user \in Users : i.data = A!Issued(i.bot, user, i.at + skew)
      BY DEF MiniAppInv, IssuedInv
    <2>4. /\ i.at \in Nat /\ Start <= i.at /\ i.at <= now /\ now \in Nat /\ skew \in Int
          /\ Start \in Nat /\ Start + skew > 0 /\ MaxAge \in Nat /\ FutureSkew \in Nat
      BY MiniAppTypes DEF MiniAppInv, IssuedInv
    <2>5. /\ last.data.form = "query" /\ last.data.date = i.at + skew
          /\ A!ValidHash(last.data, i.bot) /\ A!ValidSignature(last.data, i.bot)
      BY <2>3 DEF A!Issued, A!ValidHash, A!HashCheckString, A!ValidSignature, A!SignatureCheckString,
                  A!PublicKey
    <2>6. last.data.date > 0 /\ A!ValidAuthDate(last.data.date, last.at)
      BY <2>2, <2>4, <2>5 DEF A!ValidAuthDate
    <2>7. last.validator.by \in {"hash", "signature"}
      BY <2>2 DEF A!Validators
    <2>8. QED
      BY <2>2, <2>5, <2>6, <2>7 DEF A!ValidateAt
  <1>2. QED
    BY MiniAppInductive, <1>1, PTL

-----------------------------------------------------------------------------
(* Loops.  The sums and the configuration of the sale are defined by       *)
(* recursion over a list; these lemmas say that such a definition has the  *)
(* value it asks for.                                                      *)

Less == {p \in Nat \X Nat : p[1] < p[2]}

(* A set that has 0, and a number with the one before it, has all up to n. *)
LEMMA UpTo ==
    ASSUME NEW n \in Nat, NEW T, 0 \in T, \A k \in 1 .. n : k - 1 \in T => k \in T
    PROVE  0 .. n \subseteq T
  <1> SUFFICES ASSUME NEW j \in 0 .. n, j \notin T PROVE FALSE
    OBVIOUS
  <1> DEFINE Out == {k \in 0 .. n : k \notin T}
  <1>1. Out # {} /\ Out \subseteq Nat
    OBVIOUS
  <1>2. IsWellFoundedOn(Less, Nat)
    BY NatLessThanWellFounded DEF OpToRel, Less
  <1>3. PICK m \in Out : \A k \in Out : <<k, m>> \notin Less
    <2> HIDE DEF Out
    <2> QED
      BY <1>1, <1>2, WFMin
  <1>4. m \in 1 .. n /\ m - 1 \in 0 .. n /\ <<m - 1, m>> \in Less
    BY DEF Less
  <1>5. QED
    BY <1>3, <1>4

(* The states of a loop of n steps, from the first to the last. *)
Loop(f, S, base, n, step) ==
    /\ f \in [0 .. n -> S]
    /\ f[0] = base
    /\ \A k \in 1 .. n : f[k] = step[k][f[k - 1]]

(* A loop whose steps lead from S into S has them. *)
LEMMA LoopExists ==
    ASSUME NEW S, NEW base \in S, NEW n \in Nat, NEW step \in [1 .. n -> [S -> S]]
    PROVE  \E f : Loop(f, S, base, n, step)
  <1> DEFINE Reached == {m \in 0 .. n : \E f : Loop(f, S, base, m, step)}
  <1>1. 0 \in Reached
    <2> DEFINE f == [k \in 0 .. 0 |-> base]
    <2>1. Loop(f, S, base, 0, step)
      BY DEF Loop
    <2> HIDE DEF f
    <2>2. QED
      BY <2>1
  <1>2. ASSUME NEW m \in 1 .. n, m - 1 \in Reached PROVE m \in Reached
    <2>1. PICK f : Loop(f, S, base, m - 1, step)
      BY <1>2
    <2> DEFINE g == [k \in 0 .. m |-> IF k = m THEN step[m][f[m - 1]] ELSE f[k]]
    <2>2. Loop(g, S, base, m, step)
      BY <2>1 DEF Loop
    <2> HIDE DEF g
    <2>3. QED
      BY <2>2
  <1>3. n \in Reached
    <2> HIDE DEF Reached
    <2>1. 0 .. n \subseteq Reached
      BY <1>1, <1>2, UpTo
    <2>2. QED
      BY <2>1
  <1>4. QED
    BY <1>3

-----------------------------------------------------------------------------
(* The sale.                                                               *)

(* What the proofs use of the constants. *)
LEMMA PaymentsTypes ==
    ASSUME PaymentsConstants
    PROVE  /\ MaxPrice \in Nat /\ MaxInt \in Nat /\ MaxPrice < MaxInt
           /\ \A inv \in Invoices :
                 /\ inv.prices \in Seq(Int) /\ inv.prices \in Seq(-MaxInt - 1 .. MaxInt)
                 /\ \A p : /\ [inv EXCEPT !.period = p].prices = inv.prices
                           /\ [inv EXCEPT !.period = p].currency = inv.currency
  <1>1. /\ MaxPrice \in Nat /\ MaxInt \in Nat /\ MaxPrice < MaxInt
        /\ \A inv \in Invoices : inv \in InvoiceTypes
    BY DEF PaymentsConstants
  <1>2. ASSUME NEW inv \in InvoiceTypes
        PROVE  /\ inv.prices \in Seq(-MaxInt - 1 .. MaxInt)
               /\ \A p : /\ [inv EXCEPT !.period = p].prices = inv.prices
                         /\ [inv EXCEPT !.period = p].currency = inv.currency
    BY <1>1 DEF InvoiceTypes
  <1>3. Seq(-MaxInt - 1 .. MaxInt) \subseteq Seq(Int)
    BY <1>1
  <1>4. QED
    BY <1>1, <1>2, <1>3

(* The remainder differs from the number by a multiple of the divisor. *)
LEMMA Remainder ==
    ASSUME NEW w \in Nat \ {0}, NEW x \in Int
    PROVE  x % w \in 0 .. w - 1 /\ \E q \in Int : x % w = x + q * w
  <1> DEFINE d == x \div w
  <1>1. x % w \in 0 .. w - 1
    OBVIOUS
  <1>2. x = w * d + (x % w) /\ d \in Int
    OBVIOUS
  <1> HIDE DEF d
  <1>3. -d \in Int /\ x % w \in Int
    BY <1>1, <1>2
  <1>4. x % w = x + (-d) * w
    BY <1>2, <1>3
  <1>5. QED
    BY <1>1, <1>3, <1>4

(* Two numbers that differ by a multiple of w are equal, or w apart. *)
LEMMA Apart ==
    ASSUME NEW w \in Nat \ {0}, NEW a \in Int, NEW b \in Int, NEW q \in Int,
           b = a + q * w, b - a < w, a - b < w
    PROVE  a = b
  <1>1. CASE q = 0
    BY <1>1
  <1>2. CASE q >= 1
    <2>1. q * w >= w
      BY <1>2
    <2>2. QED
      BY <2>1
  <1>3. CASE q <= -1
    <2>1. q * w <= -w
      BY <1>3
    <2>2. QED
      BY <2>1
  <1>4. QED
    BY <1>1, <1>2, <1>3

(* The number of int64s. *)
Width == 2 * (MaxInt + 1)

(* What an int64 keeps of a number. *)
LEMMA WrapKeeps ==
    ASSUME MaxInt \in Nat, NEW x \in Int
    PROVE  Wrap(x) \in -MaxInt - 1 .. MaxInt /\ \E q \in Int : Wrap(x) = x + q * Width
  <1>1. Width \in Nat \ {0} /\ x + MaxInt + 1 \in Int
    BY DEF Width
  <1>2. Wrap(x) = ((x + MaxInt + 1) % Width) - (MaxInt + 1)
    BY DEF Wrap, Width
  <1>3. PICK q \in Int : (x + MaxInt + 1) % Width = (x + MaxInt + 1) + q * Width
    BY <1>1, Remainder
  <1>4. (x + MaxInt + 1) % Width \in 0 .. Width - 1
    BY <1>1, Remainder
  <1>5. Wrap(x) = x + q * Width
    <2> DEFINE z == q * Width
    <2>1. z \in Int
      BY <1>1
    <2> HIDE DEF z
    <2>2. (x + MaxInt + 1) % Width = (x + MaxInt + 1) + z
      BY <1>3 DEF z
    <2>3. Wrap(x) = x + z
      BY <1>2, <2>1, <2>2
    <2>4. QED
      BY <2>3 DEF z
  <1>6. Wrap(x) \in -MaxInt - 1 .. MaxInt
    BY <1>2, <1>4 DEF Width
  <1>7. QED
    BY <1>5, <1>6

(* Total is what the loop over the prices ends with. *)
LEMMA TotalLoop ==
    ASSUME MaxInt \in Nat, NEW prices \in Seq(Int)
    PROVE  \E t \in [0 .. Len(prices) -> Int] :
              /\ t[0] = 0 /\ Total(prices) = t[Len(prices)]
              /\ \A k \in 1 .. Len(prices) : t[k] = Wrap(t[k - 1] + prices[k])
  <1> DEFINE n == Len(prices)
  <1>1. n \in Nat /\ \A k \in 1 .. n : prices[k] \in Int
    OBVIOUS
  <1>2. \A x \in Int : Wrap(x) \in Int
    BY WrapKeeps
  <1> HIDE DEF n
  <1> DEFINE step == [k \in 1 .. n |-> [s \in Int |-> Wrap(s + prices[k])]]
             Body(t) == [k \in 0 .. n |-> IF k = 0 THEN 0 ELSE Wrap(t[k - 1] + prices[k])]
             total == CHOOSE t : t = Body(t)
  <1>3. /\ step \in [1 .. n -> [Int -> Int]]
        /\ \A k \in 1 .. n, s \in Int : step[k][s] = Wrap(s + prices[k])
    BY <1>1, <1>2
  <1> HIDE DEF step
  <1>4. PICK f : Loop(f, Int, 0, n, step)
    <2>1. 0 \in Int
      OBVIOUS
    <2>2. QED
      BY <1>1, <1>3, <2>1, LoopExists, Zenon
  <1>5. \A k \in 1 .. n : f[k - 1] \in Int /\ f[k] = Wrap(f[k - 1] + prices[k])
    <2>1. \A k \in 1 .. n : f[k - 1] \in Int
      BY <1>1, <1>4 DEF Loop
    <2>2. QED
      BY <1>3, <1>4, <2>1 DEF Loop
  <1>6. f = Body(f)
    BY <1>4, <1>5 DEF Loop
  <1>7. total = Body(total)
    BY <1>6, Zenon
  <1> HIDE DEF total
  <1>8. total[0] = 0 /\ \A k \in 1 .. n : total[k] = Wrap(total[k - 1] + prices[k])
    BY <1>1, <1>7
  <1>9. total \in [0 .. n -> Int]
    <2> DEFINE T == {k \in 0 .. n : total[k] \in Int}
    <2>1. 0 \in T
      BY <1>1, <1>8
    <2>2. ASSUME NEW k \in 1 .. n, k - 1 \in T PROVE k \in T
      <3>1. total[k - 1] + prices[k] \in Int
        BY <1>1, <2>2
      <3>2. Wrap(total[k - 1] + prices[k]) \in Int
        BY <1>2, <3>1
      <3>3. QED
        BY <1>8, <3>2
    <2>3. 0 .. n \subseteq T
      <3> HIDE DEF T
      <3> QED
        BY <1>1, <2>1, <2>2, UpTo
    <2>4. QED
      BY <1>7, <2>3
  <1>10. Total(prices) = total[n]
    BY DEF Total, total, n
  <1>11. QED
    BY <1>8, <1>9, <1>10 DEF n

(* Sum is what the same loop ends with if nothing wraps around. *)
LEMMA SumLoop ==
    ASSUME NEW prices \in Seq(Int)
    PROVE  \E t \in [0 .. Len(prices) -> Int] :
              /\ t[0] = 0 /\ Sum(prices) = t[Len(prices)]
              /\ \A k \in 1 .. Len(prices) : t[k] = t[k - 1] + prices[k]
  <1> DEFINE n == Len(prices)
  <1>1. n \in Nat /\ \A k \in 1 .. n : prices[k] \in Int
    OBVIOUS
  <1> HIDE DEF n
  <1> DEFINE step == [k \in 1 .. n |-> [s \in Int |-> s + prices[k]]]
             Body(t) == [k \in 0 .. n |-> IF k = 0 THEN 0 ELSE t[k - 1] + prices[k]]
             sum == CHOOSE t : t = Body(t)
  <1>2. /\ step \in [1 .. n -> [Int -> Int]]
        /\ \A k \in 1 .. n, s \in Int : step[k][s] = s + prices[k]
    BY <1>1
  <1> HIDE DEF step
  <1>3. PICK f : Loop(f, Int, 0, n, step)
    <2>1. 0 \in Int
      OBVIOUS
    <2>2. QED
      BY <1>1, <1>2, <2>1, LoopExists, Zenon
  <1>4. \A k \in 1 .. n : f[k - 1] \in Int /\ f[k] = f[k - 1] + prices[k]
    <2>1. \A k \in 1 .. n : f[k - 1] \in Int
      BY <1>1, <1>3 DEF Loop
    <2>2. QED
      BY <1>2, <1>3, <2>1 DEF Loop
  <1>5. f = Body(f)
    BY <1>3, <1>4 DEF Loop
  <1>6. sum = Body(sum)
    BY <1>5, Zenon
  <1> HIDE DEF sum
  <1>7. sum[0] = 0 /\ \A k \in 1 .. n : sum[k] = sum[k - 1] + prices[k]
    BY <1>1, <1>6
  <1>8. sum \in [0 .. n -> Int]
    <2> DEFINE T == {k \in 0 .. n : sum[k] \in Int}
    <2>1. 0 \in T
      BY <1>1, <1>7
    <2>2. ASSUME NEW k \in 1 .. n, k - 1 \in T PROVE k \in T
      BY <1>1, <1>7, <2>2
    <2>3. 0 .. n \subseteq T
      <3> HIDE DEF T
      <3> QED
        BY <1>1, <2>1, <2>2, UpTo
    <2>4. QED
      BY <1>6, <2>3
  <1>9. Sum(prices) = sum[n]
    BY DEF Sum, sum, n
  <1>10. QED
    BY <1>7, <1>8, <1>9 DEF n

(* Multiples of w add up. *)
LEMMA Regroup ==
    ASSUME NEW u \in Int, NEW p \in Int, NEW q \in Int, NEW r \in Int, NEW w \in Int
    PROVE  (u + q * w + p) + r * w = (u + p) + (q + r) * w
  <1> DEFINE a == q * w
             b == r * w
  <1>1. (q + r) * w = a + b
    OBVIOUS
  <1>2. a \in Int /\ b \in Int
    OBVIOUS
  <1> HIDE DEF a, b
  <1>3. (u + a + p) + b = (u + p) + (a + b)
    BY <1>2
  <1>4. QED
    BY <1>1, <1>3, Zenon DEF a, b

(* The total is the sum of the prices, as far as an int64 has it. *)
LEMMA TotalIsSum ==
    ASSUME MaxInt \in Nat, NEW prices \in Seq(-MaxInt - 1 .. MaxInt)
    PROVE  /\ Sum(prices) \in Int
           /\ Total(prices) \in -MaxInt - 1 .. MaxInt
           /\ Sum(prices) \in -MaxInt - 1 .. MaxInt => Total(prices) = Sum(prices)
           /\ Len(prices) = 1 => Sum(prices) = prices[1]
  <1> DEFINE n == Len(prices)
  <1>1. prices \in Seq(Int) /\ n \in Nat
    OBVIOUS
  <1>2. PICK t \in [0 .. n -> Int] :
           /\ t[0] = 0 /\ Total(prices) = t[n]
           /\ \A k \in 1 .. n : t[k] = Wrap(t[k - 1] + prices[k])
    BY <1>1, TotalLoop
  <1>3. PICK s \in [0 .. n -> Int] :
           /\ s[0] = 0 /\ Sum(prices) = s[n]
           /\ \A k \in 1 .. n : s[k] = s[k - 1] + prices[k]
    BY <1>1, SumLoop
  <1>4. \A k \in 1 .. n : prices[k] \in -MaxInt - 1 .. MaxInt
    OBVIOUS
  <1> DEFINE Agree(k) == /\ t[k] \in -MaxInt - 1 .. MaxInt
                         /\ \E q \in Int : t[k] = s[k] + q * Width
             T == {k \in 0 .. n : Agree(k)}
  <1> HIDE DEF n
  <1>5. 0 \in T
    <2>1. Width \in Int
      BY DEF Width
    <2>2. t[0] = s[0] + 0 * Width
      BY <1>2, <1>3, <2>1
    <2>3. QED
      BY <1>1, <1>2, <2>2
  <1>6. ASSUME NEW k \in 1 .. n, k - 1 \in T PROVE k \in T
    <2> DEFINE x == t[k - 1] + prices[k]
    <2>1. /\ k \in 0 .. n /\ k - 1 \in 0 .. n /\ t[k - 1] \in Int /\ s[k - 1] \in Int
          /\ prices[k] \in Int /\ x \in Int
      <3>1. k \in 0 .. n /\ k - 1 \in 0 .. n
        BY <1>1
      <3>2. t[k - 1] \in Int /\ s[k - 1] \in Int
        BY <3>1
      <3>3. prices[k] \in Int
        BY <1>4
      <3>4. QED
        BY <3>1, <3>2, <3>3
    <2>2. PICK q \in Int : t[k - 1] = s[k - 1] + q * Width
      BY <1>6
    <2>3. PICK r \in Int : Wrap(x) = x + r * Width /\ Wrap(x) \in -MaxInt - 1 .. MaxInt
      BY <2>1, WrapKeeps
    <2>4. t[k] = Wrap(x) /\ s[k] = s[k - 1] + prices[k]
      BY <1>2, <1>3
    <2>5. Width \in Int
      BY DEF Width
    <2>6. t[k] = s[k] + (q + r) * Width
      <3>1. /\ s[k - 1] \in Int /\ prices[k] \in Int
        BY <2>1
      <3>2. (s[k - 1] + q * Width + prices[k]) + r * Width
               = (s[k - 1] + prices[k]) + (q + r) * Width
        <4> DEFINE u == s[k - 1]
                   p == prices[k]
                   w == Width
        <4>1. u \in Int /\ p \in Int /\ w \in Int
          BY <2>5, <3>1
        <4> HIDE DEF u, p, w
        <4>2. (u + q * w + p) + r * w = (u + p) + (q + r) * w
          BY <4>1, Regroup
        <4>3. QED
          BY <4>2, Zenon DEF u, p, w
      <3>3. t[k] = (t[k - 1] + prices[k]) + r * Width
        BY <2>3, <2>4, Zenon
      <3>4. QED
        BY <2>2, <2>4, <3>2, <3>3
    <2>7. Agree(k)
      BY <2>3, <2>4, <2>6
    <2>8. QED
      BY <2>1, <2>7
  <1>7. Agree(n)
    <2>1. 0 .. n \subseteq T
      <3> HIDE DEF T
      <3> QED
        BY <1>1, <1>5, <1>6, UpTo
    <2>2. QED
      BY <1>1, <2>1
  <1>8. PICK q \in Int : t[n] = s[n] + q * Width
    BY <1>7
  <1>9. t[n] \in Int /\ s[n] \in Int /\ Width \in Nat \ {0}
    BY <1>1 DEF Width
  <1>10. s[n] \in -MaxInt - 1 .. MaxInt => t[n] = s[n]
    <2> SUFFICES ASSUME s[n] \in -MaxInt - 1 .. MaxInt PROVE t[n] = s[n]
      OBVIOUS
    <2>1. t[n] - s[n] < Width /\ s[n] - t[n] < Width
      BY <1>7 DEF Width
    <2>2. QED
      BY <1>8, <1>9, <2>1, Apart
  <1>11. n = 1 => s[n] = prices[1]
    BY <1>3, <1>4
  <1>12. QED
    BY <1>2, <1>3, <1>7, <1>9, <1>10, <1>11 DEF n

-----------------------------------------------------------------------------
(* The options of the bot.                                                 *)

OptionTypes == [kind : {"mode", "webhook", "telegram", "other"}, value : STRING]

Secrets == {"unset", "set", "cleared"}

(* The two modes are strings, which the provers have to be told.           *)
ConfigTypes ==
    [mode : STRING \cup {"polling", "webhook"}, configured : BOOLEAN,
     secret : Secrets, err : BOOLEAN]

(* What WithWebhook has configured has, or had, a secret. *)
Configs == {c \in ConfigTypes : c.configured => c.secret # "unset"}

(* An option keeps the two together. *)
LEMMA ApplyKeeps ==
    ASSUME NEW c \in Configs, NEW o \in OptionTypes
    PROVE  Apply(c, o) \in Configs
  <1>1. c \in ConfigTypes /\ (c.configured => c.secret # "unset") /\ o.value \in STRING
    BY DEF Configs, OptionTypes
  <1>2. [c EXCEPT !.mode = o.value] \in Configs
    <2>1. [c EXCEPT !.mode = o.value] \in ConfigTypes
      BY <1>1, Zenon DEF ConfigTypes
    <2>2. /\ [c EXCEPT !.mode = o.value].configured = c.configured
          /\ [c EXCEPT !.mode = o.value].secret = c.secret
      BY <1>1 DEF ConfigTypes
    <2>3. QED
      BY <1>1, <2>1, <2>2, Zenon DEF Configs
  <1>3. [c EXCEPT !.mode = "webhook", !.configured = TRUE, !.secret = "set"] \in Configs
    <2> DEFINE d == [c EXCEPT !.mode = "webhook", !.configured = TRUE, !.secret = "set"]
    <2>1. d \in ConfigTypes
      BY <1>1, Zenon DEF ConfigTypes, Secrets
    <2>2. d.secret = "set"
      BY <1>1 DEF ConfigTypes
    <2> HIDE DEF d
    <2>3. d \in Configs
      BY <2>1, <2>2 DEF Configs
    <2>4. QED
      BY <2>3 DEF d
  <1>4. ASSUME NEW secret \in {"set", "cleared"} PROVE [c EXCEPT !.secret = secret] \in Configs
    <2> DEFINE d == [c EXCEPT !.secret = secret]
    <2>1. d \in ConfigTypes
      BY <1>1, Zenon DEF ConfigTypes, Secrets
    <2>2. d.secret = secret
      BY <1>1 DEF ConfigTypes
    <2> HIDE DEF d
    <2>3. d \in Configs
      BY <2>1, <2>2 DEF Configs
    <2>4. QED
      BY <2>3 DEF d
  <1>5. [c EXCEPT !.err = TRUE] \in Configs
    <2>1. [c EXCEPT !.err = TRUE] \in ConfigTypes
      BY <1>1, Zenon DEF ConfigTypes
    <2>2. /\ [c EXCEPT !.err = TRUE].configured = c.configured
          /\ [c EXCEPT !.err = TRUE].secret = c.secret
      BY <1>1 DEF ConfigTypes
    <2>3. QED
      BY <1>1, <2>1, <2>2, Zenon DEF Configs
  <1>6. QED
    BY <1>2, <1>3, <1>4, <1>5, Zenon DEF Apply

(* Configured is what the loop over the options ends with. *)
LEMMA ConfiguredType ==
    ASSUME NEW options \in Seq(OptionTypes)
    PROVE  Configured(options) \in Configs
  <1> DEFINE n == Len(options)
  <1>1. n \in Nat /\ \A k \in 1 .. n : options[k] \in OptionTypes
    OBVIOUS
  <1>2. \A c \in Configs, o \in OptionTypes : Apply(c, o) \in Configs
    BY ApplyKeeps
  <1>3. Default \in Configs
    <2>1. Default \in ConfigTypes
      BY Zenon DEF Default, ConfigTypes, Secrets
    <2>2. QED
      BY <2>1 DEF Default, Configs
  <1> HIDE DEF n
  <1> DEFINE step == [k \in 1 .. n |-> [c \in Configs |-> Apply(c, options[k])]]
             Body(t) == [k \in 0 .. n |-> IF k = 0 THEN Default ELSE Apply(t[k - 1], options[k])]
             config == CHOOSE t : t = Body(t)
  <1>4. /\ step \in [1 .. n -> [Configs -> Configs]]
        /\ \A k \in 1 .. n, c \in Configs : step[k][c] = Apply(c, options[k])
    BY <1>1, <1>2
  <1> HIDE DEF step
  <1>5. PICK f : Loop(f, Configs, Default, n, step)
    BY <1>1, <1>3, <1>4, LoopExists, Zenon
  <1>6. \A k \in 1 .. n : f[k - 1] \in Configs /\ f[k] = Apply(f[k - 1], options[k])
    <2>1. \A k \in 1 .. n : f[k - 1] \in Configs
      BY <1>1, <1>5 DEF Loop
    <2>2. QED
      BY <1>4, <1>5, <2>1 DEF Loop
  <1>7. f = Body(f)
    BY <1>5, <1>6 DEF Loop
  <1>8. config = Body(config)
    BY <1>7, Zenon
  <1> HIDE DEF config
  <1>9. /\ config[0] = Default
        /\ \A k \in 1 .. n : config[k] = Apply(config[k - 1], options[k])
    BY <1>1, <1>8
  <1> DEFINE T == {k \in 0 .. n : config[k] \in Configs}
  <1>10. 0 \in T
    BY <1>1, <1>3, <1>9
  <1>11. ASSUME NEW k \in 1 .. n, k - 1 \in T PROVE k \in T
    BY <1>1, <1>2, <1>9, <1>11
  <1>12. 0 .. n \subseteq T
    <2> HIDE DEF T
    <2> QED
      BY <1>1, <1>10, <1>11, UpTo
  <1>13. config[n] \in Configs
    BY <1>1, <1>12
  <1>14. Configured(options) = config[n]
    BY DEF Configured, config, n
  <1>15. QED
    BY <1>13, <1>14

-----------------------------------------------------------------------------
(* The sale: the inductive invariant.                                      *)

Kinds == {"one_time", "subscription_started", "subscription_renewed"}

PaymentEvent == [key : Nat, kind : Kinds]

(* A bot in webhook mode has a secret, or had one. *)
BotInv == bot.secret \in Secrets /\ (bot.mode = "webhook" => bot.secret # "unset")

(* The first charge of a subscription is the one that was asked for, and   *)
(* nothing is asked for after it.                                          *)
ChargesInv ==
    /\ charges \in Seq([amount : {Sum(invoice.prices)}, recurring : {Recurring}, first : BOOLEAN])
    /\ \A k \in DOMAIN charges : charges[k].first <=> Recurring /\ k = 1
    /\ Recurring /\ query \in {"asked", "approved"} => charges = <<>>

(* An update tells of a charge, or it is not Telegram's. *)
UpdatesInv ==
    \A u \in updates \cup received :
        \/ u.charge \in DOMAIN charges /\ u = Update(u.type, u.charge)
        \/ u \notin updates /\ u = Foreign /\ bot.secret = "cleared"

(* A payment is of a charge, which is not lost, as what it was.            *)
Rightful(e) ==
    \/ e.key \in DOMAIN charges \ lost /\ e.kind = KindOf(e.key)
    \/ e.key = 0 /\ bot.secret = "cleared"

(* What is in hand has its key persisted, and is there once. *)
HandInv ==
    /\ \A e \in hand : e \in PaymentEvent /\ e.key \in keys /\ Rightful(e)
    /\ \A e, f \in hand : e.key = f.key => e = f

(* So has what is granted, which is in hand no more. *)
GrantedInv ==
    /\ granted \in Seq(PaymentEvent)
    /\ \A g \in DOMAIN granted :
          /\ granted[g].key \in keys /\ Rightful(granted[g])
          /\ \A e \in hand : e.key # granted[g].key
    /\ \A g, h \in DOMAIN granted : granted[g].key = granted[h].key => g = h

(* What has become of a charge that needs no update any more. *)
Settled(k) ==
    \/ \E e \in hand : e.key = k
    \/ \E g \in DOMAIN granted : granted[g].key = k
    \/ k \in lost

KeysInv ==
    /\ keys \subseteq {0} \cup DOMAIN charges
    /\ \A k \in keys \ {0} : Settled(k)

(* Nobody will hear of a lost charge, or its key keeps it from being       *)
(* granted.                                                                *)
LostInv ==
    /\ lost \subseteq DOMAIN charges
    /\ \A k \in lost : k \in keys \/ Update("payment", k) \notin updates \cup received

ComingInv ==
    \A k \in DOMAIN charges : Update("payment", k) \in updates \cup received \/ Settled(k)

ToldInv ==
    /\ \A k \in Nat : <<"refunded", k>> \in told => k \in refunded
    /\ \A yes \in BOOLEAN : <<"canceled", yes>> \in told => canceled = yes

HandlingInv == UpdatesInv /\ HandInv /\ GrantedInv /\ KeysInv /\ LostInv /\ ComingInv

SaleInv == BotInv /\ ChargesInv /\ HandlingInv /\ ToldInv

(* New makes no bot in webhook mode that never had a secret, whatever the  *)
(* options come to.                                                        *)
LEMMA NewHasSecret ==
    ASSUME NEW options \in Seq(OptionTypes), New(options) # NoBot
    PROVE  /\ New(options) \in [mode : {"polling", "webhook"}, secret : Secrets]
           /\ New(options).mode = "webhook" => New(options).secret # "unset"
  <1> DEFINE config == Configured(options)
  <1>1. config.secret \in Secrets /\ (config.configured => config.secret # "unset")
    BY ConfiguredType DEF Configs, ConfigTypes
  <1> HIDE DEF config
  <1>2. /\ New(options) = [mode |-> config.mode, secret |-> config.secret]
        /\ config.mode \in {"polling", "webhook"}
        /\ config.mode = "webhook" => config.configured
    BY DEF New, NoBot, config
  <1>3. QED
    BY <1>1, <1>2

(* The sale starts in a state of the inductive invariant. *)
LEMMA InitSale == ASSUME PaymentsConstants PROVE Init => SaleInv
  <1> SUFFICES ASSUME Init PROVE SaleInv
    OBVIOUS
  <1>1. BotInv
    <2>1. PICK options \in OptionLists : bot = New(options) /\ bot # NoBot
      BY DEF Init
    <2>2. options \in Seq(OptionTypes)
      BY DEF PaymentsConstants, OptionTypes
    <2>3. QED
      BY <2>1, <2>2, NewHasSecret DEF BotInv
  <1>2. /\ charges = <<>> /\ updates = {} /\ received = {} /\ keys = {} /\ hand = {}
        /\ granted = <<>> /\ lost = {} /\ told = {} /\ query = "none"
    BY DEF Init
  <1>3. ChargesInv /\ ToldInv
    BY <1>2 DEF ChargesInv, ToldInv
  <1>4. HandlingInv
    BY <1>2
       DEF HandlingInv, UpdatesInv, HandInv, GrantedInv, KeysInv, LostInv, ComingInv
  <1>5. QED
    BY <1>1, <1>3, <1>4 DEF SaleInv

(* What a call that returned nil was to do was done. *)
LEMMA NilIsDone ==
    ASSUME NEW answer \in Answers, CheckTelegramResult(answer)
    PROVE  answer.done /\ answer.ok
  BY DEF Answers, CheckTelegramResult

(* The numbers of the charges, and the update of one.                      *)
LEMMA Numbers ==
    ASSUME ChargesInv
    PROVE  /\ Len(charges) \in Nat /\ DOMAIN charges = 1 .. Len(charges)
           /\ 0 \notin DOMAIN charges /\ DOMAIN charges \subseteq Nat
           /\ Foreign = Update("payment", 0)
           /\ \A type, k : Update(type, k).type = type /\ Update(type, k).charge = k
  <1>1. Len(charges) \in Nat /\ DOMAIN charges = 1 .. Len(charges)
    BY DEF ChargesInv
  <1>2. \A type, k : Update(type, k).type = type /\ Update(type, k).charge = k
    BY DEF Update
  <1>3. QED
    BY <1>1, <1>2 DEF Foreign

(* What is said of the handling stays true if it is left alone, and there  *)
(* are the same charges or more, each new one with its update.             *)
LEMMA MoreUpdates ==
    ASSUME HandlingInv, UNCHANGED <<bot, how, handling>>,
           DOMAIN charges \subseteq DOMAIN charges',
           \A k \in DOMAIN charges' : k \in DOMAIN charges \/ Update("payment", k) \in updates',
           updates \subseteq updates',
           \A u \in updates' \ updates :
              /\ u.charge \in DOMAIN charges' /\ u = Update(u.type, u.charge)
              /\ \A k \in DOMAIN charges : u # Update("payment", k)
              /\ u # Foreign
    PROVE  HandlingInv'
  <1>1. /\ bot' = bot /\ how' = how /\ received' = received /\ keys' = keys /\ hand' = hand
        /\ granted' = granted /\ lost' = lost /\ Recurring' = Recurring
    BY DEF handling, Recurring
  <1>2. \A k : (Settled(k) <=> Settled(k)') /\ KindOf(k)' = KindOf(k)
    BY <1>1 DEF Settled, KindOf
  <1>3. \A e : Rightful(e) => Rightful(e)'
    BY <1>1, <1>2 DEF Rightful
  <1>4. UpdatesInv'
    BY <1>1 DEF HandlingInv, UpdatesInv, Update, Foreign
  <1>5. HandInv' /\ GrantedInv'
    BY <1>1, <1>3 DEF HandlingInv, HandInv, GrantedInv
  <1>6. KeysInv'
    BY <1>1, <1>2 DEF HandlingInv, KeysInv
  <1>7. LostInv'
    BY <1>1 DEF HandlingInv, LostInv, Update
  <1>8. ComingInv'
    BY <1>1, <1>2 DEF HandlingInv, ComingInv, Update
  <1>9. QED
    BY <1>4, <1>5, <1>6, <1>7, <1>8 DEF HandlingInv

(* A charge is one more, with an update that tells of it. *)
LEMMA ChargedStep ==
    ASSUME ChargesInv, HandlingInv,
           NEW isFirst \in BOOLEAN, Charged(isFirst),
           isFirst <=> Recurring /\ charges = <<>>,
           UNCHANGED <<bot, invoice, how, handling>>
    PROVE  /\ charges' \in Seq([amount : {Sum(invoice.prices)}, recurring : {Recurring},
                                first : BOOLEAN])
           /\ \A k \in DOMAIN charges' : charges'[k].first <=> Recurring /\ k = 1
           /\ HandlingInv'
  <1> DEFINE S == [amount : {Sum(invoice.prices)}, recurring : {Recurring}, first : BOOLEAN]
             c == [amount |-> Sum(invoice.prices), recurring |-> Recurring, first |-> isFirst]
             n == Len(charges) + 1
  <1>1. charges \in Seq(S) /\ c \in S /\ n \in Nat /\ DOMAIN charges = 1 .. n - 1
    BY DEF ChargesInv
  <1>2. charges' = Append(charges, c) /\ updates' = updates \cup {Update("payment", n)}
    BY DEF Charged
  <1> HIDE DEF S
  <1>3. /\ charges' \in Seq(S) /\ DOMAIN charges' = 1 .. n /\ charges'[n] = c
        /\ \A k \in 1 .. n - 1 : charges'[k] = charges[k]
    BY <1>1, <1>2
  <1>4. \A k \in DOMAIN charges' : charges'[k].first <=> Recurring /\ k = 1
    <2> SUFFICES ASSUME NEW k \in 1 .. n PROVE charges'[k].first <=> Recurring /\ k = 1
      BY <1>3
    <2>1. CASE k = n
      <3>1. charges = <<>> <=> n = 1
        BY <1>1
      <3>2. QED
        BY <1>3, <2>1, <3>1
    <2>2. CASE k \in 1 .. n - 1
      BY <1>1, <1>3, <2>2 DEF ChargesInv
    <2>3. QED
      BY <1>1, <2>1, <2>2
  <1> DEFINE new == Update("payment", n)
  <1>5. new.charge = n /\ new.type = "payment" /\ new # Foreign /\ n \notin DOMAIN charges
    BY <1>1, Numbers
  <1>6. \A k \in DOMAIN charges : new # Update("payment", k)
    BY <1>5, Numbers
  <1>7. n \in DOMAIN charges' /\ DOMAIN charges \subseteq DOMAIN charges'
    BY <1>1, <1>3
  <1>8. \A k \in DOMAIN charges' : k \in DOMAIN charges \/ Update("payment", k) \in updates'
    BY <1>1, <1>2, <1>3
  <1>9. new = Update(new.type, new.charge)
    BY <1>5
  <1> HIDE DEF new, c, n
  <1>10. updates' = updates \cup {new}
    BY <1>2 DEF new
  <1>11. HandlingInv'
    BY <1>5, <1>6, <1>7, <1>8, <1>9, <1>10, MoreUpdates
  <1>12. QED
    BY <1>3, <1>4, <1>11 DEF S

(* What does not touch the charges and the bot says the same of a charge.  *)
LEMMA SameCharges ==
    ASSUME UNCHANGED sale
    PROVE  /\ charges' = charges /\ how' = how /\ bot' = bot /\ Recurring' = Recurring
           /\ \A k : KindOf(k)' = KindOf(k)
           /\ lost' = lost => \A e : Rightful(e)' <=> Rightful(e)
  <1>1. charges' = charges /\ how' = how /\ bot' = bot /\ Recurring' = Recurring
    BY DEF sale, Recurring
  <1>2. \A k : KindOf(k)' = KindOf(k)
    BY <1>1 DEF KindOf
  <1>3. QED
    BY <1>1, <1>2 DEF Rightful

(* An update of Telegram's, or a foreign one, is taken into memory. *)
LEMMA ReceiveStep ==
    ASSUME BotInv, ChargesInv, HandlingInv, NEW update, Receive(update)
    PROVE  HandlingInv'
  <1>1. /\ update \in Receivable /\ updates' \in {updates, updates \ {update}}
        /\ received' = received \cup {update} /\ UNCHANGED sale
        /\ keys' = keys /\ hand' = hand /\ granted' = granted /\ lost' = lost
    BY DEF Receive
  <1>2. update \in updates \/ (update = Foreign /\ bot.secret = "cleared")
    BY <1>1 DEF Receivable, BotInv, Secrets
  <1>3. /\ charges' = charges /\ bot' = bot
        /\ \A k : Settled(k)' <=> Settled(k)
        /\ \A e : Rightful(e)' <=> Rightful(e)
    BY <1>1, SameCharges DEF Settled
  <1>4. \A k \in DOMAIN charges : Update("payment", k) # Foreign
    BY Numbers
  <1>5. /\ updates \cup received \subseteq updates' \cup received'
        /\ updates' \subseteq updates
        /\ updates' \cup received' \subseteq updates \cup received \cup {update}
    BY <1>1
  <1>6. Foreign \notin updates
    BY Numbers DEF HandlingInv, UpdatesInv
  <1>7. UpdatesInv'
    <2>1. \A u \in updates \cup received :
             \/ u.charge \in DOMAIN charges /\ u = Update(u.type, u.charge)
             \/ u \notin updates' /\ u = Foreign /\ bot.secret = "cleared"
      BY <1>5 DEF HandlingInv, UpdatesInv
    <2>2. \/ update.charge \in DOMAIN charges /\ update = Update(update.type, update.charge)
          \/ update \notin updates' /\ update = Foreign /\ bot.secret = "cleared"
      BY <1>2, <1>5, <1>6, <2>1
    <2>3. QED
      BY <1>3, <1>5, <2>1, <2>2 DEF UpdatesInv, Update, Foreign
  <1>8. HandInv' /\ GrantedInv' /\ KeysInv'
    BY <1>1, <1>3 DEF HandlingInv, HandInv, GrantedInv, KeysInv
  <1>9. LostInv'
    <2>1. ASSUME NEW k \in lost PROVE k \in keys \/ Update("payment", k) \notin updates' \cup received'
      BY <1>2, <1>4, <1>5, <2>1 DEF HandlingInv, LostInv
    <2>2. QED
      BY <1>1, <1>3, <2>1 DEF HandlingInv, LostInv, Update
  <1>10. ComingInv'
    BY <1>3, <1>5 DEF HandlingInv, ComingInv, Update
  <1>11. QED
    BY <1>7, <1>8, <1>9, <1>10 DEF HandlingInv

(* The event of a charge is of the kind of its number. *)
LEMMA ClassifiedByNumber ==
    ASSUME ChargesInv, NEW k \in DOMAIN charges
    PROVE  ClassifyPayment(charges[k]) = KindOf(k)
  <1> DEFINE S == [amount : {Sum(invoice.prices)}, recurring : {Recurring}, first : BOOLEAN]
  <1>1. charges \in Seq(S)
    BY DEF ChargesInv
  <1> HIDE DEF S
  <1>2. charges[k] \in S
    BY <1>1
  <1>3. charges[k].recurring = Recurring
    BY <1>2 DEF S
  <1>4. charges[k].first <=> Recurring /\ k = 1
    BY DEF ChargesInv
  <1>5. QED
    BY <1>3, <1>4 DEF ClassifyPayment, KindOf

(* The handler persists the key of a payment it has no key of, and has the *)
(* payment in hand then, and nothing else.                                 *)
LEMMA HandleStep ==
    ASSUME ChargesInv, HandlingInv, NEW update, Handle(update)
    PROVE  HandlingInv'
  <1> DEFINE k == update.charge
             event == [key |-> k,
                       kind |-> IF update = Foreign THEN "one_time" ELSE ClassifyPayment(charges[k])]
             new == {e \in PaymentsIn(update) : IdempotencyKey(e) \notin keys}
  <1>1. /\ update \in received /\ received' = received \ {update} /\ UNCHANGED sale
        /\ keys' = keys \cup {IdempotencyKey(e) : e \in new} /\ hand' = hand \cup new
        /\ updates' = updates /\ granted' = granted /\ lost' = lost
    BY DEF Handle
  <1>2. /\ charges' = charges /\ bot' = bot
        /\ \A e : Rightful(e)' <=> Rightful(e)
    BY <1>1, SameCharges
  <1>3. UpdatesInv'
    BY <1>1, <1>2 DEF HandlingInv, UpdatesInv, Update, Foreign
  <1>4. PaymentsIn(update) = IF update.type = "payment" THEN {event} ELSE {}
    BY DEF PaymentsIn
  <1>5. event.key = k /\ IdempotencyKey(event) = k
    BY DEF IdempotencyKey
  <1>6. keys \subseteq keys' /\ received' \subseteq received
    BY <1>1
  <1>7. LostInv'
    BY <1>1, <1>2, <1>6 DEF HandlingInv, LostInv, Update
  <1>8. ASSUME NEW c, Settled(c) PROVE Settled(c)'
    BY <1>1, <1>8 DEF Settled
  <1>9. ASSUME update.type # "payment" \/ k \in keys PROVE HandlingInv'
    <2> HIDE DEF event
    <2>1. new = {}
      BY <1>4, <1>5, <1>9
    <2> HIDE DEF new
    <2>2. keys' = keys /\ hand' = hand
      BY <1>1, <2>1
    <2>3. HandInv' /\ GrantedInv'
      BY <1>1, <1>2, <2>2 DEF HandlingInv, HandInv, GrantedInv
    <2>4. KeysInv'
      BY <1>2, <1>8, <2>2 DEF HandlingInv, KeysInv
    <2>5. ComingInv'
      <3>1. ASSUME NEW c \in DOMAIN charges
            PROVE  Update("payment", c) \in updates \cup received' \/ Settled(c)'
        <4>1. CASE Update("payment", c) = update
          <5>1. k = c /\ update.type = "payment" /\ c # 0
            BY <4>1, Numbers
          <5>2. Settled(c)
            BY <1>9, <5>1 DEF HandlingInv, KeysInv
          <5>3. QED
            BY <1>8, <5>2
        <4>2. CASE Update("payment", c) # update
          BY <1>1, <1>8, <4>2 DEF HandlingInv, ComingInv
        <4>3. QED
          BY <4>1, <4>2
      <3>2. QED
        BY <1>1, <1>2, <3>1 DEF ComingInv, Update
    <2>6. QED
      BY <1>3, <1>7, <2>3, <2>4, <2>5 DEF HandlingInv
  <1>10. ASSUME update.type = "payment", k \notin keys PROVE HandlingInv'
    <2>1. Rightful(event) /\ event \in PaymentEvent /\ k \in {0} \cup DOMAIN charges
      <3>1. CASE update = Foreign
        <4>1. k = 0 /\ 0 \notin DOMAIN charges
          BY <3>1, Numbers
        <4>2. bot.secret = "cleared"
          BY <1>1, <4>1 DEF HandlingInv, UpdatesInv
        <4>3. event.kind = "one_time"
          BY <3>1
        <4>4. event \in PaymentEvent
          BY <3>1, <4>1 DEF PaymentEvent, Kinds
        <4>5. QED
          BY <1>5, <4>1, <4>2, <4>4 DEF Rightful
      <3>2. CASE update # Foreign
        <4>1. k \in DOMAIN charges /\ update = Update("payment", k)
          BY <1>1, <1>10, <3>2 DEF HandlingInv, UpdatesInv
        <4>2. k \notin lost
          BY <1>1, <1>10, <4>1 DEF HandlingInv, LostInv
        <4>3. event.kind = KindOf(k) /\ k \in Nat
          BY <3>2, <4>1, Numbers, ClassifiedByNumber
        <4>4. event \in PaymentEvent
          <5>1. KindOf(k) \in Kinds
            BY DEF KindOf, Kinds
          <5>2. QED
            BY <4>3, <5>1 DEF PaymentEvent
        <4>5. QED
          BY <1>5, <4>1, <4>2, <4>3, <4>4 DEF Rightful
      <3>3. QED
        BY <3>1, <3>2
    <2> HIDE DEF event
    <2>2. new = {event}
      BY <1>4, <1>5, <1>10
    <2> HIDE DEF new
    <2>3. keys' = keys \cup {k} /\ hand' = hand \cup {event}
      BY <1>1, <1>5, <2>2
    <2> HIDE DEF k
    <2>4. HandInv'
      <3>1. \A e \in hand' : e \in PaymentEvent /\ e.key \in keys' /\ Rightful(e)'
        BY <1>2, <1>5, <2>1, <2>3 DEF HandlingInv, HandInv
      <3>2. \A e \in hand : e.key # k
        BY <1>10 DEF HandlingInv, HandInv
      <3>3. \A e, f \in hand' : e.key = f.key => e = f
        BY <1>5, <2>3, <3>2 DEF HandlingInv, HandInv
      <3>4. QED
        BY <3>1, <3>3 DEF HandInv
    <2>5. GrantedInv'
      <3>1. \A g \in DOMAIN granted : granted[g].key # k
        BY <1>10 DEF HandlingInv, GrantedInv
      <3>2. ASSUME NEW g \in DOMAIN granted
            PROVE  /\ granted[g].key \in keys' /\ Rightful(granted[g])'
                   /\ \A e \in hand' : e.key # granted[g].key
        <4>1. /\ granted[g].key \in keys /\ Rightful(granted[g])
              /\ \A e \in hand : e.key # granted[g].key
          BY DEF HandlingInv, GrantedInv
        <4>2. ASSUME NEW e \in hand' PROVE e.key # granted[g].key
          <5>1. CASE e = event
            BY <1>5, <3>1, <5>1
          <5>2. CASE e \in hand
            BY <4>1, <5>2
          <5>3. QED
            BY <2>3, <5>1, <5>2
        <4>3. QED
          <5>1. granted' = granted
            BY <1>1
          <5>2. QED
            BY <1>2, <1>6, <4>1, <4>2, <5>1
      <3>3. QED
        BY <1>1, <3>2 DEF HandlingInv, GrantedInv
    <2>6. Settled(k)'
      BY <1>5, <2>3 DEF Settled
    <2>7. KeysInv'
      BY <1>2, <1>8, <2>1, <2>3, <2>6 DEF HandlingInv, KeysInv
    <2>8. ComingInv'
      <3>1. ASSUME NEW c \in DOMAIN charges
            PROVE  Update("payment", c) \in updates \cup received' \/ Settled(c)'
        <4>1. CASE Update("payment", c) = update
          <5>1. k = c
            BY <4>1, Numbers DEF k
          <5>2. QED
            BY <2>6, <5>1
        <4>2. CASE Update("payment", c) # update
          BY <1>1, <1>8, <4>2 DEF HandlingInv, ComingInv
        <4>3. QED
          BY <4>1, <4>2
      <3>2. QED
        BY <1>1, <1>2, <3>1 DEF ComingInv, Update
    <2>9. QED
      BY <1>3, <1>7, <2>4, <2>5, <2>7, <2>8 DEF HandlingInv
  <1>11. QED
    BY <1>9, <1>10

(* What is granted is in hand no more, and its key was persisted before. *)
LEMMA GrantStep ==
    ASSUME ChargesInv, HandlingInv, NEW event, Grant(event)
    PROVE  HandlingInv'
  <1> DEFINE n == Len(granted) + 1
  <1>1. /\ event \in hand /\ hand' = hand \ {event} /\ granted' = Append(granted, event)
        /\ UNCHANGED sale
        /\ updates' = updates /\ received' = received /\ keys' = keys /\ lost' = lost
    BY DEF Grant
  <1>2. /\ charges' = charges /\ bot' = bot
        /\ \A e : Rightful(e)' <=> Rightful(e)
    BY <1>1, SameCharges
  <1>3. event \in PaymentEvent /\ event.key \in keys /\ Rightful(event)
    BY <1>1 DEF HandlingInv, HandInv
  <1>4. granted \in Seq(PaymentEvent)
    BY DEF HandlingInv, GrantedInv
  <1>5. /\ granted' \in Seq(PaymentEvent) /\ n \in Nat \ {0}
        /\ DOMAIN granted = 1 .. n - 1 /\ DOMAIN granted' = 1 .. n /\ granted'[n] = event
        /\ \A g \in 1 .. n - 1 : granted'[g] = granted[g]
    BY <1>1, <1>3, <1>4
  <1> HIDE DEF n
  <1>6. \A g \in DOMAIN granted' :
           g = n \/ (g \in DOMAIN granted /\ granted'[g] = granted[g])
    BY <1>5
  <1>7. DOMAIN granted \subseteq DOMAIN granted' /\ n \in DOMAIN granted'
    BY <1>5
  <1>8. ASSUME NEW c, Settled(c) PROVE Settled(c)'
    <2>1. CASE \E e \in hand : e.key = c
      BY <1>1, <1>5, <1>7, <2>1 DEF Settled
    <2>2. CASE \E g \in DOMAIN granted : granted[g].key = c
      <3>1. PICK g \in DOMAIN granted : granted[g].key = c
        BY <2>2
      <3>2. g \in DOMAIN granted' /\ granted'[g].key = c
        BY <1>5, <1>7, <3>1
      <3>3. QED
        BY <3>2 DEF Settled
    <2>3. CASE c \in lost
      BY <1>1, <2>3 DEF Settled
    <2>4. QED
      BY <1>8, <2>1, <2>2, <2>3 DEF Settled
  <1>9. UpdatesInv' /\ LostInv'
    BY <1>1, <1>2 DEF HandlingInv, UpdatesInv, LostInv, Update, Foreign
  <1>10. HandInv'
    BY <1>1, <1>2 DEF HandlingInv, HandInv
  <1>11. GrantedInv'
    <2>1. \A e \in hand' : e.key # event.key
      BY <1>1 DEF HandlingInv, HandInv
    <2>2. \A g \in DOMAIN granted : granted[g].key # event.key
      BY <1>1 DEF HandlingInv, GrantedInv
    <2>3. ASSUME NEW g \in DOMAIN granted'
          PROVE  /\ granted'[g].key \in keys /\ Rightful(granted'[g])
                 /\ \A e \in hand' : e.key # granted'[g].key
      <3>1. CASE g = n
        BY <1>3, <1>5, <2>1, <3>1
      <3>2. CASE g \in DOMAIN granted /\ granted'[g] = granted[g]
        BY <1>1, <3>2 DEF HandlingInv, GrantedInv
      <3>3. QED
        BY <1>6, <3>1, <3>2
    <2>4. ASSUME NEW g \in DOMAIN granted', NEW h \in DOMAIN granted',
                 granted'[g].key = granted'[h].key
          PROVE  g = h
      <3>1. CASE g = n /\ h = n
        BY <3>1
      <3>2. CASE g \in DOMAIN granted /\ h \in DOMAIN granted
        BY <1>5, <2>4, <3>2 DEF HandlingInv, GrantedInv
      <3>3. CASE (g = n) # (h = n)
        BY <1>5, <1>6, <2>2, <2>4, <3>3
      <3>4. QED
        BY <1>6, <3>1, <3>2, <3>3
    <2>5. QED
      BY <1>1, <1>2, <1>5, <2>3, <2>4 DEF GrantedInv
  <1>12. KeysInv'
    BY <1>1, <1>2, <1>8 DEF HandlingInv, KeysInv
  <1>13. ComingInv'
    BY <1>1, <1>2, <1>8 DEF HandlingInv, ComingInv, Update
  <1>14. QED
    BY <1>9, <1>10, <1>11, <1>12, <1>13 DEF HandlingInv

(* A crash loses what only the memory had, and nothing of that is granted. *)
LEMMA CrashStep ==
    ASSUME ChargesInv, HandlingInv, Crash
    PROVE  HandlingInv'
  <1>1. /\ received' = {} /\ hand' = {} /\ lost' = lost \cup InMemoryOnly
        /\ UNCHANGED sale /\ updates' = updates /\ keys' = keys /\ granted' = granted
    BY DEF Crash
  <1>2. charges' = charges /\ bot' = bot /\ \A c : KindOf(c)' = KindOf(c)
    BY <1>1, SameCharges
  <1>3. ASSUME NEW g \in DOMAIN granted PROVE granted[g].key \notin InMemoryOnly
    BY DEF HandlingInv, GrantedInv, InMemoryOnly
  <1>4. ASSUME NEW c \in DOMAIN charges, Settled(c) PROVE Settled(c)'
    BY <1>1, <1>4 DEF Settled, InMemoryOnly
  <1>5. UpdatesInv' /\ HandInv'
    BY <1>1, <1>2 DEF HandlingInv, UpdatesInv, HandInv, Update, Foreign
  <1>6. GrantedInv'
    <2>1. ASSUME NEW g \in DOMAIN granted PROVE Rightful(granted[g])'
      <3>1. Rightful(granted[g])
        BY DEF HandlingInv, GrantedInv
      <3>2. QED
        BY <1>1, <1>2, <1>3, <3>1 DEF Rightful
    <2>2. QED
      BY <1>1, <2>1 DEF HandlingInv, GrantedInv
  <1>7. KeysInv'
    <2>1. \A c \in keys \ {0} : c \in DOMAIN charges /\ Settled(c)
      BY DEF HandlingInv, KeysInv
    <2>2. QED
      BY <1>1, <1>2, <1>4, <2>1 DEF HandlingInv, KeysInv
  <1>8. LostInv'
    <2>1. InMemoryOnly \subseteq DOMAIN charges
      BY DEF InMemoryOnly
    <2>2. ASSUME NEW c \in InMemoryOnly PROVE c \in keys \/ Update("payment", c) \notin updates
      BY DEF HandlingInv, HandInv, InMemoryOnly
    <2>3. QED
      BY <1>1, <1>2, <2>1, <2>2 DEF HandlingInv, LostInv, Update
  <1>9. ComingInv'
    <2>1. ASSUME NEW c \in DOMAIN charges, Update("payment", c) \notin updates
          PROVE  Settled(c)'
      <3>1. CASE Settled(c)
        BY <1>4, <3>1
      <3>2. CASE c \in keys
        <4>1. c # 0
          BY Numbers
        <4>2. Settled(c)
          BY <3>2, <4>1 DEF HandlingInv, KeysInv
        <4>3. QED
          BY <1>4, <4>2
      <3>3. CASE Update("payment", c) \in received /\ c \notin keys
        BY <1>1, <2>1, <3>3 DEF Settled, InMemoryOnly
      <3>4. QED
        BY <2>1, <3>1, <3>2, <3>3 DEF HandlingInv, ComingInv
    <2>2. QED
      BY <1>1, <1>2, <2>1 DEF ComingInv, Update
  <1>10. QED
    BY <1>5, <1>6, <1>7, <1>8, <1>9 DEF HandlingInv

(* A step that leaves the charges and the handling alone, and after which  *)
(* nobody is asked again in a subscription, keeps what is said of them.    *)
LEMMA QuietStep ==
    ASSUME SaleInv, UNCHANGED <<bot, invoice, how, charges, handling>>,
           updates' = updates \/ \E k \in DOMAIN charges :
                                    updates' = updates \cup {Update("refund", k)},
           Recurring /\ query' \in {"asked", "approved"} => charges = <<>>
    PROVE  BotInv' /\ ChargesInv' /\ HandlingInv'
  <1>1. BotInv /\ ChargesInv /\ HandlingInv
    BY DEF SaleInv
  <1>2. invoice' = invoice /\ charges' = charges /\ bot' = bot /\ Recurring' = Recurring
    BY DEF Recurring
  <1>3. BotInv' /\ ChargesInv'
    BY <1>1, <1>2 DEF BotInv, ChargesInv
  <1>4. \A u \in updates' \ updates :
           /\ u.charge \in DOMAIN charges' /\ u = Update(u.type, u.charge)
           /\ \A k \in DOMAIN charges : u # Update("payment", k)
           /\ u # Foreign
    BY <1>1, <1>2, Numbers
  <1>5. HandlingInv'
    BY <1>1, <1>2, <1>4, MoreUpdates
  <1>6. QED
    BY <1>3, <1>5

(* Every step keeps the inductive invariant. *)
LEMMA StepSale == ASSUME SaleInv, [Next]_vars PROVE SaleInv'
  <1>0. BotInv /\ ChargesInv /\ HandlingInv /\ ToldInv
    BY DEF SaleInv
  <1>1. CASE Offer \/ QueryEnds \/ UNCHANGED vars
    <2>1. /\ UNCHANGED <<bot, invoice, how, charges, handling, told, refunded, canceled>>
          /\ updates' = updates /\ query' \in {query, "none"}
      BY <1>1 DEF Offer, QueryEnds, vars, telegram, program, handling
    <2>2. ToldInv'
      BY <1>0, <2>1 DEF ToldInv
    <2>3. Recurring /\ query' \in {"asked", "approved"} => charges = <<>>
      BY <1>0, <2>1 DEF ChargesInv
    <2>4. QED
      BY <2>1, <2>2, <2>3, QuietStep DEF SaleInv
  <1>2. CASE Ask
    <2>1. /\ UNCHANGED <<bot, invoice, how, charges, handling, told, refunded, canceled>>
          /\ updates' = updates
          /\ Recurring => charges = <<>>
      BY <1>2 DEF Ask, program
    <2>2. ToldInv'
      BY <1>0, <2>1 DEF ToldInv
    <2>3. QED
      BY <2>1, <2>2, QuietStep DEF SaleInv
  <1>3. ASSUME NEW verdict \in {"approved", "rejected"}, AnswerPreCheckout(verdict)
        PROVE  SaleInv'
    <2>1. /\ UNCHANGED <<bot, invoice, how, charges, handling, told, refunded, canceled>>
          /\ updates' = updates /\ query = "asked"
      BY <1>3 DEF AnswerPreCheckout, program
    <2>2. ToldInv'
      BY <1>0, <2>1 DEF ToldInv
    <2>3. Recurring => charges = <<>>
      BY <1>0, <2>1 DEF ChargesInv
    <2>4. QED
      BY <2>1, <2>2, <2>3, QuietStep DEF SaleInv
  <1>4. ASSUME NEW charge, RefundStars(charge) PROVE SaleInv'
    <2>1. PICK answer \in Answers :
             /\ refunded' = IF answer.done THEN refunded \cup {charge} ELSE refunded
             /\ updates' = IF answer.done /\ charge \notin refunded
                           THEN updates \cup {Update("refund", charge)} ELSE updates
             /\ Tell(answer, <<"refunded", charge>>)
      BY <1>4, Zenon DEF RefundStars
    <2>2. /\ UNCHANGED <<bot, invoice, how, query, charges, handling, canceled>>
          /\ charge \in DOMAIN charges
      BY <1>4 DEF RefundStars
    <2>3. \/ updates' = updates
          \/ \E k \in DOMAIN charges : updates' = updates \cup {Update("refund", k)}
      BY <2>1, <2>2
    <2>4. ToldInv'
      <3>1. \A k \in Nat : <<"refunded", k>> \in told' => k \in refunded'
        <4>1. CASE CheckTelegramResult(answer)
          <5>1. refunded' = refunded \cup {charge} /\ told' = told \cup {<<"refunded", charge>>}
            BY <2>1, <4>1, NilIsDone DEF Tell
          <5>2. QED
            BY <1>0, <5>1 DEF ToldInv
        <4>2. CASE ~CheckTelegramResult(answer)
          BY <1>0, <2>1, <4>2 DEF Tell, ToldInv
        <4>3. QED
          BY <4>1, <4>2
      <3>2. \A yes \in BOOLEAN : <<"canceled", yes>> \in told' => <<"canceled", yes>> \in told
        <4>1. \A yes \in BOOLEAN : <<"canceled", yes>> # <<"refunded", charge>>
          OBVIOUS
        <4>2. told' \subseteq told \cup {<<"refunded", charge>>}
          BY <2>1 DEF Tell
        <4>3. QED
          BY <4>1, <4>2
      <3>3. QED
        BY <1>0, <2>2, <3>1, <3>2 DEF ToldInv
    <2>5. Recurring /\ query' \in {"asked", "approved"} => charges = <<>>
      BY <1>0, <2>2 DEF ChargesInv
    <2>6. QED
      BY <2>2, <2>3, <2>4, <2>5, QuietStep DEF SaleInv
  <1>5. ASSUME NEW yes \in BOOLEAN, SetSubscriptionCanceled(yes) PROVE SaleInv'
    <2>1. PICK answer \in Answers :
             /\ canceled' = IF answer.done THEN yes ELSE canceled
             /\ told' = (told \ {<<"canceled", TRUE>>, <<"canceled", FALSE>>})
                           \cup IF CheckTelegramResult(answer) THEN {<<"canceled", yes>>} ELSE {}
      BY <1>5, Zenon DEF SetSubscriptionCanceled
    <2>2. /\ UNCHANGED <<bot, invoice, how, query, charges, handling, refunded>>
          /\ updates' = updates
      BY <1>5 DEF SetSubscriptionCanceled
    <2>3. ToldInv'
      <3>1. \A k \in Nat : <<"refunded", k>> # <<"canceled", yes>>
        OBVIOUS
      <3>2. \A k \in Nat : <<"refunded", k>> \in told' => <<"refunded", k>> \in told
        BY <2>1, <3>1
      <3>3. ASSUME NEW other \in BOOLEAN, <<"canceled", other>> \in told'
            PROVE  CheckTelegramResult(answer) /\ other = yes
        BY <2>1, <3>3
      <3>4. CheckTelegramResult(answer) => canceled' = yes
        BY <2>1, NilIsDone
      <3>5. QED
        BY <1>0, <2>2, <3>2, <3>3, <3>4 DEF ToldInv
    <2>4. Recurring /\ query' \in {"asked", "approved"} => charges = <<>>
      BY <1>0, <2>2 DEF ChargesInv
    <2>5. QED
      BY <2>2, <2>3, <2>4, QuietStep DEF SaleInv
  <1>6. CASE Charge \/ Renew
    <2>1. /\ UNCHANGED <<bot, invoice, how, refunded, canceled, program>>
          /\ \/ Charged(Recurring) /\ query = "approved" /\ query' = "none"
             \/ /\ Charged(FALSE) /\ Recurring /\ charges # <<>> /\ query' = query
      BY <1>6 DEF Charge, Renew
    <2>2. PICK isFirst \in BOOLEAN : Charged(isFirst) /\ (isFirst <=> Recurring /\ charges = <<>>)
      <3>1. CASE Charged(Recurring) /\ query = "approved"
        <4>1. Recurring \in BOOLEAN /\ (Recurring => charges = <<>>)
          BY <1>0, <3>1 DEF ChargesInv, Recurring
        <4>2. QED
          BY <3>1, <4>1
      <3>2. CASE Charged(FALSE) /\ charges # <<>>
        BY <3>2
      <3>3. QED
        BY <2>1, <3>1, <3>2
    <2>3. Recurring /\ query' \in {"asked", "approved"} => FALSE
      BY <1>0, <2>1 DEF ChargesInv
    <2>4. /\ charges' \in Seq([amount : {Sum(invoice.prices)}, recurring : {Recurring},
                               first : BOOLEAN])
          /\ \A k \in DOMAIN charges' : charges'[k].first <=> Recurring /\ k = 1
          /\ HandlingInv'
      BY <1>0, <2>1, <2>2, ChargedStep DEF program
    <2>5. invoice' = invoice /\ Recurring' = Recurring
      BY <2>1 DEF Recurring
    <2>6. ChargesInv'
      BY <2>3, <2>4, <2>5 DEF ChargesInv
    <2>7. BotInv' /\ ToldInv'
      BY <1>0, <2>1 DEF BotInv, ToldInv, program
    <2>8. QED
      BY <2>4, <2>6, <2>7 DEF SaleInv
  <1>7. ASSUME \/ \E update : Receive(update) \/ Handle(update)
               \/ \E event : Grant(event)
               \/ Crash
        PROVE  SaleInv'
    <2>1. UNCHANGED sale
      BY <1>7 DEF Receive, Handle, Grant, Crash
    <2>2. HandlingInv'
      BY <1>0, <1>7, ReceiveStep, HandleStep, GrantStep, CrashStep
    <2>3. /\ UNCHANGED <<bot, invoice, how, query, charges, refunded, canceled, told>>
          /\ Recurring' = Recurring
      BY <2>1 DEF sale, Recurring
    <2>4. ChargesInv'
      BY <1>0, <2>3 DEF ChargesInv
    <2>5. BotInv' /\ ToldInv'
      BY <1>0, <2>3 DEF BotInv, ToldInv
    <2>6. QED
      BY <2>2, <2>4, <2>5 DEF SaleInv
  <1>8. QED
    BY <1>1, <1>2, <1>3, <1>4, <1>5, <1>6, <1>7 DEF Next

(* The inductive invariant holds of every behaviour. *)
THEOREM SaleInductive == ASSUME PaymentsConstants PROVE Spec => []SaleInv
  BY InitSale, StepSale, PTL DEF Spec

(* Whatever crashes, however often an update comes and whatever the        *)
(* options: every charge is on its way, granted as what it was, or lost    *)
(* between the taking of its update or the persisting of its key and the   *)
(* granting; none is granted twice; and nothing else is granted, but by a  *)
(* bot whose secret a lower-level option has taken away.                   *)
THEOREM EachChargeIsGranted ==
    ASSUME PaymentsConstants
    PROVE  Spec => []GrantedOncePerCharge
  <1>1. SaleInv => GrantedOncePerCharge
    BY DEF SaleInv, HandlingInv, ComingInv, Settled, GrantedInv, Rightful, GrantedOncePerCharge
  <1>2. QED
    BY SaleInductive, <1>1, PTL

(* What a call that returned nil was to do is done. *)
THEOREM NilMeansDone ==
    ASSUME PaymentsConstants
    PROVE  Spec => []ToldIsDone
  <1>1. SaleInv => ToldIsDone
    <2> SUFFICES ASSUME SaleInv PROVE ToldIsDone
      OBVIOUS
    <2>1. DOMAIN charges \subseteq Nat
      BY DEF SaleInv, ChargesInv
    <2>2. QED
      BY <2>1 DEF SaleInv, ToldInv, ToldIsDone
  <1>2. QED
    BY SaleInductive, <1>1, PTL

-----------------------------------------------------------------------------
(* What is offered, and what is charged for it.                            *)

(* What is charged for was accepted, and the bound of the charges is kept. *)
OfferInv ==
    /\ pc = "offered" => Accepted(how, invoice)
    /\ charges # <<>> \/ query # "none" => pc = "offered"
    /\ query \in {"asked", "approved"} => Len(charges) < MaxCharges

TypedSaleInv == SaleInv /\ TypeOK /\ OfferInv

(* The sale starts with the right types, and with nothing offered. *)
LEMMA InitTypes == ASSUME PaymentsConstants PROVE Init => TypeOK /\ OfferInv
  <1> SUFFICES ASSUME Init PROVE TypeOK /\ OfferInv
    OBVIOUS
  <1>1. bot \in [mode : {"polling", "webhook"}, secret : Secrets]
    <2>1. PICK options \in OptionLists : bot = New(options) /\ bot # NoBot
      BY DEF Init
    <2>2. options \in Seq(OptionTypes)
      BY DEF PaymentsConstants, OptionTypes
    <2>3. QED
      BY <2>1, <2>2, NewHasSecret
  <1>2. /\ invoice \in Invoices /\ how \in Calls /\ pc = "new" /\ query = "none"
        /\ charges = <<>> /\ refunded = {} /\ canceled = FALSE /\ updates = {} /\ keys = {}
        /\ lost = {}
    BY DEF Init
  <1>3. MaxCharges \in Nat
    BY DEF PaymentsConstants
  <1>4. DOMAIN charges = {} /\ Len(charges) = 0
    BY <1>2
  <1>5. TypeOK
    <2>1. /\ pc \in {"new", "offered", "refused"} /\ canceled \in BOOLEAN
          /\ query \in {"none", "asked", "approved", "rejected"}
          /\ refunded \subseteq DOMAIN charges /\ keys \subseteq 0 .. MaxCharges
          /\ lost \subseteq DOMAIN charges
          /\ \A u \in updates : u.type \in {"payment", "refund"} /\ u.charge \in DOMAIN charges
      BY <1>2, Zenon
    <2>2. Len(charges) <= MaxCharges
      BY <1>3, <1>4
    <2>3. QED
      BY <1>1, <1>2, <2>1, <2>2, Zenon DEF TypeOK, Secrets
  <1>6. OfferInv
    BY <1>2, Zenon DEF OfferInv
  <1>7. QED
    BY <1>5, <1>6

(* A step after which the sale is no further than it was. *)
LEMMA SameOffer ==
    ASSUME TypedSaleInv, UNCHANGED <<bot, invoice, how, pc, charges>>, query' \in {query, "none"},
           refunded' \subseteq DOMAIN charges, canceled' \in BOOLEAN,
           \A u \in updates' : u.type \in {"payment", "refund"} /\ u.charge \in DOMAIN charges,
           keys' \subseteq 0 .. MaxCharges, lost' \subseteq DOMAIN charges
    PROVE  TypeOK' /\ OfferInv'
  BY DEF TypedSaleInv, TypeOK, OfferInv

(* Every step keeps the types, and charges only for what was accepted. *)
LEMMA StepTypes == ASSUME PaymentsConstants, TypedSaleInv, [Next]_vars PROVE TypeOK' /\ OfferInv'
  <1>0. TypeOK /\ OfferInv /\ MaxCharges \in Nat
    BY DEF TypedSaleInv, PaymentsConstants
  <1>1. CASE Offer
    <2>1. /\ UNCHANGED <<bot, invoice, how, telegram, program>>
          /\ pc = "new" /\ pc' \in {"offered", "refused"}
          /\ pc' = "offered" => Accepted(how, invoice)
      BY <1>1 DEF Offer
    <2>2. query = "none" /\ charges = <<>>
      BY <1>0, <2>1 DEF OfferInv
    <2>3. QED
      BY <1>0, <2>1, <2>2 DEF TypeOK, OfferInv, telegram, program, handling
  <1>2. CASE Ask
    BY <1>0, <1>2 DEF Ask, TypeOK, OfferInv, program, handling
  <1>3. CASE QueryEnds \/ UNCHANGED vars
    BY <1>0, <1>3, SameOffer DEF QueryEnds, TypeOK, TypedSaleInv, vars, telegram, program, handling
  <1>4. ASSUME NEW verdict \in {"approved", "rejected"}, AnswerPreCheckout(verdict)
        PROVE  TypeOK' /\ OfferInv'
    <2>1. /\ UNCHANGED <<bot, invoice, how, pc, charges, refunded, canceled, updates, program>>
          /\ query = "asked" /\ query' \in {"asked", verdict}
      BY <1>4 DEF AnswerPreCheckout
    <2>2. QED
      BY <1>0, <2>1 DEF TypeOK, OfferInv, program, handling
  <1>5. CASE Charge \/ Renew
    <2>1. /\ UNCHANGED <<bot, invoice, how, pc, refunded, canceled, program>>
          /\ pc = "offered" /\ Len(charges) < MaxCharges
          /\ query' = "none" \/ (query' = query /\ Recurring /\ charges # <<>>)
      BY <1>0, <1>5 DEF Charge, Renew, OfferInv
    <2>2. PICK isFirst : Charged(isFirst)
      BY <1>5 DEF Charge, Renew
    <2>3. query' \notin {"asked", "approved"}
      BY <2>1 DEF TypedSaleInv, SaleInv, ChargesInv
    <2> DEFINE n == Len(charges)
               c == [amount |-> Sum(invoice.prices), recurring |-> Recurring, first |-> isFirst]
    <2>4. /\ charges' = Append(charges, c)
          /\ updates' = updates \cup {Update("payment", n + 1)}
      BY <2>2 DEF Charged
    <2> HIDE DEF c
    <2>5. n \in Nat /\ DOMAIN charges = 1 .. n /\ DOMAIN charges' = 1 .. n + 1 /\ Len(charges') = n + 1
      BY <2>4 DEF TypedSaleInv, SaleInv, ChargesInv
    <2>6. \A u \in updates' : u.type \in {"payment", "refund"} /\ u.charge \in DOMAIN charges'
      BY <1>0, <2>4, <2>5 DEF TypeOK, Update
    <2>7. TypeOK'
      BY <1>0, <2>1, <2>5, <2>6 DEF TypeOK, program, handling
    <2>8. OfferInv'
      BY <1>0, <2>1, <2>3 DEF OfferInv
    <2>9. QED
      BY <2>7, <2>8
  <1>6. ASSUME NEW charge, RefundStars(charge) PROVE TypeOK' /\ OfferInv'
    <2>1. PICK answer \in Answers :
             /\ refunded' = IF answer.done THEN refunded \cup {charge} ELSE refunded
             /\ updates' = IF answer.done /\ charge \notin refunded
                           THEN updates \cup {Update("refund", charge)} ELSE updates
      BY <1>6, Zenon DEF RefundStars
    <2>2. /\ UNCHANGED <<bot, invoice, how, pc, query, charges, canceled, keys, lost>>
          /\ charge \in DOMAIN charges
      BY <1>6 DEF RefundStars, handling
    <2>3. Update("refund", charge).type = "refund" /\ Update("refund", charge).charge = charge
      BY DEF Update
    <2>4. QED
      BY <1>0, <2>1, <2>2, <2>3, SameOffer DEF TypeOK
  <1>7. ASSUME NEW yes \in BOOLEAN, SetSubscriptionCanceled(yes) PROVE TypeOK' /\ OfferInv'
    <2>1. canceled' \in {canceled, yes}
      BY <1>7 DEF SetSubscriptionCanceled
    <2>2. UNCHANGED <<bot, invoice, how, pc, query, charges, refunded, updates, keys, lost>>
      BY <1>7 DEF SetSubscriptionCanceled, handling
    <2>3. QED
      BY <1>0, <2>1, <2>2, SameOffer DEF TypeOK
  <1>8. ASSUME \/ \E update : Receive(update) \/ Handle(update)
               \/ \E event : Grant(event)
               \/ Crash
        PROVE  TypeOK' /\ OfferInv'
    <2>1. UNCHANGED <<bot, invoice, how, pc, query, charges, refunded, canceled>>
      BY <1>8 DEF Receive, Handle, Grant, Crash, sale
    <2>2. updates' \subseteq updates
      BY <1>8 DEF Receive, Handle, Grant, Crash
    <2>3. ChargesInv /\ HandlingInv'
      BY <1>8, ReceiveStep, HandleStep, GrantStep, CrashStep DEF TypedSaleInv, SaleInv
    <2>4. keys' \subseteq {0} \cup DOMAIN charges /\ lost' \subseteq DOMAIN charges
      BY <2>1, <2>3 DEF HandlingInv, KeysInv, LostInv
    <2>5. {0} \cup DOMAIN charges \subseteq 0 .. MaxCharges
      BY <1>0, <2>3, Numbers DEF TypeOK
    <2>6. QED
      BY <1>0, <2>1, <2>2, <2>4, <2>5, SameOffer DEF TypeOK
  <1>9. QED
    BY <1>1, <1>2, <1>3, <1>4, <1>5, <1>6, <1>7, <1>8 DEF Next

(* The sale's types, in every behaviour. *)
THEOREM SaleTypes == ASSUME PaymentsConstants PROVE Spec => []TypeOK
  <1>1. Init => TypedSaleInv
    BY InitSale, InitTypes DEF TypedSaleInv
  <1>2. TypedSaleInv /\ [Next]_vars => TypedSaleInv'
    BY StepSale, StepTypes DEF TypedSaleInv
  <1>3. TypedSaleInv => TypeOK
    BY DEF TypedSaleInv
  <1>4. QED
    BY <1>1, <1>2, <1>3, PTL DEF Spec

(* The customer is charged a positive amount, or one below the smallest    *)
(* int64; in a subscription it is in Stars and within Telegram's limit.    *)
THEOREM AmountsAreSane == ASSUME PaymentsConstants PROVE Spec => []ChargesAreSane
  <1>1. TypedSaleInv => ChargesAreSane
    <2> SUFFICES ASSUME TypedSaleInv, NEW k \in DOMAIN charges
                 PROVE  /\ charges[k].amount > 0 \/ charges[k].amount < -MaxInt - 1
                        /\ charges[k].recurring =>
                              Stars(invoice) /\ charges[k].amount \in 1 .. MaxPrice
      BY DEF ChargesAreSane
    <2> DEFINE prices == invoice.prices
    <2>1. charges[k].amount = Sum(prices) /\ charges[k].recurring = Recurring
      <3> DEFINE R == [amount : {Sum(invoice.prices)}, recurring : {Recurring}, first : BOOLEAN]
      <3>1. charges \in Seq(R)
        BY DEF TypedSaleInv, SaleInv, ChargesInv
      <3> HIDE DEF R
      <3>2. charges[k] \in R
        BY <3>1
      <3>3. QED
        BY <3>2 DEF R
    <2>2. Accepted(how, invoice) /\ invoice \in Invoices /\ how \in Calls
      BY DEF TypedSaleInv, TypeOK, OfferInv
    <2>3. MaxInt \in Nat /\ MaxPrice \in Nat /\ MaxPrice < MaxInt
          /\ prices \in Seq(-MaxInt - 1 .. MaxInt)
      BY <2>2, PaymentsTypes
    <2>4. Total(prices) > 0
      <3>1. \E inv : inv.prices = prices /\ ValidPrices(inv)
        BY <2>2, PaymentsTypes, Zenon DEF Accepted, ValidInvoice, Calls
      <3>2. QED
        BY <3>1, Zenon DEF ValidPrices
    <2>5. Recurring => Stars(invoice) /\ Len(prices) = 1 /\ prices[1] <= MaxPrice
      BY <2>2 DEF Accepted, ValidInvoice, ValidPrices, ValidSubscription, Calls, Recurring, Stars
    <2> HIDE DEF prices
    <2>6. /\ Sum(prices) \in Int /\ Total(prices) \in Int
          /\ Sum(prices) \in -MaxInt - 1 .. MaxInt => Total(prices) = Sum(prices)
          /\ Len(prices) = 1 => Sum(prices) = prices[1]
      BY <2>3, TotalIsSum
    <2>7. Sum(prices) > 0 \/ Sum(prices) < -MaxInt - 1
      BY <2>3, <2>4, <2>6
    <2>8. Recurring => Stars(invoice) /\ Sum(prices) \in 1 .. MaxPrice
      <3> DEFINE Range64 == -MaxInt - 1 .. MaxInt
      <3>1. Len(prices) = 1 => prices[1] \in Range64
        <4> HIDE DEF Range64
        <4>1. prices \in Seq(Range64)
          BY <2>3 DEF Range64
        <4>2. QED
          BY <4>1
      <3>2. QED
        BY <2>3, <2>5, <2>6, <2>7, <3>1
    <2>9. QED
      BY <2>1, <2>7, <2>8
  <1>2. Init => TypedSaleInv
    BY InitSale, InitTypes DEF TypedSaleInv
  <1>3. TypedSaleInv /\ [Next]_vars => TypedSaleInv'
    BY StepSale, StepTypes DEF TypedSaleInv
  <1>4. QED
    BY <1>1, <1>2, <1>3, PTL DEF Spec
=============================================================================
