------------------------------ MODULE Payments ------------------------------
(***************************************************************************)
(* tgkit: a bot that sells something.  The bot is made of options (New),   *)
(* the invoice is validated and offered (SendInvoice, CreateInvoiceLink,   *)
(* CreateSubscriptionLink), Telegram asks before it charges, tells of each *)
(* charge in an update, and takes refunds and changes of a subscription.   *)
(*                                                                         *)
(* Telegram is external: a call may be refused (false without an error),   *)
(* may fail, and may fail after it was carried out; updates are delivered  *)
(* in any order and as often as it takes.  So is the program that uses the *)
(* kit: as PaymentEvent asks, it persists the idempotency key of a payment *)
(* before it grants what was paid for.  It may crash, and start again with *)
(* the keys it has persisted and nothing of what it had in memory.         *)
(***************************************************************************)
EXTENDS Integers, Sequences

CONSTANTS OptionLists,   \* the options a program may give New
          Invoices,      \* the invoices it may offer
          MaxPrice,      \* MaxStarsSubscriptionPrice
          MaxInt,        \* the largest int64
          MaxTips,       \* maxSuggestedTips
          MaxCharges     \* bound: charges in a behaviour

Month == 30

InvoiceTypes ==
    [worded : BOOLEAN, labelled : BOOLEAN, currency : STRING, provider : BOOLEAN,
     prices : Seq(-MaxInt - 1 .. MaxInt), maxTip : Int, tips : Seq(Int), period : Int]

PaymentsConstants ==
    /\ MaxPrice \in Nat /\ MaxInt \in Nat /\ MaxTips \in Nat /\ MaxCharges \in Nat
    /\ MaxPrice < MaxInt
    /\ \A options \in OptionLists :
          options \in Seq([kind : {"mode", "webhook", "telegram", "other"}, value : STRING])
    /\ Invoices \subseteq InvoiceTypes

VARIABLES
    bot,         \* what New has made: [mode, secret]
    invoice,
    how,         \* the call it is offered with
    pc,          \* "new", "offered", or "refused"
    query,       \* the pre-checkout query Telegram has open
    charges,     \* what Telegram has charged
    refunded,    \* the charges it has refunded
    canceled,    \* the subscription will not be renewed
    updates,     \* the updates that it may deliver
    received,    \* the updates in the bot's memory
    keys,        \* the idempotency keys the program has persisted
    hand,        \* the payments in its memory that it has yet to grant
    granted,     \* the payments it has granted, in order
    lost,        \* history: the charges that only its memory had when it crashed
    told         \* what the program was told by calls that returned nil

vars == <<bot, invoice, how, pc, query, charges, refunded, canceled, updates, received,
          keys, hand, granted, lost, told>>
telegram == <<query, charges, refunded, canceled, updates>>
handling == <<received, keys, hand, granted, lost>>
program == <<handling, told>>
sale == <<bot, invoice, how, pc, query, charges, refunded, canceled, told>>

NoBot == [mode |-> "none", secret |-> "unset"]

-----------------------------------------------------------------------------
(* New: the options in order, then the checks.                             *)
Default ==
    [mode |-> "polling", configured |-> FALSE, secret |-> "unset", err |-> FALSE]

(* WithMode only sets the mode; WithWebhook sets it with the secret, or    *)
(* neither.  WithTelegramOptions gives the client any of its own options,  *)
(* in call order: one of them sets the secret again, or to nothing, which  *)
(* makes the client check none.  webhookConfigured knows nothing of that.  *)
(* Every other option sets something else, or is not valid.                *)
Apply(config, option) ==
    CASE option.kind = "mode" -> [config EXCEPT !.mode = option.value]
      [] option.kind = "webhook" /\ option.value = "valid" ->
            [config EXCEPT !.mode = "webhook", !.configured = TRUE, !.secret = "set"]
      [] option.kind = "telegram" /\ option.value = "secret" ->
            [config EXCEPT !.secret = "set"]
      [] option.kind = "telegram" /\ option.value = "no secret" ->
            [config EXCEPT !.secret = "cleared"]
      [] option.kind \in {"telegram", "other"} /\ option.value = "valid" -> config
      [] OTHER -> [config EXCEPT !.err = TRUE]

(* What the loop makes of the options. *)
Configured(options) ==
    LET config[k \in 0 .. Len(options)] ==
            IF k = 0 THEN Default ELSE Apply(config[k - 1], options[k])
    IN  config[Len(options)]

(* Mutant: webhook mode does without WithWebhook. *)
NewWithoutSecret(options) ==
    LET config == Configured(options)
    IN  IF config.err \/ config.mode \notin {"polling", "webhook"}
        THEN NoBot
        ELSE [mode |-> config.mode, secret |-> config.secret]

New(options) ==
    LET config == Configured(options)
    IN  IF \/ config.err
           \/ config.mode \notin {"polling", "webhook"}
           \/ config.mode = "webhook" /\ ~config.configured
        THEN NoBot
        ELSE [mode |-> config.mode, secret |-> config.secret]

-----------------------------------------------------------------------------
(* validateInvoice.  An int64 wraps around.                                *)
Wrap(n) == ((n + MaxInt + 1) % (2 * (MaxInt + 1))) - (MaxInt + 1)

Stars(inv) == inv.currency = "XTR"

ValidCurrency(inv) ==
    /\ inv.currency # "malformed"
    /\ inv.provider <=> ~Stars(inv)

(* The total as the loop adds it up. *)
Total(prices) ==
    LET total[k \in 0 .. Len(prices)] ==
            IF k = 0 THEN 0 ELSE Wrap(total[k - 1] + prices[k])
    IN  total[Len(prices)]

(* Mutant: a total of nothing will do. *)
FreePrices(inv) ==
    /\ inv.prices # <<>>
    /\ Stars(inv) => Len(inv.prices) = 1
    /\ inv.labelled
    /\ Total(inv.prices) >= 0

ValidPrices(inv) ==
    /\ inv.prices # <<>>
    /\ Stars(inv) => Len(inv.prices) = 1
    /\ inv.labelled
    /\ Total(inv.prices) > 0

ValidTips(inv) ==
    /\ Stars(inv) => inv.maxTip = 0 /\ inv.tips = <<>>
    /\ inv.maxTip >= 0
    /\ Len(inv.tips) <= MaxTips
    /\ \A k \in DOMAIN inv.tips :
          /\ inv.tips[k] > (IF k = 1 THEN 0 ELSE inv.tips[k - 1])
          /\ inv.tips[k] <= inv.maxTip

ValidSubscription(inv, recurring) ==
    IF ~recurring
    THEN inv.period = 0
    ELSE /\ Stars(inv)
         /\ inv.period = Month
         /\ inv.prices[1] <= MaxPrice

ValidInvoice(inv, recurring) ==
    /\ inv.worded
    /\ ValidCurrency(inv) /\ ValidPrices(inv) /\ ValidTips(inv)
    /\ ValidSubscription(inv, recurring)

(* SendInvoice has no period, CreateInvoiceLink refuses one, and           *)
(* CreateSubscriptionLink sets its own.                                    *)
Accepted(call, inv) ==
    CASE call = "SendInvoice" -> ValidInvoice([inv EXCEPT !.period = 0], FALSE)
      [] call = "CreateInvoiceLink" -> inv.period = 0 /\ ValidInvoice(inv, FALSE)
      [] call = "CreateSubscriptionLink" -> ValidInvoice([inv EXCEPT !.period = Month], TRUE)

Calls == {"SendInvoice", "CreateInvoiceLink", "CreateSubscriptionLink"}

Recurring == how = "CreateSubscriptionLink"

-----------------------------------------------------------------------------
Init ==
    /\ bot \in {New(options) : options \in OptionLists} \ {NoBot}
    /\ invoice \in Invoices
    /\ how \in Calls
    /\ pc = "new"
    /\ query = "none"
    /\ charges = <<>> /\ refunded = {} /\ canceled = FALSE
    /\ updates = {} /\ received = {}
    /\ keys = {} /\ hand = {} /\ granted = <<>> /\ lost = {}
    /\ told = {}

(* What becomes of a call of the Bot API: was it carried out, and what     *)
(* came back?                                                              *)
Answers ==
    {[done |-> TRUE, ok |-> TRUE, err |-> FALSE],
     [done |-> FALSE, ok |-> FALSE, err |-> FALSE],
     [done |-> FALSE, ok |-> FALSE, err |-> TRUE],
     [done |-> TRUE, ok |-> FALSE, err |-> TRUE]}

(* Mutant: the result is not looked at. *)
NoError(answer) == ~answer.err

(* checkTelegramResult returns nil. *)
CheckTelegramResult(answer) == ~answer.err /\ answer.ok

Tell(answer, what) == told' = IF CheckTelegramResult(answer) THEN told \cup {what} ELSE told

(* An invoice is offered: refused here, or sent.  A link that got lost     *)
(* with the answer is paid by nobody, an invoice in the chat may be.       *)
Offer ==
    /\ pc = "new"
    /\ \/ ~Accepted(how, invoice) /\ pc' = "refused"
       \/ /\ Accepted(how, invoice)
          /\ \E answer \in Answers :
                pc' = IF answer.done /\ (~answer.err \/ how = "SendInvoice")
                      THEN "offered" ELSE "refused"
    /\ UNCHANGED <<bot, invoice, how, telegram, program>>

(* External: somebody is about to pay. *)
Ask ==
    /\ pc = "offered"
    /\ query = "none"
    /\ Len(charges) < MaxCharges
    /\ Recurring => charges = <<>>
    /\ query' = "asked"
    /\ UNCHANGED <<bot, invoice, how, pc, charges, refunded, canceled, updates, program>>

(* ApprovePreCheckout and RejectPreCheckout. *)
AnswerPreCheckout(verdict) ==
    /\ query = "asked"
    /\ \E answer \in Answers :
          query' = IF answer.done THEN verdict ELSE query
    /\ UNCHANGED <<bot, invoice, how, pc, charges, refunded, canceled, updates, program>>

(* External: Telegram waits ten seconds for the answer. *)
QueryEnds ==
    /\ query \in {"asked", "rejected"}
    /\ query' = "none"
    /\ UNCHANGED <<bot, invoice, how, pc, charges, refunded, canceled, updates, program>>

Update(type, charge) == [type |-> type, charge |-> charge]

(* External: what the prices come to, with no width. *)
Sum(prices) ==
    LET sum[k \in 0 .. Len(prices)] == IF k = 0 THEN 0 ELSE sum[k - 1] + prices[k]
    IN  sum[Len(prices)]

(* External: a charge, with the flags classifyPayment looks at.            *)
Charged(first) ==
    /\ charges' = Append(charges, [amount |-> Sum(invoice.prices),
                                   recurring |-> Recurring, first |-> first])
    /\ updates' = updates \cup {Update("payment", Len(charges) + 1)}

Charge ==
    /\ query = "approved"
    /\ query' = "none"
    /\ Charged(Recurring)
    /\ UNCHANGED <<bot, invoice, how, pc, refunded, canceled, program>>

Renew ==
    /\ Recurring /\ charges # <<>> /\ ~canceled
    /\ Len(charges) < MaxCharges
    /\ Charged(FALSE)
    /\ UNCHANGED <<bot, invoice, how, pc, query, refunded, canceled, program>>

RefundStars(charge) ==
    /\ Stars(invoice)
    /\ charge \in DOMAIN charges
    /\ \E answer \in Answers :
          /\ answer.ok => charge \notin refunded
          /\ refunded' = IF answer.done THEN refunded \cup {charge} ELSE refunded
          /\ updates' = IF answer.done /\ charge \notin refunded
                        THEN updates \cup {Update("refund", charge)} ELSE updates
          /\ Tell(answer, <<"refunded", charge>>)
    /\ UNCHANGED <<bot, invoice, how, pc, query, charges, canceled, handling>>

(* CancelSubscription and ResumeSubscription: what the program was told of *)
(* the other is over once the call is made.                                *)
SetSubscriptionCanceled(yes) ==
    /\ Recurring /\ charges # <<>>
    /\ \E answer \in Answers :
          /\ canceled' = IF answer.done THEN yes ELSE canceled
          /\ told' = (told \ {<<"canceled", TRUE>>, <<"canceled", FALSE>>})
                        \cup IF CheckTelegramResult(answer) THEN {<<"canceled", yes>>} ELSE {}
    /\ UNCHANGED <<bot, invoice, how, pc, query, charges, refunded, updates, handling>>

-----------------------------------------------------------------------------
ClassifyPayment(charge) ==
    IF ~charge.recurring THEN "one_time"
    ELSE IF charge.first THEN "subscription_started"
    ELSE "subscription_renewed"

(* A request that is not Telegram's, with a payment nobody was charged for.*)
Foreign == Update("payment", 0)

(* External: a bot with a secret takes no webhook request without it.      *)
Receivable ==
    updates \cup IF bot.mode = "webhook" /\ bot.secret # "set" /\ pc = "offered"
                THEN {Foreign} ELSE {}

(* External: the client takes an update and leaves it to its workers.  It  *)
(* may come again, or never, whatever becomes of it there.                 *)
Receive(update) ==
    /\ update \in Receivable
    /\ updates' \in {updates, updates \ {update}}
    /\ received' = received \cup {update}
    /\ UNCHANGED <<sale, keys, hand, granted, lost>>

(* PaymentFromUpdate: the event of an update, if it is a payment. *)
PaymentsIn(update) ==
    IF update.type # "payment" THEN {}
    ELSE {[key |-> update.charge,
           kind |-> IF update = Foreign THEN "one_time"
                    ELSE ClassifyPayment(charges[update.charge])]}

(* TelegramPaymentChargeID *)
IdempotencyKey(event) == event.key

(* The program's handler: a payment whose key it has is done with; the key *)
(* of any other is persisted.                                              *)
Handle(update) ==
    /\ update \in received
    /\ received' = received \ {update}
    /\ LET new == {e \in PaymentsIn(update) : IdempotencyKey(e) \notin keys}
       IN  /\ keys' = keys \cup {IdempotencyKey(e) : e \in new}
           /\ hand' = hand \cup new
    /\ UNCHANGED <<sale, updates, granted, lost>>

(* What was paid for is granted, once its key is persisted. *)
Grant(event) ==
    /\ event \in hand
    /\ hand' = hand \ {event}
    /\ granted' = Append(granted, event)
    /\ UNCHANGED <<sale, updates, received, keys, lost>>

(* The charges nobody will hear of again but for the program's memory:     *)
(* their key is persisted, or their update will not be delivered again.    *)
InMemoryOnly ==
    {k \in DOMAIN charges :
        \/ \E e \in hand : e.key = k
        \/ /\ Update("payment", k) \in received \ updates
           /\ k \notin keys}

(* The program crashes and starts again. *)
Crash ==
    /\ received \cup hand # {}
    /\ received' = {} /\ hand' = {}
    /\ lost' = lost \cup InMemoryOnly
    /\ UNCHANGED <<sale, updates, keys, granted>>

Next ==
    \/ Offer
    \/ Ask \/ QueryEnds \/ Charge \/ Renew
    \/ \E verdict \in {"approved", "rejected"} : AnswerPreCheckout(verdict)
    \/ \E charge \in 1 .. MaxCharges : RefundStars(charge)
    \/ \E yes \in BOOLEAN : SetSubscriptionCanceled(yes)
    \/ \E update \in Receivable : Receive(update)
    \/ \E update \in received : Handle(update)
    \/ \E event \in hand : Grant(event)
    \/ Crash

Spec == Init /\ [][Next]_vars

-----------------------------------------------------------------------------
TypeOK ==
    /\ bot \in [mode : {"polling", "webhook"}, secret : {"unset", "set", "cleared"}]
    /\ invoice \in Invoices /\ how \in Calls
    /\ pc \in {"new", "offered", "refused"}
    /\ query \in {"none", "asked", "approved", "rejected"}
    /\ Len(charges) <= MaxCharges
    /\ refunded \subseteq DOMAIN charges
    /\ canceled \in BOOLEAN
    /\ \A u \in updates : u.type \in {"payment", "refund"} /\ u.charge \in DOMAIN charges
    /\ keys \subseteq 0 .. MaxCharges
    /\ lost \subseteq DOMAIN charges

(* What a charge is granted as, by its number. *)
KindOf(k) ==
    IF ~Recurring THEN "one_time"
    ELSE IF k = 1 THEN "subscription_started"
    ELSE "subscription_renewed"

(* No charge is granted twice, however often its update comes, and none is *)
(* forgotten because another of the same invoice was granted: each is on   *)
(* its way, granted as what it was, or was lost in a crash of the program  *)
(* between the taking of the update, or the persisting of its key, and the *)
(* granting; what was lost is not granted later.  Nothing is granted that  *)
(* was not charged, whatever options the bot was made of, unless a lower-  *)
(* level option has taken the secret away that WithWebhook set             *)
(* (payments.go:62, bot.go:98, bot.go:244).                                *)
GrantedOncePerCharge ==
    /\ \A k \in DOMAIN charges :
          \/ Update("payment", k) \in updates \cup received
          \/ \E e \in hand : e.key = k
          \/ \E g \in DOMAIN granted : granted[g].key = k
          \/ k \in lost
    /\ \A g, h \in DOMAIN granted : granted[g].key = granted[h].key => g = h
    /\ \A g \in DOMAIN granted :
          \/ /\ granted[g].key \in DOMAIN charges \ lost
             /\ granted[g].kind = KindOf(granted[g].key)
          \/ granted[g].key = 0 /\ bot.secret = "cleared"

(* What a call that returned nil was to do is done: a refund is made, and  *)
(* a subscription the program was told is cancelled stays so, and is not   *)
(* renewed, until the program asks to resume it.                           *)
ToldIsDone ==
    /\ \A k \in DOMAIN charges : <<"refunded", k>> \in told => k \in refunded
    /\ \A yes \in BOOLEAN : <<"canceled", yes>> \in told => canceled = yes

(* The customer is charged a positive amount, which in a subscription is   *)
(* in Stars and within Telegram's limit.  The sum of the prices is an      *)
(* int64: prices whose sum is below the smallest one are let through.      *)
ChargesAreSane ==
    \A k \in DOMAIN charges :
        /\ charges[k].amount > 0 \/ charges[k].amount < -MaxInt - 1
        /\ charges[k].recurring =>
              Stars(invoice) /\ charges[k].amount \in 1 .. MaxPrice
=============================================================================
